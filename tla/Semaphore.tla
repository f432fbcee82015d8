----------------------------- MODULE Semaphore -----------------------------
(***************************************************************************)
(* The counting semaphore under sys.thread.Semaphore and sys.thread.Lock   *)
(* (runtime/src/concurrency.rs).  release gives the mutex up before it     *)
(* notifies; a timed acquire may time out at any moment.                   *)
(***************************************************************************)
EXTENDS Integers

CONSTANTS Users,        \* the threads that use the semaphore
          Permits       \* its initial value

VARIABLES count,        \* SemaphoreState.count
          sem           \* where each thread is

semVars == <<count, sem>>

SemInit == /\ count = IF Permits > 0 THEN Permits ELSE 0
           /\ sem = [t \in Users |-> "out"]

At(t, from, to) == sem[t] = from /\ sem' = [sem EXCEPT ![t] = to]

\* acquire, or try_acquire with a time-out: lock.
Acquire(t) == At(t, "out", "lock") /\ UNCHANGED count
AcquireTimed(t) == At(t, "out", "timed") /\ UNCHANGED count

\* try_acquire without a time-out: one look.
TryAcquire(t) ==
    IF count > 0 THEN At(t, "out", "holds") /\ count' = count - 1
                 ELSE At(t, "out", "failed") /\ UNCHANGED count

\* With the mutex: take a permit ...
Take(t) ==
    /\ count > 0
    /\ At(t, "lock", "holds") \/ At(t, "timed", "holds") \/ At(t, "late", "holds")
    /\ count' = count - 1

\* ... or wait on not_zero ...
Sleep(t) ==
    /\ count = 0
    /\ At(t, "lock", "asleep") \/ At(t, "timed", "dozes")
    /\ UNCHANGED count

\* Mutant: a time-out gives back a permit that was not taken.
FailGivesBack(t) ==
    /\ count = 0
    /\ At(t, "timed", "failed") \/ At(t, "late", "failed")
    /\ count' = count + 1

\* ... or, past the deadline, return false.
Fail(t) ==
    /\ count = 0
    /\ At(t, "timed", "failed") \/ At(t, "late", "failed")
    /\ UNCHANGED count

\* wait_timeout times out.
TimeOut(t) == At(t, "dozes", "late") /\ UNCHANGED count

\* Condvar waits may return for no reason.
SemSpurious(t) ==
    (At(t, "asleep", "lock") \/ At(t, "dozes", "timed")) /\ UNCHANGED count

\* release: count + 1, the mutex is given up ...
Release(t) == At(t, "holds", "notify") /\ count' = count + 1

Sleepers == {t \in Users : sem[t] \in {"asleep", "dozes"}}

\* Mutant: the notification is left out.
NotifySilent(t) == At(t, "notify", "out") /\ UNCHANGED count

\* ... and notify_one.
Notify(t) ==
    LET out == [sem EXCEPT ![t] = "out"]
    IN /\ sem[t] = "notify"
       /\ \/ Sleepers = {} /\ sem' = out
          \/ \E w \in Sleepers :
                sem' = [out EXCEPT ![w] = IF @ = "asleep" THEN "lock" ELSE "timed"]
       /\ UNCHANGED count

SemNext == \E t \in Users :
    \/ Acquire(t) \/ AcquireTimed(t) \/ TryAcquire(t) \/ Take(t) \/ Sleep(t) \/ Fail(t)
    \/ TimeOut(t) \/ SemSpurious(t) \/ Release(t) \/ Notify(t)
    \/ At(t, "failed", "out") /\ UNCHANGED count

SemSpec == SemInit /\ [][SemNext]_semVars
=============================================================================
