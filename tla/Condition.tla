----------------------------- MODULE Condition -----------------------------
(***************************************************************************)
(* sys.thread.Condition (runtime/src/concurrency.rs).  The handle keeps    *)
(* the MutexGuard of whoever holds the internal mutex in a field every     *)
(* call writes.  Storing to the field drops the value that is there first, *)
(* and dropping a guard unlocks the mutex, so an assignment is two steps:  *)
(* drop what the field holds, then write.                                  *)
(*                                                                         *)
(* Threads use the condition as its documentation says: release, wait and  *)
(* signal are called between acquire and release.                          *)
(***************************************************************************)
EXTENDS Naturals, FiniteSets

CONSTANTS Threads,       \* threads that use the condition
          MaxCalls       \* calls of acquire and wait a thread makes (bound)

VARIABLES locked,        \* ConditionHandle.mutex
          guard,         \* ConditionHandle.guard is Some
          asleep,        \* the threads in condvar.wait
          pc,            \* where each thread is
          calls          \* how many calls it has made

vars == <<locked, guard, asleep, pc, calls>>

Init == /\ locked = FALSE
        /\ guard = FALSE
        /\ asleep = {}
        /\ pc = [t \in Threads |-> "out"]
        /\ calls = [t \in Threads |-> 0]

Go(t, from, to) == pc[t] = from /\ pc' = [pc EXCEPT ![t] = to]
Calls(t) == calls[t] < MaxCalls /\ calls' = [calls EXCEPT ![t] = @ + 1]

-----------------------------------------------------------------------------
\* sys_condition_acquire.
Acquire(t) ==
    /\ Go(t, "out", "lock") /\ Calls(t)
    /\ UNCHANGED <<locked, guard, asleep>>

\* sys_condition_try_acquire fails: the mutex is locked.
TryAcquireFails(t) ==
    /\ pc[t] = "out" /\ locked /\ Calls(t)
    /\ UNCHANGED <<locked, guard, asleep, pc>>

\* mutex.lock() or try_lock() succeeds.
Lock(t) ==
    /\ Go(t, "lock", "store")
    /\ ~locked /\ locked' = TRUE
    /\ UNCHANGED <<guard, asleep, calls>>

\* handle.guard = Some(guard): what the field holds is dropped ...
StoreDrop(t) ==
    /\ Go(t, "store", "write")
    /\ locked' = IF guard THEN FALSE ELSE locked
    /\ UNCHANGED <<guard, asleep, calls>>

\* ... and the new guard written.  The call returns with the mutex held.
StoreWrite(t) ==
    /\ Go(t, "write", "holds")
    /\ guard' = TRUE
    /\ UNCHANGED <<locked, asleep, calls>>

\* sys_condition_release: handle.guard = None drops the guard, which unlocks ...
ReleaseDrop(t) ==
    /\ Go(t, "holds", "clear")
    /\ locked' = IF guard THEN FALSE ELSE locked
    /\ UNCHANGED <<guard, asleep, calls>>

\* ... and writes None.
ReleaseWrite(t) ==
    /\ Go(t, "clear", "out")
    /\ guard' = FALSE
    /\ UNCHANGED <<locked, asleep, calls>>

\* sys_condition_wait: guard.take() while the mutex is held; no guard, no wait.
WaitTake(t) ==
    /\ Go(t, "holds", IF guard THEN "enter" ELSE "holds") /\ Calls(t)
    /\ guard' = FALSE
    /\ UNCHANGED <<locked, asleep>>

\* condvar.wait unlocks and sleeps in one step ...
WaitSleep(t) ==
    /\ Go(t, "enter", "asleep")
    /\ locked' = FALSE
    /\ asleep' = asleep \cup {t}
    /\ UNCHANGED <<guard, calls>>

\* ... returns for a notification or for no reason, and locks again.
WaitWake(t) ==
    /\ Go(t, "asleep", "lock")
    /\ asleep' = asleep \ {t}
    /\ UNCHANGED <<locked, guard, calls>>

\* sys_condition_signal and sys_condition_broadcast, by the holder.
Signal(t) ==
    /\ pc[t] = "holds"
    /\ \E w \in asleep : /\ asleep' = asleep \ {w}
                         /\ pc' = [pc EXCEPT ![w] = "lock"]
    /\ UNCHANGED <<locked, guard, calls>>

Broadcast(t) ==
    /\ pc[t] = "holds"
    /\ asleep' = {}
    /\ pc' = [u \in Threads |-> IF u \in asleep THEN "lock" ELSE pc[u]]
    /\ UNCHANGED <<locked, guard, calls>>

-----------------------------------------------------------------------------
Next == \E t \in Threads :
    \/ Acquire(t) \/ TryAcquireFails(t) \/ Lock(t) \/ StoreDrop(t) \/ StoreWrite(t)
    \/ ReleaseDrop(t) \/ ReleaseWrite(t) \/ WaitTake(t) \/ WaitSleep(t) \/ WaitWake(t)
    \/ Signal(t) \/ Broadcast(t)

Spec == Init /\ [][Next]_vars

-----------------------------------------------------------------------------
\* "Acquires the internal mutex": two threads are never both between acquire
\* and release.
MutualExclusion ==
    \A t, u \in Threads : pc[t] = "holds" /\ pc[u] = "holds" => t = u
=============================================================================
