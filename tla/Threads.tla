------------------------------ MODULE Threads ------------------------------
(***************************************************************************)
(* Threads of a running program and the count that keeps its JIT code      *)
(* alive (runtime/src/concurrency.rs; the caller of the main function is   *)
(* codegen/cranelift_backend.rs).  A thread is started with                *)
(* rayzor_thread_spawn, which hands out a handle, or with                  *)
(* sys_thread_impl_create, which does not.  The first gives its count back *)
(* when the handle is joined, the second when its job ends.                *)
(***************************************************************************)
EXTENDS Naturals, FiniteSets

CONSTANTS Tids,          \* the threads the program may start (bound)
          Main,          \* the thread that calls the main function
          None

Actors == Tids \cup {Main}

ASSUME TidsFinite == IsFiniteSet(Tids)
ASSUME MainIsNoTid == Main \notin Tids
ASSUME NoneIsNobody == None \notin Actors

VARIABLES active,        \* ACTIVE_THREAD_COUNT
          life,          \* how far each thread is
          kind,          \* which call started it
          act,           \* the runtime call an actor is in
          main           \* how far the caller of the main function is

threadVars == <<active, life, kind, act, main>>

Free == [op |-> "free", on |-> None]

ThreadInit ==
    /\ active = 0
    /\ life = [t \in Tids |-> "none"]
    /\ kind = [t \in Tids |-> "none"]
    /\ act = [p \in Actors |-> Free]
    /\ main = "jit"

\* p runs the program's code, outside of every call of this module.
CanAct(p) == act[p] = Free /\ IF p = Main THEN main = "jit" ELSE life[p] = "jit"

-----------------------------------------------------------------------------
\* rayzor_thread_spawn or sys_thread_impl_create: the thread is counted ...
Spawn(p, t, k) ==
    /\ CanAct(p) /\ t \in Tids /\ life[t] = "none"
    /\ active' = active + 1
    /\ act' = [act EXCEPT ![p] = [op |-> "spawn", on |-> t]]
    /\ life' = [life EXCEPT ![t] = "counted"]
    /\ kind' = [kind EXCEPT ![t] = k]
    /\ UNCHANGED main

\* ... and then started with thread::spawn.
Start(p) ==
    /\ act[p].op = "spawn"
    /\ life' = [life EXCEPT ![act[p].on] = "jit"]
    /\ act' = [act EXCEPT ![p] = Free]
    /\ UNCHANGED <<active, kind, main>>

\* The closure returns or panics into catch_unwind: no more JIT code on t.
Return(t) ==
    /\ CanAct(t)
    /\ life' = [life EXCEPT ![t] = IF kind[t] = "handle" THEN "ended" ELSE "returned"]
    /\ UNCHANGED <<active, kind, act, main>>

\* Mutant: the end of the job forgets the count.
CountDownLeaks(t) ==
    /\ life[t] = "returned"
    /\ life' = [life EXCEPT ![t] = "ended"]
    /\ UNCHANGED <<active, kind, act, main>>

\* sys_thread_impl_create: the end of the job gives the count back.
CountDown(t) ==
    /\ life[t] = "returned"
    /\ active' = active - 1
    /\ life' = [life EXCEPT ![t] = "ended"]
    /\ UNCHANGED <<kind, act, main>>

\* rayzor_thread_join: the handle is consumed by one caller ...
Join(p, t) ==
    /\ CanAct(p)
    /\ kind[t] = "handle" /\ life[t] # "joined" /\ p # t
    /\ \A q \in Actors : act[q] # [op |-> "join", on |-> t]
    /\ act' = [act EXCEPT ![p] = [op |-> "join", on |-> t]]
    /\ UNCHANGED <<active, life, kind, main>>

\* Mutant: the count is given back before the thread has ended.
JoinedEarly(p) ==
    /\ act[p].op = "join"
    /\ active' = active - 1
    /\ act' = [act EXCEPT ![p] = Free]
    /\ kind' = [kind EXCEPT ![act[p].on] = "none"]
    /\ UNCHANGED <<life, main>>

\* ... who waits for the end of the thread and gives its count back.
Joined(p) ==
    /\ act[p].op = "join"
    /\ life[act[p].on] = "ended"
    /\ active' = active - 1
    /\ life' = [life EXCEPT ![act[p].on] = "joined"]
    /\ act' = [act EXCEPT ![p] = Free]
    /\ UNCHANGED <<kind, main>>

\* Future.join: rayzor_wait_all_threads called by the program ...
WaitAll(p) ==
    /\ CanAct(p)
    /\ act' = [act EXCEPT ![p] = [op |-> "wait", on |-> None]]
    /\ UNCHANGED <<active, life, kind, main>>

\* ... returns when it loads 0.
WaitAllDone(p) ==
    /\ act[p].op = "wait"
    /\ active = 0
    /\ act' = [act EXCEPT ![p] = Free]
    /\ UNCHANGED <<active, life, kind, main>>

\* The main function returns: its caller enters rayzor_wait_all_threads.
MainReturn ==
    /\ CanAct(Main)
    /\ main' = "wait"
    /\ UNCHANGED <<active, life, kind, act>>

MainWaited ==
    /\ main = "wait"
    /\ active = 0
    /\ main' = "waited"
    /\ UNCHANGED <<active, life, kind, act>>

\* rayzor_jit_cleanup; the caller returns and the JIT module is dropped.
Cleanup ==
    /\ main = "waited"
    /\ active' = 0
    /\ main' = "dropped"
    /\ UNCHANGED <<life, kind, act>>

-----------------------------------------------------------------------------
\* What goes on without the program's doing.
ThreadStep(p) == Start(p) \/ Joined(p) \/ WaitAllDone(p)
MainStep == MainWaited \/ Cleanup

ThreadNext ==
    \/ \E p \in Actors : \/ \E t \in Tids, k \in {"handle", "sys"} : Spawn(p, t, k)
                         \/ \E t \in Tids : Join(p, t)
                         \/ WaitAll(p) \/ ThreadStep(p)
    \/ \E t \in Tids : Return(t) \/ CountDown(t)
    \/ MainReturn \/ MainStep

ThreadSpec == ThreadInit /\ [][ThreadNext]_threadVars

-----------------------------------------------------------------------------
ThreadTypeOK ==
    /\ active \in Nat
    /\ life \in [Tids -> {"none", "counted", "jit", "returned", "ended", "joined"}]
    /\ kind \in [Tids -> {"none", "handle", "sys"}]
    /\ act \in [Actors -> [op : {"free", "spawn", "join", "wait"}, on : Tids \cup {None}]]
    /\ main \in {"jit", "wait", "waited", "dropped"}

\* The threads that have not given their count back.
Counted == {t \in Tids : \/ life[t] \in {"counted", "jit", "returned"}
                         \/ life[t] = "ended" /\ kind[t] = "handle"}

\* ACTIVE_THREAD_COUNT is the number of threads started and not accounted for:
\* a leaked count keeps the program from ending, one given back twice lets it
\* end too early (and wraps the u64).
CountExact == active = Cardinality(Counted)

\* "Wait for all spawned threads to complete before returning": once the wait
\* is over no thread runs, or is about to run, JIT code.
NoJitAfterWait ==
    main \in {"waited", "dropped"} =>
        \A t \in Tids : life[t] \notin {"counted", "jit"}
=============================================================================
