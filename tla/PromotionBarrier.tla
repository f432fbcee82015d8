-------------------------- MODULE PromotionBarrier --------------------------
(***************************************************************************)
(* The safepoint of the tiered JIT (compiler/src/codegen/tiered_backend.rs,*)
(* struct PromotionBarrier).  Executors run JIT code between               *)
(* wait_and_enter_execution and exit_execution; promoters request a        *)
(* promotion, wait for the executions in flight to drain, swap the         *)
(* function pointers and complete (or cancel) the promotion.               *)
(*                                                                         *)
(* Each atomic load, store or read-modify-write of the code is one step,   *)
(* and so is each lock, wait and notify.  Atomics are sequentially         *)
(* consistent here.  A thread in a condition variable's wait set has the   *)
(* pc "waiting" (executors) or "drainWait" (promoters); a notification     *)
(* moves it on.                                                            *)
(***************************************************************************)
EXTENDS Naturals, FiniteSets

CONSTANTS Executors,    \* threads that call execute_function
          Promoters,    \* background compilation workers
          None          \* no thread: the wait mutex is free

ASSUME ExecutorsFinite == IsFiniteSet(Executors)
ASSUME NoneIsNoExecutor == None \notin Executors

VARIABLES state,        \* PromotionBarrier.state
          counter,      \* PromotionBarrier.execution_counter
          mutex,        \* holder of PromotionBarrier.wait_mutex
          pc,           \* where each executor is
          ppc,          \* where each promoter is
          late          \* the promoters whose drain deadline has passed

vars == <<state, counter, mutex, pc, ppc, late>>

States == {"Idle", "Requested", "InProgress"}

ExecutorPCs == {"out", "load", "add", "recheck", "undo", "undoNotify",
                "lock", "locked", "sleep", "waiting", "woken",
                "running", "exitCheck", "exitNotify"}

PromoterPCs == {"out", "drain", "drainSleep", "drainWait", "mark", "swap",
                "complete", "completeNotify",
                "cancelRequested", "cancelInProgress", "cancelNotify"}

Init == /\ state = "Idle"
        /\ counter = 0
        /\ mutex = None
        /\ pc = [e \in Executors |-> "out"]
        /\ ppc = [p \in Promoters |-> "out"]
        /\ late = {}

-----------------------------------------------------------------------------
(* Helpers *)

Go(e, from, to) == pc[e] = from /\ pc' = [pc EXCEPT ![e] = to]

GoP(p, from, to) == ppc[p] = from /\ ppc' = [ppc EXCEPT ![p] = to]

\* wait_condvar.notify_all(): every executor in the wait set is woken.
NotifyWaiters ==
    pc' = [e \in Executors |-> IF pc[e] = "waiting" THEN "woken" ELSE pc[e]]

\* drain_condvar.notify_all(): every promoter in the wait set is woken.
NotifyDrain ==
    ppc' = [p \in Promoters |-> IF ppc[p] = "drainWait" THEN "drain" ELSE ppc[p]]

-----------------------------------------------------------------------------
(* Executors: wait_and_enter_execution, the JIT code, exit_execution *)

\* execute_function reaches compiled code and calls wait_and_enter_execution.
Call(e) == Go(e, "out", "load") /\ UNCHANGED <<state, counter, mutex, ppc, late>>

\* Mutant: the path that never added itself gives a count back.
EnterLoadGivesBack(e) ==
    /\ Go(e, "load", IF state = "Idle" THEN "add" ELSE "lock")
    /\ counter' = IF state = "Idle" THEN counter ELSE counter - 1
    /\ UNCHANGED <<state, mutex, ppc, late>>

\* enter_execution: the first load of the state.
EnterLoad(e) ==
    /\ Go(e, "load", IF state = "Idle" THEN "add" ELSE "lock")
    /\ UNCHANGED <<state, counter, mutex, ppc, late>>

\* enter_execution: execution_counter.fetch_add(1).
EnterAdd(e) ==
    /\ Go(e, "add", "recheck")
    /\ counter' = counter + 1
    /\ UNCHANGED <<state, mutex, ppc, late>>

\* Mutant: no double check after the count.
EnterRecheckDropped(e) ==
    /\ Go(e, "recheck", "running")
    /\ UNCHANGED <<state, counter, mutex, ppc, late>>

\* enter_execution: the second load; only Idle lets the execution start.
EnterRecheck(e) ==
    /\ Go(e, "recheck", IF state = "Idle" THEN "running" ELSE "undo")
    /\ UNCHANGED <<state, counter, mutex, ppc, late>>

\* Mutant: backing out keeps the count.
EnterUndoLeaks(e) ==
    /\ Go(e, "undo", "undoNotify")
    /\ UNCHANGED <<state, counter, mutex, ppc, late>>

\* enter_execution: the promotion won; execution_counter.fetch_sub(1).
EnterUndo(e) ==
    /\ Go(e, "undo", "undoNotify")
    /\ counter' = counter - 1
    /\ UNCHANGED <<state, mutex, ppc, late>>

\* enter_execution: drain_condvar.notify_all(), return false.
EnterUndoNotify(e) ==
    /\ Go(e, "undoNotify", "lock")
    /\ NotifyDrain
    /\ UNCHANGED <<state, counter, mutex, late>>

\* wait_and_enter_execution: wait_mutex.lock().
WaitLock(e) ==
    /\ Go(e, "lock", "locked")
    /\ mutex = None
    /\ mutex' = e
    /\ UNCHANGED <<state, counter, ppc, late>>

\* wait_and_enter_execution: re-check under the lock; Idle drops the guard
\* and retries, anything else decides to wait.
WaitRecheck(e) ==
    /\ Go(e, "locked", IF state = "Idle" THEN "load" ELSE "sleep")
    /\ mutex' = IF state = "Idle" THEN None ELSE mutex
    /\ UNCHANGED <<state, counter, ppc, late>>

\* Condvar::wait: release the mutex and join the wait set in one step.
WaitSleep(e) ==
    /\ Go(e, "sleep", "waiting")
    /\ mutex' = None
    /\ UNCHANGED <<state, counter, ppc, late>>

\* Condvar::wait may return without a notification.
SpuriousWake(e) ==
    /\ Go(e, "waiting", "woken")
    /\ UNCHANGED <<state, counter, mutex, ppc, late>>

\* Condvar::wait returns with the mutex; the guard is dropped at the end of
\* the loop body, so taking and releasing the lock is one step.
WaitReturn(e) ==
    /\ Go(e, "woken", "load")
    /\ mutex = None
    /\ UNCHANGED <<state, counter, mutex, ppc, late>>

\* exit_execution (ExecutionGuard::drop): fetch_sub; the last one out looks
\* at the state.
Exit(e) ==
    /\ Go(e, "running", IF counter = 1 THEN "exitCheck" ELSE "out")
    /\ counter' = counter - 1
    /\ UNCHANGED <<state, mutex, ppc, late>>

ExitCheck(e) ==
    /\ Go(e, "exitCheck", IF state # "Idle" THEN "exitNotify" ELSE "out")
    /\ UNCHANGED <<state, counter, mutex, ppc, late>>

ExitNotify(e) ==
    /\ Go(e, "exitNotify", "out")
    /\ NotifyDrain
    /\ UNCHANGED <<state, counter, mutex, late>>

-----------------------------------------------------------------------------
(* Promoters: request_promotion, wait_for_drain, swap, complete or cancel *)

\* request_promotion: compare_exchange Idle -> PromotionRequested.  A failed
\* exchange changes nothing and returns false.
Request(p) ==
    /\ GoP(p, "out", "drain")
    /\ state = "Idle"
    /\ state' = "Requested"
    /\ late' = late \ {p}
    /\ UNCHANGED <<counter, mutex, pc>>

\* Time passes: deadline = now + timeout, taken when wait_for_drain starts.
DeadlinePasses(p) ==
    /\ ppc[p] \in {"drain", "drainSleep", "drainWait"}
    /\ late' = late \cup {p}
    /\ UNCHANGED <<state, counter, mutex, pc, ppc>>

\* wait_for_drain: the load of the counter, and the deadline check when the
\* executions have not drained.
DrainLoad(p) ==
    /\ \/ counter = 0 /\ GoP(p, "drain", "mark")
       \/ counter # 0 /\ p \notin late /\ GoP(p, "drain", "drainSleep")
       \/ counter # 0 /\ p \in late /\ GoP(p, "drain", "cancelRequested")
    /\ UNCHANGED <<state, counter, mutex, pc, late>>

\* wait_for_drain: lock drain_mutex and wait_timeout, without a re-check.
DrainSleep(p) ==
    /\ GoP(p, "drainSleep", "drainWait")
    /\ UNCHANGED <<state, counter, mutex, pc, late>>

\* Mutant: a time-out is taken for a wake-up and the wait goes on.
DrainTimeoutIgnored(p) ==
    /\ p \in late
    /\ GoP(p, "drainWait", "drainSleep")
    /\ UNCHANGED <<state, counter, mutex, pc, late>>

\* wait_timeout timed out: wait_for_drain returns false and its caller
\* cancels.
DrainTimeout(p) ==
    /\ p \in late
    /\ GoP(p, "drainWait", "cancelRequested")
    /\ UNCHANGED <<state, counter, mutex, pc, late>>

\* wait_timeout may return early without a notification.
DrainSpurious(p) ==
    /\ GoP(p, "drainWait", "drain")
    /\ UNCHANGED <<state, counter, mutex, pc, late>>

\* wait_for_drain: store PromotionInProgress and return true.
MarkInProgress(p) ==
    /\ GoP(p, "mark", "swap")
    /\ state' = "InProgress"
    /\ UNCHANGED <<counter, mutex, pc, late>>

\* The caller swaps the pointers; an error during the swap cancels.
SwapDone(p) ==
    /\ GoP(p, "swap", "complete") \/ GoP(p, "swap", "cancelRequested")
    /\ UNCHANGED <<state, counter, mutex, pc, late>>

\* complete_promotion: store Idle ...
Complete(p) ==
    /\ GoP(p, "complete", "completeNotify")
    /\ state' = "Idle"
    /\ UNCHANGED <<counter, mutex, pc, late>>

\* ... and notify, without taking wait_mutex.
CompleteNotify(p) ==
    /\ GoP(p, "completeNotify", "out")
    /\ NotifyWaiters
    /\ UNCHANGED <<state, counter, mutex, late>>

\* cancel_promotion: the exchange Requested -> Idle ...
CancelRequested(p) ==
    /\ GoP(p, "cancelRequested", "cancelInProgress")
    /\ state' = IF state = "Requested" THEN "Idle" ELSE state
    /\ UNCHANGED <<counter, mutex, pc, late>>

\* ... then the exchange InProgress -> Idle ...
CancelInProgress(p) ==
    /\ GoP(p, "cancelInProgress", "cancelNotify")
    /\ state' = IF state = "InProgress" THEN "Idle" ELSE state
    /\ UNCHANGED <<counter, mutex, pc, late>>

\* ... and the notification, again without wait_mutex.
CancelNotify(p) ==
    /\ GoP(p, "cancelNotify", "out")
    /\ NotifyWaiters
    /\ UNCHANGED <<state, counter, mutex, late>>

-----------------------------------------------------------------------------
\* The steps an executor takes on its own once it has called the barrier:
\* everything but starting a call, the JIT code and a spurious wake-up.
EnterStep(e) ==
    \/ EnterLoad(e) \/ EnterAdd(e) \/ EnterRecheck(e) \/ EnterUndo(e)
    \/ EnterUndoNotify(e) \/ WaitLock(e) \/ WaitRecheck(e) \/ WaitSleep(e)
    \/ WaitReturn(e) \/ ExitCheck(e) \/ ExitNotify(e)

ExecutorStep(e) == Call(e) \/ EnterStep(e) \/ SpuriousWake(e) \/ Exit(e)

\* The steps of a promotion once requested (a timed wait always returns).
PromotionStep(p) ==
    \/ DrainLoad(p) \/ DrainSleep(p) \/ DrainTimeout(p) \/ MarkInProgress(p)
    \/ SwapDone(p) \/ Complete(p) \/ CompleteNotify(p)
    \/ CancelRequested(p) \/ CancelInProgress(p) \/ CancelNotify(p)

PromoterStep(p) ==
    \/ Request(p) \/ DeadlinePasses(p) \/ DrainSpurious(p) \/ PromotionStep(p)

Next == \/ \E e \in Executors : ExecutorStep(e)
        \/ \E p \in Promoters : PromoterStep(p)

Spec == Init /\ [][Next]_vars

\* The scheduler runs every runnable thread and a deadline expires.  Nothing
\* promises that JIT code returns, that a call is made or that a promotion is
\* requested.  A free mutex goes to every contender in the end (SF).
FairSpec == /\ Spec
            /\ \A e \in Executors : /\ WF_vars(EnterStep(e))
                                    /\ SF_vars(WaitLock(e))
                                    /\ SF_vars(WaitReturn(e))
            /\ \A p \in Promoters : /\ WF_vars(PromotionStep(p))
                                    /\ WF_vars(DeadlinePasses(p))

-----------------------------------------------------------------------------
(* Properties *)

\* Every variable holds a value of the code's type.
TypeOK == /\ state \in States
          /\ counter \in Nat
          /\ mutex \in Executors \cup {None}
          /\ pc \in [Executors -> ExecutorPCs]
          /\ ppc \in [Promoters -> PromoterPCs]
          /\ late \in SUBSET Promoters

\* The executors that have added themselves to execution_counter.
Counted == {e \in Executors : pc[e] \in {"recheck", "undo", "running"}}

Running == {e \in Executors : pc[e] = "running"}

Swapping == {p \in Promoters : ppc[p] = "swap"}

\* Function pointers are swapped only while no thread executes JIT code, and
\* by one promoter at a time (header comment of the barrier, requirement 1).
SwapExclusive == /\ Swapping # {} => Running = {}
                 /\ \A p, q \in Swapping : p = q

\* The counter is exactly the number of executors that added themselves and
\* have not left: no path of enter_execution or exit_execution leaks a count
\* or gives one back twice (a leak would block every later promotion).
CounterExact == counter = Cardinality(Counted)

\* With a single promoter the state tells which phase of the promotion that
\* promoter is in (cancel_promotion starts from either active state).
PhaseMatchesState ==
    \A p \in Promoters :
        /\ ppc[p] \in {"drain", "drainSleep", "drainWait", "mark"} => state = "Requested"
        /\ ppc[p] \in {"swap", "complete"} => state = "InProgress"
        /\ ppc[p] \in {"out", "completeNotify", "cancelNotify"} => state = "Idle"
        /\ ppc[p] = "cancelInProgress" => state # "Requested"

\* From the load that saw the counter at 0 until the barrier is Idle again no
\* executor runs: whoever adds itself now will see the promotion and undo.
Drained == (state = "InProgress" \/ \E p \in Promoters : ppc[p] = "mark")
              => Running = {}

\* The inductive invariant behind SwapExclusive.
IInv == TypeOK /\ CounterExact /\ PhaseMatchesState /\ Drained

\* A promotion that was granted always ends: the drain deadline bounds the
\* wait, whatever the JIT code does and whichever wake-up is lost.
PromotionSettles ==
    \A p \in Promoters : (ppc[p] # "out") ~> (ppc[p] = "out")
=============================================================================
