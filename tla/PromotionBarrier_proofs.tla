----------------------- MODULE PromotionBarrier_proofs -----------------------
(***************************************************************************)
(* Proofs about PromotionBarrier, for every finite set of executors.       *)
(***************************************************************************)
EXTENDS PromotionBarrier, FiniteSetTheorems, TLAPS

-----------------------------------------------------------------------------
(* Counting *)

\* The executors counted are finitely many, so execution_counter = 0 means
\* that nobody is between fetch_add and fetch_sub.
LEMMA CountedFinite ==
    /\ IsFiniteSet(Counted)
    /\ Cardinality(Counted) \in Nat
    /\ Cardinality(Counted) = 0 <=> Counted = {}
<1>1. Counted \subseteq Executors  BY DEF Counted
<1>2. IsFiniteSet(Counted)  BY <1>1, ExecutorsFinite, FS_Subset
<1> QED  BY <1>2, FS_CardinalityType, FS_EmptySet

\* enter_execution's fetch_add: one more executor is counted.
LEMMA CountedGrows ==
    ASSUME NEW e \in Executors, e \notin Counted, CounterExact,
           Counted' = Counted \cup {e}, counter' = counter + 1
    PROVE  CounterExact'
<1>1. Cardinality(Counted \cup {e}) = Cardinality(Counted) + 1
  BY CountedFinite, FS_AddElement
<1> QED  BY <1>1 DEF CounterExact

\* fetch_sub on either way out: one executor less is counted, and the counter
\* was positive.
LEMMA CountedShrinks ==
    ASSUME NEW e \in Executors, e \in Counted, CounterExact,
           Counted' = Counted \ {e}, counter' = counter - 1
    PROVE  CounterExact' /\ counter' \in Nat
<1>1. Cardinality(Counted \ {e}) = Cardinality(Counted) - 1
  BY CountedFinite, FS_RemoveElement
<1>2. Cardinality(Counted) # 0  BY CountedFinite
<1> QED  BY <1>1, <1>2, CountedFinite DEF CounterExact

-----------------------------------------------------------------------------
(* Types and the counter, for any number of promoters *)

TypeCount == TypeOK /\ CounterExact

\* Init establishes the types and the count.
LEMMA TypeCountInit == Init => TypeCount
<1> SUFFICES ASSUME Init PROVE TypeCount  OBVIOUS
<1>1. TypeOK  BY DEF Init, TypeOK, States, ExecutorPCs, PromoterPCs
<1>2. Counted = {}  BY DEF Init, Counted
<1>3. CounterExact  BY <1>2, FS_EmptySet DEF Init, CounterExact
<1> QED  BY <1>1, <1>3 DEF TypeCount

\* Every executor step keeps the types and the count.
LEMMA TypeCountExecutor ==
    ASSUME TypeCount, NEW e \in Executors, ExecutorStep(e)
    PROVE  TypeCount'
<1> USE DEF TypeCount
<1>0. TypeOK /\ CounterExact  OBVIOUS
<1>1. CASE EnterAdd(e)
  <2>1. TypeOK'  BY <1>0, <1>1 DEF TypeOK, EnterAdd, Go, ExecutorPCs
  <2>2. e \notin Counted /\ Counted' = Counted \cup {e}
    BY <1>0, <1>1 DEF TypeOK, EnterAdd, Go, Counted
  <2>3. CounterExact'  BY <1>0, <1>1, <2>2, CountedGrows DEF EnterAdd
  <2> QED  BY <2>1, <2>3
<1>2. CASE EnterUndo(e) \/ Exit(e)
  <2>1. e \in Counted /\ Counted' = Counted \ {e}
    BY <1>0, <1>2 DEF TypeOK, EnterUndo, Exit, Go, Counted
  <2>2. CounterExact' /\ counter' \in Nat
    BY <1>0, <1>2, <2>1, CountedShrinks DEF EnterUndo, Exit
  <2>3. TypeOK'
    BY <1>0, <1>2, <2>2 DEF TypeOK, EnterUndo, Exit, Go, ExecutorPCs
  <2> QED  BY <2>2, <2>3
<1>3. CASE EnterUndoNotify(e) \/ ExitNotify(e)
  <2>1. TypeOK'
    BY <1>0, <1>3 DEF TypeOK, EnterUndoNotify, ExitNotify, Go, NotifyDrain,
                      ExecutorPCs, PromoterPCs
  <2>2. Counted' = Counted /\ counter' = counter
    BY <1>0, <1>3 DEF TypeOK, EnterUndoNotify, ExitNotify, Go, Counted
  <2> QED  BY <1>0, <2>1, <2>2 DEF CounterExact
<1>4. CASE \/ Call(e) \/ EnterLoad(e) \/ EnterRecheck(e) \/ WaitLock(e)
           \/ WaitRecheck(e) \/ WaitSleep(e) \/ SpuriousWake(e)
           \/ WaitReturn(e) \/ ExitCheck(e)
  <2>1. TypeOK'
    BY <1>0, <1>4 DEF TypeOK, Go, Call, EnterLoad, EnterRecheck, WaitLock,
       WaitRecheck, WaitSleep, SpuriousWake, WaitReturn, ExitCheck, ExecutorPCs
  <2>2. Counted' = Counted /\ counter' = counter
    BY <1>0, <1>4 DEF TypeOK, Go, Call, EnterLoad, EnterRecheck, WaitLock,
       WaitRecheck, WaitSleep, SpuriousWake, WaitReturn, ExitCheck, Counted
  <2> QED  BY <1>0, <2>1, <2>2 DEF CounterExact
<1> QED  BY <1>1, <1>2, <1>3, <1>4 DEF ExecutorStep, EnterStep

\* Every promoter step keeps the types, and never touches the counter.
LEMMA TypeCountPromoter ==
    ASSUME TypeCount, NEW p \in Promoters, PromoterStep(p)
    PROVE  TypeCount'
<1> USE DEF TypeCount
<1>0. TypeOK /\ CounterExact  OBVIOUS
<1>1. CASE CompleteNotify(p) \/ CancelNotify(p)
  <2>1. TypeOK'
    BY <1>0, <1>1 DEF TypeOK, CompleteNotify, CancelNotify, GoP, NotifyWaiters,
                      ExecutorPCs, PromoterPCs
  <2>2. Counted' = Counted /\ counter' = counter
    BY <1>0, <1>1 DEF TypeOK, CompleteNotify, CancelNotify, NotifyWaiters, Counted
  <2> QED  BY <1>0, <2>1, <2>2 DEF CounterExact
<1>2. CASE \/ Request(p) \/ DeadlinePasses(p) \/ DrainSpurious(p)
           \/ DrainLoad(p) \/ DrainSleep(p) \/ DrainTimeout(p)
           \/ MarkInProgress(p) \/ SwapDone(p) \/ Complete(p)
           \/ CancelRequested(p) \/ CancelInProgress(p)
  <2>1. TypeOK'
    BY <1>0, <1>2 DEF TypeOK, GoP, Request, DeadlinePasses, DrainSpurious,
       DrainLoad, DrainSleep, DrainTimeout, MarkInProgress, SwapDone, Complete,
       CancelRequested, CancelInProgress, PromoterPCs, States
  <2>2. Counted' = Counted /\ counter' = counter
    BY <1>0, <1>2 DEF TypeOK, Request, DeadlinePasses, DrainSpurious,
       DrainLoad, DrainSleep, DrainTimeout, MarkInProgress, SwapDone, Complete,
       CancelRequested, CancelInProgress, Counted
  <2> QED  BY <1>0, <2>1, <2>2 DEF CounterExact
<1> QED  BY <1>1, <1>2 DEF PromoterStep, PromotionStep

\* Next keeps the types and the count.
LEMMA TypeCountNext == TypeCount /\ [Next]_vars => TypeCount'
<1> SUFFICES ASSUME TypeCount, [Next]_vars PROVE TypeCount'  OBVIOUS
<1>1. CASE Next  BY <1>1, TypeCountExecutor, TypeCountPromoter DEF Next
<1>2. CASE UNCHANGED vars
  BY <1>2 DEF vars, TypeCount, TypeOK, CounterExact, Counted
<1> QED  BY <1>1, <1>2

\* PromotionBarrier's variables keep their types whatever executors and
\* promoters do; in particular execution_counter never goes below 0.
THEOREM TypeCorrect == Spec => []TypeOK
<1>1. TypeCount => TypeOK  BY DEF TypeCount
<1> QED  BY <1>1, TypeCountInit, TypeCountNext, PTL DEF Spec

\* enter_execution and exit_execution neither leak nor double-release a count,
\* for any number of executors and of promoters.
THEOREM CounterCorrect == Spec => []CounterExact
<1>1. TypeCount => CounterExact  BY DEF TypeCount
<1> QED  BY <1>1, TypeCountInit, TypeCountNext, PTL DEF Spec

-----------------------------------------------------------------------------
(* Exclusion, with one promoter *)

OnePromoter == \A p, q \in Promoters : p = q

\* An executor step changes neither the state nor the promoter's phase, except
\* that it may wake a draining promoter.
LEMMA PhaseExecutor ==
    ASSUME TypeOK, PhaseMatchesState, NEW e \in Executors, ExecutorStep(e)
    PROVE  PhaseMatchesState'
<1>1. CASE EnterUndoNotify(e) \/ ExitNotify(e)
  BY <1>1 DEF TypeOK, EnterUndoNotify, ExitNotify, NotifyDrain, PhaseMatchesState
<1>2. CASE ppc' = ppc /\ state' = state
  BY <1>2 DEF PhaseMatchesState
<1> QED
  BY <1>1, <1>2 DEF ExecutorStep, EnterStep, Call, EnterLoad, EnterAdd,
     EnterRecheck, EnterUndo, WaitLock, WaitRecheck, WaitSleep, SpuriousWake,
     WaitReturn, Exit, ExitCheck

\* The only promoter moves the state and its phase together.
LEMMA PhasePromoter ==
    ASSUME OnePromoter, TypeOK, PhaseMatchesState,
           NEW p \in Promoters, PromoterStep(p)
    PROVE  PhaseMatchesState'
<1>1. Promoters = {p}  BY DEF OnePromoter
<1>2. SUFFICES /\ ppc'[p] \in {"drain", "drainSleep", "drainWait", "mark"} => state' = "Requested"
               /\ ppc'[p] \in {"swap", "complete"} => state' = "InProgress"
               /\ ppc'[p] \in {"out", "completeNotify", "cancelNotify"} => state' = "Idle"
               /\ ppc'[p] = "cancelInProgress" => state' # "Requested"
  BY <1>1 DEF PhaseMatchesState
<1> QED
  BY <1>1 DEF TypeOK, States, PhaseMatchesState, PromoterStep, PromotionStep,
     GoP, Request, DeadlinePasses, DrainSpurious, DrainLoad, DrainSleep,
     DrainTimeout, MarkInProgress, SwapDone, Complete, CompleteNotify,
     CancelRequested, CancelInProgress, CancelNotify

\* An executor starts to run only when it sees Idle after it was counted, and
\* then no promoter is past the drain.
LEMMA DrainedExecutor ==
    ASSUME TypeOK, PhaseMatchesState, Drained, NEW e \in Executors, ExecutorStep(e)
    PROVE  Drained'
<1>1. CASE EnterRecheck(e)
  <2>1. CASE state = "Idle"
    BY <1>1, <2>1 DEF TypeOK, EnterRecheck, PhaseMatchesState, Drained
  <2>2. CASE state # "Idle"
    <3>1. Running' \subseteq Running
      BY <1>1, <2>2 DEF TypeOK, EnterRecheck, Go, Running
    <3> QED  BY <1>1, <3>1 DEF EnterRecheck, Drained
  <2> QED  BY <2>1, <2>2
<1>2. CASE ExecutorStep(e) /\ ~EnterRecheck(e)
  <2>1. Running' \subseteq Running
    BY <1>2 DEF TypeOK, Running, ExecutorStep, EnterStep, Go, Call, EnterLoad,
       EnterAdd, EnterUndo, EnterUndoNotify, WaitLock, WaitRecheck, WaitSleep,
       SpuriousWake, WaitReturn, Exit, ExitCheck, ExitNotify
  <2>2. state' = state
    BY <1>2 DEF ExecutorStep, EnterStep, Call, EnterLoad, EnterAdd, EnterUndo,
       EnterUndoNotify, WaitLock, WaitRecheck, WaitSleep, SpuriousWake,
       WaitReturn, Exit, ExitCheck, ExitNotify
  <2>3. \A p \in Promoters : ppc'[p] = "mark" => ppc[p] = "mark"
    BY <1>2 DEF TypeOK, ExecutorStep, EnterStep, NotifyDrain, Call, EnterLoad,
       EnterAdd, EnterUndo, EnterUndoNotify, WaitLock, WaitRecheck, WaitSleep,
       SpuriousWake, WaitReturn, Exit, ExitCheck, ExitNotify
  <2> QED  BY <2>1, <2>2, <2>3 DEF Drained
<1> QED  BY <1>1, <1>2

\* The promoter passes the drain only when it has seen the counter at 0, and
\* then nobody is counted, so nobody runs.
LEMMA DrainedPromoter ==
    ASSUME TypeCount, Drained, NEW p \in Promoters, PromoterStep(p)
    PROVE  Drained'
<1> USE DEF TypeCount
<1>1. Running' = Running
  <2>1. CASE CompleteNotify(p) \/ CancelNotify(p)
    BY <2>1 DEF TypeOK, CompleteNotify, CancelNotify, NotifyWaiters, Running
  <2>2. CASE pc' = pc  BY <2>2 DEF Running
  <2> QED
    BY <2>1, <2>2 DEF PromoterStep, PromotionStep, Request, DeadlinePasses,
       DrainSpurious, DrainLoad, DrainSleep, DrainTimeout, MarkInProgress,
       SwapDone, Complete, CancelRequested, CancelInProgress
<1>2. CASE DrainLoad(p) /\ counter = 0
  <2>1. Counted = {}  BY <1>2, CountedFinite DEF CounterExact
  <2>2. Running = {}  BY <2>1 DEF Running, Counted
  <2> QED  BY <1>1, <2>2 DEF Drained
<1>3. CASE MarkInProgress(p)
  BY <1>1, <1>3 DEF MarkInProgress, GoP, Drained
<1>4. CASE ~MarkInProgress(p) /\ ~(DrainLoad(p) /\ counter = 0)
  <2>1. \A q \in Promoters : ppc'[q] = "mark" => ppc[q] = "mark"
    BY <1>4 DEF TypeOK, PromoterStep, PromotionStep, GoP, Request,
       DeadlinePasses, DrainSpurious, DrainLoad, DrainSleep, DrainTimeout,
       SwapDone, Complete, CompleteNotify, CancelRequested, CancelInProgress,
       CancelNotify
  <2>2. state' = "InProgress" => state = "InProgress"
    BY <1>4 DEF PromoterStep, PromotionStep, Request, DeadlinePasses,
       DrainSpurious, DrainLoad, DrainSleep, DrainTimeout, SwapDone, Complete,
       CompleteNotify, CancelRequested, CancelInProgress, CancelNotify
  <2> QED  BY <1>1, <2>1, <2>2 DEF Drained
<1> QED  BY <1>2, <1>3, <1>4

\* IInv is an invariant when there is one promoter.
THEOREM Invariance ==
    ASSUME OnePromoter
    PROVE  Spec => []IInv
<1>1. Init => IInv
  <2> SUFFICES ASSUME Init PROVE IInv  OBVIOUS
  <2>1. TypeCount  BY TypeCountInit
  <2>2. PhaseMatchesState /\ Drained  BY DEF Init, PhaseMatchesState, Drained
  <2> QED  BY <2>1, <2>2 DEF IInv, TypeCount
<1>2. IInv /\ [Next]_vars => IInv'
  <2> SUFFICES ASSUME IInv, [Next]_vars PROVE IInv'  OBVIOUS
  <2> USE DEF IInv, TypeCount
  <2>1. TypeCount'  BY TypeCountNext
  <2>2. CASE Next
    BY <2>1, <2>2, PhaseExecutor, PhasePromoter, DrainedExecutor,
       DrainedPromoter DEF Next
  <2>3. CASE UNCHANGED vars
    BY <2>1, <2>3 DEF vars, PhaseMatchesState, Drained, Running
  <2> QED  BY <2>2, <2>3
<1> QED  BY <1>1, <1>2, PTL DEF Spec

\* Requirement 1 of the barrier, for every finite set of executors and at most
\* one promoter: function pointers are swapped only while no thread executes
\* JIT code.
THEOREM SwapExclusion ==
    ASSUME OnePromoter
    PROVE  Spec => []SwapExclusive
<1>1. IInv => SwapExclusive
  BY DEF IInv, PhaseMatchesState, Drained, SwapExclusive, Swapping, OnePromoter
<1> QED  BY <1>1, Invariance, PTL
=============================================================================
