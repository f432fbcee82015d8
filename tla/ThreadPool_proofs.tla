------------------------- MODULE ThreadPool_proofs -------------------------
(***************************************************************************)
(* Proofs about a program that uses a FixedThreadPool, for any number of   *)
(* threads, workers, tasks and permits: its thread count, the wake-ups of  *)
(* its deque and of its semaphore, and that what it submits before it      *)
(* shuts the pool down is run.                                             *)
(* What is proved of Threads holds of the program because each of its      *)
(* steps is a step of Threads or leaves the threads alone.                 *)
(***************************************************************************)
EXTENDS ThreadPool, FiniteSetTheorems, TLAPS

-----------------------------------------------------------------------------
(* The inductive invariant of Threads *)

\* A thread that has not been started has no kind; one that will count itself
\* down was not given a handle.
KindFits ==
    \A t \in Tids : /\ life[t] = "none" => kind[t] = "none"
                    /\ life[t] = "returned" => kind[t] # "handle"

\* A call of spawn owns the thread it has counted.
SpawnOwns ==
    \A p \in Actors : act[p].op = "spawn" =>
        /\ act[p].on \in Tids /\ life[act[p].on] = "counted"
        /\ \A q \in Actors : act[q] = act[p] => q = p

\* A call of join has a handle.
JoinHasHandle ==
    \A p \in Actors : act[p].op = "join" => act[p].on \in Tids /\ kind[act[p].on] = "handle"

\* Nothing is counted once the wait of the main function is over.
WaitedIsZero == main \in {"waited", "dropped"} => active = 0

ThreadInv == ThreadTypeOK /\ CountExact /\ KindFits /\ SpawnOwns /\ JoinHasHandle /\ WaitedIsZero

\* Counted is a finite set that grows and shrinks by single threads.
LEMMA CountedSize ==
    ASSUME NEW A, A \subseteq Tids
    PROVE  /\ Cardinality(A) \in Nat
           /\ Cardinality(A) = 0 => A = {}
           /\ \A t \in Tids : t \notin A => Cardinality(A \cup {t}) = Cardinality(A) + 1
           /\ \A t \in A : Cardinality(A \ {t}) = Cardinality(A) - 1
<1>1. IsFiniteSet(A)  BY TidsFinite, FS_Subset
<1> QED  BY <1>1, FS_CardinalityType, FS_EmptySet, FS_AddElement, FS_RemoveElement

\* While the program's code runs on p, the main function has not been waited
\* for: p is the main function or is counted.
LEMMA ActorCounted ==
    ASSUME ThreadInv, NEW p \in Actors, CanAct(p)
    PROVE  main \notin {"waited", "dropped"}
<1>1. CASE p = Main  BY <1>1 DEF CanAct
<1>2. CASE p # Main
  <2>1. p \in Counted  BY <1>2 DEF CanAct, Counted, Actors
  <2>2. Counted \subseteq Tids  BY DEF Counted
  <2>3. Cardinality(Counted) # 0
    <3>1. IsFiniteSet(Counted)  BY <2>2, TidsFinite, FS_Subset
    <3> QED  BY <3>1, <2>1, FS_EmptySet
  <2> QED  BY <2>3 DEF ThreadInv, CountExact, WaitedIsZero
<1> QED  BY <1>1, <1>2

\* The initial state.
LEMMA ThreadInvInit == ThreadInit => ThreadInv
<1> SUFFICES ASSUME ThreadInit PROVE ThreadInv  OBVIOUS
<1>1. ThreadTypeOK  BY DEF ThreadInit, ThreadTypeOK, Free
<1>2. Counted = {}  BY DEF ThreadInit, Counted
<1>3. CountExact  BY <1>2, FS_EmptySet DEF ThreadInit, CountExact
<1> QED  BY <1>1, <1>3 DEF ThreadInit, ThreadInv, KindFits, SpawnOwns, JoinHasHandle,
                           WaitedIsZero, Free

\* Every step of Threads keeps the invariant.
LEMMA ThreadInvStep == ThreadInv /\ [ThreadNext]_threadVars => ThreadInv'
<1> SUFFICES ASSUME ThreadInv, [ThreadNext]_threadVars PROVE ThreadInv'  OBVIOUS
<1> USE MainIsNoTid, NoneIsNobody DEF Actors, Free
<1>0. /\ ThreadTypeOK /\ CountExact /\ KindFits /\ SpawnOwns /\ JoinHasHandle /\ WaitedIsZero
      /\ Counted \subseteq Tids /\ Cardinality(Counted) \in Nat
  <2>1. Counted \subseteq Tids  BY DEF Counted
  <2> QED  BY <2>1, CountedSize DEF ThreadInv
<1>1. ASSUME NEW p \in Actors, NEW t \in Tids, NEW k \in {"handle", "sys"}, Spawn(p, t, k)
      PROVE  ThreadInv'
  <2>1. Counted' = Counted \cup {t} /\ t \notin Counted
    BY <1>0, <1>1 DEF Spawn, Counted, ThreadTypeOK
  <2>2. CountExact'  BY <1>0, <1>1, <2>1, CountedSize DEF Spawn, CountExact
  <2>3. ThreadTypeOK'  BY <1>0, <1>1 DEF Spawn, ThreadTypeOK
  <2>4. KindFits'  BY <1>0, <1>1 DEF Spawn, ThreadTypeOK, KindFits
  <2>5. SpawnOwns'  BY <1>0, <1>1 DEF Spawn, ThreadTypeOK, SpawnOwns
  <2>6. JoinHasHandle'  BY <1>0, <1>1 DEF Spawn, ThreadTypeOK, JoinHasHandle, KindFits
  <2>7. WaitedIsZero'  BY <1>1, ActorCounted DEF Spawn, WaitedIsZero
  <2> QED  BY <2>2, <2>3, <2>4, <2>5, <2>6, <2>7 DEF ThreadInv
<1>2. ASSUME NEW p \in Actors, Start(p) PROVE ThreadInv'
  <2>0. act[p].on \in Tids /\ life[act[p].on] = "counted"
    BY <1>0, <1>2 DEF Start, SpawnOwns
  <2>1. Counted' = Counted  BY <1>0, <1>2, <2>0 DEF Start, Counted, ThreadTypeOK
  <2>2. CountExact'  BY <1>0, <1>2, <2>1 DEF Start, CountExact
  <2>3. ThreadTypeOK'  BY <1>0, <1>2 DEF Start, ThreadTypeOK
  <2>4. KindFits'  BY <1>0, <1>2 DEF Start, ThreadTypeOK, KindFits
  <2>5. SpawnOwns'  BY <1>0, <1>2, <2>0 DEF Start, ThreadTypeOK, SpawnOwns
  <2>6. JoinHasHandle'  BY <1>0, <1>2 DEF Start, ThreadTypeOK, JoinHasHandle
  <2> QED  BY <1>0, <1>2, <2>2, <2>3, <2>4, <2>5, <2>6 DEF ThreadInv, Start, WaitedIsZero
<1>3. ASSUME NEW t \in Tids, Return(t) PROVE ThreadInv'
  <2>1. Counted' = Counted  BY <1>0, <1>3 DEF Return, CanAct, Counted, ThreadTypeOK
  <2>2. CountExact'  BY <1>0, <1>3, <2>1 DEF Return, CountExact
  <2>3. ThreadTypeOK'  BY <1>0, <1>3 DEF Return, ThreadTypeOK
  <2>4. KindFits'  BY <1>0, <1>3 DEF Return, ThreadTypeOK, KindFits
  <2>5. SpawnOwns'  BY <1>0, <1>3 DEF Return, CanAct, ThreadTypeOK, SpawnOwns
  <2>6. JoinHasHandle'  BY <1>0, <1>3 DEF Return, ThreadTypeOK, JoinHasHandle
  <2> QED  BY <1>0, <1>3, <2>2, <2>3, <2>4, <2>5, <2>6 DEF ThreadInv, Return, WaitedIsZero
<1>4. ASSUME NEW t \in Tids, CountDown(t) PROVE ThreadInv'
  <2>1. Counted' = Counted \ {t} /\ t \in Counted
    BY <1>0, <1>4 DEF CountDown, Counted, ThreadTypeOK, KindFits
  <2>2. CountExact' /\ active # 0  BY <1>0, <1>4, <2>1, CountedSize DEF CountDown, CountExact
  <2>3. ThreadTypeOK'  BY <1>0, <1>4, <2>2 DEF CountDown, ThreadTypeOK
  <2>4. KindFits'  BY <1>0, <1>4 DEF CountDown, ThreadTypeOK, KindFits
  <2>5. SpawnOwns'  BY <1>0, <1>4 DEF CountDown, ThreadTypeOK, SpawnOwns
  <2>6. JoinHasHandle'  BY <1>0, <1>4 DEF CountDown, ThreadTypeOK, JoinHasHandle
  <2> QED  BY <1>0, <1>4, <2>2, <2>3, <2>4, <2>5, <2>6 DEF ThreadInv, CountDown, WaitedIsZero
<1>5. ASSUME NEW p \in Actors, NEW t \in Tids, Join(p, t) PROVE ThreadInv'
  <2>1. Counted' = Counted  BY <1>5 DEF Join, Counted
  <2>2. CountExact'  BY <1>0, <1>5, <2>1 DEF Join, CountExact
  <2>3. ThreadTypeOK'  BY <1>0, <1>5 DEF Join, ThreadTypeOK
  <2>4. SpawnOwns'  BY <1>0, <1>5 DEF Join, ThreadTypeOK, SpawnOwns
  <2>5. JoinHasHandle'  BY <1>0, <1>5 DEF Join, ThreadTypeOK, JoinHasHandle
  <2> QED  BY <1>0, <1>5, <2>2, <2>3, <2>4, <2>5 DEF ThreadInv, Join, KindFits, WaitedIsZero
<1>6. ASSUME NEW p \in Actors, Joined(p) PROVE ThreadInv'
  <2>0. act[p].on \in Tids /\ kind[act[p].on] = "handle"
    BY <1>0, <1>6 DEF Joined, JoinHasHandle
  <2>1. Counted' = Counted \ {act[p].on} /\ act[p].on \in Counted
    BY <1>0, <1>6, <2>0 DEF Joined, Counted, ThreadTypeOK
  <2>2. CountExact' /\ active # 0  BY <1>0, <1>6, <2>1, CountedSize DEF Joined, CountExact
  <2>3. ThreadTypeOK'
    <3>1. active' \in Nat  BY <1>0, <1>6, <2>2 DEF Joined, ThreadTypeOK
    <3> QED  BY <1>0, <1>6, <3>1 DEF Joined, ThreadTypeOK
  <2>4. KindFits'  BY <1>0, <1>6 DEF Joined, ThreadTypeOK, KindFits
  <2>5. SpawnOwns'  BY <1>0, <1>6 DEF Joined, ThreadTypeOK, SpawnOwns
  <2>6. JoinHasHandle'  BY <1>0, <1>6 DEF Joined, ThreadTypeOK, JoinHasHandle
  <2> QED  BY <1>0, <1>6, <2>2, <2>3, <2>4, <2>5, <2>6 DEF ThreadInv, Joined, WaitedIsZero
<1>7. ASSUME NEW p \in Actors, WaitAll(p) \/ WaitAllDone(p) PROVE ThreadInv'
  <2>1. Counted' = Counted  BY <1>7 DEF WaitAll, WaitAllDone, Counted
  <2>2. CountExact'  BY <1>0, <1>7, <2>1 DEF WaitAll, WaitAllDone, CountExact
  <2>3. ThreadTypeOK'  BY <1>0, <1>7 DEF WaitAll, WaitAllDone, ThreadTypeOK
  <2>4. SpawnOwns'  BY <1>0, <1>7 DEF WaitAll, WaitAllDone, ThreadTypeOK, SpawnOwns
  <2>5. JoinHasHandle'  BY <1>0, <1>7 DEF WaitAll, WaitAllDone, ThreadTypeOK, JoinHasHandle
  <2> QED  BY <1>0, <1>7, <2>2, <2>3, <2>4, <2>5
           DEF ThreadInv, WaitAll, WaitAllDone, KindFits, WaitedIsZero
<1>8. ASSUME MainReturn \/ MainWaited \/ Cleanup PROVE ThreadInv'
  <2>1. Counted' = Counted  BY <1>8 DEF MainReturn, MainWaited, Cleanup, Counted
  <2>2. active' = active  BY <1>0, <1>8 DEF MainReturn, MainWaited, Cleanup, WaitedIsZero
  <2>3. WaitedIsZero'  BY <1>0, <1>8, <2>2 DEF MainReturn, MainWaited, Cleanup, WaitedIsZero
  <2> QED  BY <1>0, <1>8, <2>1, <2>2, <2>3
           DEF ThreadInv, ThreadTypeOK, CountExact, KindFits, SpawnOwns, JoinHasHandle,
               MainReturn, MainWaited, Cleanup
<1>9. CASE UNCHANGED threadVars
  BY <1>0, <1>9 DEF threadVars, ThreadInv, ThreadTypeOK, CountExact, KindFits, SpawnOwns,
                    JoinHasHandle, WaitedIsZero, Counted
<1> QED  BY <1>1, <1>2, <1>3, <1>4, <1>5, <1>6, <1>7, <1>8, <1>9
         DEF ThreadNext, ThreadStep, MainStep

-----------------------------------------------------------------------------
(* The program *)

\* Every step of the program is a step of its threads or leaves them alone.
LEMMA ProgramStep == [Next]_vars => [ThreadNext]_threadVars
<1> SUFFICES ASSUME [Next]_vars PROVE [ThreadNext]_threadVars  OBVIOUS
<1> USE DEF Actors
<1>1. ASSUME MainProgram PROVE [ThreadNext]_threadVars
  <2>1. CASE NewWorker \/ SpawnHelper
    BY <2>1 DEF NewWorker, SpawnHelper, Spawn, ThreadNext
  <2>2. CASE JoinHelper
    BY <2>2 DEF JoinHelper, ThreadNext
  <2>3. CASE JoinAll \/ Leave
    BY <2>3 DEF JoinAll, Leave, ThreadNext
  <2>4. CASE PoolReady \/ Shutdown \/ AddStop \/ \E k \in Kinds : Run(k)
    BY <2>4 DEF PoolReady, Shutdown, AddStop, Run
  <2> QED  BY <1>1, <2>1, <2>2, <2>3, <2>4 DEF MainProgram
<1>2. ASSUME RuntimeMain PROVE [ThreadNext]_threadVars
  BY <1>2 DEF RuntimeMain, ThreadNext
<1>3. ASSUME HelperProgram \/ \E k \in Kinds : RunTest(k) PROVE [ThreadNext]_threadVars
  BY <1>3 DEF HelperProgram, HelperReturns, RunAdd, RunTest, ThreadNext
<1>4. ASSUME NEW p \in Actors, Runtime(p) PROVE [ThreadNext]_threadVars
  BY <1>4 DEF Runtime, ThreadNext
<1>5. ASSUME NEW t \in Tids, Worker(t) PROVE [ThreadNext]_threadVars
  <2>1. CASE PopStep(t)  BY <2>1 DEF PopStep
  <2>2. CASE CallTask(t)  BY <2>2 DEF CallTask
  <2>3. CASE AskPermit(t)  BY <2>3 DEF AskPermit
  <2>4. CASE PermitStep(t)  BY <2>4 DEF PermitStep
  <2>5. CASE EndTask(t)  BY <2>5 DEF EndTask
  <2>6. CASE Replace(t)  BY <2>6 DEF Replace, Spawn, ThreadNext
  <2>7. CASE WorkerReturns(t)  BY <2>7 DEF WorkerReturns, ThreadNext
  <2> QED  BY <1>5, <2>1, <2>2, <2>3, <2>4, <2>5, <2>6, <2>7 DEF Worker
<1>6. ASSUME NEW t \in Tids, RuntimeCount(t) PROVE [ThreadNext]_threadVars
  BY <1>6 DEF RuntimeCount, ThreadNext
<1>7. ASSUME NEW t \in Tids, PopSpurious(t) \/ PermitSpurious(t) PROVE [ThreadNext]_threadVars
  BY <1>7 DEF PopSpurious, PermitSpurious
<1>8. CASE UNCHANGED vars  BY <1>8 DEF vars
<1> QED  BY <1>1, <1>2, <1>3, <1>4, <1>5, <1>6, <1>7, <1>8 DEF Next

\* The threads' invariant holds of the program.
LEMMA ThreadInvAlways == Spec => []ThreadInv
<1>1. Init => ThreadInv  BY ThreadInvInit DEF Init
<1>2. ThreadInv /\ [Next]_vars => ThreadInv'  BY ThreadInvStep, ProgramStep
<1> QED  BY <1>1, <1>2, PTL DEF Spec

\* ACTIVE_THREAD_COUNT is exact, with any number of threads, however their
\* ends, their joins and the replacement of workers interleave.
THEOREM CountCorrect == Spec => []CountExact
<1>1. ThreadInv => CountExact  BY DEF ThreadInv
<1> QED  BY <1>1, ThreadInvAlways, PTL

\* Once rayzor_wait_all_threads has returned to the caller of the main
\* function no thread runs JIT code, or will.
THEOREM JitOutlivesThreads == Spec => []NoJitAfterWait
<1>1. ThreadInv => NoJitAfterWait
  <2> SUFFICES ASSUME ThreadInv, main \in {"waited", "dropped"} PROVE NoJitAfterWait
    BY DEF NoJitAfterWait
  <2>1. Counted \subseteq Tids  BY DEF Counted
  <2>2. Counted = {}  BY <2>1, CountedSize DEF ThreadInv, WaitedIsZero, CountExact
  <2> QED  BY <2>2 DEF NoJitAfterWait, Counted
<1> QED  BY <1>1, ThreadInvAlways, PTL

-----------------------------------------------------------------------------
(* No lost wake-up in the deque *)

Awake == {t \in Tids : deq[t] = "lock"}
Asleep == {t \in Tids : deq[t] = "asleep"}

DequeInv == /\ queue \in Seq(Tasks \cup {Stop})
            /\ deq \in [Tids -> {"out", "lock", "asleep", "got"}]
            /\ Asleep # {} => Len(queue) <= Cardinality(Awake)

\* The deque's invariant is what the property asks for, and more.
LEMMA DequeInvWakes == DequeInv => PoolWakeup
BY DEF DequeInv, PoolWakeup, D!Poppers, Awake, Asleep

\* The awake poppers can be counted.
LEMMA AwakeSize ==
    /\ Awake \subseteq Tids /\ Awake' \subseteq Tids
    /\ Cardinality(Awake) \in Nat /\ Cardinality(Awake') \in Nat
<1>1. Awake \subseteq Tids /\ Awake' \subseteq Tids  BY DEF Awake
<1> QED  BY <1>1, CountedSize

\* add notifies under the mutex: the element it adds has a popper of its own.
LEMMA AddWakes ==
    ASSUME DequeInv, NEW x \in Tasks \cup {Stop}, D!Add(x)
    PROVE  DequeInv'
<1>1. queue' = Append(queue, x)  BY DEF D!Add
<1>2. queue' \in Seq(Tasks \cup {Stop})  BY <1>1 DEF DequeInv
<1>3. Len(queue') = Len(queue) + 1 /\ Len(queue) \in Nat  BY <1>1 DEF DequeInv
<1>4. CASE D!Poppers = {} /\ UNCHANGED deq
  <2>1. Asleep' = {}  BY <1>4 DEF D!Poppers, Asleep
  <2> QED  BY <1>2, <1>4, <2>1 DEF DequeInv
<1>5. ASSUME NEW w \in D!Poppers, deq' = [deq EXCEPT ![w] = "lock"] PROVE DequeInv'
  <2>1. w \in Tids /\ w \notin Awake /\ w \in Asleep  BY <1>5 DEF D!Poppers, Awake, Asleep
  <2>2. Awake' = Awake \cup {w}  BY <1>5, <2>1 DEF DequeInv, Awake
  <2>3. Cardinality(Awake') = Cardinality(Awake) + 1
    BY <2>1, <2>2, AwakeSize, CountedSize
  <2>4. Len(queue) <= Cardinality(Awake)  BY <2>1 DEF DequeInv
  <2>5. deq' \in [Tids -> {"out", "lock", "asleep", "got"}]  BY <1>5, <2>1 DEF DequeInv
  <2>6. Len(queue') <= Cardinality(Awake')  BY <1>3, <2>3, <2>4, AwakeSize
  <2> QED  BY <1>2, <2>5, <2>6 DEF DequeInv
<1> QED  BY <1>4, <1>5 DEF D!Add

\* pop gives up its place when it takes an element, and sleeps only next to
\* an empty queue.
LEMMA PopWakes ==
    ASSUME DequeInv, NEW t \in Tids, D!Pop(t) \/ D!PopTake(t) \/ D!PopSleep(t) \/ D!PopSpurious(t)
    PROVE  DequeInv'
<1>1. CASE D!Pop(t) \/ D!PopSpurious(t)
  <2>1. t \notin Awake /\ Awake' = Awake \cup {t}
    BY <1>1 DEF DequeInv, Awake, D!Pop, D!PopSpurious
  <2>2. Cardinality(Awake') = Cardinality(Awake) + 1  BY <2>1, AwakeSize, CountedSize
  <2>3. Asleep' \subseteq Asleep  BY <1>1 DEF DequeInv, D!Pop, D!PopSpurious, Asleep
  <2>4. queue' = queue /\ deq' \in [Tids -> {"out", "lock", "asleep", "got"}]
    BY <1>1 DEF DequeInv, D!Pop, D!PopSpurious
  <2>5. Len(queue) \in Nat  BY DEF DequeInv
  <2> QED  BY <2>2, <2>3, <2>4, <2>5, AwakeSize DEF DequeInv
<1>2. CASE D!PopTake(t)
  <2>1. t \in Awake /\ Awake' = Awake \ {t}
    BY <1>2 DEF DequeInv, Awake, D!PopTake
  <2>2. Cardinality(Awake') = Cardinality(Awake) - 1  BY <2>1, AwakeSize, CountedSize
  <2>3. Asleep' = Asleep  BY <1>2 DEF DequeInv, D!PopTake, Asleep
  <2>4. /\ Len(queue') = Len(queue) - 1 /\ Len(queue) \in Nat
        /\ queue' \in Seq(Tasks \cup {Stop})
    BY <1>2 DEF DequeInv, D!PopTake
  <2>5. deq' \in [Tids -> {"out", "lock", "asleep", "got"}]
    BY <1>2 DEF DequeInv, D!PopTake
  <2> QED  BY <2>2, <2>3, <2>4, <2>5, AwakeSize DEF DequeInv
<1>3. CASE D!PopSleep(t)
  <2>1. queue' = <<>> /\ queue' = queue  BY <1>3 DEF D!PopSleep
  <2>2. Len(queue') = 0  BY <2>1
  <2>3. deq' \in [Tids -> {"out", "lock", "asleep", "got"}]
    BY <1>3 DEF DequeInv, D!PopSleep
  <2> QED  BY <2>1, <2>2, <2>3, AwakeSize DEF DequeInv
<1> QED  BY <1>1, <1>2, <1>3

\* Every step of the program keeps the deque's invariant.
LEMMA DequeInvStep ==
    ASSUME DequeInv, [Next]_vars
    PROVE  DequeInv'
<1>1. CASE UNCHANGED <<queue, deq>>  BY <1>1 DEF DequeInv, Awake, Asleep
<1>2. ASSUME NEW k \in Kinds, Run(k) PROVE DequeInv'
  <2>1. NextTask \in Tasks  BY <1>2 DEF Run, NextTask
  <2> QED  BY <1>2, <2>1, AddWakes DEF Run
<1>3. CASE AddStop  BY <1>3, AddWakes DEF AddStop
<1>4. ASSUME NEW t \in Tids, PopStep(t) \/ PopSpurious(t) PROVE DequeInv'
  BY <1>4, PopWakes DEF PopStep, PopSpurious
<1>5. ASSUME NEW t \in Tids, CallTask(t) PROVE DequeInv'
  <2>1. Awake' = Awake /\ Asleep' \subseteq Asleep
    BY <1>5 DEF DequeInv, CallTask, Awake, Asleep
  <2> QED  BY <1>5, <2>1 DEF DequeInv, CallTask
<1>6. CASE \/ NewWorker \/ PoolReady \/ SpawnHelper \/ JoinHelper \/ Shutdown \/ JoinAll
           \/ Leave \/ RuntimeMain \/ HelperReturns \/ (\E k \in Kinds : RunTest(k))
           \/ UNCHANGED vars
  BY <1>1, <1>6 DEF NewWorker, PoolReady, SpawnHelper, JoinHelper, Shutdown, JoinAll,
     Leave, RuntimeMain, HelperReturns, RunTest, vars, objects
<1>7. ASSUME NEW t \in Actors,
             \/ Runtime(t) \/ RuntimeCount(t) \/ AskPermit(t) \/ PermitStep(t) \/ EndTask(t)
             \/ Replace(t) \/ WorkerReturns(t) \/ PermitSpurious(t)
      PROVE  DequeInv'
  BY <1>1, <1>7 DEF Runtime, RuntimeCount, AskPermit, PermitStep, EndTask, Replace,
     WorkerReturns, PermitSpurious, objects
<1>8. CASE RunAdd  BY <1>8, AddWakes DEF RunAdd
<1> QED  BY <1>2, <1>3, <1>4, <1>5, <1>6, <1>7, <1>8
         DEF Next, MainProgram, HelperProgram, Worker, Actors

\* No notify_one of the pool's deque is lost: whenever a worker sleeps in pop,
\* every element of the queue has a worker on its way to it.
THEOREM NoLostTask == Spec => []PoolWakeup
<1>1. Init => DequeInv
  <2> SUFFICES ASSUME Init PROVE DequeInv  OBVIOUS
  <2>1. queue = <<>> /\ deq = [t \in Tids |-> "out"]  BY DEF Init, D!DequeInit
  <2>2. Asleep = {}  BY <2>1 DEF Asleep
  <2> QED  BY <2>1, <2>2 DEF DequeInv
<1>2. DequeInv /\ [Next]_vars => DequeInv'  BY DequeInvStep
<1> QED  BY <1>1, <1>2, DequeInvWakes, PTL DEF Spec

-----------------------------------------------------------------------------
(* No lost wake-up in the semaphore *)

SemStates == {"out", "lock", "timed", "late", "asleep", "dozes", "holds", "failed", "notify"}

\* The threads that will look at the count, or make another one do so.
Alert == {t \in Tids : sem[t] \in {"lock", "timed", "late", "notify"}}
Waiting == {t \in Tids : sem[t] \in {"asleep", "dozes"}}

SemInv == /\ count \in Nat
          /\ sem \in [Tids -> SemStates]
          /\ Waiting # {} => count <= Cardinality(Alert)

\* The semaphore's invariant is what the property asks for, and more.
LEMMA SemInvWakes == SemInv => PermitWakeup
BY DEF SemInv, PermitWakeup, S!Sleepers, Alert, Waiting

\* The alert threads can be counted.
LEMMA AlertSize ==
    /\ Alert \subseteq Tids /\ Alert' \subseteq Tids
    /\ Cardinality(Alert) \in Nat /\ Cardinality(Alert') \in Nat
<1>1. Alert \subseteq Tids /\ Alert' \subseteq Tids  BY DEF Alert
<1> QED  BY <1>1, CountedSize

\* A thread goes to a place from where it will look at the count, which may
\* have got one more permit.
LEMMA MoreAlert ==
    ASSUME SemInv, NEW t \in Tids, t \notin Alert, Alert' = Alert \cup {t},
           Waiting' \subseteq Waiting \/ count' = 0, count' \in Nat, count' <= count + 1,
           sem' \in [Tids -> SemStates], Waiting = {} => Waiting' = {}
    PROVE  SemInv'
<1>1. Cardinality(Alert') = Cardinality(Alert) + 1  BY AlertSize, CountedSize
<1> QED  BY <1>1, AlertSize DEF SemInv

\* Every operation of the semaphore keeps its invariant ...
LEMMA SemStep ==
    ASSUME SemInv, NEW t \in Tids,
           \/ S!Acquire(t) \/ S!AcquireTimed(t) \/ S!TryAcquire(t) \/ S!Take(t) \/ S!Sleep(t)
           \/ S!Fail(t) \/ S!TimeOut(t) \/ S!SemSpurious(t) \/ S!Release(t) \/ S!Notify(t)
    PROVE  SemInv'
<1>1. CASE S!Acquire(t) \/ S!AcquireTimed(t) \/ S!TimeOut(t) \/ S!SemSpurious(t) \/ S!Release(t)
  <2>1. /\ t \notin Alert /\ Alert' = Alert \cup {t} /\ Waiting' \subseteq Waiting
        /\ sem' \in [Tids -> SemStates]
    BY <1>1 DEF SemInv, SemStates, Alert, Waiting, S!At,
       S!Acquire, S!AcquireTimed, S!TimeOut, S!SemSpurious, S!Release
  <2>2. count' \in Nat /\ count' <= count + 1
    BY <1>1 DEF SemInv, S!Acquire, S!AcquireTimed, S!TimeOut, S!SemSpurious, S!Release
  <2> QED  BY <2>1, <2>2, MoreAlert
<1>2. CASE S!TryAcquire(t)
  <2>1. /\ Alert' = Alert /\ Waiting' = Waiting /\ sem' \in [Tids -> SemStates]
    BY <1>2 DEF SemInv, SemStates, Alert, Waiting, S!At, S!TryAcquire
  <2>2. count' \in Nat /\ count' <= count  BY <1>2 DEF SemInv, S!TryAcquire
  <2> QED  BY <2>1, <2>2, AlertSize DEF SemInv
<1>3. CASE S!Take(t)
  <2>1. /\ t \in Alert /\ Alert' = Alert \ {t} /\ Waiting' = Waiting
        /\ sem' \in [Tids -> SemStates]
    BY <1>3 DEF SemInv, SemStates, Alert, Waiting, S!At, S!Take
  <2>2. Cardinality(Alert') = Cardinality(Alert) - 1  BY <2>1, AlertSize, CountedSize
  <2>3. count' \in Nat /\ count' = count - 1  BY <1>3 DEF SemInv, S!Take
  <2> QED  BY <2>1, <2>2, <2>3, AlertSize DEF SemInv
<1>4. CASE S!Sleep(t) \/ S!Fail(t)
  <2>1. count' = 0 /\ sem' \in [Tids -> SemStates]
    BY <1>4 DEF SemInv, SemStates, S!At, S!Sleep, S!Fail
  <2> QED  BY <2>1, AlertSize DEF SemInv
<1>5. CASE S!Notify(t)
  <2> DEFINE out == [sem EXCEPT ![t] = "out"]
  <2>1. sem[t] = "notify" /\ count' = count  BY <1>5 DEF S!Notify
  <2>2. CASE S!Sleepers = {} /\ sem' = out
    <3>1. Waiting' = {} /\ sem' \in [Tids -> SemStates]
      BY <2>2 DEF SemInv, SemStates, Waiting, S!Sleepers
    <3> QED  BY <2>1, <3>1 DEF SemInv
  <2>3. ASSUME NEW w \in S!Sleepers,
               sem' = [out EXCEPT ![w] = IF @ = "asleep" THEN "lock" ELSE "timed"]
        PROVE  SemInv'
    <3>1. w \in Tids /\ w \in Waiting /\ w \notin Alert /\ t \in Alert /\ w # t
      BY <2>1, <2>3 DEF S!Sleepers, Waiting, Alert
    <3>2. /\ Alert' = (Alert \ {t}) \cup {w} /\ Waiting' \subseteq Waiting
          /\ sem' \in [Tids -> SemStates]
      BY <2>3, <3>1 DEF SemInv, SemStates, Alert, Waiting
    <3>3. Alert \ {t} \subseteq Tids /\ w \notin Alert \ {t}  BY <3>1, AlertSize
    <3>4. Cardinality((Alert \ {t}) \cup {w}) = Cardinality(Alert \ {t}) + 1
      BY <3>1, <3>3, CountedSize
    <3>5. Cardinality(Alert \ {t}) = Cardinality(Alert) - 1  BY <3>1, AlertSize, CountedSize
    <3>6. Cardinality(Alert') = Cardinality(Alert)  BY <3>2, <3>4, <3>5, AlertSize
    <3> QED  BY <2>1, <3>1, <3>2, <3>6 DEF SemInv
  <2> QED  BY <1>5, <2>2, <2>3 DEF S!Notify
<1> QED  BY <1>1, <1>2, <1>3, <1>4, <1>5

\* ... and so does every step of the program.
LEMMA SemInvStep ==
    ASSUME SemInv, [Next]_vars
    PROVE  SemInv'
<1>1. CASE UNCHANGED <<count, sem>>  BY <1>1 DEF SemInv, Alert, Waiting
<1>2. ASSUME NEW t \in Tids, AskPermit(t) \/ PermitStep(t) \/ PermitSpurious(t) PROVE SemInv'
  BY <1>2, SemStep DEF AskPermit, PermitStep, PermitSpurious
<1>3. ASSUME NEW t \in Tids, EndTask(t) PROVE SemInv'
  <2>1. Alert' = Alert /\ Waiting' = Waiting /\ sem' \in [Tids -> SemStates]
    BY <1>3 DEF SemInv, SemStates, EndTask, Alert, Waiting
  <2> QED  BY <1>3, <2>1 DEF SemInv, EndTask
<1>4. CASE \/ NewWorker \/ PoolReady \/ SpawnHelper \/ JoinHelper \/ Shutdown \/ AddStop
           \/ JoinAll \/ Leave \/ RuntimeMain \/ HelperReturns \/ UNCHANGED vars
  BY <1>1, <1>4 DEF NewWorker, PoolReady, SpawnHelper, JoinHelper, Shutdown, AddStop, JoinAll,
     Leave, RuntimeMain, HelperReturns, vars, objects
<1>5. ASSUME NEW t \in Actors,
             \/ Runtime(t) \/ RuntimeCount(t) \/ PopStep(t) \/ PopSpurious(t)
             \/ CallTask(t) \/ Replace(t) \/ WorkerReturns(t)
      PROVE  SemInv'
  BY <1>1, <1>5 DEF Runtime, RuntimeCount, PopStep, PopSpurious, CallTask, Replace,
     WorkerReturns, objects
<1>6. ASSUME NEW k \in Kinds, Run(k) \/ RunTest(k) PROVE SemInv'
  BY <1>1, <1>6 DEF Run, RunTest, objects
<1>7. CASE RunAdd  BY <1>1, <1>7 DEF RunAdd
<1> QED  BY <1>2, <1>3, <1>4, <1>5, <1>6, <1>7
         DEF Next, MainProgram, HelperProgram, Worker, Actors

\* No notify_one of the semaphore is lost, whatever mix of waiting, timed and
\* immediate acquires the threads use.
THEOREM NoLostPermit == Spec => []PermitWakeup
<1>1. Init => SemInv
  <2> SUFFICES ASSUME Init PROVE SemInv  OBVIOUS
  <2>1. count = (IF Permits > 0 THEN Permits ELSE 0) /\ sem = [t \in Tids |-> "out"]
    BY DEF Init, S!SemInit
  <2>2. Waiting = {}  BY <2>1 DEF Waiting
  <2> QED  BY <2>1, <2>2, PermitsInt DEF SemInv, SemStates
<1>2. SemInv /\ [Next]_vars => SemInv'  BY SemInvStep
<1> QED  BY <1>1, <1>2, SemInvWakes, PTL DEF Spec

-----------------------------------------------------------------------------
(* Where the program is *)

ProgTypes ==
    /\ item \in [Tids -> Tasks \cup {Stop, None}]
    /\ prog \in {"new", "run", "joined", "stop", "last", "left"}
    /\ left \in 0 .. NWorkers
    /\ helper \in Tids \cup {None}
    /\ how \in [Tasks -> Kinds \cup {"none"}]
    /\ sub \in [Tasks -> {"new", "called", "early", "late"}]
    /\ wpc \in [Tids -> {"loop", "helper", "adding", "task", "permit", "catch", "over"}]

\* Who is in pop or has a task runs JIT code, in the loop of a worker.
Busy ==
    \A t \in Tids :
        /\ deq[t] # "out" => life[t] = "jit" /\ wpc[t] = "loop"
        /\ deq[t] = "got" => item[t] \in Tasks \cup {Stop}
        /\ wpc[t] \in {"task", "permit", "catch"} => life[t] = "jit"

\* A thread is the helper or a worker, by the call that started it.
Roles ==
    /\ \A t \in Tids : /\ life[t] = "none" => wpc[t] = "loop"
                       /\ wpc[t] \in {"helper", "adding"} => t = helper
                       /\ life[t] # "none" /\ wpc[t] \notin {"helper", "adding"}
                            => kind[t] = "sys"
    /\ helper \in Tids => wpc[helper] \in {"helper", "adding"} /\ kind[helper] = "handle"

\* The main function creates, runs, shuts down and leaves.
Ending == {"stop", "last", "left"}
Phases ==
    /\ prog = "new" => helper = None /\ queue = <<>>
    /\ prog \in {"last", "left"} => left = 0
    /\ main # "jit" => prog = "left"

ProgInv == ProgTypes /\ Busy /\ Roles /\ Phases

\* The initial state.
LEMMA ProgInvInit == Init => ProgInv
<1> SUFFICES ASSUME Init PROVE ProgInv  OBVIOUS
<1>1. /\ queue = <<>> /\ deq = [t \in Tids |-> "out"] /\ item = [t \in Tids |-> None]
      /\ life = [t \in Tids |-> "none"] /\ main = "jit"
      /\ prog = "new" /\ left = NWorkers /\ helper = None /\ how = [x \in Tasks |-> "none"]
      /\ sub = [x \in Tasks |-> "new"]
      /\ wpc = [t \in Tids |-> "loop"]
  BY DEF Init, D!DequeInit, ThreadInit
<1>2. ProgTypes  BY <1>1, PoolNotEmpty DEF ProgTypes
<1>3. None \notin Tids  BY NoneIsNobody DEF Actors
<1> QED  BY <1>1, <1>2, <1>3 DEF ProgInv, Busy, Roles, Phases, Ending

\* What add does to the threads in pop.
LEMMA AddEffect ==
    ASSUME DequeInv, NEW x, D!Add(x)
    PROVE  /\ queue' = Append(queue, x) /\ item' = item
           /\ \A t \in Tids : deq'[t] = deq[t] \/ (deq[t] = "asleep" /\ deq'[t] = "lock")
BY DEF DequeInv, D!Add, D!Poppers

\* A thread is started on its first day only.
LEMMA SpawnEffect ==
    ASSUME ThreadInv, NEW p \in Actors, NEW u, NEW k \in {"sys", "handle"}, Spawn(p, u, k)
    PROVE  /\ u \in Tids /\ life[u] = "none" /\ u # p
           /\ life' = [life EXCEPT ![u] = "counted"] /\ kind' = [kind EXCEPT ![u] = k]
           /\ main' = main /\ act[p] = Free
           /\ \A q \in Actors : q # p => act'[q] = act[q]
BY MainIsNoTid DEF Spawn, CanAct, ThreadInv, ThreadTypeOK, Actors

\* What goes on inside the runtime moves no thread back.
LEMMA RuntimeEffect ==
    ASSUME ThreadInv, [ThreadNext]_threadVars, NEW p \in Actors, Runtime(p)
    PROVE  /\ UNCHANGED <<objects, program, wpc, kind, main>>
           /\ \A t \in Tids : \/ life'[t] = life[t]
                              \/ life[t] = "counted" /\ life'[t] = "jit"
                              \/ life[t] = "ended" /\ life'[t] = "joined"
<1> USE DEF ThreadInv, ThreadTypeOK
<1>1. UNCHANGED <<objects, program, wpc>>  BY DEF Runtime
<1>2. CASE Start(p)
  <2>1. act[p].on \in Tids /\ life[act[p].on] = "counted"  BY <1>2 DEF Start, SpawnOwns
  <2> QED  BY <1>1, <1>2, <2>1 DEF Start
<1>3. CASE Joined(p)
  <2>1. act[p].on \in Tids  BY <1>3 DEF Joined, JoinHasHandle
  <2> QED  BY <1>1, <1>3, <2>1 DEF Joined
<1>4. CASE WaitAllDone(p)  BY <1>1, <1>4 DEF WaitAllDone
<1> QED  BY <1>2, <1>3, <1>4 DEF Runtime, ThreadStep

\* ProgInv is inductive.
LEMMA ProgInvStep ==
    ASSUME ThreadInv, DequeInv, ProgInv, [Next]_vars
    PROVE  ProgInv'
<1>0. /\ ThreadTypeOK /\ DequeInv /\ ProgTypes /\ Busy /\ Roles /\ Phases
      /\ Main \notin Tids /\ None \notin Tids
  BY MainIsNoTid, NoneIsNobody DEF ThreadInv, ProgInv, Actors
<1> USE DEF ProgInv
<1>1. CASE NewWorker
  <2>1. Spawn(Main, NextTid, "sys")  BY <1>1 DEF NewWorker
  <2>2. PICK u \in Tids : /\ life[u] = "none" /\ life' = [life EXCEPT ![u] = "counted"]
                          /\ kind' = [kind EXCEPT ![u] = "sys"] /\ main' = main
    BY <2>1, SpawnEffect DEF Actors
  <2>3. /\ UNCHANGED <<queue, deq, item, prog, helper, how, sub, wpc>> /\ left' = left - 1
        /\ prog = "new" /\ left > 0
    BY <1>1 DEF NewWorker, objects
  <2>4. ProgTypes'  BY <1>0, <2>3, PoolNotEmpty DEF ProgTypes
  <2>5. Busy'  BY <1>0, <2>2, <2>3 DEF Busy, ThreadTypeOK
  <2>6. Roles'  BY <1>0, <2>2, <2>3 DEF Roles, Phases, ThreadTypeOK
  <2>7. Phases'  BY <1>0, <2>2, <2>3 DEF Phases
  <2> QED  BY <2>4, <2>5, <2>6, <2>7
<1>2. CASE SpawnHelper
  <2>1. Spawn(Main, NextTid, "handle")  BY <1>2 DEF SpawnHelper
  <2>2. PICK u \in Tids : /\ u = NextTid /\ life[u] = "none"
                          /\ life' = [life EXCEPT ![u] = "counted"]
                          /\ kind' = [kind EXCEPT ![u] = "handle"] /\ main' = main
    BY <2>1, SpawnEffect DEF Actors
  <2>3. /\ UNCHANGED <<queue, deq, item, prog, left, how, sub>> /\ helper' = u
        /\ wpc' = [wpc EXCEPT ![u] = "helper"] /\ prog = "run" /\ helper = None
    BY <1>2, <2>2 DEF SpawnHelper, objects
  <2>4. ProgTypes'  BY <1>0, <2>3 DEF ProgTypes
  <2>5. Busy'  BY <1>0, <2>2, <2>3 DEF Busy, ThreadTypeOK, ProgTypes
  <2>6. Roles'  BY <1>0, <2>2, <2>3 DEF Roles, ThreadTypeOK, ProgTypes
  <2>7. Phases'  BY <1>0, <2>2, <2>3 DEF Phases
  <2> QED  BY <2>4, <2>5, <2>6, <2>7
<1>3. CASE JoinHelper
  <2>1. /\ UNCHANGED <<queue, deq, item, left, helper, how, sub, wpc, life, kind, main>>
        /\ prog \in {"run", "stop"} /\ prog' \in {"joined", "stop"} /\ main = "jit"
    BY <1>3 DEF JoinHelper, Join, CanAct, objects
  <2>2. ProgTypes' /\ Busy' /\ Roles'  BY <1>0, <2>1 DEF ProgTypes, Busy, Roles
  <2>3. Phases'  BY <1>0, <2>1 DEF Phases
  <2> QED  BY <2>2, <2>3
<1>4. CASE PoolReady \/ Shutdown
  <2>1. /\ UNCHANGED <<queue, deq, item, helper, how, sub, wpc, life, kind, main, act>>
        /\ left' \in {left, NWorkers} /\ act[Main] = Free /\ main = "jit"
    BY <1>4 DEF PoolReady, Shutdown, objects, threadVars, CanAct
  <2>2. prog' \in {"run", "stop"}  BY <1>4 DEF PoolReady, Shutdown
  <2>3. ProgTypes'  BY <1>0, <2>1, <2>2, PoolNotEmpty DEF ProgTypes
  <2>4. Busy' /\ Roles'  BY <1>0, <2>1 DEF Busy, Roles
  <2>5. Phases'  BY <1>0, <2>1, <2>2 DEF Phases
  <2> QED  BY <2>3, <2>4, <2>5
<1>5. CASE JoinAll \/ Leave
  <2>1. /\ UNCHANGED <<queue, deq, item, left, helper, how, sub, wpc, life, kind>>
        /\ prog \in Ending /\ left = 0
        /\ \/ prog' = "last" /\ main' = main
           \/ prog' = "left"
        /\ main = "jit"
    BY <1>5 DEF JoinAll, Leave, WaitAll, MainReturn, CanAct, objects, Ending
  <2>2. ProgTypes' /\ Busy' /\ Roles'  BY <1>0, <2>1 DEF ProgTypes, Busy, Roles
  <2>3. Phases'  BY <1>0, <2>1 DEF Phases
  <2> QED  BY <2>2, <2>3
<1>6. ASSUME NEW k \in Kinds, Run(k) PROVE ProgInv'
  <2>1. PICK y \in Tasks : /\ D!Add(y) /\ how' = [how EXCEPT ![y] = k]
                          /\ sub' = [sub EXCEPT ![y] = IF isShutdown THEN "late" ELSE "early"]
    BY <1>6 DEF Run, NextTask, Added
  <2>2. UNCHANGED <<prog, left, helper, wpc, life, kind, main, act>> /\ prog # "new"
    BY <1>6 DEF Run, threadVars
  <2>3. /\ item' = item
        /\ \A t \in Tids : deq'[t] = deq[t] \/ (deq[t] = "asleep" /\ deq'[t] = "lock")
    BY <2>1, AddEffect
  <2>4. ProgTypes'  BY <1>0, <2>1, <2>2, <2>3 DEF ProgTypes
  <2>5. Busy'  BY <1>0, <2>2, <2>3 DEF Busy
  <2>6. Roles' /\ Phases'  BY <1>0, <2>2 DEF Roles, Phases
  <2> QED  BY <2>4, <2>5, <2>6
<1>17. ASSUME NEW k \in Kinds, RunTest(k) PROVE ProgInv'
  <2>1. PICK y \in Tasks : how' = [how EXCEPT ![y] = k] /\ sub' = [sub EXCEPT ![y] = "called"]
    BY <1>17 DEF RunTest, NextTask
  <2>2. /\ UNCHANGED <<queue, deq, item, prog, left, helper, life, kind, main, act>>
        /\ helper \in Tids /\ wpc[helper] = "helper" /\ wpc' = [wpc EXCEPT ![helper] = "adding"]
    BY <1>17 DEF RunTest, threadVars, objects
  <2>3. ProgTypes'  BY <1>0, <2>1, <2>2 DEF ProgTypes
  <2>4. Busy'  BY <1>0, <2>2 DEF Busy, ProgTypes
  <2>5. Roles' /\ Phases'  BY <1>0, <2>2 DEF Roles, Phases, ProgTypes
  <2> QED  BY <2>3, <2>4, <2>5
<1>18. CASE RunAdd
  <2>1. PICK y \in Tasks :
           D!Add(y) /\ sub' = [sub EXCEPT ![y] = IF isShutdown THEN "late" ELSE "early"]
    BY <1>18 DEF RunAdd, Added
  <2>2. /\ UNCHANGED <<prog, left, helper, how, life, kind, main, act>>
        /\ helper \in Tids /\ wpc[helper] = "adding" /\ wpc' = [wpc EXCEPT ![helper] = "helper"]
    BY <1>18 DEF RunAdd, threadVars
  <2>3. /\ item' = item
        /\ \A t \in Tids : deq'[t] = deq[t] \/ (deq[t] = "asleep" /\ deq'[t] = "lock")
    BY <2>1, AddEffect
  <2>4. ProgTypes'  BY <1>0, <2>1, <2>2, <2>3 DEF ProgTypes
  <2>5. Busy'  BY <1>0, <2>2, <2>3 DEF Busy, ProgTypes
  <2>6. Roles'  BY <1>0, <2>2 DEF Roles, ProgTypes
  <2>7. Phases'  BY <1>0, <2>2 DEF Phases
  <2> QED  BY <2>4, <2>5, <2>6, <2>7
<1>7. CASE AddStop
  <2>1. D!Add(Stop) /\ prog = "stop" /\ left > 0 /\ left' = left - 1
    BY <1>7 DEF AddStop
  <2>2. UNCHANGED <<prog, helper, how, sub, wpc, life, kind, main, act>>
    BY <1>7 DEF AddStop, threadVars
  <2>3. /\ item' = item
        /\ \A t \in Tids : deq'[t] = deq[t] \/ (deq[t] = "asleep" /\ deq'[t] = "lock")
    BY <2>1, AddEffect
  <2>4. ProgTypes'  BY <1>0, <2>1, <2>2, <2>3, PoolNotEmpty DEF ProgTypes
  <2>5. Busy'  BY <1>0, <2>2, <2>3 DEF Busy
  <2>6. Roles' /\ Phases'  BY <1>0, <2>1, <2>2 DEF Roles, Phases
  <2> QED  BY <2>4, <2>5, <2>6
<1>8. ASSUME NEW t \in Tids, PopStep(t) \/ PopSpurious(t) PROVE ProgInv'
  <2>1. /\ UNCHANGED <<prog, left, helper, how, sub, wpc, life, kind, main, act>>
        /\ life[t] = "jit" /\ wpc[t] = "loop"
    BY <1>0, <1>8
    DEF PopStep, PopSpurious, D!PopSpurious, threadVars, program, Working, CanAct, Busy
  <2>2. deq' \in [Tids -> {"out", "lock", "asleep", "got"}]
        /\ \A u \in Tids : u # t => deq'[u] = deq[u] /\ item'[u] = item[u]
    BY <1>0, <1>8 DEF PopStep, PopSpurious, D!PopSpurious, D!Pop, D!PopTake, D!PopSleep,
       DequeInv, ProgTypes
  <2>3. /\ item' \in [Tids -> Tasks \cup {Stop, None}]
        /\ deq'[t] = "got" => item'[t] \in Tasks \cup {Stop}
    BY <1>0, <1>8 DEF PopStep, PopSpurious, D!PopSpurious, D!Pop, D!PopTake, D!PopSleep,
       DequeInv, ProgTypes
  <2>4. queue = <<>> => queue' = <<>>
    BY <1>8 DEF PopStep, PopSpurious, D!PopSpurious, D!Pop, D!PopTake, D!PopSleep
  <2>5. ProgTypes'  BY <1>0, <2>1, <2>3 DEF ProgTypes
  <2>6. Busy'  BY <1>0, <2>1, <2>2, <2>3 DEF Busy
  <2>7. Roles' /\ Phases'  BY <1>0, <2>1, <2>4 DEF Roles, Phases
  <2> QED  BY <2>5, <2>6, <2>7
<1>9. ASSUME NEW t \in Tids, CallTask(t) PROVE ProgInv'
  <2>1. /\ UNCHANGED <<queue, item, prog, left, helper, how, sub, life, kind, main, act>>
        /\ deq' = [deq EXCEPT ![t] = "out"] /\ life[t] = "jit" /\ wpc[t] \notin {"helper", "adding"}
        /\ \E w \in {"over", "task"} : wpc' = [wpc EXCEPT ![t] = w]
    BY <1>0, <1>9 DEF CallTask, threadVars, Working, CanAct
  <2> QED  BY <1>0, <2>1 DEF ProgTypes, Busy, Roles, Phases, DequeInv
<1>10. ASSUME NEW t \in Tids, AskPermit(t) \/ EndTask(t) PROVE ProgInv'
  <2>1. /\ UNCHANGED <<queue, deq, item, prog, left, helper, how, sub, life, kind, main, act>>
        /\ life[t] = "jit" /\ wpc[t] \in {"task", "permit"}
        /\ \E w \in {"permit", "catch", "loop"} : wpc' = [wpc EXCEPT ![t] = w]
    BY <1>0, <1>10 DEF AskPermit, EndTask, threadVars, program, Working, CanAct
  <2> QED  BY <1>0, <2>1 DEF ProgTypes, Busy, Roles, Phases
<1>11. ASSUME NEW t \in Tids, Replace(t) PROVE ProgInv'
  <2>1. Spawn(t, NextTid, "sys")  BY <1>11 DEF Replace
  <2>2. PICK u \in Tids : /\ life[u] = "none" /\ life' = [life EXCEPT ![u] = "counted"]
                          /\ kind' = [kind EXCEPT ![u] = "sys"] /\ main' = main
    BY <1>0, <2>1, SpawnEffect DEF Actors
  <2>3. /\ UNCHANGED <<queue, deq, item, prog, left, helper, how, sub>>
        /\ wpc' = [wpc EXCEPT ![t] = "over"] /\ wpc[t] = "catch" /\ life[t] = "jit"
    BY <1>0, <1>11 DEF Replace, objects, program, Working, CanAct
  <2>4. ProgTypes'  BY <1>0, <2>3 DEF ProgTypes
  <2>5. Busy'  BY <1>0, <2>2, <2>3 DEF Busy, ThreadTypeOK, ProgTypes
  <2>6. Roles'  BY <1>0, <2>2, <2>3 DEF Roles, ThreadTypeOK, ProgTypes
  <2>7. Phases'  BY <1>0, <2>2, <2>3 DEF Phases
  <2> QED  BY <2>4, <2>5, <2>6, <2>7
<1>12. ASSUME NEW t \in Tids, WorkerReturns(t) \/ RuntimeCount(t) \/ (HelperReturns /\ t = helper)
       PROVE  ProgInv'
  <2>1. /\ UNCHANGED <<queue, deq, item, prog, left, helper, how, sub, wpc, kind, main, act>>
        /\ life[t] = "jit" => wpc[t] \in {"over", "helper"}
        /\ \E l \in {"returned", "ended"} : life' = [life EXCEPT ![t] = l]
    BY <1>0, <1>12 DEF WorkerReturns, RuntimeCount, HelperReturns, Return, CountDown, CanAct,
       objects, program, Roles
  <2>2. life[t] \in {"jit", "returned"}
    BY <1>0, <1>12 DEF WorkerReturns, RuntimeCount, HelperReturns, Return, CountDown, CanAct
  <2>3. ProgTypes'  BY <1>0, <2>1 DEF ProgTypes
  <2>4. Busy'  BY <1>0, <2>1, <2>2 DEF Busy, ThreadTypeOK
  <2>5. Roles'  BY <1>0, <2>1, <2>2 DEF Roles, ThreadTypeOK
  <2>6. Phases'  BY <1>0, <2>1, <2>2 DEF Phases
  <2> QED  BY <2>3, <2>4, <2>5, <2>6
<1>13. ASSUME NEW p \in Actors, Runtime(p) PROVE ProgInv'
  <2>1. /\ UNCHANGED <<queue, deq, item, prog, left, helper, how, sub, wpc, kind, main>>
        /\ \A t \in Tids : \/ life'[t] = life[t]
                           \/ life[t] = "counted" /\ life'[t] = "jit"
                           \/ life[t] = "ended" /\ life'[t] = "joined"
    BY <1>13, ProgramStep, RuntimeEffect DEF objects, program, Actors
  <2>2. ProgTypes' /\ Busy'  BY <1>0, <2>1 DEF ProgTypes, Busy
  <2>3. Roles'  BY <1>0, <2>1 DEF Roles
  <2>4. Phases'  BY <1>0, <2>1 DEF Phases
  <2> QED  BY <2>2, <2>3, <2>4
<1>14. ASSUME NEW t \in Tids, PermitStep(t) \/ PermitSpurious(t) PROVE ProgInv'
  <2>1. UNCHANGED <<queue, deq, item, prog, left, helper, how, sub, wpc, life, kind, main, act>>
    BY <1>14 DEF PermitStep, PermitSpurious, threadVars, program
  <2> QED  BY <1>0, <2>1 DEF ProgTypes, Busy, Roles, Phases
<1>15. CASE RuntimeMain
  <2>1. /\ UNCHANGED <<queue, deq, item, prog, left, helper, how, sub, wpc, life, kind, act>>
        /\ main # "jit"
    BY <1>15 DEF RuntimeMain, MainStep, MainWaited, Cleanup, objects, program
  <2> QED  BY <1>0, <2>1 DEF ProgTypes, Busy, Roles, Phases
<1>16. CASE UNCHANGED vars
  BY <1>0, <1>16 DEF vars, threadVars, objects, program, ProgTypes, Busy, Roles, Phases
<1> HIDE DEF ProgInv
<1> QED  BY <1>1, <1>2, <1>3, <1>4, <1>5, <1>6, <1>7, <1>8, <1>9, <1>10, <1>11, <1>12,
            <1>13, <1>14, <1>15, <1>16, <1>17, <1>18
         DEF Next, MainProgram, HelperProgram, Worker, Actors, HelperReturns
-----------------------------------------------------------------------------
(* Every task in one place *)

InQueue(x) == {i \in 1 .. Len(queue) : queue[i] = x}
GotBy(x) == {t \in Tids : deq[t] = "got" /\ item[t] = x}

\* A task that was added is in the queue, in the hands of a worker, or has been
\* called; never two of these.
TaskInv ==
    /\ ran \in [Tasks -> 0 .. 1]
    /\ \A x \in Tasks :
        /\ how[x] = "none" <=> sub[x] = "new"
        /\ sub[x] \in {"new", "called"} => ran[x] = 0 /\ InQueue(x) = {} /\ GotBy(x) = {}
        /\ sub[x] \in {"early", "late"} => ran[x] = 1 \/ InQueue(x) # {} \/ GotBy(x) # {}
        /\ ran[x] = 1 => InQueue(x) = {} /\ GotBy(x) = {}
        /\ InQueue(x) = {} \/ GotBy(x) = {}
        /\ \A i, j \in InQueue(x) : i = j
        /\ \A t, u \in GotBy(x) : t = u

\* add puts its element at the end ...
LEMMA AddPlaces ==
    ASSUME DequeInv, NEW y \in Tasks \cup {Stop}, D!Add(y)
    PROVE  /\ Len(queue') = Len(queue) + 1 /\ Len(queue) \in Nat
           /\ \A i \in 1 .. Len(queue) : queue'[i] = queue[i]
           /\ queue'[Len(queue) + 1] = y
           /\ \A x : InQueue(x)' = InQueue(x) \cup {i \in {Len(queue) + 1} : x = y}
           /\ \A x : GotBy(x)' = GotBy(x)
<1>1. queue' = Append(queue, y) /\ queue \in Seq(Tasks \cup {Stop})  BY DEF D!Add, DequeInv
<1>2. /\ Len(queue') = Len(queue) + 1 /\ Len(queue) \in Nat
      /\ \A i \in 1 .. Len(queue) : queue'[i] = queue[i]
      /\ queue'[Len(queue) + 1] = y
  BY <1>1
<1>3. \A x : InQueue(x)' = InQueue(x) \cup {i \in {Len(queue) + 1} : x = y}
  BY <1>2 DEF InQueue
<1>4. \A x : GotBy(x)' = GotBy(x)  BY AddEffect DEF GotBy, DequeInv
<1> QED  BY <1>2, <1>3, <1>4

\* ... and a pop takes the first.
LEMMA TakePlaces ==
    ASSUME DequeInv, ProgInv, NEW t \in Tids, D!PopTake(t)
    PROVE  /\ Len(queue) \in Nat \ {0} /\ Len(queue') = Len(queue) - 1
           /\ queue[1] \in Tasks \cup {Stop}
           /\ \A i \in 1 .. Len(queue) - 1 : queue'[i] = queue[i + 1]
           /\ \A x : \A i : i \in InQueue(x)' <=> i \in 1 .. Len(queue) - 1 /\ i + 1 \in InQueue(x)
           /\ \A x : GotBy(x)' = GotBy(x) \cup {u \in {t} : x = queue[1]}
           /\ \A x : t \notin GotBy(x)
<1>1. /\ queue' = Tail(queue) /\ queue \in Seq(Tasks \cup {Stop}) /\ queue # <<>>
      /\ deq[t] = "lock" /\ deq' = [deq EXCEPT ![t] = "got"]
      /\ item' = [item EXCEPT ![t] = queue[1]]
  BY DEF D!PopTake, DequeInv
<1>2. /\ Len(queue) \in Nat \ {0} /\ Len(queue') = Len(queue) - 1
      /\ queue[1] \in Tasks \cup {Stop}
      /\ \A i \in 1 .. Len(queue) - 1 : queue'[i] = queue[i + 1]
  BY <1>1
<1>3. \A x : \A i : i \in InQueue(x)' <=> i \in 1 .. Len(queue) - 1 /\ i + 1 \in InQueue(x)
  BY <1>2 DEF InQueue
<1>4. \A x : t \notin GotBy(x)  BY <1>1 DEF GotBy
<1>5. \A x : GotBy(x)' = GotBy(x) \cup {u \in {t} : x = queue[1]}
  BY <1>1 DEF GotBy, DequeInv, ProgInv, ProgTypes
<1> QED  BY <1>2, <1>3, <1>4, <1>5

\* TaskInv is inductive.
LEMMA TaskInvStep ==
    ASSUME DequeInv, ProgInv, TaskInv, [Next]_vars
    PROVE  TaskInv'
<1>0. /\ how \in [Tasks -> Kinds \cup {"none"}]
      /\ sub \in [Tasks -> {"new", "called", "early", "late"}]
  BY DEF ProgInv, ProgTypes
<1>1. ASSUME UNCHANGED <<how, sub, ran>>, \A x : InQueue(x)' = InQueue(x) /\ GotBy(x)' = GotBy(x)
      PROVE  TaskInv'
  BY <1>1 DEF TaskInv
<1>2. CASE UNCHANGED <<queue, deq, item, how, sub, ran>>
  <2>1. \A x : InQueue(x)' = InQueue(x) /\ GotBy(x)' = GotBy(x)  BY <1>2 DEF InQueue, GotBy
  <2> QED  BY <1>1, <1>2, <2>1
<1>3. ASSUME NEW y \in Tasks, sub[y] \in {"new", "called"}, D!Add(y), ran' = ran,
             NEW s \in {"early", "late"}, sub' = [sub EXCEPT ![y] = s],
             how'[y] # "none", \A x \in Tasks : x # y => how'[x] = how[x]
      PROVE  TaskInv'
  <2>1. /\ \A x : InQueue(x)' = InQueue(x) \cup {i \in {Len(queue) + 1} : x = y}
        /\ \A x : GotBy(x)' = GotBy(x)
    BY <1>3, AddPlaces
  <2>2. ran[y] = 0 /\ InQueue(y) = {} /\ GotBy(y) = {}  BY <1>3 DEF TaskInv
  <2>3. InQueue(y)' = {Len(queue) + 1} /\ sub'[y] = s  BY <1>0, <1>3, <2>1, <2>2
  <2>4. \A x \in Tasks : x # y => InQueue(x)' = InQueue(x) /\ sub'[x] = sub[x]
    BY <1>0, <1>3, <2>1
  <2> QED  BY <1>3, <2>1, <2>2, <2>3, <2>4, SMTT(20) DEF TaskInv
<1>9. ASSUME NEW k \in Kinds, Run(k) PROVE TaskInv'
  <2>1. PICK y \in Tasks : /\ how[y] = "none" /\ D!Add(y) /\ how' = [how EXCEPT ![y] = k]
                          /\ sub' = [sub EXCEPT ![y] = IF isShutdown THEN "late" ELSE "early"]
    BY <1>9 DEF Run, NextTask, Added
  <2>2. sub[y] = "new" /\ ran' = ran  BY <1>9, <2>1 DEF TaskInv, Run
  <2>3. how'[y] # "none" /\ \A x \in Tasks : x # y => how'[x] = how[x]
    BY <1>0, <2>1, NoneIsNoKind
  <2> QED  BY <1>3, <2>1, <2>2, <2>3
<1>10. CASE RunAdd
  <2>1. PICK y \in Tasks : /\ sub[y] = "called" /\ D!Add(y)
                          /\ sub' = [sub EXCEPT ![y] = IF isShutdown THEN "late" ELSE "early"]
    BY <1>10 DEF RunAdd, Added
  <2>2. how[y] # "none" /\ UNCHANGED <<how, ran>>  BY <1>10, <2>1 DEF TaskInv, RunAdd
  <2> QED  BY <1>3, <2>1, <2>2
<1>11. ASSUME NEW k \in Kinds, RunTest(k) PROVE TaskInv'
  <2>1. PICK y \in Tasks : /\ how[y] = "none" /\ how' = [how EXCEPT ![y] = k]
                          /\ sub' = [sub EXCEPT ![y] = "called"]
    BY <1>11 DEF RunTest, NextTask
  <2>2. UNCHANGED <<queue, deq, item, ran>>  BY <1>11 DEF RunTest, objects
  <2>3. \A x : InQueue(x)' = InQueue(x) /\ GotBy(x)' = GotBy(x)  BY <2>2 DEF InQueue, GotBy
  <2>4. how'[y] # "none" /\ sub'[y] = "called" /\ sub[y] = "new"
    BY <1>0, <2>1, NoneIsNoKind DEF TaskInv
  <2>5. \A x \in Tasks : x # y => how'[x] = how[x] /\ sub'[x] = sub[x]  BY <1>0, <2>1
  <2> QED  BY <2>2, <2>3, <2>4, <2>5 DEF TaskInv
<1>4. CASE AddStop
  <2>1. D!Add(Stop) /\ UNCHANGED <<how, sub, ran>>  BY <1>4 DEF AddStop
  <2>2. /\ \A x : InQueue(x)' = InQueue(x) \cup {i \in {Len(queue) + 1} : x = Stop}
        /\ \A x : GotBy(x)' = GotBy(x)
    BY <2>1, AddPlaces
  <2>3. \A x \in Tasks : InQueue(x)' = InQueue(x)  BY <2>2, StopIsNoTask
  <2> QED  BY <2>1, <2>2, <2>3 DEF TaskInv
<1>5. ASSUME NEW t \in Tids, PopStep(t) \/ PopSpurious(t) PROVE TaskInv'
  <2>1. UNCHANGED <<how, sub, ran>>  BY <1>5 DEF PopStep, PopSpurious, program
  <2>2. CASE D!PopTake(t)
    <3>0. PICK y : y = queue[1]  OBVIOUS
    <3>1. /\ Len(queue) \in Nat \ {0}
          /\ \A x : \A i : i \in InQueue(x)' <=> i \in 1 .. Len(queue) - 1 /\ i + 1 \in InQueue(x)
          /\ \A x : GotBy(x)' = GotBy(x) \cup {u \in {t} : x = y}
          /\ \A x : t \notin GotBy(x)
      BY <2>2, <3>0, TakePlaces
    <3>2. 1 \in InQueue(y)  BY <3>0, <3>1 DEF InQueue
    <3>3. \A x : InQueue(x) \subseteq 1 .. Len(queue) /\ (x # y => 1 \notin InQueue(x))
      BY <3>0 DEF InQueue
    <3>4. ASSUME NEW x \in Tasks, x # y
          PROVE  /\ GotBy(x)' = GotBy(x) /\ (InQueue(x)' = {} <=> InQueue(x) = {})
                 /\ \A i, j \in InQueue(x)' : i = j
      <4>1. GotBy(x)' = GotBy(x)  BY <3>1, <3>4
      <4>2. ASSUME NEW i \in InQueue(x) PROVE i - 1 \in InQueue(x)'
        <5>1. i \in 2 .. Len(queue)  BY <3>1, <3>3, <3>4, <4>2
        <5>2. i - 1 \in 1 .. Len(queue) - 1 /\ (i - 1) + 1 = i  BY <3>1, <5>1
        <5> QED  BY <3>1, <4>2, <5>2
      <4>3. ASSUME NEW i \in InQueue(x)', NEW j \in InQueue(x)' PROVE i = j
        <5>1. i \in Int /\ j \in Int /\ i + 1 \in InQueue(x) /\ j + 1 \in InQueue(x)
          BY <3>1
        <5>2. i + 1 = j + 1  BY <5>1 DEF TaskInv
        <5> QED  BY <5>1, <5>2
      <4>4. InQueue(x)' # {} => InQueue(x) # {}  BY <3>1
      <4> QED  BY <4>1, <4>2, <4>3, <4>4
    <3>5. ASSUME y \in Tasks
          PROVE  /\ InQueue(y)' = {} /\ GotBy(y)' = {t} /\ ran[y] = 0 /\ sub[y] \in {"early", "late"}
      <4>1. InQueue(y) # {} /\ \A i \in InQueue(y) : i = 1  BY <3>2, <3>5 DEF TaskInv
      <4>2. InQueue(y)' = {}  BY <3>1, <4>1
      <4>3. GotBy(y) = {} /\ ran[y] = 0 /\ sub[y] \in {"early", "late"}  BY <1>0, <3>5, <4>1 DEF TaskInv
      <4> QED  BY <3>1, <4>2, <4>3
    <3> QED  BY <2>1, <3>4, <3>5 DEF TaskInv
  <2>3. CASE D!Pop(t) \/ D!PopSleep(t) \/ D!PopSpurious(t)
    <3>1. queue' = queue /\ item' = item /\ \A x : GotBy(x)' = GotBy(x)
      BY <2>3 DEF D!Pop, D!PopSleep, D!PopSpurious, GotBy, DequeInv
    <3>2. \A x : InQueue(x)' = InQueue(x)  BY <3>1 DEF InQueue
    <3> QED  BY <1>1, <2>1, <3>1, <3>2
  <2> QED  BY <1>5, <2>2, <2>3 DEF PopStep, PopSpurious
<1>6. ASSUME NEW t \in Tids, CallTask(t) PROVE TaskInv'
  <2>0. PICK y : y = item[t]  OBVIOUS
  <2>1. /\ deq[t] = "got" /\ deq' = [deq EXCEPT ![t] = "out"] /\ UNCHANGED <<queue, item, how, sub>>
        /\ y \in Tasks \cup {Stop}
    BY <1>6, <2>0 DEF CallTask, ProgInv, Busy
  <2>2. \A x : InQueue(x)' = InQueue(x) /\ GotBy(x)' = GotBy(x) \ {t} /\ (t \in GotBy(x) <=> x = y)
    BY <2>0, <2>1 DEF InQueue, GotBy, DequeInv
  <2>3. IF y = Stop THEN UNCHANGED ran ELSE ran' = [ran EXCEPT ![y] = @ + 1]
    BY <1>6, <2>0 DEF CallTask
  <2>4. CASE y = Stop
    <3>1. \A x \in Tasks : GotBy(x)' = GotBy(x)  BY <2>2, <2>4, StopIsNoTask
    <3> QED  BY <2>1, <2>2, <2>3, <2>4, <3>1 DEF TaskInv
  <2>5. CASE y # Stop
    <3>1. y \in Tasks /\ t \in GotBy(y)  BY <2>1, <2>2, <2>5
    <3>2. ran[y] = 0 /\ InQueue(y) = {} /\ \A u \in GotBy(y) : u = t
      BY <3>1 DEF TaskInv
    <3>6. sub[y] \in {"early", "late"}  BY <1>0, <3>1 DEF TaskInv
    <3>3. ran' = [ran EXCEPT ![y] = 1]  BY <2>3, <2>5, <3>1, <3>2 DEF TaskInv
    <3>4. GotBy(y)' = {}  BY <2>2, <3>2
    <3>5. \A x \in Tasks : x # y => GotBy(x)' = GotBy(x)  BY <2>2
    <3> QED  BY <2>1, <2>2, <3>1, <3>2, <3>3, <3>4, <3>5, <3>6 DEF TaskInv
  <2> QED  BY <2>4, <2>5
<1>7. CASE \/ NewWorker \/ PoolReady \/ SpawnHelper \/ JoinHelper \/ Shutdown
           \/ JoinAll \/ Leave \/ RuntimeMain \/ HelperReturns \/ UNCHANGED vars
  BY <1>2, <1>7 DEF NewWorker, PoolReady, SpawnHelper, JoinHelper, Shutdown, JoinAll,
     Leave, RuntimeMain, HelperReturns, vars, objects, program
<1>8. ASSUME NEW t \in Actors,
             \/ Runtime(t) \/ RuntimeCount(t) \/ AskPermit(t) \/ PermitStep(t)
             \/ PermitSpurious(t) \/ EndTask(t) \/ Replace(t) \/ WorkerReturns(t)
      PROVE  TaskInv'
  BY <1>2, <1>8 DEF Runtime, RuntimeCount, AskPermit, PermitStep, PermitSpurious, EndTask,
     Replace, WorkerReturns, objects, program
<1> QED  BY <1>4, <1>5, <1>6, <1>7, <1>8, <1>9, <1>10, <1>11
         DEF Next, MainProgram, HelperProgram, Worker, Actors
-----------------------------------------------------------------------------
(* One shutdownTask per worker *)

\* The workers that have not taken a shutdownTask; a replacement takes over
\* the place of the worker it replaces.
Slots == {t \in Tids : /\ life[t] \in {"counted", "jit"}
                       /\ kind[t] = "sys" /\ wpc[t] # "over"}

\* The places in the queue of the tasks that came before shutdown.
EarlyAt == {i \in 1 .. Len(queue) : queue[i] \in Tasks /\ sub[queue[i]] = "early"}

\* Before shutdown there are as many workers as were created and no stop;
\* after it every stop is behind the early tasks, so that a worker that took a
\* stop has left none of them in the queue.
StopInv ==
    /\ prog = "new" => Cardinality(Slots) = NWorkers - left
    /\ prog \in {"run", "joined"} => Cardinality(Slots) = NWorkers
    /\ prog \notin Ending => InQueue(Stop) = {} /\ GotBy(Stop) = {}
    /\ \A i \in EarlyAt, j \in InQueue(Stop) : i < j
    /\ GotBy(Stop) # {} \/ Cardinality(Slots) < NWorkers => EarlyAt = {}

\* Slots and the holders of a stop are finite sets.
LEMMA SlotSize ==
    /\ Slots \subseteq Tids /\ GotBy(Stop) \subseteq Tids
    /\ Cardinality(Slots) \in Nat /\ Cardinality(GotBy(Stop)) \in Nat
<1>1. Slots \subseteq Tids /\ GotBy(Stop) \subseteq Tids  BY DEF Slots, GotBy
<1> QED  BY <1>1, CountedSize

\* The initial state.
LEMMA StopInvInit == Init => StopInv
<1> SUFFICES ASSUME Init PROVE StopInv  OBVIOUS
<1>1. /\ queue = <<>> /\ prog = "new" /\ left = NWorkers /\ life = [t \in Tids |-> "none"]
      /\ deq = [t \in Tids |-> "out"]
  BY DEF Init, D!DequeInit, ThreadInit
<1>2. Slots = {} /\ GotBy(Stop) = {}  BY <1>1 DEF Slots, GotBy
<1>3. Cardinality(Slots) = 0  BY <1>2, FS_EmptySet
<1>4. EarlyAt = {} /\ InQueue(Stop) = {}  BY <1>1 DEF EarlyAt, InQueue
<1> QED  BY <1>1, <1>2, <1>3, <1>4, PoolNotEmpty DEF StopInv, Ending

\* Slots change when a worker is created or takes a stop, and a replacement
\* takes the place of the worker it replaces.
LEMMA SlotsSame ==
    ASSUME ThreadInv, DequeInv, ProgInv, [Next]_vars,
           NEW t, NEW p \in Actors, NEW k,
           \/ PoolReady \/ SpawnHelper \/ JoinHelper \/ Shutdown \/ AddStop \/ JoinAll \/ Leave
           \/ Run(k) \/ RunTest(k) \/ RunAdd
           \/ RuntimeMain \/ (HelperReturns /\ t = helper) \/ Runtime(p)
           \/ UNCHANGED vars
           \/ /\ t \in Tids
              /\ \/ PopStep(t) \/ PopSpurious(t) \/ AskPermit(t) \/ PermitStep(t)
                 \/ PermitSpurious(t) \/ EndTask(t) \/ WorkerReturns(t) \/ RuntimeCount(t)
    PROVE  Slots' = Slots
<1>0. ThreadTypeOK /\ ProgTypes /\ Busy /\ Roles /\ Main \notin Tids /\ None \notin Tids
  BY MainIsNoTid, NoneIsNobody DEF ThreadInv, ProgInv, Actors
<1>1. CASE UNCHANGED <<life, kind, wpc>>  BY <1>1 DEF Slots
<1>2. CASE \/ PoolReady \/ JoinHelper \/ Shutdown \/ AddStop \/ JoinAll \/ Leave
           \/ Run(k) \/ RuntimeMain \/ PopStep(t) \/ PopSpurious(t) \/ PermitStep(t)
           \/ PermitSpurious(t) \/ UNCHANGED vars
  BY <1>1, <1>2 DEF PoolReady, JoinHelper, Join, Shutdown, AddStop, JoinAll, WaitAll, Leave,
     MainReturn, Run, RuntimeMain, MainStep, MainWaited, Cleanup, PopStep, PopSpurious,
     PermitStep, PermitSpurious, threadVars, vars
<1>3. CASE SpawnHelper
  <2>1. PICK u \in Tids : /\ u = NextTid /\ life[u] = "none"
                          /\ life' = [life EXCEPT ![u] = "counted"]
                          /\ kind' = [kind EXCEPT ![u] = "handle"]
    BY <1>3, SpawnEffect DEF SpawnHelper, Actors
  <2>2. wpc' = [wpc EXCEPT ![u] = "helper"]  BY <1>3, <2>1 DEF SpawnHelper
  <2> QED  BY <1>0, <2>1, <2>2 DEF Slots, ThreadTypeOK, ProgTypes
<1>4. ASSUME t \in Tids, (HelperReturns /\ t = helper) \/ WorkerReturns(t) \/ RuntimeCount(t)
      PROVE  Slots' = Slots
  <2>1. /\ UNCHANGED <<kind, wpc>> /\ t \notin Slots
        /\ \E l \in {"returned", "ended"} : life' = [life EXCEPT ![t] = l]
    BY <1>0, <1>4 DEF HelperReturns, WorkerReturns, RuntimeCount, Return, CountDown, Roles,
       Slots
  <2> QED  BY <1>0, <2>1 DEF Slots, ThreadTypeOK
<1>5. CASE Runtime(p)
  <2>1. /\ UNCHANGED <<wpc, kind>>
        /\ \A u \in Tids : \/ life'[u] = life[u]
                           \/ life[u] = "counted" /\ life'[u] = "jit"
                           \/ life[u] = "ended" /\ life'[u] = "joined"
    BY <1>5, ProgramStep, RuntimeEffect
  <2> QED  BY <2>1 DEF Slots
<1>6. ASSUME t \in Tids, AskPermit(t) \/ EndTask(t)
      PROVE  Slots' = Slots
  <2>1. /\ UNCHANGED <<life, kind>> /\ wpc[t] \in {"task", "permit"}
        /\ \E w \in {"permit", "catch", "loop"} : wpc' = [wpc EXCEPT ![t] = w]
    BY <1>6 DEF AskPermit, EndTask, threadVars
  <2> QED  BY <1>0, <2>1 DEF Slots, ProgTypes
<1>7. CASE RunTest(k) \/ RunAdd
  <2>1. /\ UNCHANGED <<life, kind>> /\ helper \in Tids
        /\ \E w \in {"helper", "adding"} : wpc' = [wpc EXCEPT ![helper] = w]
    BY <1>7 DEF RunTest, RunAdd, threadVars
  <2>2. kind[helper] = "handle"  BY <1>0, <2>1 DEF Roles
  <2> QED  BY <1>0, <2>1, <2>2 DEF Slots, ProgTypes
<1> QED  BY <1>2, <1>3, <1>4, <1>5, <1>6, <1>7 DEF HelperReturns

\* StopInv is inductive.
LEMMA StopInvStep ==
    ASSUME ThreadInv, DequeInv, ProgInv, TaskInv, StopInv, [Next]_vars
    PROVE  StopInv'
<1>0. /\ ThreadTypeOK /\ ProgTypes /\ Busy /\ Roles /\ Phases /\ NWorkers \in Nat \ {0}
      /\ Main \notin Tids /\ None \notin Tids /\ Len(queue) \in Nat
      /\ left \in 0 .. NWorkers /\ queue \in Seq(Tasks \cup {Stop})
      /\ sub \in [Tasks -> {"new", "called", "early", "late"}]
  BY MainIsNoTid, NoneIsNobody, PoolNotEmpty DEF ThreadInv, ProgInv, ProgTypes, Actors, DequeInv
<1>1. ASSUME UNCHANGED <<prog, left>>, Slots' = Slots, GotBy(Stop)' = GotBy(Stop),
             InQueue(Stop)' = InQueue(Stop), EarlyAt' \subseteq EarlyAt
      PROVE  StopInv'
  BY <1>1 DEF StopInv
\* Steps that leave the queue and the phase alone.
<1>2. ASSUME NEW t, NEW p \in Actors,
             \/ SpawnHelper \/ RuntimeMain \/ (HelperReturns /\ t = helper) \/ Runtime(p)
             \/ UNCHANGED vars
             \/ /\ t \in Tids
                /\ \/ AskPermit(t) \/ PermitStep(t) \/ PermitSpurious(t)
                   \/ EndTask(t) \/ WorkerReturns(t) \/ RuntimeCount(t)
      PROVE  StopInv'
  <2>1. UNCHANGED <<queue, deq, item, prog, left, sub>>
    BY <1>2 DEF SpawnHelper, RuntimeMain, HelperReturns, Runtime, AskPermit, PermitStep,
       PermitSpurious, EndTask, WorkerReturns, RuntimeCount, vars, objects, program
  <2>2. Slots' = Slots  BY <1>2, SlotsSame
  <2>3. GotBy(Stop)' = GotBy(Stop) /\ InQueue(Stop)' = InQueue(Stop) /\ EarlyAt' = EarlyAt
    BY <2>1 DEF GotBy, InQueue, EarlyAt
  <2> QED  BY <1>1, <2>1, <2>2, <2>3
<1>3. ASSUME NEW t \in Tids, D!Pop(t) \/ D!PopSleep(t) \/ D!PopSpurious(t),
             PopStep(t) \/ PopSpurious(t)
      PROVE  StopInv'
  <2>1. UNCHANGED <<queue, item, prog, left, sub>>
    BY <1>3 DEF PopStep, PopSpurious, D!Pop, D!PopSleep, D!PopSpurious, program
  <2>2. Slots' = Slots  BY <1>3, SlotsSame DEF Actors
  <2>3. GotBy(Stop)' = GotBy(Stop)
    BY <1>3 DEF D!Pop, D!PopSleep, D!PopSpurious, GotBy, DequeInv
  <2>4. InQueue(Stop)' = InQueue(Stop) /\ EarlyAt' = EarlyAt  BY <2>1 DEF InQueue, EarlyAt
  <2> QED  BY <1>1, <2>1, <2>2, <2>3, <2>4
\* The main function goes on.
<1>4. CASE PoolReady \/ JoinHelper \/ Shutdown \/ JoinAll \/ Leave
  <2>1. UNCHANGED <<queue, deq, item, sub>>
    BY <1>4 DEF PoolReady, JoinHelper, Shutdown, JoinAll, Leave, objects
  <2>2. Slots' = Slots
    BY <1>4, SlotsSame DEF Actors
  <2>3. GotBy(Stop)' = GotBy(Stop) /\ InQueue(Stop)' = InQueue(Stop) /\ EarlyAt' = EarlyAt
    BY <2>1 DEF GotBy, InQueue, EarlyAt
  <2>4. \/ prog = "new" /\ left = 0 /\ prog' = "run"
        \/ prog = "run" /\ prog' = "joined"
        \/ prog \in {"run", "joined"} /\ prog' = "stop"
        \/ prog \in Ending /\ prog' \in Ending
    BY <1>4 DEF PoolReady, JoinHelper, Shutdown, JoinAll, Leave, Ending
  <2> QED  BY <1>0, <2>2, <2>3, <2>4, SlotSize DEF StopInv, Ending
<1>5. CASE NewWorker
  <2>1. /\ UNCHANGED <<queue, deq, item, prog, wpc, sub>> /\ prog = "new" /\ left > 0
        /\ left' = left - 1
    BY <1>5 DEF NewWorker, objects
  <2>2. PICK u \in Tids : /\ life[u] = "none" /\ life' = [life EXCEPT ![u] = "counted"]
                          /\ kind' = [kind EXCEPT ![u] = "sys"]
    BY <1>5, SpawnEffect DEF NewWorker, Actors
  <2>3. Slots' = Slots \cup {u} /\ u \notin Slots
    BY <1>0, <2>1, <2>2 DEF Slots, ThreadTypeOK, Roles
  <2>4. Cardinality(Slots') = Cardinality(Slots) + 1  BY <2>3, SlotSize, CountedSize
  <2>5. GotBy(Stop)' = GotBy(Stop) /\ InQueue(Stop)' = InQueue(Stop)
    BY <2>1 DEF GotBy, InQueue
  <2>6. EarlyAt' = {}  BY <1>0, <2>1 DEF EarlyAt, Phases
  <2> QED  BY <1>0, <2>1, <2>4, <2>5, <2>6, SlotSize DEF StopInv, Ending
<1>6. ASSUME NEW t \in Tids, Replace(t) PROVE StopInv'
  <2>1. /\ UNCHANGED <<queue, deq, item, prog, left, sub>> /\ wpc' = [wpc EXCEPT ![t] = "over"]
        /\ wpc[t] = "catch" /\ life[t] = "jit" /\ kind[t] = "sys"
    BY <1>0, <1>6 DEF Replace, objects, program, Working, CanAct, Roles
  <2>2. PICK u \in Tids : /\ life[u] = "none" /\ life' = [life EXCEPT ![u] = "counted"]
                          /\ kind' = [kind EXCEPT ![u] = "sys"]
    BY <1>6, SpawnEffect DEF Replace, Actors
  <2>3. Slots' = (Slots \ {t}) \cup {u} /\ u \notin Slots /\ t \in Slots
    BY <1>0, <2>1, <2>2 DEF Slots, ThreadTypeOK, Roles, ProgTypes
  <2>4. Slots \ {t} \subseteq Tids /\ u \notin Slots \ {t}  BY <2>3, SlotSize
  <2>5. Cardinality((Slots \ {t}) \cup {u}) = Cardinality(Slots \ {t}) + 1
    BY <2>2, <2>4, CountedSize
  <2>6. Cardinality(Slots \ {t}) = Cardinality(Slots) - 1  BY <2>3, SlotSize, CountedSize
  <2>7. Cardinality(Slots') = Cardinality(Slots)  BY <2>3, <2>5, <2>6, SlotSize
  <2>8. GotBy(Stop)' = GotBy(Stop) /\ InQueue(Stop)' = InQueue(Stop) /\ EarlyAt' = EarlyAt
    BY <2>1 DEF GotBy, InQueue, EarlyAt
  <2> QED  BY <2>1, <2>7, <2>8 DEF StopInv
\* A worker obeys its stop.
<1>7. ASSUME NEW t \in Tids, CallTask(t) PROVE StopInv'
  <2>1. /\ UNCHANGED <<queue, item, prog, left, sub, life, kind>> /\ deq[t] = "got"
        /\ deq' = [deq EXCEPT ![t] = "out"] /\ life[t] = "jit" /\ wpc[t] = "loop"
        /\ wpc' = [wpc EXCEPT ![t] = IF item[t] = Stop THEN "over" ELSE "task"]
        /\ kind[t] = "sys"
    BY <1>0, <1>7 DEF CallTask, threadVars, Busy, Roles
  <2>2. InQueue(Stop)' = InQueue(Stop) /\ EarlyAt' = EarlyAt  BY <2>1 DEF InQueue, EarlyAt
  <2>3. CASE item[t] # Stop
    <3>1. Slots' = Slots  BY <1>0, <2>1, <2>3 DEF Slots, ProgTypes
    <3>2. GotBy(Stop)' = GotBy(Stop)  BY <2>1, <2>3 DEF GotBy, DequeInv
    <3> QED  BY <1>1, <2>1, <2>2, <3>1, <3>2
  <2>4. CASE item[t] = Stop
    <3>1. t \in GotBy(Stop) /\ GotBy(Stop)' \subseteq GotBy(Stop)
      BY <2>1, <2>4 DEF GotBy, DequeInv
    <3>2. prog \in Ending /\ EarlyAt = {}  BY <3>1 DEF StopInv
    <3> QED  BY <2>1, <2>2, <3>2 DEF StopInv, Ending
  <2> QED  BY <2>3, <2>4
\* The queue grows at its end: by a task that is early only before shutdown ...
<1>8. ASSUME NEW y \in Tasks, D!Add(y), UNCHANGED <<prog, left>>, Slots' = Slots,
             sub' = [sub EXCEPT ![y] = IF isShutdown THEN "late" ELSE "early"],
             sub[y] \in {"new", "called"}, prog # "new"
      PROVE  StopInv'
  <2>1. /\ Len(queue') = Len(queue) + 1
        /\ \A i \in 1 .. Len(queue) : queue'[i] = queue[i]
        /\ queue'[Len(queue) + 1] = y /\ GotBy(Stop)' = GotBy(Stop)
        /\ InQueue(Stop)' = InQueue(Stop) \cup {i \in {Len(queue) + 1} : Stop = y}
    BY <1>8, AddPlaces
  <2>2. InQueue(Stop)' = InQueue(Stop)  BY <1>8, <2>1, StopIsNoTask
  <2>3. CASE isShutdown
    <3>1. EarlyAt' \subseteq EarlyAt
      <4> SUFFICES ASSUME NEW i \in EarlyAt' PROVE i \in EarlyAt  OBVIOUS
      <4>1. i \in 1 .. Len(queue) + 1 /\ queue'[i] \in Tasks /\ sub'[queue'[i]] = "early"
        BY <2>1 DEF EarlyAt
      <4>2. queue'[i] # y  BY <1>0, <1>8, <2>3, <4>1
      <4>3. i \in 1 .. Len(queue) /\ queue'[i] = queue[i]  BY <1>0, <2>1, <4>1, <4>2
      <4> QED  BY <1>0, <1>8, <4>1, <4>2, <4>3 DEF EarlyAt
    <3> QED  BY <1>1, <1>8, <2>1, <2>2, <3>1
  <2>4. CASE ~isShutdown
    <3>1. prog \in {"run", "joined"}  BY <1>0, <1>8, <2>4 DEF isShutdown, ProgTypes
    <3>2. Cardinality(Slots) = NWorkers /\ InQueue(Stop) = {} /\ GotBy(Stop) = {}
      BY <3>1 DEF StopInv, Ending
    <3>3. /\ InQueue(Stop)' = {} /\ GotBy(Stop)' = {} /\ prog' = prog
          /\ Cardinality(Slots') = NWorkers
      BY <1>8, <2>1, <2>2, <3>2
    <3>4. ~(NWorkers < NWorkers)  BY PoolNotEmpty
    <3>5. prog' # "new"  BY <3>1, <3>3
    <3>6. \A i \in EarlyAt', j \in InQueue(Stop)' : i < j  BY <3>3
    <3>7. GotBy(Stop)' # {} \/ Cardinality(Slots') < NWorkers => EarlyAt' = {}  BY <3>3, <3>4
    <3> QED  BY <3>3, <3>5, <3>6, <3>7 DEF StopInv
  <2> QED  BY <2>3, <2>4
<1>11. ASSUME NEW c \in Kinds, Run(c) PROVE StopInv'
  <2>0. PICK y : y = NextTask  OBVIOUS
  <2>1. /\ y \in Tasks /\ D!Add(y) /\ UNCHANGED <<prog, left>> /\ how[y] = "none"
        /\ sub' = [sub EXCEPT ![y] = IF isShutdown THEN "late" ELSE "early"] /\ prog # "new"
    BY <1>11, <2>0 DEF Run, NextTask, Added
  <2>2. Slots' = Slots  BY <1>11, SlotsSame DEF Actors
  <2>3. sub[y] = "new"  BY <2>1 DEF TaskInv
  <2> QED  BY <1>8, <2>1, <2>2, <2>3
<1>12. CASE RunAdd
  <2>1. PICK y \in Tasks : /\ sub[y] = "called" /\ D!Add(y)
                          /\ sub' = [sub EXCEPT ![y] = IF isShutdown THEN "late" ELSE "early"]
    BY <1>12 DEF RunAdd, Added
  <2>2. Slots' = Slots  BY <1>12, SlotsSame DEF Actors
  <2>3. UNCHANGED <<prog, left>> /\ prog # "new"  BY <1>0, <1>12 DEF RunAdd, Phases
  <2> QED  BY <1>8, <2>1, <2>2, <2>3
<1>13. ASSUME NEW c \in Kinds, RunTest(c) PROVE StopInv'
  <2>1. PICK y \in Tasks : sub' = [sub EXCEPT ![y] = "called"]  BY <1>13 DEF RunTest, NextTask
  <2>2. UNCHANGED <<queue, deq, item, prog, left>>  BY <1>13 DEF RunTest, objects
  <2>3. Slots' = Slots  BY <1>13, SlotsSame DEF Actors
  <2>4. GotBy(Stop)' = GotBy(Stop) /\ InQueue(Stop)' = InQueue(Stop)
    BY <2>2 DEF GotBy, InQueue
  <2>5. EarlyAt' \subseteq EarlyAt  BY <1>0, <2>1, <2>2 DEF EarlyAt
  <2> QED  BY <1>1, <2>2, <2>3, <2>4, <2>5
\* ... or by a stop, which is behind every early task.
<1>9. CASE AddStop
  <2>1. D!Add(Stop) /\ UNCHANGED <<prog, sub>> /\ prog = "stop"
    BY <1>9 DEF AddStop
  <2>2. Slots' = Slots  BY <1>9, SlotsSame DEF Actors
  <2>3. /\ Len(queue') = Len(queue) + 1
        /\ \A i \in 1 .. Len(queue) : queue'[i] = queue[i]
        /\ queue'[Len(queue) + 1] = Stop /\ GotBy(Stop)' = GotBy(Stop)
        /\ InQueue(Stop)' = InQueue(Stop) \cup {Len(queue) + 1}
    BY <2>1, AddPlaces
  <2>4. EarlyAt' = EarlyAt
    BY <1>0, <2>1, <2>3, StopIsNoTask DEF EarlyAt
  <2>5. \A i \in EarlyAt : i < Len(queue) + 1  BY <1>0 DEF EarlyAt
  <2> QED  BY <2>1, <2>2, <2>3, <2>4, <2>5 DEF StopInv, Ending
\* The queue shrinks at its front: behind a stop there is no early task.
<1>10. ASSUME NEW t \in Tids, D!PopTake(t), PopStep(t) PROVE StopInv'
  <2>0. PICK y : y = queue[1]  OBVIOUS
  <2>1. /\ Len(queue) \in Nat \ {0} /\ Len(queue') = Len(queue) - 1
        /\ \A i \in 1 .. Len(queue) - 1 : queue'[i] = queue[i + 1]
        /\ \A i : i \in InQueue(Stop)' <=> i \in 1 .. Len(queue) - 1 /\ i + 1 \in InQueue(Stop)
        /\ GotBy(Stop)' = GotBy(Stop) \cup {u \in {t} : Stop = y}
    BY <1>10, <2>0, TakePlaces
  <2>2. UNCHANGED <<prog, left, sub>>  BY <1>10 DEF PopStep, program
  <2>3. Slots' = Slots  BY <1>10, SlotsSame DEF Actors
  <2>4. \A i \in EarlyAt' : i \in 1 .. Len(queue) - 1 /\ i + 1 \in EarlyAt
    BY <2>1, <2>2 DEF EarlyAt
  <2>5. \A i \in EarlyAt', j \in InQueue(Stop)' : i < j
    <3> SUFFICES ASSUME NEW i \in EarlyAt', NEW j \in InQueue(Stop)' PROVE i < j  OBVIOUS
    <3>1. i \in Int /\ j \in Int /\ i + 1 \in EarlyAt /\ j + 1 \in InQueue(Stop)
      BY <2>1, <2>4
    <3>2. i + 1 < j + 1  BY <3>1 DEF StopInv
    <3> QED  BY <3>1, <3>2
  <2>6. CASE y = Stop
    <3>1. 1 \in InQueue(Stop)
      <4>1. 1 \in 1 .. Len(queue)  BY <2>1
      <4> QED  BY <2>0, <2>6, <4>1 DEF InQueue
    <3>2. EarlyAt = {}
      <4> SUFFICES ASSUME NEW i \in EarlyAt PROVE FALSE  OBVIOUS
      <4>1. i < 1 /\ i \in 1 .. Len(queue)  BY <3>1 DEF StopInv, EarlyAt
      <4> QED  BY <2>1, <4>1
    <3>3. EarlyAt' = {}  BY <2>4, <3>2
    <3>4. prog \in Ending  BY <3>1 DEF StopInv
    <3> QED  BY <2>2, <2>3, <3>3, <3>4 DEF StopInv, Ending
  <2>7. CASE y # Stop
    <3>1. GotBy(Stop)' = GotBy(Stop)  BY <2>1, <2>7
    <3>2. InQueue(Stop) = {} => InQueue(Stop)' = {}  BY <2>1
    <3>3. EarlyAt = {} => EarlyAt' = {}  BY <2>4
    <3> QED  BY <2>2, <2>3, <2>5, <3>1, <3>2, <3>3 DEF StopInv
  <2> QED  BY <2>6, <2>7
<1> QED  BY <1>2, <1>3, <1>4, <1>5, <1>6, <1>7, <1>9, <1>10, <1>11, <1>12, <1>13
         DEF Next, MainProgram, HelperProgram, Worker, Actors, PopStep, PopSpurious, HelperReturns

-----------------------------------------------------------------------------
(* Permits *)

Holders == {t \in Tids : sem[t] = "holds"}
Initially == IF Permits > 0 THEN Permits ELSE 0

\* A permit is free or held; none is made or lost by a time-out or a failed try.
PermitInv == count + Cardinality(Holders) = Initially

\* Holders is finite.
LEMMA HoldersSize ==
    /\ Holders \subseteq Tids /\ Cardinality(Holders) \in Nat
    /\ Holders' \subseteq Tids /\ Cardinality(Holders') \in Nat
<1>1. Holders \subseteq Tids /\ Holders' \subseteq Tids  BY DEF Holders
<1> QED  BY <1>1, CountedSize

\* Every call of the semaphore keeps the sum.
LEMMA PermitStepKeeps ==
    ASSUME SemInv, PermitInv, NEW t \in Tids,
           \/ S!Acquire(t) \/ S!AcquireTimed(t) \/ S!TryAcquire(t) \/ S!Take(t) \/ S!Sleep(t)
           \/ S!Fail(t) \/ S!TimeOut(t) \/ S!SemSpurious(t) \/ S!Release(t) \/ S!Notify(t)
    PROVE  PermitInv'
<1>0. count \in Nat /\ sem \in [Tids -> SemStates] /\ Initially' = Initially
  BY DEF SemInv, Initially
<1>1. ASSUME Holders' = Holders, count' = count PROVE PermitInv'
  BY <1>0, <1>1 DEF PermitInv
<1>2. ASSUME t \notin Holders, Holders' = Holders \cup {t}, count' = count - 1 PROVE PermitInv'
  <2>1. Cardinality(Holders') = Cardinality(Holders) + 1  BY <1>2, HoldersSize, CountedSize
  <2> QED  BY <1>0, <1>2, <2>1, HoldersSize DEF PermitInv
<1>3. CASE S!Acquire(t) \/ S!AcquireTimed(t) \/ S!Sleep(t) \/ S!Fail(t) \/ S!TimeOut(t) \/ S!SemSpurious(t)
  <2>1. Holders' = Holders
    BY <1>0, <1>3 DEF Holders, S!At, S!Acquire, S!AcquireTimed, S!Sleep, S!Fail, S!TimeOut,
       S!SemSpurious
  <2>2. count' = count
    BY <1>3 DEF S!Acquire, S!AcquireTimed, S!Sleep, S!Fail, S!TimeOut, S!SemSpurious
  <2> QED  BY <1>1, <2>1, <2>2
<1>4. CASE S!TryAcquire(t) \/ S!Take(t)
  <2>1. \/ Holders' = Holders /\ count' = count
        \/ t \notin Holders /\ Holders' = Holders \cup {t} /\ count' = count - 1
    BY <1>0, <1>4 DEF Holders, S!At, S!TryAcquire, S!Take
  <2> QED  BY <1>1, <1>2, <2>1
<1>5. CASE S!Release(t)
  <2>1. t \in Holders /\ Holders' = Holders \ {t} /\ count' = count + 1
    BY <1>0, <1>5 DEF Holders, S!At, S!Release
  <2>2. Cardinality(Holders') = Cardinality(Holders) - 1  BY <2>1, HoldersSize, CountedSize
  <2> QED  BY <1>0, <2>1, <2>2, HoldersSize DEF PermitInv
<1>6. CASE S!Notify(t)
  <2>1. Holders' = Holders  BY <1>0, <1>6 DEF Holders, S!Notify, S!Sleepers
  <2> QED  BY <1>1, <1>6, <2>1 DEF S!Notify
<1> QED  BY <1>3, <1>4, <1>5, <1>6

\* PermitInv is inductive.
LEMMA PermitInvStep ==
    ASSUME SemInv, PermitInv, [Next]_vars
    PROVE  PermitInv'
<1>1. CASE UNCHANGED <<count, sem>>  BY <1>1 DEF PermitInv, Holders, Initially
<1>2. ASSUME NEW t \in Tids, AskPermit(t) \/ PermitStep(t) \/ PermitSpurious(t) PROVE PermitInv'
  BY <1>2, PermitStepKeeps DEF AskPermit, PermitStep, PermitSpurious
<1>3. ASSUME NEW t \in Tids, EndTask(t) PROVE PermitInv'
  <2>1. Holders' = Holders /\ count' = count
    BY <1>3 DEF SemInv, SemStates, EndTask, Holders
  <2> QED  BY <2>1 DEF PermitInv, Initially
<1>4. CASE \/ NewWorker \/ PoolReady \/ SpawnHelper \/ JoinHelper \/ Shutdown \/ AddStop
           \/ JoinAll \/ Leave \/ RuntimeMain \/ HelperReturns \/ UNCHANGED vars
  BY <1>1, <1>4 DEF NewWorker, PoolReady, SpawnHelper, JoinHelper, Shutdown, AddStop, JoinAll,
     Leave, RuntimeMain, HelperReturns, vars, objects
<1>5. ASSUME NEW t \in Actors,
             \/ Runtime(t) \/ RuntimeCount(t) \/ PopStep(t) \/ PopSpurious(t)
             \/ CallTask(t) \/ Replace(t) \/ WorkerReturns(t)
      PROVE  PermitInv'
  BY <1>1, <1>5 DEF Runtime, RuntimeCount, PopStep, PopSpurious, CallTask, Replace,
     WorkerReturns, objects
<1>6. ASSUME NEW k \in Kinds, Run(k) \/ RunTest(k) PROVE PermitInv'
  BY <1>1, <1>6 DEF Run, RunTest, objects
<1>7. CASE RunAdd  BY <1>1, <1>7 DEF RunAdd
<1> QED  BY <1>2, <1>3, <1>4, <1>5, <1>6, <1>7
         DEF Next, MainProgram, HelperProgram, Worker, Actors

-----------------------------------------------------------------------------
(* All together *)

ProgramInv ==
    /\ ThreadInv /\ DequeInv /\ SemInv
    /\ ProgInv /\ TaskInv /\ StopInv /\ PermitInv

\* The invariant of the whole program holds in every behaviour.
LEMMA ProgramInvAlways == Spec => []ProgramInv
<1>1. Init => ProgramInv
  <2> SUFFICES ASSUME Init PROVE ProgramInv  OBVIOUS
  <2>1. /\ queue = <<>> /\ deq = [t \in Tids |-> "out"] /\ sem = [t \in Tids |-> "out"]
        /\ count = Initially /\ ran = [x \in Tasks |-> 0] /\ how = [x \in Tasks |-> "none"]
        /\ sub = [x \in Tasks |-> "new"]
    BY DEF Init, D!DequeInit, S!SemInit, Initially
  <2>2. DequeInv  BY <2>1 DEF DequeInv, Asleep
  <2>3. SemInv  BY <2>1, PermitsInt DEF SemInv, SemStates, Waiting, Initially
  <2>4. TaskInv  BY <2>1 DEF TaskInv, InQueue, GotBy
  <2>5. Holders = {}  BY <2>1 DEF Holders
  <2>6. PermitInv  BY <2>1, <2>5, PermitsInt, FS_EmptySet DEF PermitInv, Initially
  <2>7. ThreadInv  BY ThreadInvInit DEF Init
  <2> QED  BY <2>2, <2>3, <2>4, <2>6, <2>7, ProgInvInit, StopInvInit DEF ProgramInv
<1>2. ProgramInv /\ [Next]_vars => ProgramInv'
  BY ThreadInvStep, ProgramStep, DequeInvStep, SemInvStep, ProgInvStep, TaskInvStep,
     StopInvStep, PermitInvStep
  DEF ProgramInv
<1> QED  BY <1>1, <1>2, PTL DEF Spec

\* Types, for any number of threads, workers, tasks and permits: no task is
\* called twice, and the semaphore's count stays between zero and its initial
\* value although time-outs race releases.
THEOREM TypeCorrect == Spec => []TypeOK
<1>1. ProgramInv => TypeOK
  <2> SUFFICES ASSUME ProgramInv PROVE TypeOK  OBVIOUS
  <2>1. count \in Nat /\ Cardinality(Holders) \in Nat /\ Initially \in Nat
    BY PermitsInt, HoldersSize DEF ProgramInv, SemInv, Initially
  <2>2. count \in 0 .. Initially  BY <2>1 DEF ProgramInv, PermitInv
  <2> QED  BY <2>2 DEF ProgramInv, ThreadInv, DequeInv, SemInv, SemStates, ProgInv, ProgTypes,
                        TaskInv, TypeOK, Initially
<1> QED  BY <1>1, ProgramInvAlways, PTL

\* "All previousely submitted tasks will be executed", for any number of
\* workers and tasks: when the wait of the main function is over every task
\* that was in the queue before shutdown was called once and is done, whichever
\* of them threw and whatever the helper added behind them meanwhile.
THEOREM SubmittedTasksRun == Spec => []AllTasksDone
<1>1. ProgramInv => AllTasksDone
  <2> SUFFICES ASSUME ProgramInv, main \in {"waited", "dropped"}
               PROVE  /\ \A x \in Tasks : /\ sub[x] = "early" => ran[x] = 1
                                          /\ sub[x] \in {"new", "called"} => ran[x] = 0
                      /\ \A t \in Tids : wpc[t] \notin {"task", "permit", "catch"}
    BY DEF AllTasksDone
  <2>1. Counted \subseteq Tids  BY DEF Counted
  <2>2. Counted = {}
    BY <2>1, CountedSize DEF ProgramInv, ThreadInv, WaitedIsZero, CountExact
  <2>3. \A t \in Tids : life[t] \notin {"counted", "jit"}  BY <2>2 DEF Counted
  <2>4. Slots = {} /\ \A x : GotBy(x) = {}
    BY <2>3 DEF Slots, GotBy, ProgramInv, ProgInv, Busy
  <2>5. Cardinality(Slots) = 0  BY <2>4, FS_EmptySet
  <2>6. EarlyAt = {}  BY <2>5, PoolNotEmpty DEF ProgramInv, StopInv
  <2>7. ASSUME NEW x \in Tasks, sub[x] = "early" PROVE ran[x] = 1
    <3>1. InQueue(x) = {}  BY <2>6, <2>7 DEF InQueue, EarlyAt
    <3> QED  BY <2>4, <2>7, <3>1 DEF ProgramInv, TaskInv
  <2>8. \A x \in Tasks : sub[x] \in {"new", "called"} => ran[x] = 0
    BY DEF ProgramInv, TaskInv
  <2>9. \A t \in Tids : wpc[t] \notin {"task", "permit", "catch"}
    BY <2>3 DEF ProgramInv, ProgInv, Busy
  <2> QED  BY <2>7, <2>8, <2>9
<1> QED  BY <1>1, ProgramInvAlways, PTL
=============================================================================
