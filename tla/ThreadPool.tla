---------------------------- MODULE ThreadPool ----------------------------
(***************************************************************************)
(* A program that uses sys.thread.FixedThreadPool                          *)
(* (haxe-std/sys/thread/FixedThreadPool.hx): the composition of the        *)
(* runtime's threads, deque and semaphore.  The main function creates the  *)
(* pool and submits tasks; a helper thread may submit some too, while main *)
(* shuts the pool down; main returns into rayzor_wait_all_threads, having  *)
(* joined the helper or not.  Workers pop tasks from the deque.  A task    *)
(* takes a permit of a shared semaphore, waiting for it, waiting with a    *)
(* time-out or not waiting, and may throw at its end.                      *)
(***************************************************************************)
EXTENDS Threads, Sequences, Integers

CONSTANTS Tasks,         \* the tasks that may be submitted (bound)
          Kinds,         \* how a task asks for its permit and ends
          NWorkers,      \* threadsCount
          Permits,       \* the semaphore's initial value
          Stop           \* shutdownTask

ASSUME PoolNotEmpty == NWorkers \in Nat \ {0}
ASSUME StopIsNoTask == Stop \notin Tasks
ASSUME PermitsInt == Permits \in Int
ASSUME NoneIsNoKind == "none" \notin Kinds

VARIABLES queue, deq, item,   \* the pool's Deque
          count, sem,         \* the semaphore of the tasks
          prog,               \* how far the main function is
          left,               \* workers to create, or stops to add
          helper,             \* the thread main spawned with a handle
          how,                \* the kind of each submitted task
          sub,                \* how far its submission is
          ran,                \* how often each task was called
          wpc                 \* where each thread is in its function

D == INSTANCE Deque WITH Users <- Tids
S == INSTANCE Semaphore WITH Users <- Tids

objects == <<queue, deq, item, count, sem>>
program == <<prog, left, helper, how, sub, ran>>
vars == <<threadVars, objects, program, wpc>>

Init == /\ ThreadInit
        /\ D!DequeInit
        /\ S!SemInit
        /\ prog = "new"
        /\ left = NWorkers
        /\ helper = None
        /\ how = [x \in Tasks |-> "none"]
        /\ sub = [x \in Tasks |-> "new"]
        /\ ran = [x \in Tasks |-> 0]
        /\ wpc = [t \in Tids |-> "loop"]

\* Threads and tasks are used in one order: nothing depends on their names.
NextTid == CHOOSE t \in Tids : life[t] = "none"
NextTask == CHOOSE x \in Tasks : how[x] = "none"

-----------------------------------------------------------------------------
(* The main function *)

\* new FixedThreadPool: one thread after the other.
NewWorker ==
    /\ prog = "new" /\ left > 0
    /\ Spawn(Main, NextTid, "sys")
    /\ left' = left - 1
    /\ UNCHANGED <<objects, prog, helper, how, sub, ran, wpc>>

PoolReady ==
    /\ prog = "new" /\ left = 0 /\ CanAct(Main)
    /\ prog' = "run"
    /\ UNCHANGED <<threadVars, objects, left, helper, how, sub, ran, wpc>>

SpawnHelper ==
    /\ prog = "run" /\ helper = None
    /\ Spawn(Main, NextTid, "handle")
    /\ helper' = NextTid
    /\ wpc' = [wpc EXCEPT ![NextTid] = "helper"]
    /\ UNCHANGED <<objects, prog, left, how, sub, ran>>

\* Before the shutdown, or after it.
JoinHelper ==
    /\ prog = "run" \/ (prog = "stop" /\ left = 0)
    /\ helper \in Tids
    /\ Join(Main, helper)
    /\ prog' = IF prog = "run" THEN "joined" ELSE prog
    /\ UNCHANGED <<objects, left, helper, how, sub, ran, wpc>>

\* _isShutdown
isShutdown == prog \in {"stop", "last", "left"}

\* x is in the queue: before the pool was shut down, or after it.
Added(x) == sub' = [sub EXCEPT ![x] = IF isShutdown THEN "late" ELSE "early"]

\* FixedThreadPool.run by the main function, who alone shuts the pool down:
\* nothing comes between its test of _isShutdown and its add.
Run(k) ==
    /\ prog \in {"run", "joined"} /\ CanAct(Main)
    /\ \E x \in Tasks : how[x] = "none"
    /\ D!Add(NextTask)
    /\ how' = [how EXCEPT ![NextTask] = k]
    /\ Added(NextTask)
    /\ UNCHANGED <<threadVars, count, sem, prog, left, helper, ran, wpc>>

\* FixedThreadPool.run by the helper: the test of _isShutdown, whose exception
\* changes nothing ...
RunTest(k) ==
    /\ helper \in Tids /\ CanAct(helper) /\ wpc[helper] = "helper"
    /\ ~isShutdown /\ \E x \in Tasks : how[x] = "none"
    /\ how' = [how EXCEPT ![NextTask] = k]
    /\ sub' = [sub EXCEPT ![NextTask] = "called"]
    /\ wpc' = [wpc EXCEPT ![helper] = "adding"]
    /\ UNCHANGED <<threadVars, objects, prog, left, helper, ran>>

\* ... and the add, which comes whatever main has done since the test.
RunAdd ==
    /\ helper \in Tids /\ CanAct(helper) /\ wpc[helper] = "adding"
    /\ \E x \in Tasks : sub[x] = "called" /\ D!Add(x) /\ Added(x)
    /\ wpc' = [wpc EXCEPT ![helper] = "helper"]
    /\ UNCHANGED <<threadVars, count, sem, prog, left, helper, how, ran>>

HelperReturns ==
    /\ helper \in Tids /\ wpc[helper] = "helper" /\ Return(helper)
    /\ UNCHANGED <<objects, program, wpc>>

\* FixedThreadPool.shutdown, by the main function, whatever the helper does:
\* the flag, then one shutdownTask per worker.
Shutdown ==
    /\ prog \in {"run", "joined"} /\ CanAct(Main)
    /\ prog' = "stop"
    /\ left' = NWorkers
    /\ UNCHANGED <<threadVars, objects, helper, how, sub, ran, wpc>>

\* Mutant: the shutdownTasks go to the front of the queue.
AddStopFront ==
    /\ prog = "stop" /\ left > 0
    /\ queue' = <<Stop>> \o queue
    /\ \/ D!Poppers = {} /\ UNCHANGED deq
       \/ \E w \in D!Poppers : deq' = [deq EXCEPT ![w] = "lock"]
    /\ left' = left - 1
    /\ UNCHANGED <<threadVars, item, count, sem, prog, helper, how, sub, ran, wpc>>

\* Mutant: the last worker gets no shutdownTask.
AddStopShort ==
    /\ prog = "stop" /\ left > 0
    /\ IF left > 1 THEN D!Add(Stop) ELSE UNCHANGED <<queue, deq, item>>
    /\ left' = left - 1
    /\ UNCHANGED <<threadVars, count, sem, prog, helper, how, sub, ran, wpc>>

AddStop ==
    /\ prog = "stop" /\ left > 0
    /\ D!Add(Stop)
    /\ left' = left - 1
    /\ UNCHANGED <<threadVars, count, sem, prog, helper, how, sub, ran, wpc>>

\* Future.join, before the main function returns.
JoinAll ==
    /\ prog = "stop" /\ left = 0
    /\ WaitAll(Main)
    /\ prog' = "last"
    /\ UNCHANGED <<objects, left, helper, how, sub, ran, wpc>>

Leave ==
    /\ prog \in {"stop", "last"} /\ left = 0
    /\ MainReturn
    /\ prog' = "left"
    /\ UNCHANGED <<objects, left, helper, how, sub, ran, wpc>>

-----------------------------------------------------------------------------
(* Worker.loop on thread t *)

Working(t) == CanAct(t) /\ wpc[t] \notin {"helper", "adding"}

\* queue.pop(true)
PopStep(t) ==
    /\ Working(t) /\ wpc[t] = "loop"
    /\ D!Pop(t) \/ D!PopTake(t) \/ D!PopSleep(t)
    /\ UNCHANGED <<threadVars, count, sem, program, wpc>>

PopSpurious(t) ==
    /\ Working(t)
    /\ D!PopSpurious(t)
    /\ UNCHANGED <<threadVars, count, sem, program, wpc>>

\* task(): a shutdownTask throws out of the loop, any other starts.
CallTask(t) ==
    /\ Working(t) /\ deq[t] = "got"
    /\ deq' = [deq EXCEPT ![t] = "out"]
    /\ IF item[t] = Stop
       THEN wpc' = [wpc EXCEPT ![t] = "over"] /\ UNCHANGED ran
       ELSE wpc' = [wpc EXCEPT ![t] = "task"] /\ ran' = [ran EXCEPT ![item[t]] = @ + 1]
    /\ UNCHANGED <<threadVars, queue, item, count, sem, prog, left, helper, how, sub>>

\* The task asks for its permit: it waits for it, or may do without.
AskPermit(t) ==
    /\ Working(t) /\ wpc[t] = "task"
    /\ \/ how[item[t]] \in {"waits", "throws"} /\ S!Acquire(t)
       \/ how[item[t]] = "tries" /\ (S!AcquireTimed(t) \/ S!TryAcquire(t))
    /\ wpc' = [wpc EXCEPT ![t] = "permit"]
    /\ UNCHANGED <<threadVars, queue, deq, item, program>>

PermitStep(t) ==
    /\ Working(t) /\ wpc[t] = "permit"
    /\ \/ S!Take(t) \/ S!Sleep(t) \/ S!Fail(t) \/ S!TimeOut(t)
       \/ S!Release(t) \/ S!Notify(t)
    /\ UNCHANGED <<threadVars, queue, deq, item, program, wpc>>

PermitSpurious(t) ==
    /\ Working(t)
    /\ S!SemSpurious(t)
    /\ UNCHANGED <<threadVars, queue, deq, item, program, wpc>>

\* The task returns to the loop, or throws into the second catch.
EndTask(t) ==
    /\ Working(t) /\ wpc[t] = "permit" /\ sem[t] \in {"out", "failed"}
    /\ sem' = [sem EXCEPT ![t] = "out"]
    /\ wpc' = [wpc EXCEPT ![t] = IF how[item[t]] = "throws" THEN "catch" ELSE "loop"]
    /\ UNCHANGED <<threadVars, queue, deq, item, count, program>>

\* catch (e): a new thread takes over the loop, and e goes on.
Replace(t) ==
    /\ Working(t) /\ wpc[t] = "catch"
    /\ Spawn(t, NextTid, "sys")
    /\ wpc' = [wpc EXCEPT ![t] = "over"]
    /\ UNCHANGED <<objects, program>>

WorkerReturns(t) ==
    /\ wpc[t] = "over" /\ Return(t)
    /\ UNCHANGED <<objects, program, wpc>>

-----------------------------------------------------------------------------
Runtime(p) == ThreadStep(p) /\ UNCHANGED <<objects, program, wpc>>
RuntimeCount(t) == CountDown(t) /\ UNCHANGED <<objects, program, wpc>>
RuntimeMain == MainStep /\ UNCHANGED <<objects, program, wpc>>

MainProgram ==
    \/ NewWorker \/ PoolReady \/ SpawnHelper \/ JoinHelper \/ Shutdown \/ AddStop
    \/ JoinAll \/ Leave
    \/ \E k \in Kinds : Run(k)

HelperProgram == RunAdd \/ HelperReturns

Worker(t) ==
    \/ PopStep(t) \/ CallTask(t) \/ AskPermit(t) \/ PermitStep(t) \/ EndTask(t)
    \/ Replace(t) \/ WorkerReturns(t)

Next ==
    \/ MainProgram \/ RuntimeMain \/ HelperProgram \/ \E k \in Kinds : RunTest(k)
    \/ \E p \in Actors : Runtime(p)
    \/ \E t \in Tids : \/ Worker(t) \/ RuntimeCount(t) \/ PopSpurious(t) \/ PermitSpurious(t)

Spec == Init /\ [][Next]_vars

\* Every thread that is able to go on goes on.  Condition variables need not
\* return without a reason; the helper need not submit anything.
FairSpec ==
    /\ Spec
    /\ WF_vars(MainProgram) /\ WF_vars(RuntimeMain) /\ WF_vars(HelperProgram)
    /\ \A p \in Actors : WF_vars(Runtime(p))
    /\ \A t \in Tids : WF_vars(Worker(t)) /\ WF_vars(RuntimeCount(t))

-----------------------------------------------------------------------------
(* Properties *)

\* Every variable holds a value of the code's type; the count of permits
\* stays between zero and its initial value.
TypeOK ==
    /\ ThreadTypeOK
    /\ queue \in Seq(Tasks \cup {Stop})
    /\ deq \in [Tids -> {"out", "lock", "asleep", "got"}]
    /\ item \in [Tids -> Tasks \cup {Stop, None}]
    /\ count \in 0 .. (IF Permits > 0 THEN Permits ELSE 0)
    /\ sem \in [Tids -> {"out", "lock", "timed", "late", "asleep", "dozes", "holds",
                         "failed", "notify"}]
    /\ prog \in {"new", "run", "joined", "stop", "last", "left"}
    /\ left \in 0 .. NWorkers
    /\ helper \in Tids \cup {None}
    /\ how \in [Tasks -> Kinds \cup {"none"}]
    /\ sub \in [Tasks -> {"new", "called", "early", "late"}]
    /\ ran \in [Tasks -> 0 .. 1]
    /\ wpc \in [Tids -> {"loop", "helper", "adding", "task", "permit", "catch", "over"}]

\* An element next to a sleeping popper has a popper on its way to the mutex
\* for it: no notify_one of add is lost.
PoolWakeup ==
    D!Poppers # {} => Len(queue) <= Cardinality({t \in Tids : deq[t] = "lock"})

\* A permit next to a sleeping task has an awake thread or a notification on
\* its way to it, although release notifies after it gave the mutex up and a
\* time-out may meet a notification.
PermitWakeup ==
    S!Sleepers # {} =>
        count <= Cardinality({t \in Tids : sem[t] \in {"lock", "timed", "late", "notify"}})

\* "All previousely submitted tasks will be executed": when the program's JIT
\* code goes away every task that was in the queue when the pool was shut down
\* was called once, whatever threw and whatever came behind it, none was called
\* that was not submitted, and none is half done.  A task that is added late,
\* after the test of _isShutdown was passed, may lie behind the stops: then it
\* is neither rejected nor run, against "Throws an exception if the pool is
\* shut down".
AllTasksDone ==
    main \in {"waited", "dropped"} =>
        /\ \A x \in Tasks : /\ sub[x] = "early" => ran[x] = 1
                            /\ sub[x] \in {"new", "called"} => ran[x] = 0
        /\ \A t \in Tids : wpc[t] \notin {"task", "permit", "catch"}

\* The program ends, whatever its tasks do: no worker is left in pop, no task
\* in acquire, no count behind.  The one exception is a thread that was spawned
\* with a handle and never joined: it has ended, its count is still there, and
\* rayzor_wait_all_threads spins on it.
ProgramEnds ==
    \/ <>(main = "dropped")
    \/ <>[](active = 1 /\ helper # None /\ life[helper] = "ended")
=============================================================================
