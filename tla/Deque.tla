------------------------------- MODULE Deque -------------------------------
(***************************************************************************)
(* sys.thread.Deque (runtime/src/concurrency.rs): a queue under a mutex    *)
(* with one condition variable.  Every critical section is one step; only  *)
(* a blocking pop has two, because it gives the mutex up while it waits.   *)
(***************************************************************************)
EXTENDS Sequences

CONSTANTS Users,        \* the threads that use the deque
          None

VARIABLES queue,        \* DequeHandle.deque
          deq,          \* where each thread is in pop
          item          \* what pop returned

dequeVars == <<queue, deq, item>>

DequeInit == /\ queue = <<>>
             /\ deq = [t \in Users |-> "out"]
             /\ item = [t \in Users |-> None]

Poppers == {t \in Users : deq[t] = "asleep"}

\* Mutant: nobody is notified.
AddSilent(x) ==
    /\ queue' = Append(queue, x)
    /\ UNCHANGED <<deq, item>>

\* push_back and notify_one, under the mutex.
Add(x) ==
    /\ queue' = Append(queue, x)
    /\ \/ Poppers = {} /\ UNCHANGED deq
       \/ \E w \in Poppers : deq' = [deq EXCEPT ![w] = "lock"]
    /\ UNCHANGED item

\* pop(true): lock.
Pop(t) ==
    /\ deq[t] = "out"
    /\ deq' = [deq EXCEPT ![t] = "lock"]
    /\ UNCHANGED <<queue, item>>

\* With the mutex, an element is there: pop_front.
PopTake(t) ==
    /\ deq[t] = "lock" /\ queue # <<>>
    /\ deq' = [deq EXCEPT ![t] = "got"]
    /\ item' = [item EXCEPT ![t] = queue[1]]
    /\ queue' = Tail(queue)

\* With the mutex, the queue is empty: wait on not_empty.
PopSleep(t) ==
    /\ deq[t] = "lock" /\ queue = <<>>
    /\ deq' = [deq EXCEPT ![t] = "asleep"]
    /\ UNCHANGED <<queue, item>>

\* Condvar::wait may return for no reason.
PopSpurious(t) ==
    /\ deq[t] = "asleep"
    /\ deq' = [deq EXCEPT ![t] = "lock"]
    /\ UNCHANGED <<queue, item>>
=============================================================================
