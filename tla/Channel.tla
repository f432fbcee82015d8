------------------------------ MODULE Channel ------------------------------
(***************************************************************************)
(* The multi-producer multi-consumer channel of the runtime                *)
(* (runtime/src/concurrency.rs, the rayzor_channel functions).  The state  *)
(* is behind one mutex: the code between lock() and drop or wait() is one  *)
(* step.  Notifications follow the unlock and are steps of their own.      *)
(*                                                                         *)
(* A thread in the wait set of not_empty has pc "recvWait", in that of     *)
(* not_full "sendWait".  A woken thread goes back to "recv" or "send": it  *)
(* will take the mutex and test its loop again.                            *)
(***************************************************************************)
EXTENDS Naturals, Sequences, FiniteSets

CONSTANTS Threads,      \* threads that share the channel
          Messages,     \* values sent
          Null,         \* the null pointer: no message
          Capacity,     \* ChannelState.capacity; 0 = unbounded
          MaxLength     \* bound of the model on an unbounded buffer

ASSUME ThreadsFinite == IsFiniteSet(Threads)
ASSUME CapacityNat == Capacity \in Nat
ASSUME NullIsNoMessage == Null \notin Messages

VARIABLES buffer,       \* ChannelState.buffer
          closed,       \* ChannelState.closed
          pc,           \* where each thread is
          msg           \* the message a thread sends, or the one it received

vars == <<buffer, closed, pc, msg>>

PCs == {"out", "send", "sendWait", "notifyEmpty",
        "recv", "recvWait", "notifyFull", "closeEmpty", "closeFull"}

Init == /\ buffer = <<>>
        /\ closed = FALSE
        /\ pc = [t \in Threads |-> "out"]
        /\ msg = [t \in Threads |-> Null]

\* Mutant: off by one in the test for a full buffer.
FullOffByOne == Capacity > 0 /\ Len(buffer) > Capacity

Full == Capacity > 0 /\ Len(buffer) >= Capacity

\* An unbounded channel is cut off at MaxLength messages.
Room == Capacity = 0 => Len(buffer) < MaxLength

Go(t, to) == pc' = [pc EXCEPT ![t] = to]

Waiting(where) == {t \in Threads : pc[t] = where}

-----------------------------------------------------------------------------
(* Sending *)

\* The caller enters rayzor_channel_send.
CallSend(t, m) ==
    /\ pc[t] = "out"
    /\ Go(t, "send")
    /\ msg' = [msg EXCEPT ![t] = m]
    /\ UNCHANGED <<buffer, closed>>

\* Mutant: the message is dropped before the wait.
SendWaitDropsMessage(t) ==
    /\ pc[t] = "send"
    /\ Full /\ ~closed
    /\ Go(t, "sendWait")
    /\ msg' = [msg EXCEPT ![t] = Null]
    /\ UNCHANGED <<buffer, closed>>

\* send: the loop test under the mutex fails; Condvar::wait joins the wait
\* set and releases the mutex.
SendWait(t) ==
    /\ pc[t] = "send"
    /\ Full /\ ~closed
    /\ Go(t, "sendWait")
    /\ UNCHANGED <<buffer, closed, msg>>

\* send: the channel is closed; return without sending.
SendClosed(t) ==
    /\ pc[t] = "send"
    /\ closed
    /\ Go(t, "out")
    /\ msg' = [msg EXCEPT ![t] = Null]
    /\ UNCHANGED <<buffer, closed>>

\* Mutant: a woken sender does not look at closed again.
SendPushClosed(t) ==
    /\ pc[t] = "send"
    /\ ~Full /\ Room
    /\ buffer' = Append(buffer, msg[t])
    /\ Go(t, "notifyEmpty")
    /\ msg' = [msg EXCEPT ![t] = Null]
    /\ UNCHANGED closed

\* send: push_back, then drop the lock.
SendPush(t) ==
    /\ pc[t] = "send"
    /\ ~Full /\ ~closed /\ Room
    /\ buffer' = Append(buffer, msg[t])
    /\ Go(t, "notifyEmpty")
    /\ msg' = [msg EXCEPT ![t] = Null]
    /\ UNCHANGED closed

\* try_send: the push of a channel that is open and not full.  Otherwise it
\* returns false and changes nothing.
TrySend(t, m) ==
    /\ pc[t] = "out"
    /\ ~closed /\ ~Full /\ Room
    /\ buffer' = Append(buffer, m)
    /\ Go(t, "notifyEmpty")
    /\ UNCHANGED <<closed, msg>>

-----------------------------------------------------------------------------
(* Receiving *)

\* The caller enters rayzor_channel_receive.
CallReceive(t) ==
    /\ pc[t] = "out"
    /\ Go(t, "recv")
    /\ msg' = [msg EXCEPT ![t] = Null]
    /\ UNCHANGED <<buffer, closed>>

\* receive: empty and open; wait on not_empty.
ReceiveWait(t) ==
    /\ pc[t] = "recv"
    /\ buffer = <<>> /\ ~closed
    /\ Go(t, "recvWait")
    /\ UNCHANGED <<buffer, closed, msg>>

\* receive: pop_front, then drop the lock.
ReceivePop(t) ==
    /\ pc[t] = "recv"
    /\ buffer # <<>>
    /\ buffer' = Tail(buffer)
    /\ msg' = [msg EXCEPT ![t] = Head(buffer)]
    /\ Go(t, "notifyFull")
    /\ UNCHANGED closed

\* receive: empty and closed; return null.
ReceiveClosed(t) ==
    /\ pc[t] = "recv"
    /\ buffer = <<>> /\ closed
    /\ Go(t, "out")
    /\ UNCHANGED <<buffer, closed, msg>>

\* Mutant: try_receive forgets not_full.notify_one().
TryReceiveSilent(t) ==
    /\ pc[t] = "out"
    /\ buffer # <<>>
    /\ buffer' = Tail(buffer)
    /\ msg' = [msg EXCEPT ![t] = Head(buffer)]
    /\ UNCHANGED <<closed, pc>>

\* try_receive: pop_front of a buffer that is not empty.  Otherwise it
\* returns null and changes nothing.
TryReceive(t) ==
    /\ pc[t] = "out"
    /\ buffer # <<>>
    /\ buffer' = Tail(buffer)
    /\ msg' = [msg EXCEPT ![t] = Head(buffer)]
    /\ Go(t, "notifyFull")
    /\ UNCHANGED closed

-----------------------------------------------------------------------------
(* Notifications and close *)

\* Wake exactly the threads ws of a wait set, while t goes from one place to
\* the next.
Wake(t, from, to, ws, again) ==
    /\ pc[t] = from
    /\ pc' = [u \in Threads |-> IF u = t THEN to
                                ELSE IF u \in ws THEN again ELSE pc[u]]
    /\ UNCHANGED <<buffer, closed, msg>>

\* notify_one: one thread of the wait set, or none when it is empty.
OneOf(where) == IF Waiting(where) = {} THEN {{}}
                ELSE {{u} : u \in Waiting(where)}

\* Mutant: the wrong condition variable is notified.
NotifyEmptyWrongCondvar(t) ==
    \E ws \in OneOf("sendWait") : Wake(t, "notifyEmpty", "out", ws, "send")

\* not_empty.notify_one() after send and try_send.
NotifyEmpty(t) ==
    \E ws \in OneOf("recvWait") : Wake(t, "notifyEmpty", "out", ws, "recv")

\* not_full.notify_one() after receive and try_receive.
NotifyFull(t) ==
    \E ws \in OneOf("sendWait") : Wake(t, "notifyFull", "out", ws, "send")

\* close: set closed under the mutex ...
Close(t) ==
    /\ pc[t] = "out"
    /\ closed' = TRUE
    /\ Go(t, "closeEmpty")
    /\ UNCHANGED <<buffer, msg>>

\* Mutant: notify_one where close needs notify_all.
CloseNotifyEmptyOne(t) ==
    \E ws \in OneOf("recvWait") : Wake(t, "closeEmpty", "closeFull", ws, "recv")

\* ... then not_empty.notify_all() ...
CloseNotifyEmpty(t) ==
    Wake(t, "closeEmpty", "closeFull", Waiting("recvWait"), "recv")

\* ... and not_full.notify_all().
CloseNotifyFull(t) ==
    Wake(t, "closeFull", "out", Waiting("sendWait"), "send")

\* Condvar::wait may return without a notification.
SpuriousWake(t) ==
    /\ pc[t] \in {"sendWait", "recvWait"}
    /\ Go(t, IF pc[t] = "sendWait" THEN "send" ELSE "recv")
    /\ UNCHANGED <<buffer, closed, msg>>

-----------------------------------------------------------------------------
\* What a thread does on its own once it has called an operation.
Step(t) == \/ SendWait(t) \/ SendClosed(t) \/ SendPush(t)
           \/ ReceiveWait(t) \/ ReceivePop(t) \/ ReceiveClosed(t)
           \/ NotifyEmpty(t) \/ NotifyFull(t)
           \/ CloseNotifyEmpty(t) \/ CloseNotifyFull(t)

Call(t) == \/ \E m \in Messages : CallSend(t, m) \/ TrySend(t, m)
           \/ CallReceive(t) \/ TryReceive(t) \/ Close(t)

Next == \E t \in Threads : Call(t) \/ Step(t) \/ SpuriousWake(t)

Spec == Init /\ [][Next]_vars

\* The scheduler runs every thread that can move.  Calls are the program's
\* choice, and Condvar need not wake anyone spuriously.
FairSpec == Spec /\ \A t \in Threads : WF_vars(Step(t))

-----------------------------------------------------------------------------
(* Properties *)

\* Every variable holds a value of the code's type.
TypeOK == /\ buffer \in Seq(Messages)
          /\ closed \in BOOLEAN
          /\ pc \in [Threads -> PCs]
          /\ msg \in [Threads -> Messages \cup {Null}]

\* A thread blocked in send still holds the message it was given.
SenderHasMessage ==
    \A t \in Threads : pc[t] \in {"send", "sendWait"} => msg[t] \in Messages

\* A bounded channel never holds more than its capacity, although a sender
\* is let in on a test it may have made before it slept.
CapacityRespected == Capacity > 0 => Len(buffer) <= Capacity

\* The threads that will look at the buffer as receivers, or wake one that
\* will.
ReceiveTokens == {t \in Threads : pc[t] \in {"recv", "notifyEmpty"}}

\* The same for senders.
SendTokens == {t \in Threads : pc[t] \in {"send", "notifyFull"}}

\* No lost wake-up on not_empty.  While a receiver sleeps, every message in
\* the buffer has a notification on the way or a receiver awake for it, and a
\* closed channel has a closer about to notify.  send drops the lock before
\* notify_one, so this is not evident.
ReceiverWakeup ==
    Waiting("recvWait") # {} =>
        /\ Len(buffer) <= Cardinality(ReceiveTokens)
        /\ closed => Waiting("closeEmpty") # {}

\* No lost wake-up on not_full: while a sender sleeps, every free slot has a
\* notification on the way or a sender awake for it, until the channel is
\* closed and a closer is about to notify.
SenderWakeup ==
    Waiting("sendWait") # {} =>
        /\ ~closed => Capacity <= Len(buffer) + Cardinality(SendTokens)
        /\ closed => Waiting("closeEmpty") \cup Waiting("closeFull") # {}

\* close is final and no later step adds a message: a sender that close woke
\* returns instead of pushing.
ClosedIsFinal ==
    [][closed => closed' /\ Len(buffer') <= Len(buffer)]_vars

\* Closing the channel releases every blocked sender and receiver.
CloseReleases ==
    \A t \in Threads :
        (closed /\ pc[t] \in {"sendWait", "recvWait"}) ~> (pc[t] = "out")

\* A receiver does not sleep for ever next to a message, nor a sender next to
\* a free slot.
NobodyStranded ==
    \A t \in Threads :
        /\ ~ <>[](pc[t] = "recvWait" /\ buffer # <<>>)
        /\ ~ <>[](pc[t] = "sendWait" /\ ~Full)
=============================================================================
