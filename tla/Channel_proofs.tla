--------------------------- MODULE Channel_proofs ---------------------------
(***************************************************************************)
(* Proofs about Channel, for every finite set of threads, every set of     *)
(* messages and every capacity, the unbounded channel included.            *)
(***************************************************************************)
EXTENDS Channel, FiniteSetTheorems, SequenceTheorems, TLAPS

-----------------------------------------------------------------------------
(* Counting the threads that hold a token *)

\* What happens to the size of a set of threads when one thread joins it,
\* leaves it, or is exchanged for another.
LEMMA TokenCount ==
    ASSUME NEW S, S \subseteq Threads
    PROVE  /\ Cardinality(S) \in Nat
           /\ \A t \in Threads : t \notin S =>
                 Cardinality(S \cup {t}) = Cardinality(S) + 1
           /\ \A t \in S : Cardinality(S \ {t}) = Cardinality(S) - 1
           /\ \A t \in S, u \in Threads : u \notin S =>
                 Cardinality((S \ {t}) \cup {u}) = Cardinality(S)
           /\ \A T : S \subseteq T /\ T \subseteq Threads =>
                 Cardinality(S) <= Cardinality(T)
<1>1. IsFiniteSet(S)  BY ThreadsFinite, FS_Subset
<1>2. Cardinality(S) \in Nat  BY <1>1, FS_CardinalityType
<1>3. \A t \in Threads : t \notin S => Cardinality(S \cup {t}) = Cardinality(S) + 1
  BY <1>1, FS_AddElement
<1>4. \A t \in S : Cardinality(S \ {t}) = Cardinality(S) - 1
  BY <1>1, FS_RemoveElement
<1>5. ASSUME NEW t \in S, NEW u \in Threads, u \notin S
      PROVE  Cardinality((S \ {t}) \cup {u}) = Cardinality(S)
  <2>1. IsFiniteSet(S \ {t})  BY <1>1, FS_Subset
  <2>2. Cardinality((S \ {t}) \cup {u}) = Cardinality(S \ {t}) + 1
    BY <1>5, <2>1, FS_AddElement
  <2> QED  BY <1>2, <1>4, <2>2
<1>6. ASSUME NEW T, S \subseteq T, T \subseteq Threads
      PROVE  Cardinality(S) <= Cardinality(T)
  <2>1. IsFiniteSet(T)  BY <1>6, ThreadsFinite, FS_Subset
  <2> QED  BY <1>6, <2>1, FS_Subset
<1> QED  BY <1>2, <1>3, <1>4, <1>5, <1>6

-----------------------------------------------------------------------------
(* Types and the capacity *)

TypeInv == TypeOK /\ SenderHasMessage /\ CapacityRespected

\* Init establishes the types and the bound on the buffer.
LEMMA TypeInvInit == Init => TypeInv
<1> SUFFICES ASSUME Init PROVE TypeInv  OBVIOUS
<1>1. TypeOK
  <2>1. pc \in [Threads -> PCs]  BY DEF Init, PCs
  <2>2. msg \in [Threads -> Messages \cup {Null}]  BY DEF Init
  <2>3. buffer \in Seq(Messages)  BY EmptySeq DEF Init
  <2>4. closed \in BOOLEAN  BY DEF Init
  <2> QED  BY <2>1, <2>2, <2>3, <2>4 DEF TypeOK
<1>2. SenderHasMessage  BY DEF Init, SenderHasMessage
<1>3. Len(buffer) = 0  BY DEF Init
<1>4. CapacityRespected  BY <1>3, CapacityNat DEF CapacityRespected
<1> QED  BY <1>1, <1>2, <1>4 DEF TypeInv

\* Every step keeps the types and the bound on the buffer.
LEMMA TypeInvNext == TypeInv /\ [Next]_vars => TypeInv'
<1> SUFFICES ASSUME TypeInv, [Next]_vars PROVE TypeInv'  OBVIOUS
<1> USE CapacityNat DEF TypeInv
<1>0. TypeOK /\ SenderHasMessage /\ CapacityRespected  OBVIOUS
<1>1. ASSUME NEW t \in Threads, Call(t) PROVE TypeInv'
  <2>1. ASSUME NEW m \in Messages, CallSend(t, m) PROVE TypeInv'
    BY <1>0, <2>1 DEF TypeOK, SenderHasMessage, CapacityRespected, CallSend, Go, PCs
  <2>2. ASSUME NEW m \in Messages, TrySend(t, m) PROVE TypeInv'
    BY <1>0, <2>2 DEF TypeOK, SenderHasMessage, CapacityRespected, TrySend, Go, PCs, Full
  <2>3. CASE CallReceive(t)
    BY <1>0, <2>3 DEF TypeOK, SenderHasMessage, CapacityRespected, CallReceive, Go, PCs
  <2>4. CASE TryReceive(t)
    BY <1>0, <2>4 DEF TypeOK, SenderHasMessage, CapacityRespected, TryReceive, Go, PCs
  <2>5. CASE Close(t)
    BY <1>0, <2>5 DEF TypeOK, SenderHasMessage, CapacityRespected, Close, Go, PCs
  <2> QED  BY <1>1, <2>1, <2>2, <2>3, <2>4, <2>5 DEF Call
<1>2. ASSUME NEW t \in Threads, Step(t) PROVE TypeInv'
  <2>1. CASE SendWait(t) \/ SendClosed(t) \/ ReceiveWait(t) \/ ReceiveClosed(t)
    BY <1>0, <2>1 DEF TypeOK, SenderHasMessage, CapacityRespected, SendWait, SendClosed,
       ReceiveWait, ReceiveClosed, Go, PCs
  <2>2. CASE SendPush(t)
    BY <1>0, <2>2 DEF TypeOK, SenderHasMessage, CapacityRespected, SendPush, Go, PCs, Full
  <2>3. CASE ReceivePop(t)
    BY <1>0, <2>3 DEF TypeOK, SenderHasMessage, CapacityRespected, ReceivePop, Go, PCs
  <2>4. CASE NotifyEmpty(t) \/ NotifyFull(t) \/ CloseNotifyEmpty(t) \/ CloseNotifyFull(t)
    <3>1. /\ UNCHANGED <<buffer, closed, msg>>
          /\ pc' \in [Threads -> PCs]
          /\ \A u \in Threads : pc'[u] \in {"send", "sendWait"}
                                 => pc[u] \in {"send", "sendWait"}
      BY <1>0, <2>4 DEF TypeOK, NotifyEmpty, NotifyFull, CloseNotifyEmpty,
         CloseNotifyFull, Wake, OneOf, Waiting, PCs
    <3> QED  BY <1>0, <3>1 DEF TypeOK, SenderHasMessage, CapacityRespected
  <2> QED  BY <1>2, <2>1, <2>2, <2>3, <2>4 DEF Step
<1>3. ASSUME NEW t \in Threads, SpuriousWake(t) PROVE TypeInv'
  BY <1>0, <1>3 DEF TypeOK, SenderHasMessage, CapacityRespected, SpuriousWake, Go, PCs
<1>4. CASE UNCHANGED vars
  BY <1>0, <1>4 DEF vars, TypeOK, SenderHasMessage, CapacityRespected
<1> QED  BY <1>1, <1>2, <1>3, <1>4 DEF Next

\* The channel's state keeps its type whatever the threads do.
THEOREM TypeCorrect == Spec => []TypeOK
<1>1. TypeInv => TypeOK  BY DEF TypeInv
<1> QED  BY <1>1, TypeInvInit, TypeInvNext, PTL DEF Spec

\* send and try_send never fill a bounded channel past its capacity.
THEOREM CapacityBound == Spec => []CapacityRespected
<1>1. TypeInv => CapacityRespected  BY DEF TypeInv
<1> QED  BY <1>1, TypeInvInit, TypeInvNext, PTL DEF Spec

-----------------------------------------------------------------------------
(* No lost wake-up *)

Wakeups == ReceiverWakeup /\ SenderWakeup

\* The two conjuncts of Wakeups depend on the buffer, on closed and on which
\* threads are where; the size of the token sets is what a step may change.
LEMMA TokensInThreads ==
    /\ ReceiveTokens \subseteq Threads /\ SendTokens \subseteq Threads
    /\ ReceiveTokens' \subseteq Threads /\ SendTokens' \subseteq Threads
    /\ Cardinality(ReceiveTokens) \in Nat /\ Cardinality(SendTokens) \in Nat
    /\ Cardinality(ReceiveTokens') \in Nat /\ Cardinality(SendTokens') \in Nat
<1>1. /\ ReceiveTokens \subseteq Threads /\ SendTokens \subseteq Threads
      /\ ReceiveTokens' \subseteq Threads /\ SendTokens' \subseteq Threads
  BY DEF ReceiveTokens, SendTokens
<1> QED  BY <1>1, TokenCount

\* A call does not disturb the sleepers: try_send and try_receive bring the
\* token for what they put in or take out.
LEMMA WakeupsCall ==
    ASSUME TypeInv, Wakeups, NEW t \in Threads, Call(t)
    PROVE  Wakeups'
<1> USE CapacityNat DEF TypeInv, Wakeups
<1>0. TypeOK /\ ReceiverWakeup /\ SenderWakeup  OBVIOUS
<1>1. ASSUME NEW m \in Messages, CallSend(t, m) PROVE Wakeups'
  <2>1. /\ ReceiveTokens' = ReceiveTokens /\ SendTokens \subseteq SendTokens'
        /\ \A w \in PCs \ {"out", "send"} : Waiting(w)' = Waiting(w)
    BY <1>0, <1>1 DEF TypeOK, CallSend, Go, ReceiveTokens, SendTokens, Waiting
  <2>2. Cardinality(SendTokens) <= Cardinality(SendTokens')
    BY <2>1, TokensInThreads, TokenCount
  <2> QED
    BY <1>0, <1>1, <2>1, <2>2, TokensInThreads
    DEF TypeOK, CallSend, ReceiverWakeup, SenderWakeup, PCs
<1>2. CASE CallReceive(t)
  <2>1. /\ SendTokens' = SendTokens /\ ReceiveTokens \subseteq ReceiveTokens'
        /\ \A w \in PCs \ {"out", "recv"} : Waiting(w)' = Waiting(w)
    BY <1>0, <1>2 DEF TypeOK, CallReceive, Go, ReceiveTokens, SendTokens, Waiting
  <2>2. Cardinality(ReceiveTokens) <= Cardinality(ReceiveTokens')
    BY <2>1, TokensInThreads, TokenCount
  <2> QED
    BY <1>0, <1>2, <2>1, <2>2, TokensInThreads
    DEF TypeOK, CallReceive, ReceiverWakeup, SenderWakeup, PCs
<1>3. ASSUME NEW m \in Messages, TrySend(t, m) PROVE Wakeups'
  <2>1. /\ t \notin ReceiveTokens /\ ReceiveTokens' = ReceiveTokens \cup {t}
        /\ SendTokens' = SendTokens
        /\ \A w \in PCs \ {"out", "notifyEmpty"} : Waiting(w)' = Waiting(w)
    BY <1>0, <1>3 DEF TypeOK, TrySend, Go, ReceiveTokens, SendTokens, Waiting
  <2>2. Cardinality(ReceiveTokens') = Cardinality(ReceiveTokens) + 1
    BY <2>1, TokensInThreads, TokenCount
  <2>3. Len(buffer') = Len(buffer) + 1 /\ closed' = closed /\ Len(buffer) \in Nat
    BY <1>0, <1>3 DEF TypeOK, TrySend
  <2> QED
    BY <1>0, <2>1, <2>2, <2>3, TokensInThreads
    DEF ReceiverWakeup, SenderWakeup, PCs
<1>4. CASE TryReceive(t)
  <2>1. /\ t \notin SendTokens /\ SendTokens' = SendTokens \cup {t}
        /\ ReceiveTokens' = ReceiveTokens
        /\ \A w \in PCs \ {"out", "notifyFull"} : Waiting(w)' = Waiting(w)
    BY <1>0, <1>4 DEF TypeOK, TryReceive, Go, ReceiveTokens, SendTokens, Waiting
  <2>2. Cardinality(SendTokens') = Cardinality(SendTokens) + 1
    BY <2>1, TokensInThreads, TokenCount
  <2>3. Len(buffer') = Len(buffer) - 1 /\ closed' = closed /\ Len(buffer) \in Nat
    BY <1>0, <1>4 DEF TypeOK, TryReceive
  <2> QED
    BY <1>0, <2>1, <2>2, <2>3, TokensInThreads
    DEF ReceiverWakeup, SenderWakeup, PCs
<1>5. CASE Close(t)
  <2>1. /\ ReceiveTokens' = ReceiveTokens /\ SendTokens' = SendTokens
        /\ \A w \in PCs \ {"out", "closeEmpty"} : Waiting(w)' = Waiting(w)
        /\ t \in Waiting("closeEmpty")'
    BY <1>0, <1>5 DEF TypeOK, Close, Go, ReceiveTokens, SendTokens, Waiting
  <2> QED
    BY <1>0, <1>5, <2>1, TokensInThreads
    DEF Close, ReceiverWakeup, SenderWakeup, PCs
<1> QED  BY <1>1, <1>2, <1>3, <1>4, <1>5 DEF Call

\* send and receive: a thread goes to sleep only when nothing is there for it,
\* and whoever changes the buffer becomes the token for the other side.
LEMMA WakeupsTransfer ==
    ASSUME TypeInv, Wakeups, NEW t \in Threads,
           \/ SendWait(t) \/ SendClosed(t) \/ SendPush(t)
           \/ ReceiveWait(t) \/ ReceivePop(t) \/ ReceiveClosed(t)
    PROVE  Wakeups'
<1> USE CapacityNat DEF TypeInv, Wakeups
<1>0. TypeOK /\ ReceiverWakeup /\ SenderWakeup  OBVIOUS
<1>1. CASE SendWait(t)
  <2>1. /\ ReceiveTokens' = ReceiveTokens
        /\ \A w \in PCs \ {"send", "sendWait"} : Waiting(w)' = Waiting(w)
    BY <1>0, <1>1 DEF TypeOK, SendWait, Go, ReceiveTokens, Waiting
  <2>2. buffer' = buffer /\ closed' = closed /\ ~closed
        /\ Capacity <= Len(buffer) /\ Len(buffer) \in Nat
    BY <1>0, <1>1 DEF TypeOK, SendWait, Full
  <2> QED
    BY <1>0, <2>1, <2>2, TokensInThreads DEF ReceiverWakeup, SenderWakeup, PCs
<1>2. CASE SendClosed(t)
  <2>1. /\ ReceiveTokens' = ReceiveTokens
        /\ \A w \in PCs \ {"send", "out"} : Waiting(w)' = Waiting(w)
    BY <1>0, <1>2 DEF TypeOK, SendClosed, Go, ReceiveTokens, Waiting
  <2>2. buffer' = buffer /\ closed' = closed /\ closed
    BY <1>2 DEF SendClosed
  <2> QED
    BY <1>0, <2>1, <2>2, TokensInThreads DEF ReceiverWakeup, SenderWakeup, PCs
<1>3. CASE SendPush(t)
  <2>1. /\ t \notin ReceiveTokens /\ ReceiveTokens' = ReceiveTokens \cup {t}
        /\ t \in SendTokens /\ SendTokens' = SendTokens \ {t}
        /\ \A w \in PCs \ {"send", "notifyEmpty"} : Waiting(w)' = Waiting(w)
    BY <1>0, <1>3 DEF TypeOK, SendPush, Go, ReceiveTokens, SendTokens, Waiting
  <2>2. /\ Cardinality(ReceiveTokens') = Cardinality(ReceiveTokens) + 1
        /\ Cardinality(SendTokens') = Cardinality(SendTokens) - 1
    BY <2>1, TokensInThreads, TokenCount
  <2>3. Len(buffer') = Len(buffer) + 1 /\ closed' = closed /\ Len(buffer) \in Nat
    BY <1>0, <1>3 DEF TypeOK, SenderHasMessage, SendPush
  <2> QED
    BY <1>0, <2>1, <2>2, <2>3, TokensInThreads
    DEF ReceiverWakeup, SenderWakeup, PCs
<1>4. CASE ReceivePop(t)
  <2>1. /\ t \notin SendTokens /\ SendTokens' = SendTokens \cup {t}
        /\ t \in ReceiveTokens /\ ReceiveTokens' = ReceiveTokens \ {t}
        /\ \A w \in PCs \ {"recv", "notifyFull"} : Waiting(w)' = Waiting(w)
    BY <1>0, <1>4 DEF TypeOK, ReceivePop, Go, ReceiveTokens, SendTokens, Waiting
  <2>2. /\ Cardinality(SendTokens') = Cardinality(SendTokens) + 1
        /\ Cardinality(ReceiveTokens') = Cardinality(ReceiveTokens) - 1
    BY <2>1, TokensInThreads, TokenCount
  <2>3. Len(buffer') = Len(buffer) - 1 /\ closed' = closed /\ Len(buffer) \in Nat
    BY <1>0, <1>4 DEF TypeOK, ReceivePop
  <2> QED
    BY <1>0, <2>1, <2>2, <2>3, TokensInThreads
    DEF ReceiverWakeup, SenderWakeup, PCs
<1>5. CASE ReceiveWait(t) \/ ReceiveClosed(t)
  <2>1. /\ SendTokens' = SendTokens
        /\ \A w \in PCs \ {"recv", "recvWait", "out"} : Waiting(w)' = Waiting(w)
        /\ ReceiveClosed(t) => Waiting("recvWait")' = Waiting("recvWait")
    BY <1>0, <1>5 DEF TypeOK, ReceiveWait, ReceiveClosed, Go, SendTokens, Waiting
  <2>2. buffer' = buffer /\ closed' = closed /\ Len(buffer) = 0
    BY <1>0, <1>5 DEF TypeOK, ReceiveWait, ReceiveClosed
  <2>3. ReceiveWait(t) => ~closed  BY DEF ReceiveWait
  <2> QED
    BY <1>0, <1>5, <2>1, <2>2, <2>3, TokensInThreads
    DEF ReceiverWakeup, SenderWakeup, PCs
<1> QED  BY <1>1, <1>2, <1>3, <1>4, <1>5

\* A notification hands its token to the thread it wakes, or nobody sleeps.
LEMMA WakeupsNotify ==
    ASSUME TypeInv, Wakeups, NEW t \in Threads,
           \/ NotifyEmpty(t) \/ NotifyFull(t)
           \/ CloseNotifyEmpty(t) \/ CloseNotifyFull(t) \/ SpuriousWake(t)
    PROVE  Wakeups'
<1> USE CapacityNat DEF TypeInv, Wakeups
<1>0. TypeOK /\ ReceiverWakeup /\ SenderWakeup /\ Len(buffer) \in Nat
  BY DEF TypeOK
<1>u. UNCHANGED <<buffer, closed>>
  BY DEF NotifyEmpty, NotifyFull, CloseNotifyEmpty, CloseNotifyFull,
         SpuriousWake, Wake
<1>1. CASE NotifyEmpty(t)
  <2>1. /\ SendTokens' = SendTokens
        /\ \A w \in {"sendWait", "closeEmpty", "closeFull"} : Waiting(w)' = Waiting(w)
    BY <1>0, <1>1 DEF TypeOK, NotifyEmpty, OneOf, Wake, SendTokens, Waiting
  <2>2. SenderWakeup'
    BY <1>0, <1>u, <2>1 DEF SenderWakeup
  <2>3. CASE Waiting("recvWait") = {}
    <3>1. Waiting("recvWait")' = {}
      BY <1>0, <1>1, <2>3 DEF TypeOK, NotifyEmpty, OneOf, Wake, Waiting
    <3> QED  BY <2>2, <3>1 DEF ReceiverWakeup
  <2>4. CASE Waiting("recvWait") # {}
    <3>1. PICK u \in Waiting("recvWait") : Wake(t, "notifyEmpty", "out", {u}, "recv")
      BY <1>1, <2>4 DEF NotifyEmpty, OneOf
    <3>2. /\ t \in ReceiveTokens /\ u \in Threads /\ u \notin ReceiveTokens
          /\ ReceiveTokens' = (ReceiveTokens \ {t}) \cup {u}
      BY <1>0, <3>1 DEF TypeOK, Wake, ReceiveTokens, Waiting
    <3>3. Cardinality(ReceiveTokens') = Cardinality(ReceiveTokens)
      BY <3>2, TokensInThreads, TokenCount
    <3>4. ReceiverWakeup'
      BY <1>0, <1>u, <2>1, <2>4, <3>3 DEF ReceiverWakeup
    <3> QED  BY <2>2, <3>4
  <2> QED  BY <2>3, <2>4
<1>2. CASE NotifyFull(t)
  <2>1. /\ ReceiveTokens' = ReceiveTokens
        /\ \A w \in {"recvWait", "closeEmpty", "closeFull"} : Waiting(w)' = Waiting(w)
    BY <1>0, <1>2 DEF TypeOK, NotifyFull, OneOf, Wake, ReceiveTokens, Waiting
  <2>2. ReceiverWakeup'
    BY <1>0, <1>u, <2>1 DEF ReceiverWakeup
  <2>3. CASE Waiting("sendWait") = {}
    <3>1. Waiting("sendWait")' = {}
      BY <1>0, <1>2, <2>3 DEF TypeOK, NotifyFull, OneOf, Wake, Waiting
    <3> QED  BY <2>2, <3>1 DEF SenderWakeup
  <2>4. CASE Waiting("sendWait") # {}
    <3>1. PICK u \in Waiting("sendWait") : Wake(t, "notifyFull", "out", {u}, "send")
      BY <1>2, <2>4 DEF NotifyFull, OneOf
    <3>2. /\ t \in SendTokens /\ u \in Threads /\ u \notin SendTokens
          /\ SendTokens' = (SendTokens \ {t}) \cup {u}
      BY <1>0, <3>1 DEF TypeOK, Wake, SendTokens, Waiting
    <3>3. Cardinality(SendTokens') = Cardinality(SendTokens)
      BY <3>2, TokensInThreads, TokenCount
    <3>4. SenderWakeup'
      BY <1>0, <1>u, <2>1, <2>4, <3>3 DEF SenderWakeup
    <3> QED  BY <2>2, <3>4
  <2> QED  BY <2>3, <2>4
<1>3. CASE CloseNotifyEmpty(t)
  <2>1. Waiting("recvWait")' = {}
    BY <1>0, <1>3 DEF TypeOK, CloseNotifyEmpty, Wake, Waiting
  <2>2. /\ SendTokens' = SendTokens /\ Waiting("sendWait")' = Waiting("sendWait")
        /\ t \in Waiting("closeFull")'
    BY <1>0, <1>3 DEF TypeOK, CloseNotifyEmpty, Wake, SendTokens, Waiting
  <2> QED  BY <1>0, <1>u, <2>1, <2>2 DEF ReceiverWakeup, SenderWakeup
<1>4. CASE CloseNotifyFull(t)
  <2>1. Waiting("sendWait")' = {}
    BY <1>0, <1>4 DEF TypeOK, CloseNotifyFull, Wake, Waiting
  <2>2. /\ ReceiveTokens' = ReceiveTokens
        /\ Waiting("recvWait")' = Waiting("recvWait")
        /\ Waiting("closeEmpty")' = Waiting("closeEmpty")
    BY <1>0, <1>4 DEF TypeOK, CloseNotifyFull, Wake, ReceiveTokens, Waiting
  <2> QED  BY <1>0, <1>u, <2>1, <2>2 DEF ReceiverWakeup, SenderWakeup
<1>5. CASE SpuriousWake(t)
  <2>1. /\ ReceiveTokens \subseteq ReceiveTokens' /\ SendTokens \subseteq SendTokens'
        /\ \A w \in {"recvWait", "sendWait"} : Waiting(w)' \subseteq Waiting(w)
        /\ \A w \in {"closeEmpty", "closeFull"} : Waiting(w)' = Waiting(w)
    BY <1>0, <1>5 DEF TypeOK, SpuriousWake, Go, ReceiveTokens, SendTokens, Waiting
  <2>2. /\ Cardinality(ReceiveTokens) <= Cardinality(ReceiveTokens')
        /\ Cardinality(SendTokens) <= Cardinality(SendTokens')
    BY <2>1, TokensInThreads, TokenCount
  <2> QED
    BY <1>0, <1>u, <2>1, <2>2, TokensInThreads DEF ReceiverWakeup, SenderWakeup
<1> QED  BY <1>1, <1>2, <1>3, <1>4, <1>5

\* The inductive step of both wake-up invariants.
LEMMA WakeupsNext == TypeInv /\ Wakeups /\ [Next]_vars => Wakeups'
<1> SUFFICES ASSUME TypeInv, Wakeups, [Next]_vars PROVE Wakeups'  OBVIOUS
<1>1. CASE UNCHANGED vars
  BY <1>1 DEF vars, Wakeups, ReceiverWakeup, SenderWakeup, ReceiveTokens,
              SendTokens, Waiting
<1>2. CASE Next
  BY <1>2, WakeupsCall, WakeupsTransfer, WakeupsNotify DEF Next, Step
<1> QED  BY <1>1, <1>2

\* No wake-up of the channel is lost, for any number of threads and any
\* capacity, although send and receive notify after they drop the lock.
LEMMA NoLostWakeup == Spec => []Wakeups
<1>1. Init => Wakeups
  BY DEF Init, Wakeups, ReceiverWakeup, SenderWakeup, Waiting
<1>2. TypeInv /\ Wakeups /\ [Next]_vars => (TypeInv /\ Wakeups)'
  BY TypeInvNext, WakeupsNext
<1> QED  BY <1>1, <1>2, TypeInvInit, PTL DEF Spec

\* No message stays in the buffer next to a receiver that sleeps on not_empty
\* with nobody on the way to it, nor does a close go unnoticed, although
\* send, tryReceive and close notify after they gave the mutex up.
THEOREM ReceiversWoken == Spec => []ReceiverWakeup
<1>1. Wakeups => ReceiverWakeup  BY DEF Wakeups
<1> QED  BY <1>1, NoLostWakeup, PTL

\* No room stays in the buffer next to a sender that sleeps on not_full with
\* nobody on the way to it, and no sender sleeps through a close.
THEOREM SendersWoken == Spec => []SenderWakeup
<1>1. Wakeups => SenderWakeup  BY DEF Wakeups
<1> QED  BY <1>1, NoLostWakeup, PTL

-----------------------------------------------------------------------------
(* Close *)

\* close is final, for any number of threads: no sender that was under way, or
\* that close woke, adds a message afterwards, and nothing opens the channel.
THEOREM CloseIsFinal == Spec => ClosedIsFinal
<1> DEFINE Kept == closed => closed' /\ Len(buffer') <= Len(buffer)
<1>1. TypeInv /\ [Next]_vars => [Kept]_vars
  <2> SUFFICES ASSUME TypeInv, Next, closed PROVE closed' /\ Len(buffer') <= Len(buffer)
    OBVIOUS
  <2>0. buffer \in Seq(Messages) /\ Len(buffer) \in Nat  BY DEF TypeInv, TypeOK
  <2>1. CASE UNCHANGED buffer /\ closed'  BY <2>0, <2>1
  <2>2. CASE closed' /\ Len(buffer') = Len(buffer) - 1  BY <2>0, <2>2
  <2>3. ASSUME NEW t \in Threads, Call(t) \/ Step(t) \/ SpuriousWake(t)
        PROVE  closed' /\ (UNCHANGED buffer \/ Len(buffer') = Len(buffer) - 1)
    <3>1. CASE ReceivePop(t)  BY <2>0, <3>1 DEF ReceivePop
    <3>2. CASE TryReceive(t)  BY <2>0, <3>2 DEF TryReceive
    <3>3. ASSUME NEW m, CallSend(t, m) \/ TrySend(t, m) PROVE UNCHANGED <<buffer, closed>>
      BY <3>3 DEF CallSend, TrySend
    <3>4. CASE \/ SendWait(t) \/ SendClosed(t) \/ SendPush(t) \/ CallReceive(t)
               \/ ReceiveWait(t) \/ ReceiveClosed(t) \/ SpuriousWake(t)
      BY <3>4 DEF SendWait, SendClosed, SendPush, CallReceive, ReceiveWait, ReceiveClosed,
         SpuriousWake
    <3>5. CASE NotifyEmpty(t) \/ NotifyFull(t) \/ CloseNotifyEmpty(t) \/ CloseNotifyFull(t)
      BY <3>5 DEF NotifyEmpty, NotifyFull, CloseNotifyEmpty, CloseNotifyFull, Wake
    <3>6. CASE Close(t)  BY <3>6 DEF Close
    <3> QED  BY <2>3, <3>1, <3>2, <3>3, <3>4, <3>5, <3>6 DEF Call, Step
  <2> QED  BY <2>1, <2>2, <2>3 DEF Next
<1> QED  BY <1>1, TypeInvInit, TypeInvNext, PTL DEF Spec, ClosedIsFinal
=============================================================================
