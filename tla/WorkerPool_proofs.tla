-------------------------- MODULE WorkerPool_proofs --------------------------
(***************************************************************************)
(* Proofs about WorkerPool, for every number of workers, rows and threads  *)
(* asked for, in all four modes: as long as calls of parallel_rows do not  *)
(* overlap, a closure is entered and run only while its call is open, and  *)
(* the pool implements the fork-join.                                      *)
(***************************************************************************)
EXTENDS WorkerPool, FiniteSetTheorems, TLAPS

\* The hypothesis of both theorems: one call at a time.  parallel_rows takes
\* &self and keeps no lock, so this is for its callers to see to.
OneAtATime == \A c, d \in Callers : cpc[c] # "idle" /\ cpc[d] # "idle" => c = d

-----------------------------------------------------------------------------
(* The frame of a call *)

CallPlaces == {"idle", "inline", "return", "slots", "fence", "count", "wake",
               "assist", "drive", "join"}
WorkerPlaces == {"spin", "fence", "recheck", "park", "unparked", "exit",
                 "fetch", "drive", "countdown"}
DrivePlaces == {"off", "load", "claim", "run", "scan", "steal", "runStolen", "done"}

\* Places of a worker that has nothing to do with a call.
Apart == {"spin", "fence", "recheck", "park", "unparked", "exit"}

\* The caller has given work to the workers and has not joined them.
Dispatching(c) == cpc[c] \notin {"idle", "inline", "return"}

DriverStates == [job : Callers \cup {None}, call : Nat, band : Int, at : DrivePlaces,
                 lo : Int, hi : Int, arg : Int]

Types ==
    /\ steal \in BOOLEAN /\ assist \in BOOLEAN
    /\ state \in [Workers -> {0, 1}]
    /\ flips \in [Callers -> SUBSET Workers]
    /\ slot \in [Workers -> [job : Callers \cup {None}, call : Nat, band : Int]]
    /\ pending \in Nat
    /\ wpc \in [Workers -> WorkerPlaces]
    /\ cpc \in [Callers -> CallPlaces]
    /\ op \in [Callers -> [rows : Nat, n : Nat, call : Nat]]
    /\ idx \in [Callers \cup {None} -> Nat]
    /\ drv \in [Workers \cup Callers -> DriverStates]

\* A call that dispatches has bands for all its workers, and at least one.
Shaped ==
    \A c \in Callers : Dispatching(c) =>
        /\ op[c].rows \in RowCounts /\ 2 <= op[c].n /\ op[c].n <= op[c].rows
        /\ Dispatched(op[c]) \in 1 .. NWorkers
        /\ FirstWorkerBand + Dispatched(op[c]) <= op[c].n

\* The loop over the slots is inside the workers it dispatches to.
InLoop ==
    \A c \in Callers : cpc[c] \in {"slots", "wake"} =>
        1 <= idx[c] /\ idx[c] <= Dispatched(op[c])

\* Workers whose slot the caller still has to write.
ToWrite(c) == IF cpc[c] = "slots" THEN idx[c] .. Dispatched(op[c]) ELSE {}

\* Workers the countdown waits for: dispatched to and not counted down.
Owing == {w \in Workers : \/ state[w] = 1
                          \/ wpc[w] = "countdown"
                          \/ \E c \in Callers : w \in ToWrite(c) \cup flips[c]}

\* Worker w's slot names call op[c] and w's band of it.
SlotOf(c, w) ==
    /\ slot[w].job = c /\ slot[w].call = op[c].call
    /\ slot[w].band = FirstWorkerBand + w - 1
    /\ w <= Dispatched(op[c])

\* Where a worker is decides which of the four stages of a dispatch it is in:
\* slot not written, flag not visible, flag set, flag reset.
Stages ==
    /\ \A c \in Callers : flips[c] # {} => Dispatching(c)
    /\ \A c \in Callers, w \in Workers : w \in ToWrite(c) =>
          state[w] = 0 /\ wpc[w] \in Apart /\ w \notin flips[c]
    /\ \A c \in Callers, w \in Workers : w \in flips[c] =>
          state[w] = 0 /\ wpc[w] \in Apart /\ SlotOf(c, w)
    /\ \A w \in Workers : state[w] = 1 =>
          \E c \in Callers : Dispatching(c) /\ SlotOf(c, w)
    /\ \A w \in Workers : wpc[w] \in {"fetch", "drive"} => state[w] = 1
    /\ \A w \in Workers : wpc[w] = "countdown" =>
          state[w] = 0 /\ \E c \in Callers : Dispatching(c)
    /\ \A c \in Callers, w \in Workers :
          wpc[w] = "countdown" => w \notin ToWrite(c) /\ w \notin flips[c]

\* Who drives is inside the closure of the call it was dispatched to.
Drivers ==
    /\ \A w \in Workers : drv[w].at # "off" <=> wpc[w] = "drive"
    /\ \A w \in Workers : wpc[w] = "drive" =>
          drv[w].job = slot[w].job /\ drv[w].call = slot[w].call /\ drv[w].band = slot[w].band
    /\ \A c \in Callers : drv[c].at # "off" <=> cpc[c] = "drive"
    /\ \A c \in Callers : cpc[c] = "drive" =>
          assist /\ drv[c].job = c /\ drv[c].call = op[c].call /\ drv[c].band = 0

\* A cursor starts at its band and only grows; a claim is of some rows, and a
\* victim is a band of the call.
Cursors ==
    /\ DOMAIN cursor = Callers
    /\ \A c \in Callers : Dispatching(c) =>
          /\ cursor[c] \in [0 .. op[c].n - 1 -> Nat]
          /\ \A b \in 0 .. op[c].n - 1 : cursor[c][b] >= BandLo(op[c], b)
    /\ \A t \in Workers \cup Callers : drv[t].at = "claim" => drv[t].arg \in Nat
    /\ \A t \in Workers \cup Callers : drv[t].at \in {"steal", "runStolen"} =>
          drv[t].arg \in 0 .. op[drv[t].job].n - 1

\* The countdown is exact.
Counted == pending = Cardinality(Owing)

FrameInv == Types /\ Shaped /\ InLoop /\ Stages /\ Drivers /\ Cursors /\ Counted

-----------------------------------------------------------------------------
(* The rows of a call *)

\* The rows a thread has claimed and not run.
Held(t) == IF drv[t].at \in {"run", "runStolen"} THEN drv[t].lo .. drv[t].hi - 1 ELSE {}

\* Workers that have not entered the closure, and those that have not left it.
Awaited(c) == {w \in Workers : \/ w \in ToWrite(c) \cup flips[c]
                               \/ state[w] = 1 /\ wpc[w] # "drive"}
Engaged(c) == {w \in Workers : w \in ToWrite(c) \cup flips[c] \/ state[w] = 1}

\* Static bands whose thread has not entered the closure.
Waiting(c) ==
    {b \in 0 .. op[c].n - 1 :
        IF assist /\ b = 0
        THEN cpc[c] \notin {"drive", "join"}
        ELSE b - FirstWorkerBand + 1 \in Awaited(c)}

\* Rows nobody has claimed.
Unclaimed(c, r) ==
    \E b \in 0 .. op[c].n - 1 :
        /\ r < BandHi(op[c], b)
        /\ IF steal THEN cursor[c][b] <= r ELSE b \in Waiting(c) /\ BandLo(op[c], b) <= r

\* The cursor is past the band.
Drained(c, b) == cursor[c][b] >= BandHi(op[c], b)
AllDrained(c) == \A b \in 0 .. op[c].n - 1 : Drained(c, b)

RowTypes ==
    /\ DOMAIN touched = Callers
    /\ \A c \in Callers : cpc[c] # "idle" =>
          touched[c] \in [0 .. op[c].rows - 1 -> {0, 1}]

\* The static driver only runs its band; a stealing one looks for victims
\* once its own band is drained, and ends when all are.
DriverPlaces ==
    /\ \A t \in Workers \cup Callers : ~steal => drv[t].at \in {"off", "run", "done"}
    /\ steal => \A t \in Workers \cup Callers :
          /\ drv[t].at \in {"scan", "steal", "runStolen", "done"} => Drained(drv[t].job, drv[t].band)
          /\ drv[t].at = "done" => AllDrained(drv[t].job)

\* A worker that has left the closure left all bands drained.
LeftDrained ==
    steal => \A c \in Callers : Dispatching(c) =>
        \A w \in 1 .. Dispatched(op[c]) : w \in Engaged(c) \/ AllDrained(c)

\* Every row of a call is in one place: run, in the hands of one thread, or
\* unclaimed.
Placed ==
    \A c \in Callers : Dispatching(c) =>
        \A r \in 0 .. op[c].rows - 1 :
            /\ \A t \in Workers \cup Callers : r \in Held(t) => touched[c][r] = 0
            /\ \A t, u \in Workers \cup Callers : r \in Held(t) /\ r \in Held(u) => t = u
            /\ Unclaimed(c, r) =>
                 touched[c][r] = 0 /\ \A t \in Workers \cup Callers : r \notin Held(t)
            /\ \/ touched[c][r] = 1
               \/ \E t \in Workers \cup Callers : r \in Held(t)
               \/ Unclaimed(c, r)

\* On the caller alone there is nothing to divide.
Inlined ==
    \A c \in Callers : \A r \in 0 .. op[c].rows - 1 :
        /\ cpc[c] = "inline" => touched[c][r] = 0
        /\ cpc[c] = "return" => touched[c][r] = 1

RowInv == RowTypes /\ DriverPlaces /\ LeftDrained /\ Placed /\ Inlined
-----------------------------------------------------------------------------
(* The cut of the rows *)

Ops == [rows : Nat, n : Nat, call : Nat]

\* A rounded-up quotient is a positive number that reaches the dividend.
LEMMA CeilDivFacts ==
    ASSUME NEW a \in Nat \ {0}, NEW b \in Nat \ {0}
    PROVE  /\ CeilDiv(a, b) \in Nat \ {0}
           /\ a <= b * CeilDiv(a, b)
           /\ 2 <= b /\ 2 <= a => CeilDiv(a, b) < a
<1> DEFINE x == a + b - 1
           q == x \div b
<1>1. x \in Nat  OBVIOUS
<1>2. q \in Int /\ x = b * q + (x % b) /\ 0 <= x % b /\ x % b < b  BY <1>1
<1>3. CeilDiv(a, b) = q  BY DEF CeilDiv
<1>4. PICK m : m = x % b  OBVIOUS
<1>5. q \in Int /\ m \in Int /\ a + b - 1 = b * q + m /\ 0 <= m /\ m < b
  BY <1>2, <1>4
<1> HIDE DEF x, q
<1>6. q >= 1
  <2> SUFFICES ASSUME q <= 0 PROVE FALSE  BY <1>5
  <2>1. b * q <= 0  BY <1>5
  <2> QED  BY <2>1, <1>5
<1>7. a <= b * q  BY <1>5
<1>8. ASSUME 2 <= b, 2 <= a PROVE q < a
  <2> SUFFICES ASSUME q >= a PROVE FALSE  BY <1>5
  <2>1. b * q >= b * a  BY <1>5
  <2>2. b * a >= a + b
    <3>1. (b - 1) * (a - 1) >= 1  BY <1>8
    <3>2. (b - 1) * (a - 1) = b * a - b - a + 1  BY SMTT(30)
    <3> QED  BY <3>1, <3>2
  <2> QED  BY <2>1, <2>2, <1>5
<1> QED  BY <1>3, <1>5, <1>6, <1>7, <1>8

\* The bands are intervals inside the rows ...
LEMMA BandFacts ==
    ASSUME NEW o \in Ops, 2 <= o.n, o.n <= o.rows, NEW b \in Nat
    PROVE  /\ BandSize(o) \in Nat \ {0} /\ BandSize(o) < o.rows
           /\ BandLo(o, b) \in Nat /\ BandHi(o, b) \in Nat
           /\ BandLo(o, b) <= BandHi(o, b) /\ BandHi(o, b) <= o.rows
           /\ Chunk(o) \in Nat
<1>1. BandSize(o) \in Nat \ {0} /\ BandSize(o) < o.rows
  BY CeilDivFacts DEF BandSize, Ops
<1>2. CeilDiv(BandSize(o), 8) \in Nat \ {0}  BY <1>1, CeilDivFacts
<1> PICK s : s = BandSize(o)  OBVIOUS
<1>3. b * s \in Nat /\ (b + 1) * s \in Nat /\ b * s <= (b + 1) * s  BY <1>1
<1>4. BandLo(o, b) = MinOf(b * s, o.rows) /\ BandHi(o, b) = MinOf((b + 1) * s, o.rows)
  BY DEF BandLo, BandHi
<1>5. /\ BandLo(o, b) \in Nat /\ BandHi(o, b) \in Nat
      /\ BandLo(o, b) <= BandHi(o, b) /\ BandHi(o, b) <= o.rows
  BY <1>3, <1>4 DEF MinOf, Ops
<1>6. Chunk(o) \in Nat  BY <1>1, <1>2 DEF Chunk, MinOf, MaxOf, Ops
<1> QED  BY <1>1, <1>5, <1>6

\* ... that do not overlap ...
LEMMA BandsDisjoint ==
    ASSUME NEW o \in Ops, 2 <= o.n, o.n <= o.rows, NEW b \in Nat, NEW d \in Nat, NEW r \in Nat,
           BandLo(o, b) <= r, r < BandHi(o, b), BandLo(o, d) <= r, r < BandHi(o, d)
    PROVE  b = d
<1> PICK s : s = BandSize(o)  OBVIOUS
<1>1. s \in Nat \ {0}  BY BandFacts
<1>2. /\ BandLo(o, b) = MinOf(b * s, o.rows) /\ BandHi(o, b) = MinOf((b + 1) * s, o.rows)
      /\ BandLo(o, d) = MinOf(d * s, o.rows) /\ BandHi(o, d) = MinOf((d + 1) * s, o.rows)
  BY DEF BandLo, BandHi
<1>3. b * s \in Nat /\ (b + 1) * s \in Nat /\ d * s \in Nat /\ (d + 1) * s \in Nat
  BY <1>1
<1>4. b * s <= r /\ r < (b + 1) * s /\ d * s <= r /\ r < (d + 1) * s
  BY <1>2, <1>3 DEF MinOf, Ops
<1>5. ASSUME NEW x \in Nat, NEW y \in Nat, x < y  PROVE (x + 1) * s <= y * s
  <2>1. x + 1 <= y  BY <1>5
  <2> QED  BY <1>1, <2>1
<1>6. ~(b < d)  BY <1>4, <1>5, <1>3
<1>7. ~(d < b)  BY <1>4, <1>5, <1>3
<1> QED  BY <1>6, <1>7

\* ... and cover the rows.
LEMMA BandsCover ==
    ASSUME NEW o \in Ops, 2 <= o.n, o.n <= o.rows, NEW r \in 0 .. o.rows - 1
    PROVE  \E b \in 0 .. o.n - 1 : /\ BandLo(o, b) <= r /\ r < BandHi(o, b)
                                   /\ b * BandSize(o) < o.rows
<1> PICK s : s = BandSize(o)  OBVIOUS
<1>1. s \in Nat \ {0} /\ o.rows <= o.n * s
  BY BandFacts, CeilDivFacts DEF BandSize, Ops
<1>2. PICK b : b = r \div s  OBVIOUS
<1>3. b \in Nat /\ s * b <= r /\ r < s * b + s
  BY <1>1, <1>2 DEF Ops
<1>4. b < o.n
  <2> SUFFICES ASSUME b >= o.n PROVE FALSE  BY <1>3 DEF Ops
  <2>1. s * b >= o.n * s  BY <1>1, <1>3 DEF Ops
  <2> QED  BY <2>1, <1>1, <1>3 DEF Ops
<1>5. b * s = s * b /\ (b + 1) * s = s * b + s  BY <1>1, <1>3
<1>6. BandLo(o, b) = MinOf(b * s, o.rows) /\ BandHi(o, b) = MinOf((b + 1) * s, o.rows)
  BY DEF BandLo, BandHi
<1>7. BandLo(o, b) <= r /\ r < BandHi(o, b) /\ b * BandSize(o) < o.rows
  BY <1>1, <1>3, <1>5, <1>6 DEF MinOf, Ops
<1> QED  BY <1>3, <1>4, <1>7 DEF Ops

\* A call of two bands or more has a worker for each, and one at least; a
\* static band that has rows has a worker or is the caller's.
LEMMA DispatchFacts ==
    ASSUME NEW o \in Ops, 2 <= o.n, o.n <= o.rows,
           steal \in BOOLEAN, assist \in BOOLEAN,
           o.n <= NWorkers + FirstWorkerBand
    PROVE  /\ Dispatched(o) \in Nat
           /\ 1 <= Dispatched(o) /\ Dispatched(o) <= NWorkers
           /\ FirstWorkerBand + Dispatched(o) <= o.n
           /\ ~steal => \A b \in FirstWorkerBand .. o.n - 1 :
                           b * BandSize(o) < o.rows => b - FirstWorkerBand < Dispatched(o)
<1> PICK f : f = FirstWorkerBand  OBVIOUS
<1> PICK s : s = BandSize(o)  OBVIOUS
<1>1. f \in {0, 1} /\ NWorkers \in Nat /\ o.n \in Nat /\ o.rows \in Nat
  BY NWorkersNat DEF FirstWorkerBand, Ops
<1>2. s \in Nat \ {0} /\ s < o.rows  BY BandFacts
<1>3. CASE steal
  <2>1. Dispatched(o) = MinOf(o.n - f, NWorkers)  BY <1>3 DEF Dispatched
  <2> QED  BY <1>1, <1>3, <2>1 DEF MinOf
<1>4. CASE ~steal
  <2> DEFINE S == {b \in f .. o.n - 1 : b * s < o.rows}
  <2>1. Dispatched(o) = Cardinality(S)  BY <1>4 DEF Dispatched
  <2>2. /\ IsFiniteSet(f .. o.n - 1) /\ Cardinality(f .. o.n - 1) = o.n - f
    <3>1. f \in Int /\ o.n - 1 \in Int /\ ~(f > o.n - 1) /\ (o.n - 1) - f + 1 = o.n - f  BY <1>1
    <3> QED  BY <3>1, FS_Interval
  <2>3. /\ IsFiniteSet(S) /\ Cardinality(S) <= o.n - f /\ Cardinality(S) \in Nat
    <3>1. S \in SUBSET (f .. o.n - 1)  OBVIOUS
    <3> HIDE DEF S
    <3> QED  BY <3>1, <2>2, FS_Subset, FS_CardinalityType
  <2>4. 1 \in S  BY <1>1, <1>2
  <2>5. ASSUME NEW b \in f .. o.n - 1, b * s < o.rows PROVE b - f < Cardinality(S)
    <3>1. ASSUME NEW d \in f .. b PROVE d * s < o.rows
      <4>1. d \in Nat /\ b \in Nat /\ d <= b  BY <1>1
      <4>2. d * s <= b * s  BY <4>1, <1>2
      <4> QED  BY <4>1, <4>2, <2>5, <1>1, <1>2
    <3>2. f .. b \in SUBSET S  BY <3>1, <1>1
    <3>3. Cardinality(f .. b) = b - f + 1  BY <1>1, FS_Interval
    <3> HIDE DEF S
    <3> QED  BY <3>2, <3>3, <2>3, <1>1, FS_Subset
  <2>6. 1 <= Cardinality(S)
    <3> HIDE DEF S
    <3> QED  BY <2>3, <2>4, FS_EmptySet
  <2> HIDE DEF S
  <2> QED  BY <1>1, <1>4, <2>1, <2>3, <2>5, <2>6
<1> QED  BY <1>3, <1>4
-----------------------------------------------------------------------------
(* FrameInv: what it says and what keeps it *)

\* As long as the call and the modes stay, so does the cut.
LEMMA SameCut ==
    ASSUME UNCHANGED <<steal, assist>>
    PROVE  /\ FirstWorkerBand' = FirstWorkerBand
           /\ \A c \in Callers : op'[c] = op[c] => Dispatched(op[c])' = Dispatched(op[c])
BY DEF Dispatched, FirstWorkerBand

\* The cut of a call that starts is taken in the modes, which stay.
LEMMA NextCut ==
    ASSUME UNCHANGED <<steal, assist>>, NEW c \in Callers, NEW o, op'[c] = o
    PROVE  Dispatched(op[c])' = Dispatched(o) /\ FirstWorkerBand' = FirstWorkerBand
BY DEF Dispatched, FirstWorkerBand

\* Finitely many workers owe.
LEMMA OwingFinite == IsFiniteSet(Owing) /\ Cardinality(Owing) \in Nat
<1>1. IsFiniteSet(Workers)  BY NWorkersNat, FS_Interval DEF Workers
<1>2. Owing \in SUBSET Workers  BY DEF Owing
<1> QED  BY <1>1, <1>2, FS_Subset, FS_CardinalityType

\* A thread inside a closure is inside that of an open call, on one of its bands.
LEMMA DriverFacts ==
    ASSUME FrameInv, NEW t \in Workers \cup Callers, drv[t].at # "off"
    PROVE  /\ drv[t].job \in Callers /\ Dispatching(drv[t].job)
           /\ drv[t].call = op[drv[t].job].call
           /\ drv[t].band \in 0 .. op[drv[t].job].n - 1
           /\ op[drv[t].job] \in Ops
           /\ 2 <= op[drv[t].job].n /\ op[drv[t].job].n <= op[drv[t].job].rows
<1> USE DEF FrameInv
<1>1. CASE t \in Workers
  <2>1. wpc[t] = "drive" /\ state[t] = 1  BY <1>1 DEF Drivers, Stages
  <2>2. PICK c \in Callers : Dispatching(c) /\ SlotOf(c, t)  BY <1>1, <2>1 DEF Stages
  <2>3. drv[t].job = c /\ drv[t].call = op[c].call /\ drv[t].band = FirstWorkerBand + t - 1
    BY <1>1, <2>1, <2>2 DEF Drivers, SlotOf
  <2>4. t \in Int /\ 1 <= t /\ t <= Dispatched(op[c]) /\ FirstWorkerBand \in {0, 1}
    BY <1>1, <2>2, NWorkersNat DEF Workers, SlotOf, FirstWorkerBand
  <2>5. op[c] \in Ops /\ FirstWorkerBand + Dispatched(op[c]) <= op[c].n
        /\ 2 <= op[c].n /\ op[c].n <= op[c].rows /\ Dispatched(op[c]) \in Int
    <3>1. op[c] \in Ops  BY DEF Types, Ops
    <3> QED  BY <3>1, <2>2, NWorkersNat DEF Shaped
  <2>6. drv[t].band \in 0 .. op[c].n - 1  BY <2>3, <2>4, <2>5 DEF Ops
  <2> QED  BY <2>2, <2>3, <2>5, <2>6
<1>2. CASE t \in Callers
  <2>1. cpc[t] = "drive" /\ drv[t].job = t /\ drv[t].call = op[t].call /\ drv[t].band = 0
    BY <1>2 DEF Drivers
  <2>2. Dispatching(t)  BY <2>1 DEF Dispatching
  <2> QED  BY <1>2, <2>1, <2>2 DEF Shaped, Types, Ops
<1> QED  BY <1>1, <1>2

\* The frame is there for who is inside the closure or about to enter it.
LEMMA FrameInvImplies == FrameInv => ClosureAlive
<1> SUFFICES ASSUME FrameInv PROVE ClosureAlive  OBVIOUS
<1>1. ASSUME NEW t \in Workers \cup Callers, drv[t].at # "off"
      PROVE  cpc[drv[t].job] # "idle" /\ op[drv[t].job].call = drv[t].call
  BY <1>1, DriverFacts DEF Dispatching
<1>2. ASSUME NEW w \in Workers, state[w] = 1 \/ wpc[w] = "fetch"
      PROVE  slot[w].job # None /\ cpc[slot[w].job] # "idle" /\ op[slot[w].job].call = slot[w].call
  <2>1. state[w] = 1  BY <1>2 DEF FrameInv, Stages
  <2> QED  BY <2>1, NoneIsNoCaller DEF FrameInv, Stages, SlotOf, Dispatching
<1> QED  BY <1>1, <1>2 DEF ClosureAlive

\* A new pool has no call and no work.
LEMMA FrameInit == Init => FrameInv
<1> SUFFICES ASSUME Init PROVE FrameInv  OBVIOUS
<1> USE DEF Init
<1>1. Types
  BY NoneIsNoCaller DEF Types, WorkerPlaces, CallPlaces, DriverStates, DrivePlaces, Idle
<1>2. Shaped /\ InLoop  BY DEF Shaped, InLoop, Dispatching
<1>3. Stages  BY DEF Stages, Dispatching, ToWrite
<1>4. Drivers  BY DEF Drivers, Idle
<1>5. Cursors  BY DEF Cursors, Dispatching, Idle
<1>6. Owing = {}  BY DEF Owing, ToWrite
<1>7. Counted  BY <1>6, FS_EmptySet DEF Counted
<1> QED  BY <1>1, <1>2, <1>3, <1>4, <1>5, <1>7 DEF FrameInv

\* What a worker does between two dispatches, and its look at its flag, leave
\* the frame alone.
LEMMA ApartKeeps ==
    ASSUME FrameInv,
           UNCHANGED <<steal, assist, state, flips, slot, pending, cpc, op, drv, cursor>>,
           idx' \in [Callers \cup {None} -> Nat],
           \A c \in Callers : idx'[c] = idx[c],
           wpc' \in [Workers -> WorkerPlaces],
           \A w \in Workers : \/ wpc'[w] = wpc[w]
                              \/ wpc[w] \in Apart /\ wpc'[w] \in Apart
                              \/ wpc[w] \in Apart /\ wpc'[w] = "fetch" /\ state[w] = 1
    PROVE  FrameInv'
<1> USE DEF FrameInv
<1>0. /\ FirstWorkerBand' = FirstWorkerBand
      /\ \A c \in Callers : Dispatched(op[c])' = Dispatched(op[c])
  BY SameCut
<1>1. Types'  BY DEF Types
<1>2. Shaped'  BY <1>0 DEF Shaped, Dispatching
<1>3. InLoop'  BY <1>0 DEF InLoop
<1>4. \A c \in Callers : ToWrite(c)' = ToWrite(c)  BY <1>0 DEF ToWrite
<1>5. \A c \in Callers, w \in Workers : SlotOf(c, w)' = SlotOf(c, w)
  BY <1>0 DEF SlotOf
<1>6. Stages'
  <2>1. \A w \in Workers : wpc'[w] = "countdown" <=> wpc[w] = "countdown"  BY DEF Apart
  <2>2. \A w \in Workers : wpc'[w] \in {"fetch", "drive"} => state[w] = 1
    BY DEF Apart, Stages
  <2>3. \A c \in Callers, w \in Workers : w \in ToWrite(c) \cup flips[c] =>
           state[w] = 0 /\ wpc[w] \in Apart /\ wpc'[w] \in Apart
    BY DEF Stages
  <2> QED  BY <1>4, <1>5, <2>1, <2>2, <2>3 DEF Stages, Dispatching
<1>7. Drivers'
  <2>1. \A w \in Workers : wpc'[w] = "drive" <=> wpc[w] = "drive"  BY DEF Apart
  <2> QED  BY <2>1 DEF Drivers
<1>8. Cursors'  BY DEF Cursors, Dispatching
<1>9. Owing' = Owing
  <2>1. \A w \in Workers : wpc'[w] = "countdown" <=> wpc[w] = "countdown"  BY DEF Apart
  <2> QED  BY <2>1, <1>4 DEF Owing
<1>10. Counted'  BY <1>9 DEF Counted
<1> QED  BY <1>1, <1>2, <1>3, <1>6, <1>7, <1>8, <1>10

\* A driver's record with some of its fields replaced.
LEMMA ReplacedAt ==
    ASSUME NEW d \in DriverStates, NEW at \in DrivePlaces,
           NEW e, e = [d EXCEPT !.at = at]
    PROVE  /\ e \in DriverStates
           /\ e.job = d.job /\ e.call = d.call /\ e.band = d.band /\ e.at = at
           /\ e.lo = d.lo /\ e.hi = d.hi /\ e.arg = d.arg
<1>1. e \in DriverStates  BY DEF DriverStates
<1>2. e.job = d.job  BY DEF DriverStates
<1>3. e.call = d.call  BY DEF DriverStates
<1>4. e.band = d.band  BY DEF DriverStates
<1>5. e.at = at  BY DEF DriverStates
<1>6. e.lo = d.lo  BY DEF DriverStates
<1>7. e.hi = d.hi  BY DEF DriverStates
<1>8. e.arg = d.arg  BY DEF DriverStates
<1> QED  BY <1>1, <1>2, <1>3, <1>4, <1>5, <1>6, <1>7, <1>8

\* The same with the victim, or the span wanted, replaced ...
LEMMA ReplacedArg ==
    ASSUME NEW d \in DriverStates, NEW at \in DrivePlaces, NEW arg \in Int,
           NEW e, e = [d EXCEPT !.at = at, !.arg = arg]
    PROVE  /\ e \in DriverStates
           /\ e.job = d.job /\ e.call = d.call /\ e.band = d.band /\ e.at = at
           /\ e.lo = d.lo /\ e.hi = d.hi /\ e.arg = arg
<1>1. e \in DriverStates  BY DEF DriverStates
<1>2. e.job = d.job  BY DEF DriverStates
<1>3. e.call = d.call  BY DEF DriverStates
<1>4. e.band = d.band  BY DEF DriverStates
<1>5. e.at = at  BY DEF DriverStates
<1>6. e.lo = d.lo  BY DEF DriverStates
<1>7. e.hi = d.hi  BY DEF DriverStates
<1>8. e.arg = arg  BY DEF DriverStates
<1> QED  BY <1>1, <1>2, <1>3, <1>4, <1>5, <1>6, <1>7, <1>8

\* ... and with the span that is run.
LEMMA ReplacedSpan ==
    ASSUME NEW d \in DriverStates, NEW at \in DrivePlaces, NEW lo \in Int, NEW hi \in Int,
           NEW e, e = [d EXCEPT !.at = at, !.lo = lo, !.hi = hi]
    PROVE  /\ e \in DriverStates
           /\ e.job = d.job /\ e.call = d.call /\ e.band = d.band /\ e.at = at
           /\ e.lo = lo /\ e.hi = hi /\ e.arg = d.arg
<1>1. e \in DriverStates  BY DEF DriverStates
<1>2. e.job = d.job  BY DEF DriverStates
<1>3. e.call = d.call  BY DEF DriverStates
<1>4. e.band = d.band  BY DEF DriverStates
<1>5. e.at = at  BY DEF DriverStates
<1>6. e.lo = lo  BY DEF DriverStates
<1>7. e.hi = hi  BY DEF DriverStates
<1>8. e.arg = d.arg  BY DEF DriverStates
<1> QED  BY <1>1, <1>2, <1>3, <1>4, <1>5, <1>6, <1>7, <1>8

\* Nor does a step inside a closure touch it, as long as the thread stays in
\* there and the cursors grow.
LEMMA DrivingKeeps ==
    ASSUME FrameInv, NEW t \in Workers \cup Callers, drv[t].at # "off",
           NEW e \in DriverStates, e.at # "off",
           e.job = drv[t].job, e.call = drv[t].call, e.band = drv[t].band,
           e.at = "claim" => e.arg \in Nat,
           e.at \in {"steal", "runStolen"} => e.arg \in 0 .. op[e.job].n - 1,
           drv' = [drv EXCEPT ![t] = e],
           DOMAIN cursor' = Callers,
           \A c \in Callers : Dispatching(c) =>
              /\ cursor'[c] \in [0 .. op[c].n - 1 -> Nat]
              /\ \A b \in 0 .. op[c].n - 1 : cursor'[c][b] >= cursor[c][b],
           UNCHANGED <<steal, assist, state, flips, slot, pending, wpc, cpc, op, idx>>
    PROVE  FrameInv'
<1> USE DEF FrameInv
<1>0. /\ FirstWorkerBand' = FirstWorkerBand
      /\ \A c \in Callers : Dispatched(op[c])' = Dispatched(op[c])
  BY SameCut
<1>1. Types'  BY DEF Types
<1>2. Shaped'  BY <1>0 DEF Shaped, Dispatching
<1>3. InLoop'  BY <1>0 DEF InLoop
<1>4. \A c \in Callers : ToWrite(c)' = ToWrite(c)  BY <1>0 DEF ToWrite
<1>5. \A c \in Callers, w \in Workers : SlotOf(c, w)' = SlotOf(c, w)
  BY <1>0 DEF SlotOf
<1>6. Stages'  BY <1>4, <1>5 DEF Stages, Dispatching
<1>7. \A u \in Workers \cup Callers :
        /\ drv'[u].at # "off" <=> drv[u].at # "off"
        /\ drv'[u].job = drv[u].job /\ drv'[u].call = drv[u].call /\ drv'[u].band = drv[u].band
        /\ drv'[u].at = "claim" => drv'[u].arg \in Nat
        /\ drv'[u].at \in {"steal", "runStolen"} => drv'[u].arg \in 0 .. op[drv'[u].job].n - 1
  <2> SUFFICES ASSUME NEW u \in Workers \cup Callers
               PROVE  /\ drv'[u].at # "off" <=> drv[u].at # "off"
                      /\ drv'[u].job = drv[u].job /\ drv'[u].call = drv[u].call
                      /\ drv'[u].band = drv[u].band
                      /\ drv'[u].at = "claim" => drv'[u].arg \in Nat
                      /\ drv'[u].at \in {"steal", "runStolen"} => drv'[u].arg \in 0 .. op[drv'[u].job].n - 1
    OBVIOUS
  <2>1. drv'[u] = IF u = t THEN e ELSE drv[u]  BY DEF Types
  <2>2. CASE u = t  BY <2>1, <2>2
  <2>3. CASE u # t  BY <2>1, <2>3 DEF Cursors
  <2> QED  BY <2>2, <2>3
<1>8. Drivers'
  <2>1. \A w \in Workers : drv'[w].at # "off" <=> wpc'[w] = "drive"  BY <1>7 DEF Drivers
  <2>2. \A w \in Workers : wpc'[w] = "drive" =>
           /\ drv'[w].job = slot'[w].job /\ drv'[w].call = slot'[w].call
           /\ drv'[w].band = slot'[w].band
    BY <1>7 DEF Drivers
  <2>3. \A c \in Callers : drv'[c].at # "off" <=> cpc'[c] = "drive"  BY <1>7 DEF Drivers
  <2>4. \A c \in Callers : cpc'[c] = "drive" =>
           assist' /\ drv'[c].job = c /\ drv'[c].call = op'[c].call /\ drv'[c].band = 0
    BY <1>7 DEF Drivers
  <2> QED  BY <2>1, <2>2, <2>3, <2>4 DEF Drivers
<1>9. Cursors'
  <2>1. ASSUME NEW c \in Callers, Dispatching(c), NEW b \in 0 .. op[c].n - 1
        PROVE  cursor'[c][b] >= BandLo(op[c], b)
    <3>1. cursor'[c][b] \in Nat /\ cursor[c][b] \in Nat /\ cursor'[c][b] >= cursor[c][b]
          /\ cursor[c][b] >= BandLo(op[c], b)
      BY <2>1 DEF Cursors
    <3>2. BandLo(op[c], b) \in Nat
      <4>1. op[c] \in Ops /\ 2 <= op[c].n /\ op[c].n <= op[c].rows /\ b \in Nat
        BY <2>1 DEF Types, Ops, Shaped
      <4> QED  BY <4>1, BandFacts
    <3> QED  BY <3>1, <3>2
  <2> QED  BY <1>7, <2>1 DEF Cursors, Dispatching
<1>10. Owing' = Owing  BY <1>4 DEF Owing
<1>11. Counted'  BY <1>10 DEF Counted
<1> QED  BY <1>1, <1>2, <1>3, <1>6, <1>8, <1>9, <1>11

\* What the closure's driver does.
LEMMA DriveFrame ==
    ASSUME FrameInv, NEW t \in Workers \cup Callers, DriveStep(t)
    PROVE  FrameInv'
<1> DEFINE d == drv[t]
           j == d.job
<1>1. d.at # "off"
  BY DEF DriveStep, DriveLoad, DriveClaim, DriveRun, DriveScan, DriveSteal
<1>2. /\ j \in Callers /\ Dispatching(j) /\ d.band \in 0 .. op[j].n - 1
      /\ op[j] \in Ops /\ 2 <= op[j].n /\ op[j].n <= op[j].rows
  BY <1>1, DriverFacts
<1>3. d \in DriverStates  BY DEF FrameInv, Types
<1>4. /\ DOMAIN cursor = Callers /\ cursor[j] \in [0 .. op[j].n - 1 -> Nat]
      /\ \A c \in Callers : Dispatching(c) => cursor[c] \in [0 .. op[c].n - 1 -> Nat]
  BY <1>2 DEF FrameInv, Cursors
<1>5. /\ Chunk(op[j]) \in Nat
      /\ \A b \in 0 .. op[j].n - 1 : cursor[j][b] \in Nat /\ BandHi(op[j], b) \in Nat
  <2>1. Chunk(op[j]) \in Nat  BY <1>2, BandFacts
  <2>2. ASSUME NEW b \in 0 .. op[j].n - 1
        PROVE  cursor[j][b] \in Nat /\ BandHi(op[j], b) \in Nat
    <3>1. b \in Nat  BY <1>2 DEF Ops
    <3>2. BandHi(op[j], b) \in Nat  BY <1>2, <3>1, BandFacts
    <3> QED  BY <1>4, <3>2
  <2> QED  BY <2>1, <2>2
<1>6. /\ \A b : Cur(d, b) = cursor[j][b] /\ Top(d, b) = BandHi(op[j], b)
      /\ \A c \in Callers : Dispatching(c) =>
            /\ cursor[c] \in [0 .. op[c].n - 1 -> Nat]
            /\ \A b \in 0 .. op[c].n - 1 : cursor[c][b] >= cursor[c][b]
  <2>1. ASSUME NEW c \in Callers, Dispatching(c), NEW b \in 0 .. op[c].n - 1
        PROVE  cursor[c][b] >= cursor[c][b]
    <3>1. cursor[c][b] \in Nat  BY <1>4, <2>1
    <3> QED  BY <3>1
  <2> QED  BY <1>4, <2>1 DEF Cur, Top
<1>7. CASE DriveLoad(t)
  <2> DEFINE cur == Cur(d, d.band)
             top == Top(d, d.band)
             arg == MaxOf((top - cur) \div 2, Chunk(op[d.job]))
             e == IF cur >= top THEN [d EXCEPT !.at = "scan"]
                  ELSE [d EXCEPT !.at = "claim", !.arg = arg]
  <2>1. drv' = [drv EXCEPT ![t] = e] /\ UNCHANGED <<driving, cursor>>  BY <1>7 DEF DriveLoad
  <2>2. top \in Nat /\ cur \in Nat  BY <1>2, <1>5, <1>6
  <2>3. arg \in Nat
    <3> HIDE DEF top, cur
    <3>1. (top - cur) \div 2 \in Int  BY <2>2
    <3> QED  BY <3>1, <1>5 DEF MaxOf
  <2> HIDE DEF arg, top, cur
  <2>4. /\ e \in DriverStates /\ e.at \in {"scan", "claim"}
        /\ e.job = d.job /\ e.call = d.call /\ e.band = d.band
        /\ e.at = "claim" => e.arg \in Nat
    <3> HIDE DEF d
    <3>1. CASE cur >= top  BY <3>1, <1>3, ReplacedAt DEF DrivePlaces
    <3>2. CASE ~(cur >= top)
      <4>1. e = [d EXCEPT !.at = "claim", !.arg = arg]  BY <3>2
      <4>2. arg \in Int /\ "claim" \in DrivePlaces  BY <2>3 DEF DrivePlaces
      <4> HIDE DEF e
      <4>3. /\ e \in DriverStates
            /\ e.job = d.job /\ e.call = d.call /\ e.band = d.band /\ e.at = "claim"
            /\ e.lo = d.lo /\ e.hi = d.hi /\ e.arg = arg
        BY <1>3, <4>1, <4>2, ReplacedArg DEF DriverStates
      <4> QED  BY <2>3, <4>3
    <3> QED  BY <3>1, <3>2
  <2> HIDE DEF e
  <2>5. UNCHANGED <<steal, assist, state, flips, slot, pending, wpc, cpc, op, idx>>
    BY <2>1 DEF driving, flags, slots
  <2> QED
    <3>1. \A c \in Callers : Dispatching(c) =>
              /\ cursor'[c] \in [0 .. op[c].n - 1 -> Nat]
              /\ \A b \in 0 .. op[c].n - 1 : cursor'[c][b] >= cursor[c][b]
      BY <1>6, <2>1
    <3> QED  BY <1>1, <1>4, <2>1, <2>4, <2>5, <3>1, DrivingKeeps
<1>8. ASSUME NEW b \in 0 .. op[j].n - 1, NEW by \in Nat, NEW run \in {"run", "runStolen"},
             run = "runStolen" => d.arg \in 0 .. op[j].n - 1,
             Claim(t, b, by, run, "scan")
      PROVE  FrameInv'
  <2> DEFINE lo == Cur(d, b)
             top == Top(d, b)
             e == IF lo >= top THEN [d EXCEPT !.at = "scan"]
                  ELSE [d EXCEPT !.at = run, !.lo = lo, !.hi = MinOf(lo + by, top)]
  <2>1. /\ drv' = [drv EXCEPT ![t] = e] /\ UNCHANGED driving
        /\ cursor' = [cursor EXCEPT ![j][b] = lo + by]
    BY <1>8 DEF Claim
  <2>2. lo \in Nat /\ lo = cursor[j][b] /\ top \in Nat  BY <1>5, <1>6
  <2> HIDE DEF lo, top
  <2>3. MinOf(lo + by, top) \in Int  BY <2>2 DEF MinOf
  <2>4. /\ e \in DriverStates /\ e.at \in {"scan", run}
        /\ e.job = d.job /\ e.call = d.call /\ e.band = d.band /\ e.arg = d.arg
    <3> HIDE DEF d
    <3>1. CASE lo >= top  BY <3>1, <1>3, ReplacedAt DEF DrivePlaces
    <3>2. CASE ~(lo >= top)
      <4> PICK hi : hi = MinOf(lo + by, top)  OBVIOUS
      <4>1. e = [d EXCEPT !.at = run, !.lo = lo, !.hi = hi]  BY <3>2
      <4>2. lo \in Int /\ hi \in Int /\ run \in DrivePlaces  BY <2>2, <2>3 DEF DrivePlaces
      <4> HIDE DEF e
      <4>3. /\ e \in DriverStates
            /\ e.job = d.job /\ e.call = d.call /\ e.band = d.band /\ e.at = run
            /\ e.lo = lo /\ e.hi = hi /\ e.arg = d.arg
        BY <1>3, <4>1, <4>2, ReplacedSpan DEF DriverStates
      <4> QED  BY <4>3
    <3> QED  BY <3>1, <3>2
  <2> HIDE DEF e
  <2>5. UNCHANGED <<steal, assist, state, flips, slot, pending, wpc, cpc, op, idx>>
    BY <2>1 DEF driving, flags, slots
  <2>6. /\ DOMAIN cursor' = Callers
        /\ \A c \in Callers : Dispatching(c) =>
              /\ cursor'[c] \in [0 .. op[c].n - 1 -> Nat]
              /\ \A a \in 0 .. op[c].n - 1 : cursor'[c][a] >= cursor[c][a]
    <3>1. cursor' = [cursor EXCEPT ![j] = [cursor[j] EXCEPT ![b] = lo + by]]  BY <2>1
    <3>2. lo + by \in Nat /\ lo + by >= cursor[j][b]  BY <2>2
    <3>3. ASSUME NEW c \in Callers, Dispatching(c), NEW a \in 0 .. op[c].n - 1
          PROVE  cursor'[c][a] >= cursor[c][a]
      <4>1. CASE c = j /\ a = b  BY <1>2, <1>4, <3>1, <3>2, <4>1
      <4>2. CASE c # j \/ a # b
        <5>1. cursor'[c][a] = cursor[c][a]  BY <1>2, <1>4, <3>1, <3>3, <4>2
        <5> QED  BY <1>6, <3>3, <5>1
      <4> QED  BY <4>1, <4>2
    <3>4. ASSUME NEW c \in Callers, Dispatching(c)
          PROVE  cursor'[c] \in [0 .. op[c].n - 1 -> Nat]
      BY <1>2, <1>4, <3>1, <3>2, <3>4
    <3> QED  BY <1>4, <3>1, <3>3, <3>4
  <2>7. e.at \in {"steal", "runStolen"} => e.arg \in 0 .. op[e.job].n - 1
    BY <1>8, <2>4
  <2>8. e.at # "off" /\ e.at # "claim"  BY <2>4
  <2> QED  BY <1>1, <2>1, <2>4, <2>5, <2>6, <2>7, <2>8, DrivingKeeps
<1>9. CASE DriveClaim(t)
  <2>1. d.arg \in Nat  BY <1>9 DEF DriveClaim, FrameInv, Cursors
  <2> QED  BY <1>2, <1>8, <1>9, <2>1 DEF DriveClaim
<1>10. CASE DriveSteal(t)
  <2>1. d.arg \in 0 .. op[j].n - 1  BY <1>10 DEF DriveSteal, FrameInv, Cursors
  <2> QED  BY <1>5, <1>8, <1>10, <2>1 DEF DriveSteal
<1>11. ASSUME NEW e \in DriverStates, e.at \in {"done", "load", "steal"},
              e.job = d.job, e.call = d.call, e.band = d.band,
              e.at = "steal" => e.arg \in 0 .. op[e.job].n - 1,
              drv' = [drv EXCEPT ![t] = e], UNCHANGED <<driving, cursor>>
       PROVE  FrameInv'
  <2>1. UNCHANGED <<steal, assist, state, flips, slot, pending, wpc, cpc, op, idx>>
    BY <1>11 DEF driving, flags, slots
  <2>2. \A c \in Callers : Dispatching(c) =>
              /\ cursor'[c] \in [0 .. op[c].n - 1 -> Nat]
              /\ \A b \in 0 .. op[c].n - 1 : cursor'[c][b] >= cursor[c][b]
    BY <1>6, <1>11
  <2> QED  BY <1>1, <1>4, <1>11, <2>1, <2>2, DrivingKeeps
<1>12. CASE DriveRun(t)
  <2> DEFINE to == IF ~steal THEN "done" ELSE IF d.at = "run" THEN "load" ELSE "steal"
             e == [d EXCEPT !.at = to, !.lo = 0, !.hi = 0]
  <2>1. drv' = [drv EXCEPT ![t] = e] /\ UNCHANGED <<driving, cursor>>
    BY <1>12 DEF DriveRun
  <2>2. d.at = "runStolen" => d.arg \in 0 .. op[j].n - 1  BY DEF FrameInv, Cursors
  <2>3. d.at \in {"run", "runStolen"}  BY <1>12 DEF DriveRun
  <2>4. /\ e \in DriverStates /\ e.at \in {"done", "load", "steal"}
        /\ e.job = d.job /\ e.call = d.call /\ e.band = d.band /\ e.arg = d.arg
        /\ e.at = "steal" => d.at = "runStolen"
    <3> HIDE DEF d
    <3> PICK z \in Int : z = 0  OBVIOUS
    <3>1. e = [d EXCEPT !.at = to, !.lo = z, !.hi = z]  OBVIOUS
    <3>2. to \in DrivePlaces /\ to \in {"done", "load", "steal"} /\ (to = "steal" => d.at = "runStolen")
      BY <2>3 DEF DrivePlaces
    <3> HIDE DEF e, to
    <3>3. /\ e \in DriverStates
          /\ e.job = d.job /\ e.call = d.call /\ e.band = d.band /\ e.at = to
          /\ e.lo = z /\ e.hi = z /\ e.arg = d.arg
      BY <1>3, <3>1, <3>2, ReplacedSpan DEF DriverStates
    <3> QED  BY <3>2, <3>3
  <2> HIDE DEF e
  <2> QED  BY <1>11, <2>1, <2>2, <2>4
<1>13. CASE DriveScan(t)
  <2>1. PICK to \in {"done", "steal"}, v \in DOMAIN cursor[j] \cup {0} :
           /\ drv' = [drv EXCEPT ![t] = [d EXCEPT !.at = to, !.arg = v]]
           /\ to = "done" => v = 0
           /\ to = "steal" => v \in DOMAIN cursor[j]
    BY <1>13, <1>3 DEF DriveScan, FrameInv, Types, DriverStates
  <2>2. UNCHANGED <<driving, cursor>>  BY <1>13 DEF DriveScan
  <2>3. v \in Int /\ (to = "steal" => v \in 0 .. op[j].n - 1)
    <3>1. op[j].n \in Nat  BY <1>2 DEF Ops
    <3>2. to = "steal" => v \in 0 .. op[j].n - 1  BY <1>4, <2>1
    <3> QED  BY <2>1, <3>1, <3>2
  <2> DEFINE e == [d EXCEPT !.at = to, !.arg = v]
  <2>4. /\ e \in DriverStates /\ e.at = to
        /\ e.job = d.job /\ e.call = d.call /\ e.band = d.band /\ e.arg = v
    <3> HIDE DEF d
    <3>1. e = [d EXCEPT !.at = to, !.arg = v]  OBVIOUS
    <3>2. to \in DrivePlaces  BY DEF DrivePlaces
    <3> HIDE DEF e
    <3>3. /\ e \in DriverStates
          /\ e.job = d.job /\ e.call = d.call /\ e.band = d.band /\ e.at = to
          /\ e.lo = d.lo /\ e.hi = d.hi /\ e.arg = v
      BY <1>3, <2>3, <3>1, <3>2, ReplacedArg DEF DriverStates
    <3> QED  BY <3>3
  <2>5. drv' = [drv EXCEPT ![t] = e]  BY <2>1
  <2> HIDE DEF e
  <2> QED  BY <1>11, <2>2, <2>3, <2>4, <2>5
<1> QED  BY <1>7, <1>9, <1>10, <1>12, <1>13 DEF DriveStep

\* The other callers of an open call are idle, and the workers work for it.
LEMMA OnlyCall ==
    ASSUME FrameInv, OneAtATime, NEW c \in Callers, cpc[c] # "idle"
    PROVE  /\ \A d \in Callers : d # c =>
                cpc[d] = "idle" /\ ~Dispatching(d) /\ flips[d] = {} /\ ToWrite(d) = {}
           /\ \A w \in Workers : state[w] = 1 => Dispatching(c) /\ SlotOf(c, w)
           /\ \A w \in Workers : wpc[w] = "countdown" => Dispatching(c)
<1>1. \A d \in Callers : d # c => cpc[d] = "idle"  BY DEF OneAtATime
<1>2. \A d \in Callers : d # c => ~Dispatching(d) /\ ToWrite(d) = {}
  BY <1>1 DEF Dispatching, ToWrite
<1>3. \A d \in Callers : d # c => flips[d] = {}  BY <1>2 DEF FrameInv, Stages
<1>4. \A w \in Workers : state[w] = 1 => Dispatching(c) /\ SlotOf(c, w)
  BY <1>2 DEF FrameInv, Stages
<1>5. \A w \in Workers : wpc[w] = "countdown" => Dispatching(c)
  BY <1>2 DEF FrameInv, Stages
<1> QED  BY <1>1, <1>2, <1>3, <1>4, <1>5

\* Without an open call nobody owes anything.
LEMMA NoCall ==
    ASSUME FrameInv, \A c \in Callers : ~Dispatching(c)
    PROVE  /\ \A w \in Workers : state[w] = 0 /\ wpc[w] \in Apart /\ drv[w].at = "off"
           /\ \A c \in Callers : flips[c] = {} /\ ToWrite(c) = {} /\ drv[c].at = "off"
           /\ Owing = {} /\ pending = 0
<1> USE DEF FrameInv
<1>1. \A w \in Workers : state[w] = 0 /\ wpc[w] # "countdown"  BY DEF Stages, Types
<1>2. \A w \in Workers : wpc[w] \in Apart
  BY <1>1 DEF Stages, Types, WorkerPlaces, Apart
<1>3. \A w \in Workers : drv[w].at = "off"  BY <1>2 DEF Drivers, Apart
<1>4. \A c \in Callers : flips[c] = {} /\ ToWrite(c) = {} /\ drv[c].at = "off"
  BY DEF Stages, ToWrite, Drivers, Dispatching
<1>5. Owing = {}  BY <1>1, <1>4 DEF Owing
<1>6. pending = 0  BY <1>5, FS_EmptySet DEF Counted
<1> QED  BY <1>1, <1>2, <1>3, <1>4, <1>5, <1>6

\* A caller's steps between its flips and the join.
LEMMA CallerKeeps ==
    ASSUME FrameInv, NEW c \in Callers, NEW p \in CallPlaces,
           cpc[c] \notin {"idle", "inline", "return", "slots"},
           p \notin {"idle", "inline", "return", "slots"},
           cpc' = [cpc EXCEPT ![c] = p],
           UNCHANGED <<steal, assist, state, flips, slot, pending, wpc, op, cursor>>,
           idx' \in [Callers \cup {None} -> Nat],
           \A d \in Callers : d # c => idx'[d] = idx[d],
           p = "wake" => 1 <= idx'[c] /\ idx'[c] <= Dispatched(op[c]),
           drv' \in [Workers \cup Callers -> DriverStates],
           \A t \in Workers \cup Callers : t # c => drv'[t] = drv[t],
           drv'[c].at # "off" <=> p = "drive",
           p = "drive" => assist /\ drv'[c].job = c /\ drv'[c].call = op[c].call
                          /\ drv'[c].band = 0,
           drv'[c].at \notin {"claim", "steal", "runStolen"}
    PROVE  FrameInv'
<1> USE DEF FrameInv
<1>0. /\ FirstWorkerBand' = FirstWorkerBand
      /\ \A d \in Callers : Dispatched(op[d])' = Dispatched(op[d])
  BY SameCut
<1>1. /\ \A d \in Callers : cpc'[d] = IF d = c THEN p ELSE cpc[d]
      /\ cpc' \in [Callers -> CallPlaces]
  BY DEF Types
<1>2. Types'  BY <1>1 DEF Types
<1>3. \A d \in Callers : Dispatching(d)' <=> Dispatching(d)  BY <1>1 DEF Dispatching
<1>4. \A d \in Callers : ToWrite(d)' = ToWrite(d)  BY <1>0, <1>1 DEF ToWrite
<1>5. \A d \in Callers, w \in Workers : SlotOf(d, w)' = SlotOf(d, w)
  BY <1>0 DEF SlotOf
<1>6. Shaped'  BY <1>0, <1>3 DEF Shaped
<1>7. InLoop'  BY <1>0, <1>1 DEF InLoop
<1>8. Stages'  BY <1>3, <1>4, <1>5 DEF Stages
<1>9. \A w \in Workers : w # c  BY WorkersAreNoCallers
<1>10. Drivers'
  <2>1. \A w \in Workers : drv'[w] = drv[w]  BY <1>9
  <2>2. \A d \in Callers : drv'[d].at # "off" <=> cpc'[d] = "drive"
    BY <1>1 DEF Drivers
  <2>3. \A d \in Callers : cpc'[d] = "drive" =>
           assist' /\ drv'[d].job = d /\ drv'[d].call = op'[d].call /\ drv'[d].band = 0
    BY <1>1 DEF Drivers
  <2> QED  BY <2>1, <2>2, <2>3 DEF Drivers
<1>11. Cursors'
  <2>1. \A t \in Workers \cup Callers : drv'[t].at = "claim" => drv'[t].arg \in Nat
    BY DEF Cursors
  <2>2. \A t \in Workers \cup Callers : drv'[t].at \in {"steal", "runStolen"} =>
           drv'[t].arg \in 0 .. op'[drv'[t].job].n - 1
    BY DEF Cursors
  <2> QED  BY <1>3, <2>1, <2>2 DEF Cursors
<1>12. Owing' = Owing  BY <1>4 DEF Owing
<1>13. Counted'  BY <1>12 DEF Counted
<1> QED  BY <1>2, <1>6, <1>7, <1>8, <1>10, <1>11, <1>13

\* A caller's steps while no call dispatches, and its join, when nobody owes.
LEMMA OutsideKeeps ==
    ASSUME FrameInv, OneAtATime, NEW c \in Callers, NEW p \in {"idle", "inline", "return"},
           Dispatching(c) => cpc[c] = "join" /\ pending = 0,
           \A d \in Callers : d # c => ~Dispatching(d),
           cpc' = [cpc EXCEPT ![c] = p],
           UNCHANGED <<steal, assist, state, flips, slot, pending, wpc, drv>>,
           op' \in [Callers -> Ops], idx' \in [Callers \cup {None} -> Nat],
           DOMAIN cursor' = Callers
    PROVE  FrameInv'
<1> USE DEF FrameInv
<1>1. /\ \A d \in Callers : cpc'[d] = IF d = c THEN p ELSE cpc[d]
      /\ cpc' \in [Callers -> CallPlaces]
  BY DEF Types, CallPlaces
<1>2. Types'  BY <1>1 DEF Types, Ops
<1>3. \A d \in Callers : ~Dispatching(d)'  BY <1>1 DEF Dispatching
<1>4. Owing = {} /\ pending = 0
  <2>1. CASE Dispatching(c)
    <3>1. Cardinality(Owing) = 0  BY <2>1 DEF Counted
    <3> QED  BY <2>1, <3>1, OwingFinite, FS_EmptySet
  <2>2. CASE ~Dispatching(c)  BY <2>2, NoCall
  <2> QED  BY <2>1, <2>2
<1>5. /\ \A w \in Workers : state[w] = 0 /\ wpc[w] # "countdown"
      /\ \A d \in Callers : flips[d] = {}
  <2>1. \A w \in Workers : state[w] # 1 /\ wpc[w] # "countdown"  BY <1>4 DEF Owing
  <2>2. \A w \in Workers : state[w] = 0  BY <2>1 DEF Types
  <2>3. \A d \in Callers : flips[d] = {}  BY <1>4 DEF Owing, Types
  <2> QED  BY <2>1, <2>2, <2>3
<1>6. \A d \in Callers : ToWrite(d)' = {}  BY <1>1, <1>3 DEF ToWrite, Dispatching
<1>7. Shaped'  BY <1>3 DEF Shaped
<1>8. InLoop'  BY <1>3 DEF InLoop, Dispatching
<1>9. Stages'  BY <1>3, <1>5, <1>6 DEF Stages
<1>10. \A w \in Workers : drv[w].at = "off" /\ wpc[w] # "drive"  BY <1>5 DEF Stages, Drivers
<1>11. \A d \in Callers : drv[d].at = "off" /\ cpc'[d] # "drive"
  <2>1. cpc[c] # "drive"  BY DEF Dispatching
  <2>2. \A d \in Callers : cpc[d] # "drive"  BY <2>1 DEF Dispatching
  <2> QED  BY <1>1, <2>2 DEF Drivers
<1>12. Drivers'  BY <1>10, <1>11 DEF Drivers
<1>13. Cursors'  BY <1>3, <1>10, <1>11 DEF Cursors
<1>14. Owing' = {}  BY <1>5, <1>6 DEF Owing
<1>15. Counted'  BY <1>4, <1>14, FS_EmptySet DEF Counted
<1> QED  BY <1>2, <1>7, <1>8, <1>9, <1>12, <1>13, <1>15

\* The width of a call is within its rows and the threads there are.
LEMMA WidthFacts ==
    ASSUME NEW rows \in RowCounts, NEW threads \in Threads, assist \in BOOLEAN
    PROVE  /\ Width(rows, threads) \in Nat /\ Width(rows, threads) <= rows
           /\ Width(rows, threads) <= NWorkers + FirstWorkerBand
           /\ rows \in Nat \ {0}
BY RowCountsPositive, ThreadsNat, NWorkersNat DEF Width, MinOf, FirstWorkerBand

\* The call that dispatches: every worker it will dispatch to owes from now on.
LEMMA CallFrame ==
    ASSUME FrameInv, OneAtATime, OneAtATime', NEW c \in Callers, Call(c)
    PROVE  FrameInv'
<1> USE DEF FrameInv
<1>1. PICK rows \in RowCounts, threads \in Threads :
         LET o == [rows |-> rows, n |-> Width(rows, threads), call |-> op[c].call + 1]
         IN /\ op' = [op EXCEPT ![c] = o]
            /\ touched' = [touched EXCEPT ![c] = [r \in 0 .. rows - 1 |-> 0]]
            /\ cursor' = [cursor EXCEPT ![c] = [b \in 0 .. o.n - 1 |-> BandLo(o, b)]]
            /\ GoC(c, "idle", IF o.n <= 1 THEN "inline" ELSE "slots")
            /\ pending' = IF o.n <= 1 THEN pending ELSE Dispatched(o)
  BY DEF Call
<1> PICK o : o = [rows |-> rows, n |-> Width(rows, threads), call |-> op[c].call + 1]
  OBVIOUS
<1>2. /\ op' = [op EXCEPT ![c] = o]
      /\ cursor' = [cursor EXCEPT ![c] = [b \in 0 .. o.n - 1 |-> BandLo(o, b)]]
      /\ cpc[c] = "idle"
      /\ cpc' = [cpc EXCEPT ![c] = IF o.n <= 1 THEN "inline" ELSE "slots"]
      /\ pending' = IF o.n <= 1 THEN pending ELSE Dispatched(o)
      /\ idx' = [idx EXCEPT ![c] = 1]
      /\ UNCHANGED <<steal, assist, state, flips, slot, wpc, drv>>
  BY <1>1 DEF Call, GoC, flags
<1>3. /\ o \in Ops /\ o.rows = rows /\ o.n <= o.rows /\ o.n <= NWorkers + FirstWorkerBand
      /\ o.rows \in RowCounts
  <2>1. op[c].call + 1 \in Nat  BY DEF Types
  <2>2. Width(rows, threads) \in Nat /\ Width(rows, threads) <= rows
        /\ Width(rows, threads) <= NWorkers + FirstWorkerBand /\ rows \in Nat
    BY WidthFacts DEF Types
  <2> QED  BY <2>1, <2>2 DEF Ops
<1>4. /\ op' \in [Callers -> Ops] /\ op'[c] = o
      /\ idx' \in [Callers \cup {None} -> Nat] /\ idx'[c] = 1
      /\ DOMAIN cursor' = Callers
      /\ cursor'[c] = [b \in 0 .. o.n - 1 |-> BandLo(o, b)]
  BY <1>2, <1>3 DEF Types, Ops, Cursors
<1>5. \A d \in Callers : d # c => cpc[d] = "idle"
  <2>1. cpc'[c] # "idle" /\ \A d \in Callers : d # c => cpc'[d] = cpc[d]
    BY <1>2 DEF Types
  <2> QED  BY <2>1 DEF OneAtATime
<1>6. \A d \in Callers : ~Dispatching(d)  BY <1>2, <1>5 DEF Dispatching
<1>7. CASE o.n <= 1
  BY <1>2, <1>4, <1>6, <1>7, OutsideKeeps
<1>8. CASE ~(o.n <= 1)
  <2> PICK D : D = Dispatched(o)  OBVIOUS
  <2>1. 2 <= o.n  BY <1>3, <1>8 DEF Ops
  <2>2. D \in 1 .. NWorkers /\ FirstWorkerBand + D <= o.n
    BY <1>3, <2>1, DispatchFacts, NWorkersNat DEF Types
  <2>3. Dispatched(op[c])' = D /\ FirstWorkerBand' = FirstWorkerBand
    BY <1>2, <1>4 DEF Dispatched, FirstWorkerBand
  <2>4. /\ cpc'[c] = "slots" /\ \A d \in Callers : d # c => cpc'[d] = "idle"
        /\ cpc' \in [Callers -> CallPlaces] /\ pending' = D
    BY <1>2, <1>5, <1>8 DEF Types, CallPlaces
  <2>5. /\ \A w \in Workers : state[w] = 0 /\ wpc[w] \in Apart /\ drv[w].at = "off"
        /\ \A d \in Callers : flips[d] = {} /\ drv[d].at = "off"
    BY <1>6, NoCall
  <2>6. Types'
    <3>1. pending' \in Nat  BY <2>2, <2>4, NWorkersNat
    <3> QED  BY <1>2, <1>4, <2>4, <3>1 DEF Types, Ops
  <2>7. \A d \in Callers : d # c => ~Dispatching(d)'  BY <2>4 DEF Dispatching
  <2>8. Shaped'  BY <1>3, <1>4, <2>1, <2>2, <2>3, <2>7 DEF Shaped
  <2>9. InLoop'  BY <1>4, <2>2, <2>3, <2>4, NWorkersNat DEF InLoop
  <2>10. ToWrite(c)' = 1 .. D /\ \A d \in Callers : d # c => ToWrite(d)' = {}
    BY <1>4, <2>3, <2>4 DEF ToWrite
  <2>11. Stages'
    <3>1. \A w \in Workers : wpc[w] \notin {"fetch", "drive", "countdown"}
      BY <2>5 DEF Apart
    <3> QED  BY <1>2, <2>5, <3>1 DEF Stages
  <2>12. Drivers'  BY <1>2, <2>4, <2>5 DEF Drivers, Apart
  <2>13. Cursors'
    <3>1. ASSUME NEW b \in 0 .. o.n - 1 PROVE BandLo(o, b) \in Nat
      <4>1. b \in Nat  BY <1>3 DEF Ops
      <4> QED  BY <1>3, <2>1, <4>1, BandFacts
    <3>2. /\ cursor'[c] \in [0 .. o.n - 1 -> Nat]
          /\ \A b \in 0 .. o.n - 1 : cursor'[c][b] >= BandLo(o, b)
      BY <1>4, <3>1
    <3> QED  BY <1>2, <1>4, <2>5, <2>7, <3>2 DEF Cursors
  <2>14. Owing' = 1 .. D
    <3>1. \A w \in Workers : state'[w] # 1 /\ wpc'[w] # "countdown"
      BY <1>2, <2>5 DEF Apart
    <3>2. \A d \in Callers : flips'[d] = {}  BY <1>2, <2>5
    <3>3. \A w \in Workers : w \in Owing' <=> w \in 1 .. D
      BY <2>10, <3>1, <3>2 DEF Owing
    <3>4. 1 .. D \subseteq Workers  BY <2>2, NWorkersNat DEF Workers
    <3>5. Owing' \subseteq Workers  BY DEF Owing
    <3> QED  BY <3>3, <3>4, <3>5
  <2>15. Counted'
    <3>1. Cardinality(1 .. D) = D  BY <2>2, NWorkersNat, FS_Interval
    <3> QED  BY <2>4, <2>14, <3>1 DEF Counted
  <2> QED  BY <2>6, <2>8, <2>9, <2>11, <2>12, <2>13, <2>15
<1> QED  BY <1>7, <1>8

\* A slot is written: its worker owes as before.
LEMMA WriteSlotFrame ==
    ASSUME FrameInv, OneAtATime, NEW c \in Callers, WriteSlot(c)
    PROVE  FrameInv'
<1> USE DEF FrameInv
<1> PICK w : w = idx[c]  OBVIOUS
<1> PICK D : D = Dispatched(op[c])  OBVIOUS
<1>1. /\ cpc[c] = "slots"
      /\ cpc' = [cpc EXCEPT ![c] = IF w = D THEN "fence" ELSE "slots"]
      /\ slot' = [slot EXCEPT ![w] = [job |-> c, call |-> op[c].call,
                                      band |-> FirstWorkerBand + w - 1]]
      /\ flips' = [flips EXCEPT ![c] = flips[c] \cup {w}]
      /\ idx' = [idx EXCEPT ![c] = w + 1]
      /\ UNCHANGED <<steal, assist, state, pending, wpc, op, drv, cursor>>
  BY DEF WriteSlot, GoC, flags, call
<1>2. Dispatching(c) /\ cpc[c] # "idle"  BY <1>1 DEF Dispatching
<1>3. /\ D \in 1 .. NWorkers /\ FirstWorkerBand \in {0, 1}
  BY <1>2 DEF Shaped, FirstWorkerBand
<1>4. w \in Nat /\ 1 <= w /\ w <= D  BY <1>1 DEF InLoop, Types
<1>5. w \in Workers  BY <1>3, <1>4, NWorkersNat DEF Workers
<1>6. /\ FirstWorkerBand' = FirstWorkerBand
      /\ \A d \in Callers : Dispatched(op[d])' = Dispatched(op[d])
  BY <1>1, SameCut
<1>7. /\ \A d \in Callers : d # c =>
            cpc[d] = "idle" /\ ~Dispatching(d) /\ flips[d] = {} /\ ToWrite(d) = {}
  BY <1>2, OnlyCall
<1>8. w \in ToWrite(c)  BY <1>1, <1>3, <1>4 DEF ToWrite
<1>9. state[w] = 0 /\ wpc[w] \in Apart /\ w \notin flips[c]  BY <1>5, <1>8 DEF Stages
<1>10. /\ \A d \in Callers : d # c => cpc'[d] = cpc[d] /\ flips'[d] = flips[d] /\ idx'[d] = idx[d]
       /\ cpc'[c] = (IF w = D THEN "fence" ELSE "slots")
       /\ flips'[c] = flips[c] \cup {w} /\ idx'[c] = w + 1
       /\ cpc' \in [Callers -> CallPlaces] /\ flips' \in [Callers -> SUBSET Workers]
       /\ idx' \in [Callers \cup {None} -> Nat]
  BY <1>1, <1>4, <1>5 DEF Types, CallPlaces
<1>11. /\ slot' \in [Workers -> [job : Callers \cup {None}, call : Nat, band : Int]]
       /\ \A v \in Workers : v # w => slot'[v] = slot[v]
       /\ slot'[w].job = c /\ slot'[w].call = op[c].call
       /\ slot'[w].band = FirstWorkerBand + w - 1
  <2> PICK s : s = [job |-> c, call |-> op[c].call, band |-> FirstWorkerBand + w - 1]
    OBVIOUS
  <2>1. s \in [job : Callers \cup {None}, call : Nat, band : Int]
    BY <1>3, <1>4 DEF Types
  <2>2. slot' = [slot EXCEPT ![w] = s]  BY <1>1
  <2> QED  BY <2>1, <2>2, <1>5 DEF Types
<1>12. Types'  BY <1>1, <1>10, <1>11 DEF Types
<1>13. \A d \in Callers : Dispatching(d)' <=> Dispatching(d)
  BY <1>1, <1>10 DEF Dispatching
<1>14. Shaped'  BY <1>1, <1>6, <1>13 DEF Shaped
<1>15. InLoop'  BY <1>1, <1>3, <1>4, <1>6, <1>7, <1>10 DEF InLoop
<1>16. /\ ToWrite(c)' = ToWrite(c) \ {w}
       /\ \A d \in Callers : d # c => ToWrite(d)' = {}
  <2>1. ToWrite(c) = w .. D  BY <1>1 DEF ToWrite
  <2>2. CASE w = D
    <3>1. ToWrite(c)' = {}  BY <1>10, <2>2 DEF ToWrite
    <3> QED  BY <1>3, <1>4, <1>7, <1>10, <2>1, <2>2, <3>1 DEF ToWrite
  <2>3. CASE w # D
    <3>1. ToWrite(c)' = (w + 1) .. D  BY <1>6, <1>10, <2>3 DEF ToWrite
    <3>2. D \in Int /\ w \in Int  BY <1>3, <1>4, NWorkersNat
    <3>3. (w + 1) .. D = (w .. D) \ {w}  BY <3>2
    <3> QED  BY <1>7, <1>10, <2>1, <3>1, <3>3 DEF ToWrite
  <2> QED  BY <2>2, <2>3
<1>17. ASSUME NEW d \in Callers, NEW v \in Workers, v # w PROVE SlotOf(d, v)' <=> SlotOf(d, v)
  BY <1>1, <1>6, <1>11, <1>17 DEF SlotOf
<1>18. SlotOf(c, w)'  BY <1>1, <1>4, <1>6, <1>11 DEF SlotOf
<1>19. Stages'
  <2>1. \A d \in Callers : flips'[d] # {} => Dispatching(d)'
    BY <1>2, <1>7, <1>10, <1>13
  <2>2. \A d \in Callers, v \in Workers : v \in ToWrite(d)' =>
           state'[v] = 0 /\ wpc'[v] \in Apart /\ v \notin flips'[d]
    BY <1>1, <1>10, <1>16 DEF Stages
  <2>3. ASSUME NEW d \in Callers, NEW v \in Workers, v \in flips'[d]
        PROVE  state'[v] = 0 /\ wpc'[v] \in Apart /\ SlotOf(d, v)'
    <3>1. d = c  BY <1>7, <1>10, <2>3
    <3>2. CASE v = w  BY <1>1, <1>9, <1>18, <3>1, <3>2
    <3>3. CASE v # w
      <4>1. v \in flips[c]  BY <1>10, <2>3, <3>1, <3>3
      <4> QED  BY <1>1, <1>17, <3>1, <3>3, <4>1 DEF Stages
    <3> QED  BY <3>2, <3>3
  <2>4. ASSUME NEW v \in Workers, state'[v] = 1
        PROVE  \E d \in Callers : Dispatching(d)' /\ SlotOf(d, v)'
    <3>1. v # w /\ state[v] = 1  BY <1>1, <1>9, <2>4
    <3> QED  BY <1>13, <1>17, <3>1 DEF Stages
  <2>5. \A v \in Workers : wpc'[v] \in {"fetch", "drive"} => state'[v] = 1
    BY <1>1 DEF Stages
  <2>6. \A v \in Workers : wpc'[v] = "countdown" =>
           state'[v] = 0 /\ \E d \in Callers : Dispatching(d)'
    BY <1>1, <1>13 DEF Stages
  <2>7. \A d \in Callers, v \in Workers :
           wpc'[v] = "countdown" => v \notin ToWrite(d)' /\ v \notin flips'[d]
    BY <1>1, <1>7, <1>9, <1>10, <1>16 DEF Stages, Apart
  <2> QED  BY <2>1, <2>2, <2>3, <2>4, <2>5, <2>6, <2>7 DEF Stages
<1>20. Drivers'
  <2>1. wpc[w] # "drive"  BY <1>9 DEF Apart
  <2>2. \A v \in Workers : wpc[v] = "drive" => slot'[v] = slot[v]  BY <1>11, <2>1
  <2>3. cpc[c] # "drive" /\ cpc'[c] # "drive"  BY <1>1, <1>10
  <2>4. \A d \in Callers : cpc'[d] = "drive" <=> cpc[d] = "drive"  BY <1>10, <2>3
  <2> QED  BY <1>1, <2>2, <2>4 DEF Drivers
<1>21. Cursors'  BY <1>1, <1>13 DEF Cursors
<1>22. Owing' = Owing
  <2>1. ASSUME NEW v \in Workers
        PROVE  (\E d \in Callers : v \in ToWrite(d)' \cup flips'[d]) <=>
               (\E d \in Callers : v \in ToWrite(d) \cup flips[d])
    BY <1>7, <1>8, <1>10, <1>16
  <2> QED  BY <1>1, <2>1 DEF Owing
<1>23. Counted'  BY <1>1, <1>22 DEF Counted
<1> QED  BY <1>12, <1>14, <1>15, <1>19, <1>20, <1>21, <1>23

\* Some flips become visible.
LEMMA FlipsKeep ==
    ASSUME FrameInv, OneAtATime, NEW c \in Callers, NEW F \in SUBSET flips[c],
           state' = [w \in Workers |-> IF w \in F THEN 1 ELSE state[w]],
           flips' = [flips EXCEPT ![c] = flips[c] \ F],
           cpc' \in [Callers -> CallPlaces],
           \A d \in Callers : cpc'[d] = cpc[d] \/ (cpc[d] = "fence" /\ cpc'[d] = "count"),
           UNCHANGED <<steal, assist, slot, pending, wpc, op, idx, drv, cursor>>
    PROVE  FrameInv'
<1> USE DEF FrameInv
<1>1. /\ FirstWorkerBand' = FirstWorkerBand
      /\ \A d \in Callers : Dispatched(op[d])' = Dispatched(op[d])
  BY SameCut
<1>2. /\ flips' \in [Callers -> SUBSET Workers] /\ flips'[c] = flips[c] \ F
      /\ \A d \in Callers : d # c => flips'[d] = flips[d]
      /\ flips[c] \subseteq Workers
  BY DEF Types
<1>3. Types'  BY <1>2 DEF Types
<1>4. \A d \in Callers : Dispatching(d)' <=> Dispatching(d)  BY DEF Dispatching
<1>5. \A d \in Callers : ToWrite(d)' = ToWrite(d)  BY <1>1 DEF ToWrite
<1>6. \A d \in Callers, w \in Workers : SlotOf(d, w)' <=> SlotOf(d, w)  BY <1>1 DEF SlotOf
<1>7. Shaped'  BY <1>1, <1>4 DEF Shaped
<1>8. InLoop'  BY <1>1 DEF InLoop
<1>9. \A d \in Callers : flips[d] # {} => Dispatching(d)  BY DEF Stages
<1>10. \A w \in F : /\ w \in Workers /\ wpc[w] \in Apart /\ SlotOf(c, w) /\ Dispatching(c)
                    /\ \A d \in Callers : w \notin ToWrite(d) /\ (w \in flips[d] => d = c)
  <2> SUFFICES ASSUME NEW w \in F
               PROVE  /\ w \in Workers /\ wpc[w] \in Apart /\ SlotOf(c, w) /\ Dispatching(c)
                      /\ \A d \in Callers : w \notin ToWrite(d) /\ (w \in flips[d] => d = c)
    OBVIOUS
  <2>1. w \in Workers /\ w \in flips[c]  BY <1>2
  <2>2. wpc[w] \in Apart /\ SlotOf(c, w) /\ Dispatching(c)  BY <1>9, <2>1 DEF Stages
  <2>3. cpc[c] # "idle"  BY <2>2 DEF Dispatching
  <2>4. w \notin ToWrite(c)  BY <2>1 DEF Stages
  <2> QED  BY <2>1, <2>2, <2>3, <2>4, OnlyCall
<1>11. Stages'
  <2>1. \A d \in Callers : flips'[d] # {} => Dispatching(d)'  BY <1>2, <1>4, <1>9
  <2>2. \A d \in Callers, w \in Workers : w \in ToWrite(d)' =>
           state'[w] = 0 /\ wpc'[w] \in Apart /\ w \notin flips'[d]
    BY <1>2, <1>5, <1>10 DEF Stages
  <2>3. \A d \in Callers, w \in Workers : w \in flips'[d] =>
           state'[w] = 0 /\ wpc'[w] \in Apart /\ SlotOf(d, w)'
    BY <1>2, <1>6, <1>10 DEF Stages
  <2>4. \A w \in Workers : state'[w] = 1 => \E d \in Callers : Dispatching(d)' /\ SlotOf(d, w)'
    BY <1>4, <1>6, <1>10 DEF Stages
  <2>5. \A w \in Workers : wpc'[w] \in {"fetch", "drive"} => state'[w] = 1
    BY DEF Stages
  <2>6. \A w \in Workers : wpc'[w] = "countdown" =>
           state'[w] = 0 /\ \E d \in Callers : Dispatching(d)'
    BY <1>4, <1>10 DEF Stages, Apart
  <2>7. \A d \in Callers, w \in Workers :
           wpc'[w] = "countdown" => w \notin ToWrite(d)' /\ w \notin flips'[d]
    BY <1>2, <1>5 DEF Stages
  <2> QED  BY <2>1, <2>2, <2>3, <2>4, <2>5, <2>6, <2>7 DEF Stages
<1>12. Drivers'  BY DEF Drivers
<1>13. Cursors'  BY <1>4 DEF Cursors
<1>14. Owing' = Owing
  <2>1. ASSUME NEW w \in Workers PROVE w \in Owing' <=> w \in Owing
    <3>1. CASE w \in F  BY <1>2, <3>1 DEF Owing
    <3>2. CASE w \notin F
      <4>1. \A d \in Callers : w \in flips'[d] <=> w \in flips[d]  BY <1>2, <3>2
      <4> QED  BY <1>5, <3>2, <4>1 DEF Owing
    <3> QED  BY <3>1, <3>2
  <2> QED  BY <2>1 DEF Owing
<1>15. Counted'  BY <1>14 DEF Counted
<1> QED  BY <1>3, <1>7, <1>8, <1>11, <1>12, <1>13, <1>15

\* The closure is entered on the band that the slot names.
LEMMA EnterFacts ==
    ASSUME FrameInv, NEW c \in Callers, Dispatching(c),
           NEW s, s.job = c, s.call \in Nat, s.band \in 0 .. op[c].n - 1
    PROVE  /\ Enter(s) \in DriverStates
           /\ Enter(s).job = c /\ Enter(s).call = s.call /\ Enter(s).band = s.band
           /\ Enter(s).at = (IF steal THEN "load" ELSE "run")
           /\ Enter(s).lo = BandLo(op[c], s.band) /\ Enter(s).hi = BandHi(op[c], s.band)
<1>1. op[c] \in Ops /\ 2 <= op[c].n /\ op[c].n <= op[c].rows
  BY DEF FrameInv, Types, Shaped, Ops
<1>2. s.band \in Nat  BY <1>1 DEF Ops
<1>3. BandLo(op[c], s.band) \in Nat /\ BandHi(op[c], s.band) \in Nat  BY <1>1, <1>2, BandFacts
<1> QED  BY <1>2, <1>3 DEF Enter, DriverStates, DrivePlaces

\* A worker enters the closure that its slot names.
LEMMA FetchFrame ==
    ASSUME FrameInv, NEW w \in Workers, Fetch(w)
    PROVE  FrameInv'
<1> USE DEF FrameInv
<1>1. /\ wpc[w] = "fetch" /\ wpc' = [wpc EXCEPT ![w] = "drive"]
      /\ drv' = [drv EXCEPT ![w] = Enter(slot[w])]
      /\ UNCHANGED <<steal, assist, state, flips, slot, pending, cpc, op, idx, cursor>>
  BY DEF Fetch, GoW, flags, slots, call
<1>2. state[w] = 1  BY <1>1 DEF Stages
<1>3. PICK c \in Callers : Dispatching(c) /\ SlotOf(c, w)  BY <1>2 DEF Stages
<1>4. slot[w].job = c /\ slot[w].call \in Nat /\ slot[w].band \in 0 .. op[c].n - 1
  <2>1. op[c].n \in Nat /\ FirstWorkerBand \in {0, 1} /\ Dispatched(op[c]) \in Int
        /\ FirstWorkerBand + Dispatched(op[c]) <= op[c].n
    BY <1>3, NWorkersNat DEF Types, Shaped, FirstWorkerBand
  <2>2. slot[w].job = c /\ slot[w].band = FirstWorkerBand + w - 1 /\ w <= Dispatched(op[c])
    BY <1>3 DEF SlotOf
  <2>3. w \in Int /\ 1 <= w  BY NWorkersNat DEF Workers
  <2> QED  BY <2>1, <2>2, <2>3 DEF Types
<1> PICK e : e = Enter(slot[w])  OBVIOUS
<1>5. /\ e \in DriverStates /\ e.job = slot[w].job /\ e.call = slot[w].call
      /\ e.band = slot[w].band /\ e.at \in {"load", "run"}
  <2>1. PICK s : s = slot[w]  OBVIOUS
  <2>2. e = Enter(s) /\ s.job = c /\ s.call \in Nat /\ s.band \in 0 .. op[c].n - 1
    BY <1>4, <2>1
  <2> QED  BY <1>3, <2>1, <2>2, EnterFacts
<1>6. /\ wpc' \in [Workers -> WorkerPlaces] /\ wpc'[w] = "drive"
      /\ \A v \in Workers : v # w => wpc'[v] = wpc[v]
      /\ drv' \in [Workers \cup Callers -> DriverStates] /\ drv'[w] = e
      /\ \A t \in Workers \cup Callers : t # w => drv'[t] = drv[t]
  BY <1>1, <1>5 DEF Types, WorkerPlaces
<1>7. /\ FirstWorkerBand' = FirstWorkerBand
      /\ \A d \in Callers : Dispatched(op[d])' = Dispatched(op[d])
  BY <1>1, SameCut
<1>8. Types'  BY <1>1, <1>6 DEF Types
<1>9. \A d \in Callers : (Dispatching(d)' <=> Dispatching(d)) /\ ToWrite(d)' = ToWrite(d)
  BY <1>1, <1>7 DEF Dispatching, ToWrite
<1>10. \A d \in Callers, v \in Workers : SlotOf(d, v)' <=> SlotOf(d, v)
  BY <1>1, <1>7 DEF SlotOf
<1>11. Shaped' /\ InLoop'  BY <1>1, <1>7, <1>9 DEF Shaped, InLoop
<1>12. Stages'
  <2>1. \A d \in Callers, v \in Workers : v \in ToWrite(d) \cup flips[d] => v # w
    BY <1>1 DEF Stages, Apart
  <2>2. \A v \in Workers : wpc'[v] = "countdown" <=> wpc[v] = "countdown"  BY <1>1, <1>6
  <2>3. \A v \in Workers : wpc'[v] \in {"fetch", "drive"} => state[v] = 1
    BY <1>2, <1>6 DEF Stages
  <2> QED  BY <1>1, <1>6, <1>9, <1>10, <2>1, <2>2, <2>3 DEF Stages
<1>13. \A d \in Callers : d # w  BY WorkersAreNoCallers
<1>14. Drivers'
  <2>1. \A v \in Workers : drv'[v].at # "off" <=> wpc'[v] = "drive"
    BY <1>5, <1>6 DEF Drivers
  <2>2. \A v \in Workers : wpc'[v] = "drive" =>
           /\ drv'[v].job = slot'[v].job /\ drv'[v].call = slot'[v].call
           /\ drv'[v].band = slot'[v].band
    BY <1>1, <1>5, <1>6 DEF Drivers
  <2>3. \A d \in Callers : drv'[d] = drv[d]  BY <1>6, <1>13
  <2> QED  BY <1>1, <2>1, <2>2, <2>3 DEF Drivers
<1>15. Cursors'
  <2>1. \A t \in Workers \cup Callers : drv'[t].at = "claim" => drv'[t].arg \in Nat
    BY <1>5, <1>6 DEF Cursors
  <2>2. \A t \in Workers \cup Callers : drv'[t].at \in {"steal", "runStolen"} =>
           drv'[t].arg \in 0 .. op'[drv'[t].job].n - 1
    BY <1>1, <1>5, <1>6 DEF Cursors
  <2> QED  BY <1>1, <1>9, <2>1, <2>2 DEF Cursors
<1>16. Owing' = Owing
  <2>1. \A v \in Workers : wpc'[v] = "countdown" <=> wpc[v] = "countdown"  BY <1>1, <1>6
  <2> QED  BY <1>1, <1>9, <2>1 DEF Owing
<1>17. Counted'  BY <1>1, <1>16 DEF Counted
<1> QED  BY <1>8, <1>11, <1>12, <1>14, <1>15, <1>17

\* The flag is reset: the worker owes until it has counted down.
LEMMA ResetFrame ==
    ASSUME FrameInv, NEW w \in Workers, Reset(w)
    PROVE  FrameInv'
<1> USE DEF FrameInv
<1>1. /\ wpc[w] = "drive" /\ wpc' = [wpc EXCEPT ![w] = "countdown"]
      /\ drv' = [drv EXCEPT ![w] = Idle] /\ state' = [state EXCEPT ![w] = 0]
      /\ UNCHANGED <<steal, assist, flips, slot, pending, cpc, op, idx, cursor>>
  BY DEF Reset, GoW, flags, call
<1>2. state[w] = 1  BY <1>1 DEF Stages
<1>3. PICK c \in Callers : Dispatching(c) /\ SlotOf(c, w)  BY <1>2 DEF Stages
<1>4. Idle \in DriverStates /\ Idle.at = "off"  BY DEF Idle, DriverStates, DrivePlaces
<1>5. /\ wpc' \in [Workers -> WorkerPlaces] /\ wpc'[w] = "countdown"
      /\ \A v \in Workers : v # w => wpc'[v] = wpc[v] /\ state'[v] = state[v]
      /\ state' \in [Workers -> {0, 1}] /\ state'[w] = 0
      /\ drv' \in [Workers \cup Callers -> DriverStates] /\ drv'[w].at = "off"
      /\ \A t \in Workers \cup Callers : t # w => drv'[t] = drv[t]
  BY <1>1, <1>4 DEF Types, WorkerPlaces
<1>6. /\ FirstWorkerBand' = FirstWorkerBand
      /\ \A d \in Callers : Dispatched(op[d])' = Dispatched(op[d])
  BY <1>1, SameCut
<1>7. Types'  BY <1>1, <1>5 DEF Types
<1>8. \A d \in Callers : (Dispatching(d)' <=> Dispatching(d)) /\ ToWrite(d)' = ToWrite(d)
  BY <1>1, <1>6 DEF Dispatching, ToWrite
<1>9. \A d \in Callers, v \in Workers : SlotOf(d, v)' <=> SlotOf(d, v)
  BY <1>1, <1>6 DEF SlotOf
<1>10. Shaped' /\ InLoop'  BY <1>1, <1>6, <1>8 DEF Shaped, InLoop
<1>11. \A d \in Callers : w \notin ToWrite(d) /\ w \notin flips[d]
  BY <1>1 DEF Stages, Apart
<1>12. Stages'
  <2>1. \A d \in Callers : flips'[d] # {} => Dispatching(d)'  BY <1>1, <1>8 DEF Stages
  <2>2. \A d \in Callers, v \in Workers : v \in ToWrite(d)' =>
           state'[v] = 0 /\ wpc'[v] \in Apart /\ v \notin flips'[d]
    BY <1>1, <1>5, <1>8, <1>11 DEF Stages
  <2>3. \A d \in Callers, v \in Workers : v \in flips'[d] =>
           state'[v] = 0 /\ wpc'[v] \in Apart /\ SlotOf(d, v)'
    BY <1>1, <1>5, <1>9, <1>11 DEF Stages
  <2>4. \A v \in Workers : state'[v] = 1 => \E d \in Callers : Dispatching(d)' /\ SlotOf(d, v)'
    BY <1>5, <1>8, <1>9 DEF Stages
  <2>5. \A v \in Workers : wpc'[v] \in {"fetch", "drive"} => state'[v] = 1
    BY <1>5 DEF Stages
  <2>6. \A v \in Workers : wpc'[v] = "countdown" =>
           state'[v] = 0 /\ \E d \in Callers : Dispatching(d)'
    BY <1>3, <1>5, <1>8 DEF Stages
  <2>7. \A d \in Callers, v \in Workers :
           wpc'[v] = "countdown" => v \notin ToWrite(d)' /\ v \notin flips'[d]
    BY <1>1, <1>5, <1>8, <1>11 DEF Stages
  <2> QED  BY <2>1, <2>2, <2>3, <2>4, <2>5, <2>6, <2>7 DEF Stages
<1>13. \A d \in Callers : d # w  BY WorkersAreNoCallers
<1>14. Drivers'
  <2>1. \A v \in Workers : drv'[v].at # "off" <=> wpc'[v] = "drive"
    BY <1>5 DEF Drivers
  <2>2. \A v \in Workers : wpc'[v] = "drive" =>
           /\ drv'[v].job = slot'[v].job /\ drv'[v].call = slot'[v].call
           /\ drv'[v].band = slot'[v].band
    BY <1>1, <1>5 DEF Drivers
  <2>3. \A d \in Callers : drv'[d] = drv[d]  BY <1>5, <1>13
  <2> QED  BY <1>1, <2>1, <2>2, <2>3 DEF Drivers
<1>15. Cursors'
  <2>1. \A t \in Workers \cup Callers : drv'[t].at = "claim" => drv'[t].arg \in Nat
    BY <1>5 DEF Cursors
  <2>2. \A t \in Workers \cup Callers : drv'[t].at \in {"steal", "runStolen"} =>
           drv'[t].arg \in 0 .. op'[drv'[t].job].n - 1
    BY <1>1, <1>5 DEF Cursors
  <2> QED  BY <1>1, <1>8, <2>1, <2>2 DEF Cursors
<1>16. Owing' = Owing
  <2>1. ASSUME NEW v \in Workers PROVE v \in Owing' <=> v \in Owing
    <3>1. CASE v = w  BY <1>2, <1>5, <3>1 DEF Owing
    <3>2. CASE v # w  BY <1>1, <1>5, <1>8, <3>2 DEF Owing
    <3> QED  BY <3>1, <3>2
  <2> QED  BY <2>1 DEF Owing
<1>17. Counted'  BY <1>1, <1>16 DEF Counted
<1> QED  BY <1>7, <1>10, <1>12, <1>14, <1>15, <1>17

\* The countdown does not wrap: who counts down was owing.
LEMMA CountdownFrame ==
    ASSUME FrameInv, NEW w \in Workers, Countdown(w)
    PROVE  FrameInv'
<1> USE DEF FrameInv
<1>1. /\ wpc[w] = "countdown" /\ wpc' = [wpc EXCEPT ![w] = "spin"]
      /\ pending' = (pending + USize - 1) % USize
      /\ UNCHANGED <<steal, assist, state, flips, slot, cpc, op, idx, drv, cursor>>
  BY DEF Countdown, GoW, flags, call
<1>2. /\ wpc' \in [Workers -> WorkerPlaces] /\ wpc'[w] = "spin"
      /\ \A v \in Workers : v # w => wpc'[v] = wpc[v]
  BY <1>1 DEF Types, WorkerPlaces
<1>3. /\ FirstWorkerBand' = FirstWorkerBand
      /\ \A d \in Callers : Dispatched(op[d])' = Dispatched(op[d])
  BY <1>1, SameCut
<1>4. \A d \in Callers : (Dispatching(d)' <=> Dispatching(d)) /\ ToWrite(d)' = ToWrite(d)
  BY <1>1, <1>3 DEF Dispatching, ToWrite
<1>5. \A d \in Callers, v \in Workers : SlotOf(d, v)' <=> SlotOf(d, v)
  BY <1>1, <1>3 DEF SlotOf
<1>6. /\ w \in Owing /\ state[w] = 0
      /\ \A d \in Callers : w \notin ToWrite(d) /\ w \notin flips[d]
  BY <1>1 DEF Owing, Stages
<1>7. Owing' = Owing \ {w}
  <2>1. ASSUME NEW v \in Workers PROVE v \in Owing' <=> v \in Owing /\ v # w
    <3>1. CASE v = w  BY <1>1, <1>2, <1>4, <1>6, <3>1 DEF Owing
    <3>2. CASE v # w  BY <1>1, <1>2, <1>4, <3>2 DEF Owing
    <3> QED  BY <3>1, <3>2
  <2> QED  BY <2>1 DEF Owing
<1>8. pending \in 1 .. NWorkers /\ Cardinality(Owing') = pending - 1
  <2>1. IsFiniteSet(Workers) /\ Cardinality(Workers) = NWorkers
    BY NWorkersNat, FS_Interval DEF Workers
  <2>2. Owing \in SUBSET Workers  BY DEF Owing
  <2>3. Cardinality(Owing) <= NWorkers /\ Cardinality(Owing) \in Nat
    BY <2>1, <2>2, FS_Subset, OwingFinite
  <2>4. Cardinality(Owing) # 0  BY <1>6, OwingFinite, FS_EmptySet
  <2>5. Cardinality(Owing') = Cardinality(Owing) - 1
    BY <1>6, <1>7, OwingFinite, FS_RemoveElement
  <2> QED  BY <2>3, <2>4, <2>5, NWorkersNat DEF Counted
<1>9. pending' = pending - 1
  <2>1. pending - 1 \in Nat /\ pending - 1 < USize /\ USize \in Nat \ {0}
    BY <1>8, NWorkersNat, CountdownFits
  <2>2. \A p \in Nat : p < USize => (p + USize) % USize = p  BY <2>1
  <2>3. pending + USize - 1 = (pending - 1) + USize  BY <1>8, <2>1, NWorkersNat
  <2> QED  BY <1>1, <2>1, <2>2, <2>3
<1>10. Types'  BY <1>1, <1>2, <1>8, <1>9, NWorkersNat DEF Types
<1>11. Shaped' /\ InLoop'  BY <1>1, <1>3, <1>4 DEF Shaped, InLoop
<1>12. Stages'
  <2>1. \A v \in Workers : /\ wpc'[v] = "countdown" => wpc[v] = "countdown"
                           /\ wpc'[v] \in {"fetch", "drive"} => wpc[v] \in {"fetch", "drive"}
                           /\ wpc[v] \in Apart => wpc'[v] \in Apart
    BY <1>1, <1>2 DEF Apart
  <2> QED  BY <1>1, <1>4, <1>5, <2>1 DEF Stages
<1>13. Drivers'
  <2>1. \A v \in Workers : wpc'[v] = "drive" <=> wpc[v] = "drive"  BY <1>1, <1>2
  <2> QED  BY <1>1, <2>1 DEF Drivers
<1>14. Cursors'  BY <1>1, <1>4 DEF Cursors
<1>15. Counted'  BY <1>8, <1>9 DEF Counted
<1> QED  BY <1>10, <1>11, <1>12, <1>13, <1>14, <1>15

\* Every step keeps the frame, as long as calls do not overlap.
LEMMA FrameStep ==
    FrameInv /\ OneAtATime /\ OneAtATime' /\ [Next]_vars => FrameInv'
<1> SUFFICES ASSUME FrameInv, OneAtATime, OneAtATime', [Next]_vars PROVE FrameInv'  OBVIOUS
<1> USE DEF flags, slots, parking, call
<1>1. CASE UNCHANGED vars
  <2>1. UNCHANGED <<steal, assist, state, flips, slot, pending, cpc, op, drv, cursor, idx, wpc>>
    BY <1>1 DEF vars
  <2>2. idx \in [Callers \cup {None} -> Nat] /\ wpc \in [Workers -> WorkerPlaces]
    BY DEF FrameInv, Types
  <2> QED  BY <2>1, <2>2, ApartKeeps
<1>2. ASSUME NEW c \in Callers, CallStep(c) PROVE FrameInv'
  <2>1. cpc[c] # "idle" => \A d \in Callers : d # c => ~Dispatching(d)  BY OnlyCall
  <2>2. /\ op \in [Callers -> Ops] /\ idx \in [Callers \cup {None} -> Nat]
        /\ DOMAIN cursor = Callers /\ op[c] \in Ops
        /\ drv \in [Workers \cup Callers -> DriverStates]
    BY DEF FrameInv, Types, Ops, Cursors
  <2>3. CASE Inline(c)
    BY <2>1, <2>2, <2>3, OutsideKeeps DEF Inline, GoC, Dispatching
  <2>4. CASE Return(c)
    BY <2>1, <2>2, <2>4, OutsideKeeps DEF Return, GoC, Dispatching
  <2>5. CASE WriteSlot(c)  BY <2>5, WriteSlotFrame
  <2>6. CASE WakeFence(c)
    <3>1. /\ cpc[c] = "fence" /\ cpc' = [cpc EXCEPT ![c] = "count"]
          /\ flips' = [flips EXCEPT ![c] = {}]
          /\ state' = [w \in Workers |-> IF w \in flips[c] THEN 1 ELSE state[w]]
          /\ UNCHANGED <<steal, assist, slot, pending, wpc, op, idx, drv, cursor>>
      BY <2>6 DEF WakeFence, GoC
    <3>2. /\ cpc' \in [Callers -> CallPlaces]
          /\ \A d \in Callers : cpc'[d] = cpc[d] \/ (cpc[d] = "fence" /\ cpc'[d] = "count")
      BY <3>1 DEF FrameInv, Types, CallPlaces
    <3>3. PICK F \in SUBSET flips[c] :
             /\ flips' = [flips EXCEPT ![c] = flips[c] \ F]
             /\ state' = [w \in Workers |-> IF w \in F THEN 1 ELSE state[w]]
      <4>1. flips[c] \ flips[c] = {} /\ flips[c] \in SUBSET flips[c]  OBVIOUS
      <4> QED  BY <3>1, <4>1
    <3>4. UNCHANGED <<steal, assist, slot, pending, wpc, op, idx, drv, cursor>>  BY <3>1
    <3> QED  BY <3>2, <3>3, <3>4, FlipsKeep
  <2>7. Dispatching(c) => 1 <= Dispatched(op[c]) /\ Dispatched(op[c]) \in Int
    BY NWorkersNat DEF FrameInv, Shaped
  <2>8. CASE WakeCount(c)
    <3> PICK p : p = IF parkedCount = 0 THEN "assist" ELSE "wake"  OBVIOUS
    <3>1. /\ cpc[c] = "count" /\ cpc' = [cpc EXCEPT ![c] = p]
          /\ idx' = [idx EXCEPT ![c] = 1]
          /\ UNCHANGED <<steal, assist, state, flips, slot, pending, wpc, op, cursor, drv>>
      BY <2>8 DEF WakeCount, GoC
    <3>2. p \in CallPlaces /\ p \in {"assist", "wake"}  BY DEF CallPlaces
    <3>3. /\ idx' \in [Callers \cup {None} -> Nat] /\ idx'[c] = 1
          /\ \A d \in Callers : d # c => idx'[d] = idx[d]
      BY <2>2, <3>1
    <3>4. drv[c].at = "off"  BY <3>1 DEF FrameInv, Drivers
    <3>5. 1 <= idx'[c] /\ idx'[c] <= Dispatched(op[c])  BY <2>7, <3>1, <3>3 DEF Dispatching
    <3> QED  BY <2>2, <3>1, <3>2, <3>3, <3>4, <3>5, CallerKeeps
  <2>9. CASE WakeScan(c)
    <3> PICK w : w = idx[c]  OBVIOUS
    <3> PICK p : p = IF w = Dispatched(op[c]) THEN "assist" ELSE "wake"  OBVIOUS
    <3>1. /\ cpc[c] = "wake" /\ cpc' = [cpc EXCEPT ![c] = p]
          /\ idx' = [idx EXCEPT ![c] = w + 1]
          /\ UNCHANGED <<steal, assist, state, flips, slot, pending, wpc, op, cursor, drv>>
      BY <2>9 DEF WakeScan, GoC
    <3>2. p \in CallPlaces /\ p \in {"assist", "wake"}  BY DEF CallPlaces
    <3>3. w \in Nat /\ 1 <= w /\ w <= Dispatched(op[c]) /\ Dispatched(op[c]) \in Int
      BY <2>2, <2>7, <3>1 DEF FrameInv, InLoop, Dispatching
    <3>4. /\ idx' \in [Callers \cup {None} -> Nat] /\ idx'[c] = w + 1
          /\ \A d \in Callers : d # c => idx'[d] = idx[d]
      BY <2>2, <3>1, <3>3
    <3>5. drv[c].at = "off"  BY <3>1 DEF FrameInv, Drivers
    <3>6. p = "wake" => 1 <= idx'[c] /\ idx'[c] <= Dispatched(op[c])
      BY <3>3, <3>4
    <3> QED  BY <2>2, <3>1, <3>2, <3>4, <3>5, <3>6, CallerKeeps
  <2>10. CASE Assist(c)
    <3>1. /\ cpc[c] = "assist" /\ cpc' = [cpc EXCEPT ![c] = IF assist THEN "drive" ELSE "join"]
          /\ UNCHANGED <<steal, assist, state, flips, slot, pending, wpc, op, cursor, idx>>
      BY <2>10 DEF Assist, GoC
    <3>2. Dispatching(c)  BY <3>1 DEF Dispatching
    <3>3. drv[c].at = "off"  BY <3>1 DEF FrameInv, Drivers
    <3>4. CASE assist
      <4> PICK s : s = [job |-> c, call |-> op[c].call, band |-> 0]  OBVIOUS
      <4> PICK e : e = Enter(s)  OBVIOUS
      <4>1. drv' = [drv EXCEPT ![c] = e] /\ cpc' = [cpc EXCEPT ![c] = "drive"]
        BY <2>10, <3>1, <3>4 DEF Assist
      <4>2. s.job = c /\ s.call = op[c].call /\ s.call \in Nat /\ s.band = 0
            /\ s.band \in 0 .. op[c].n - 1
        BY <2>2, <3>2 DEF Ops, FrameInv, Shaped
      <4>3. /\ e \in DriverStates /\ e.job = c /\ e.call = op[c].call /\ e.band = 0
            /\ e.at \in {"load", "run"}
        BY <3>2, <4>2, EnterFacts
      <4>4. /\ drv' \in [Workers \cup Callers -> DriverStates] /\ drv'[c] = e
            /\ \A t \in Workers \cup Callers : t # c => drv'[t] = drv[t]
        BY <2>2, <4>1, <4>3
      <4>5. "drive" \in CallPlaces  BY DEF CallPlaces
      <4> QED  BY <2>2, <3>1, <3>4, <4>1, <4>3, <4>4, <4>5, CallerKeeps, ZenonT(30)
    <3>5. CASE ~assist
      <4>1. UNCHANGED drv /\ cpc' = [cpc EXCEPT ![c] = "join"]  BY <2>10, <3>1, <3>5 DEF Assist
      <4>2. "join" \in CallPlaces  BY DEF CallPlaces
      <4> QED  BY <2>2, <3>1, <3>3, <4>1, <4>2, CallerKeeps
    <3> QED  BY <3>4, <3>5
  <2>11. CASE AssistDone(c)
    <3>1. /\ cpc[c] = "drive" /\ cpc' = [cpc EXCEPT ![c] = "join"]
          /\ drv' = [drv EXCEPT ![c] = Idle]
          /\ UNCHANGED <<steal, assist, state, flips, slot, pending, wpc, op, cursor, idx>>
      BY <2>11 DEF AssistDone, GoC
    <3>2. Idle \in DriverStates /\ Idle.at = "off"  BY DEF Idle, DriverStates, DrivePlaces
    <3>3. /\ drv' \in [Workers \cup Callers -> DriverStates] /\ drv'[c].at = "off"
          /\ \A t \in Workers \cup Callers : t # c => drv'[t] = drv[t]
      BY <2>2, <3>1, <3>2
    <3>4. "join" \in CallPlaces  BY DEF CallPlaces
    <3> QED  BY <2>2, <3>1, <3>3, <3>4, CallerKeeps
  <2>12. CASE Join(c)
    BY <2>1, <2>2, <2>12, OutsideKeeps DEF Join, GoC, Dispatching
  <2>13. CASE DriveStep(c)  BY <2>13, DriveFrame
  <2> QED
    BY <1>2, <2>3, <2>4, <2>5, <2>6, <2>8, <2>9, <2>10, <2>11, <2>12, <2>13 DEF CallStep
<1>3. ASSUME NEW w \in Workers, NEW p \in Apart \cup {"fetch"},
             wpc[w] \in Apart, wpc' = [wpc EXCEPT ![w] = p], p = "fetch" => state[w] = 1,
             UNCHANGED <<steal, assist, state, flips, slot, pending, cpc, op, drv, cursor, idx>>
      PROVE  FrameInv'
  <2>1. /\ wpc' \in [Workers -> WorkerPlaces] /\ wpc'[w] = p
        /\ \A v \in Workers : v # w => wpc'[v] = wpc[v]
        /\ idx \in [Callers \cup {None} -> Nat]
    BY <1>3 DEF FrameInv, Types, WorkerPlaces, Apart
  <2> QED  BY <1>3, <2>1, ApartKeeps
<1>4. ASSUME NEW w \in Workers, WorkerStep(w) \/ ParkSpurious(w) PROVE FrameInv'
  <2> USE DEF GoW, Apart
  <2>1. CASE SpinLoad(w)  BY <1>3, <2>1 DEF SpinLoad
  <2>2. CASE SpinIdle(w)  BY <1>3, <2>2 DEF SpinIdle
  <2>3. CASE ParkFence(w)  BY <1>3, <2>3 DEF ParkFence
  <2>4. CASE ParkRecheck(w)  BY <1>3, <2>4 DEF ParkRecheck
  <2>5. CASE Park(w)  BY <1>3, <2>5 DEF Park
  <2>6. CASE ParkSpurious(w)  BY <1>3, <2>6 DEF ParkSpurious
  <2>7. CASE Unparked(w)  BY <1>3, <2>7 DEF Unparked
  <2>8. CASE Fetch(w)  BY <2>8, FetchFrame
  <2>9. CASE Reset(w)  BY <2>9, ResetFrame
  <2>10. CASE Countdown(w)  BY <2>10, CountdownFrame
  <2>11. CASE DriveStep(w)  BY <2>11, DriveFrame
  <2> QED
    BY <1>4, <2>1, <2>2, <2>3, <2>4, <2>5, <2>6, <2>7, <2>8, <2>9, <2>10, <2>11 DEF WorkerStep
<1>5. ASSUME NEW c \in Callers, NEW w \in Workers, FlipVisible(c, w) PROVE FrameInv'
  <2> PICK F : F = {w}  OBVIOUS
  <2>1. /\ F \in SUBSET flips[c] /\ flips' = [flips EXCEPT ![c] = flips[c] \ F]
        /\ UNCHANGED <<steal, assist, slot, pending, wpc, op, idx, drv, cursor, cpc>>
    BY <1>5 DEF FlipVisible
  <2>2. state' = [v \in Workers |-> IF v \in F THEN 1 ELSE state[v]]
    BY <1>5 DEF FlipVisible, FrameInv, Types
  <2>3. cpc \in [Callers -> CallPlaces]  BY DEF FrameInv, Types
  <2> QED  BY <2>1, <2>2, <2>3, FlipsKeep
<1>6. ASSUME (\E w \in Workers : ParkedVisible(w)) \/ DropStart \/ DropStep PROVE FrameInv'
  <2>1. UNCHANGED <<steal, assist, state, flips, slot, pending, cpc, op, drv, cursor, wpc>>
    BY <1>6 DEF ParkedVisible, DropStart, DropStep, DropUnpark, DropJoin
  <2>2. idx' = idx \/ idx' = [idx EXCEPT ![None] = idx[None] + 1]
    BY <1>6 DEF ParkedVisible, DropStart, DropStep, DropUnpark, DropJoin
  <2>3. idx \in [Callers \cup {None} -> Nat] /\ wpc \in [Workers -> WorkerPlaces]
    BY DEF FrameInv, Types
  <2>4. idx' \in [Callers \cup {None} -> Nat] /\ \A c \in Callers : idx'[c] = idx[c]
    BY <2>2, <2>3, NoneIsNoCaller
  <2> QED  BY <2>1, <2>3, <2>4, ApartKeeps
<1> QED  BY <1>1, <1>2, <1>4, <1>5, <1>6, CallFrame DEF Next, Visible

\* Calls that do not overlap are safe: nobody is inside a closure, or about to
\* enter one, whose call has returned (the closure and the bands are in the
\* frame of parallel_rows), for every number of workers and in every mode.
THEOREM FrameOutlivesWorkers == Spec /\ []OneAtATime => []ClosureAlive
<1>1. Init => FrameInv  BY FrameInit
<1>2. FrameInv /\ OneAtATime /\ OneAtATime' /\ [Next]_vars => FrameInv'  BY FrameStep
<1>3. FrameInv => ClosureAlive  BY FrameInvImplies
<1> QED  BY <1>1, <1>2, <1>3, PTL DEF Spec
-----------------------------------------------------------------------------
(* RowInv: what keeps it *)

\* A new pool has no rows.
LEMMA RowInit == Init => RowInv
<1> SUFFICES ASSUME Init PROVE RowInv  OBVIOUS
<1> USE DEF Init
<1>1. \A c \in Callers : cpc[c] = "idle" /\ ~Dispatching(c)  BY DEF Dispatching
<1>2. \A t \in Workers \cup Callers : drv[t].at = "off"  BY DEF Idle
<1>3. DriverPlaces  BY <1>2 DEF DriverPlaces
<1> QED  BY <1>1, <1>3 DEF RowInv, RowTypes, LeftDrained, Placed, Inlined

\* Steps outside the closures that do not change who is on his way in or out.
LEMMA RowsKeep ==
    ASSUME RowInv, UNCHANGED <<steal, assist, op, cursor, touched, drv>>,
           \A c \in Callers : Dispatching(c)' =>
              /\ Dispatching(c)
              /\ Awaited(c)' = Awaited(c) /\ Engaged(c)' = Engaged(c)
              /\ assist => (cpc'[c] \in {"drive", "join"} <=> cpc[c] \in {"drive", "join"}),
           \A c \in Callers : cpc'[c] # "idle" => cpc[c] # "idle",
           \A c \in Callers : cpc'[c] \in {"inline", "return"} => cpc'[c] = cpc[c]
    PROVE  RowInv'
<1> USE DEF RowInv
<1>1. /\ FirstWorkerBand' = FirstWorkerBand
      /\ \A c \in Callers : Dispatched(op[c])' = Dispatched(op[c])
  BY SameCut
<1>2. RowTypes'  BY DEF RowTypes
<1>3. \A c, b : Drained(c, b)' <=> Drained(c, b)  BY DEF Drained
<1>4. \A c : AllDrained(c)' <=> AllDrained(c)  BY <1>3 DEF AllDrained
<1>5. DriverPlaces'  BY <1>3, <1>4 DEF DriverPlaces
<1>6. LeftDrained'  BY <1>1, <1>4 DEF LeftDrained
<1>7. \A t : Held(t)' = Held(t)  BY DEF Held
<1>8. \A c \in Callers : Dispatching(c)' => Waiting(c)' = Waiting(c)  BY <1>1 DEF Waiting
<1>9. \A c \in Callers : Dispatching(c)' => \A r : Unclaimed(c, r)' <=> Unclaimed(c, r)
  BY <1>8 DEF Unclaimed
<1>10. Placed'  BY <1>7, <1>9 DEF Placed
<1>11. Inlined'  BY DEF Inlined
<1> QED  BY <1>2, <1>5, <1>6, <1>10, <1>11

\* Who leaves the closure holds nothing and leaves, when stealing, all bands
\* drained.
LEMMA LeaveKeeps ==
    ASSUME FrameInv, RowInv, NEW t \in Workers \cup Callers, drv[t].at = "done",
           drv' = [drv EXCEPT ![t] = Idle],
           UNCHANGED <<steal, assist, op, cursor, touched>>,
           \A c \in Callers : cpc'[c] = cpc[c] \/ (cpc[c] = "drive" /\ cpc'[c] = "join"),
           \A c \in Callers : Dispatching(c) =>
              /\ Awaited(c)' = Awaited(c)
              /\ steal => \A w \in Engaged(c) : w \in Engaged(c)' \/ AllDrained(c)
    PROVE  RowInv'
<1> USE DEF RowInv
<1>1. /\ FirstWorkerBand' = FirstWorkerBand
      /\ \A c \in Callers : Dispatched(op[c])' = Dispatched(op[c])
  BY SameCut
<1>2. \A c \in Callers : Dispatching(c)' <=> Dispatching(c)  BY DEF Dispatching
<1>3. RowTypes'  BY DEF RowTypes
<1>4. \A c, b : Drained(c, b)' <=> Drained(c, b)  BY DEF Drained
<1>5. \A c : AllDrained(c)' <=> AllDrained(c)  BY <1>4 DEF AllDrained
<1>6. /\ \A u \in Workers \cup Callers : u # t => drv'[u] = drv[u]
      /\ drv'[t].at = "off"
  BY DEF FrameInv, Types, Idle
<1>7. DriverPlaces'
  <2>1. \A u \in Workers \cup Callers : ~steal' => drv'[u].at \in {"off", "run", "done"}
    BY <1>6 DEF DriverPlaces
  <2>2. ASSUME steal', NEW u \in Workers \cup Callers
        PROVE  /\ drv'[u].at \in {"scan", "steal", "runStolen", "done"} =>
                    Drained(drv[u].job, drv[u].band)'
               /\ drv'[u].at = "done" => AllDrained(drv[u].job)'
    <3>1. CASE u = t  BY <1>6, <3>1
    <3>2. CASE u # t  BY <1>4, <1>5, <1>6, <2>2, <3>2 DEF DriverPlaces, Drained, AllDrained
    <3> QED  BY <3>1, <3>2
  <2> QED  BY <2>1, <2>2 DEF DriverPlaces
<1>8. LeftDrained'  BY <1>1, <1>2, <1>5 DEF LeftDrained
<1>9. \A u \in Workers \cup Callers : Held(u)' = Held(u)  BY <1>6 DEF Held
<1>10. \A c \in Callers : Dispatching(c)' => Waiting(c)' = Waiting(c)
  BY <1>1, <1>2 DEF Waiting
<1>11. \A c \in Callers : Dispatching(c)' => \A r : Unclaimed(c, r)' <=> Unclaimed(c, r)
  BY <1>10 DEF Unclaimed
<1>12. Placed'  BY <1>2, <1>9, <1>11 DEF Placed
<1>13. Inlined'  BY DEF Inlined
<1> QED  BY <1>3, <1>7, <1>8, <1>12, <1>13

\* Who enters a static band holds its rows from then on; who enters to steal
\* holds nothing yet.
LEMMA EnterKeeps ==
    ASSUME FrameInv, RowInv, NEW c \in Callers, Dispatching(c),
           \A d \in Callers : d # c => ~Dispatching(d),
           NEW t \in Workers \cup Callers, drv[t].at = "off",
           NEW b \in 0 .. op[c].n - 1, NEW e \in DriverStates,
           e.job = c, e.band = b, e.at = (IF steal THEN "load" ELSE "run"),
           e.lo = BandLo(op[c], b), e.hi = BandHi(op[c], b),
           drv' = [drv EXCEPT ![t] = e],
           UNCHANGED <<steal, assist, op, cursor, touched>>,
           \A d \in Callers : cpc'[d] = cpc[d] \/ (cpc[d] = "assist" /\ cpc'[d] = "drive"),
           b \in Waiting(c), Waiting(c)' = Waiting(c) \ {b}, Engaged(c)' = Engaged(c)
    PROVE  RowInv'
<1> USE DEF RowInv
<1>1. /\ FirstWorkerBand' = FirstWorkerBand
      /\ \A d \in Callers : Dispatched(op[d])' = Dispatched(op[d])
  BY SameCut
<1>2. \A d \in Callers : Dispatching(d)' <=> Dispatching(d)  BY DEF Dispatching
<1>3. RowTypes'  BY DEF RowTypes
<1>4. \A d, a : Drained(d, a)' <=> Drained(d, a)  BY DEF Drained
<1>5. \A d : AllDrained(d)' <=> AllDrained(d)  BY <1>4 DEF AllDrained
<1>6. /\ \A u \in Workers \cup Callers : u # t => drv'[u] = drv[u]
      /\ drv'[t] = e
  BY DEF FrameInv, Types
<1>7. DriverPlaces'
  <2>1. \A u \in Workers \cup Callers : ~steal' => drv'[u].at \in {"off", "run", "done"}
    BY <1>6 DEF DriverPlaces
  <2>2. ASSUME steal', NEW u \in Workers \cup Callers
        PROVE  /\ drv'[u].at \in {"scan", "steal", "runStolen", "done"} =>
                    Drained(drv[u].job, drv[u].band)'
               /\ drv'[u].at = "done" => AllDrained(drv[u].job)'
    <3>1. CASE u = t  BY <1>6, <2>2, <3>1
    <3>2. CASE u # t  BY <1>4, <1>5, <1>6, <2>2, <3>2 DEF DriverPlaces, Drained, AllDrained
    <3> QED  BY <3>1, <3>2
  <2> QED  BY <2>1, <2>2 DEF DriverPlaces
<1>8. LeftDrained'  BY <1>1, <1>2, <1>5 DEF LeftDrained
<1>9. /\ Held(t) = {} /\ \A u \in Workers \cup Callers : u # t => Held(u)' = Held(u)
  BY <1>6 DEF Held
<1>10. op[c] \in Ops /\ 2 <= op[c].n /\ op[c].n <= op[c].rows
  BY DEF FrameInv, Types, Shaped, Ops
<1>11. Placed'
  <2> SUFFICES ASSUME NEW r \in 0 .. op[c].rows - 1
               PROVE  /\ \A u \in Workers \cup Callers : r \in Held(u)' => touched[c][r] = 0
                      /\ \A u, v \in Workers \cup Callers :
                            r \in Held(u)' /\ r \in Held(v)' => u = v
                      /\ Unclaimed(c, r)' => touched[c][r] = 0
                                             /\ \A u \in Workers \cup Callers : r \notin Held(u)'
                      /\ \/ touched[c][r] = 1
                         \/ \E u \in Workers \cup Callers : r \in Held(u)'
                         \/ Unclaimed(c, r)'
    BY <1>2 DEF Placed
  <2>1. /\ \A u \in Workers \cup Callers : r \in Held(u) => touched[c][r] = 0
        /\ \A u, v \in Workers \cup Callers : r \in Held(u) /\ r \in Held(v) => u = v
        /\ Unclaimed(c, r) => touched[c][r] = 0
                              /\ \A u \in Workers \cup Callers : r \notin Held(u)
        /\ \/ touched[c][r] = 1
           \/ \E u \in Workers \cup Callers : r \in Held(u)
           \/ Unclaimed(c, r)
    BY DEF Placed
  <2>2. CASE steal
    <3>1. Held(t)' = {}  BY <1>6, <2>2 DEF Held
    <3>2. Unclaimed(c, r)' <=> Unclaimed(c, r)  BY <2>2 DEF Unclaimed
    <3> QED  BY <1>9, <2>1, <3>1, <3>2
  <2>3. CASE ~steal
    <3>1. r \in Held(t)' <=> BandLo(op[c], b) <= r /\ r < BandHi(op[c], b)
      <4>1. Held(t)' = BandLo(op[c], b) .. BandHi(op[c], b) - 1  BY <1>6, <2>3 DEF Held
      <4>2. BandLo(op[c], b) \in Nat /\ BandHi(op[c], b) \in Nat /\ r \in Nat
        <5>1. b \in Nat  BY <1>10 DEF Ops
        <5> QED  BY <1>10, <5>1, BandFacts DEF Ops
      <4> QED  BY <4>1, <4>2
    <3>2. Unclaimed(c, r) <=> \E a \in Waiting(c) :
             BandLo(op[c], a) <= r /\ r < BandHi(op[c], a)
      BY <2>3 DEF Unclaimed, Waiting
    <3>3. Unclaimed(c, r)' <=> \E a \in Waiting(c) :
             a # b /\ BandLo(op[c], a) <= r /\ r < BandHi(op[c], a)
      <4>1. Waiting(c) \subseteq 0 .. op[c].n - 1  BY DEF Waiting
      <4> QED  BY <2>3, <4>1 DEF Unclaimed
    <3>4. r \in Held(t)' => Unclaimed(c, r)  BY <3>1, <3>2
    <3>5. Unclaimed(c, r)' => Unclaimed(c, r)  BY <3>2, <3>3
    <3>6. Unclaimed(c, r)' => r \notin Held(t)'
      <4> SUFFICES ASSUME Unclaimed(c, r)', r \in Held(t)' PROVE FALSE  OBVIOUS
      <4>1. PICK a \in Waiting(c) : a # b /\ BandLo(op[c], a) <= r /\ r < BandHi(op[c], a)
        BY <3>3
      <4>2. a \in Nat /\ b \in Nat /\ r \in Nat  BY <1>10 DEF Ops, Waiting
      <4> QED  BY <1>10, <3>1, <4>1, <4>2, BandsDisjoint
    <3>7. Unclaimed(c, r) => r \in Held(t)' \/ Unclaimed(c, r)'  BY <3>1, <3>2, <3>3
    <3> QED  BY <1>9, <2>1, <3>4, <3>5, <3>6, <3>7
  <2> QED  BY <2>2, <2>3
<1>12. Inlined'  BY DEF Inlined
<1> QED  BY <1>3, <1>7, <1>8, <1>11, <1>12

\* A look at the cursors: the driver goes on, and nothing moves.
LEMMA LookKeeps ==
    ASSUME FrameInv, RowInv, NEW t \in Workers \cup Callers,
           drv[t].at \in {"load", "scan"}, NEW e \in DriverStates,
           e.at \in {"claim", "scan", "steal", "done"},
           e.job = drv[t].job, e.band = drv[t].band,
           e.at # "claim" => Drained(e.job, e.band),
           e.at = "done" => AllDrained(e.job),
           drv' = [drv EXCEPT ![t] = e],
           UNCHANGED <<steal, assist, op, cursor, touched, state, flips, wpc, cpc, idx>>
    PROVE  RowInv'
<1> USE DEF RowInv
<1>1. /\ FirstWorkerBand' = FirstWorkerBand
      /\ \A d \in Callers : Dispatched(op[d])' = Dispatched(op[d])
  BY SameCut
<1>2. \A d \in Callers : (Dispatching(d)' <=> Dispatching(d)) /\ ToWrite(d)' = ToWrite(d)
  BY <1>1 DEF Dispatching, ToWrite
<1>3. RowTypes'  BY DEF RowTypes
<1>4. \A d, a : Drained(d, a)' <=> Drained(d, a)  BY DEF Drained
<1>5. \A d : AllDrained(d)' <=> AllDrained(d)  BY <1>4 DEF AllDrained
<1>6. /\ \A u \in Workers \cup Callers : u # t => drv'[u] = drv[u]
      /\ drv'[t] = e
  BY DEF FrameInv, Types
<1>7. steal  BY DEF DriverPlaces
<1>8. DriverPlaces'
  <2>1. ASSUME NEW u \in Workers \cup Callers
        PROVE  /\ drv'[u].at \in {"scan", "steal", "runStolen", "done"} =>
                    Drained(drv[u].job, drv[u].band)'
               /\ drv'[u].at = "done" => AllDrained(drv[u].job)'
    <3>1. CASE u = t
      <4>1. Drained(drv[u].job, drv[u].band)' <=> Drained(e.job, e.band)
        BY <1>6, <3>1 DEF Drained
      <4>2. AllDrained(drv[u].job)' <=> AllDrained(e.job)
        BY <1>6, <3>1 DEF Drained, AllDrained
      <4> QED  BY <1>6, <3>1, <4>1, <4>2
    <3>2. CASE u # t  BY <1>4, <1>5, <1>6, <1>7, <3>2 DEF DriverPlaces, Drained, AllDrained
    <3> QED  BY <3>1, <3>2
  <2> QED  BY <1>7, <2>1 DEF DriverPlaces
<1>9. \A d \in Callers : Awaited(d)' = Awaited(d) /\ Engaged(d)' = Engaged(d)
  BY <1>2 DEF Awaited, Engaged
<1>10. LeftDrained'  BY <1>1, <1>2, <1>5, <1>9 DEF LeftDrained
<1>11. \A u \in Workers \cup Callers : Held(u)' = Held(u)  BY <1>6 DEF Held
<1>12. \A d \in Callers : Waiting(d)' = Waiting(d)  BY <1>1, <1>9 DEF Waiting
<1>13. \A d \in Callers : \A r : Unclaimed(d, r)' <=> Unclaimed(d, r)
  BY <1>12 DEF Unclaimed
<1>14. Placed'  BY <1>2, <1>11, <1>13 DEF Placed
<1>15. Inlined'  BY DEF Inlined
<1> QED  BY <1>3, <1>8, <1>10, <1>14, <1>15

\* fetch_add: the rows the cursor passes go from unclaimed to the thread's hands.
LEMMA ClaimKeeps ==
    ASSUME FrameInv, OneAtATime, RowInv, NEW t \in Workers \cup Callers,
           NEW c \in Callers, c = drv[t].job, drv[t].at \in {"claim", "steal"},
           NEW b \in 0 .. op[c].n - 1, NEW by \in Nat, NEW run \in {"run", "runStolen"},
           run = "run" => b = drv[t].band,
           run = "runStolen" => Drained(c, drv[t].band),
           Claim(t, b, by, run, "scan")
    PROVE  RowInv'
<1> USE DEF RowInv
<1> PICK lo : lo = cursor[c][b]  OBVIOUS
<1> PICK top : top = BandHi(op[c], b)  OBVIOUS
<1> PICK hi : hi = MinOf(lo + by, top)  OBVIOUS
<1>1. /\ Dispatching(c) /\ drv[t].band \in 0 .. op[c].n - 1
      /\ op[c] \in Ops /\ 2 <= op[c].n /\ op[c].n <= op[c].rows
  BY DriverFacts
<1>2. /\ \A d \in Callers : d # c => ~Dispatching(d) /\ cpc[d] = "idle"
      /\ cpc[c] # "idle"
  BY <1>1, OnlyCall DEF Dispatching
<1>3. /\ cursor' = [cursor EXCEPT ![c] = [cursor[c] EXCEPT ![b] = lo + by]]
      /\ UNCHANGED <<steal, assist, op, touched, state, flips, wpc, cpc, idx>>
  BY DEF Claim, Cur, driving, flags, slots
<1>4. /\ cursor[c] \in [0 .. op[c].n - 1 -> Nat] /\ DOMAIN cursor = Callers
      /\ \A a \in 0 .. op[c].n - 1 : cursor[c][a] >= BandLo(op[c], a)
  BY <1>1 DEF FrameInv, Cursors
<1>5. \A a \in 0 .. op[c].n - 1 :
         /\ a \in Nat /\ cursor[c][a] \in Nat
         /\ BandLo(op[c], a) \in Nat /\ BandHi(op[c], a) \in Nat
  <2> SUFFICES ASSUME NEW a \in 0 .. op[c].n - 1
               PROVE  /\ a \in Nat /\ cursor[c][a] \in Nat
                      /\ BandLo(op[c], a) \in Nat /\ BandHi(op[c], a) \in Nat
    OBVIOUS
  <2>1. a \in Nat  BY <1>1 DEF Ops
  <2> QED  BY <1>1, <1>4, <2>1, BandFacts
<1>6. lo \in Nat /\ top \in Nat /\ hi \in Nat /\ hi <= lo + by /\ hi <= top
      /\ (hi = lo + by \/ hi = top) /\ lo >= BandLo(op[c], b)
  BY <1>4, <1>5 DEF MinOf
<1>7. /\ cursor'[c][b] = lo + by
      /\ \A a \in 0 .. op[c].n - 1 : a # b => cursor'[c][a] = cursor[c][a]
      /\ \A a \in 0 .. op[c].n - 1 : cursor'[c][a] \in Nat /\ cursor'[c][a] >= cursor[c][a]
  <2>1. cursor'[c] = [cursor[c] EXCEPT ![b] = lo + by]  BY <1>3, <1>4
  <2>2. cursor'[c][b] = lo + by  BY <1>4, <2>1
  <2>3. \A a \in 0 .. op[c].n - 1 : a # b => cursor'[c][a] = cursor[c][a]  BY <1>4, <2>1
  <2>4. ASSUME NEW a \in 0 .. op[c].n - 1
        PROVE  cursor'[c][a] \in Nat /\ cursor'[c][a] >= cursor[c][a]
    <3>1. CASE a = b  BY <1>6, <2>2, <3>1
    <3>2. CASE a # b  BY <1>5, <2>3, <3>2
    <3> QED  BY <3>1, <3>2
  <2> QED  BY <2>2, <2>3, <2>4
<1>8. steal  BY DEF DriverPlaces
<1>9. \A a \in 0 .. op[c].n - 1 : Drained(c, a) => Drained(c, a)'
  <2> SUFFICES ASSUME NEW a \in 0 .. op[c].n - 1, Drained(c, a) PROVE Drained(c, a)'
    OBVIOUS
  <2>1. cursor[c][a] >= BandHi(op[c], a)  BY DEF Drained
  <2>2. cursor'[c][a] >= BandHi(op[c], a)  BY <1>5, <1>7, <2>1
  <2> QED  BY <1>3, <2>2 DEF Drained
<1>10. AllDrained(c) => AllDrained(c)'  BY <1>3, <1>9 DEF AllDrained
<1>11. /\ \A u \in Workers \cup Callers : u # t => drv'[u] = drv[u]
       /\ lo >= top => drv'[t] = [drv[t] EXCEPT !.at = "scan"]
       /\ ~(lo >= top) => drv'[t] = [drv[t] EXCEPT !.at = run, !.lo = lo, !.hi = hi]
  <2>1. Cur(drv[t], b) = lo /\ Top(drv[t], b) = top  BY DEF Cur, Top
  <2> QED  BY <2>1 DEF Claim, FrameInv, Types
<1>12. drv[t] \in DriverStates  BY DEF FrameInv, Types
<1>13. /\ drv'[t].job = c /\ drv'[t].band = drv[t].band
       /\ lo >= top => drv'[t].at = "scan"
       /\ ~(lo >= top) => drv'[t].at = run /\ drv'[t].lo = lo /\ drv'[t].hi = hi
  <2> PICK d : d = drv[t]  OBVIOUS
  <2> PICK e : e = drv'[t]  OBVIOUS
  <2>1. d \in DriverStates /\ lo \in Int /\ hi \in Int /\ run \in DrivePlaces
        /\ "scan" \in DrivePlaces
    BY <1>6, <1>12 DEF DrivePlaces
  <2>2. CASE lo >= top
    <3>1. e = [d EXCEPT !.at = "scan"]  BY <1>11, <2>2
    <3>2. e.job = d.job /\ e.band = d.band /\ e.at = "scan"
      BY <2>1, <3>1, ReplacedAt DEF DriverStates
    <3> QED  BY <2>2, <3>2
  <2>3. CASE ~(lo >= top)
    <3>1. e = [d EXCEPT !.at = run, !.lo = lo, !.hi = hi]  BY <1>11, <2>3
    <3>2. e.job = d.job /\ e.band = d.band /\ e.at = run /\ e.lo = lo /\ e.hi = hi
      BY <2>1, <3>1, ReplacedSpan DEF DriverStates
    <3> QED  BY <2>3, <3>2
  <2> QED  BY <2>2, <2>3
<1>14. \A u \in Workers \cup Callers : drv[u].at # "off" => drv[u].job = c
  BY <1>2, DriverFacts
<1>15. \A u \in Workers \cup Callers : drv[u].at # "off" => drv[u].band \in 0 .. op[c].n - 1
  BY <1>14, DriverFacts
<1>16. DriverPlaces'
  <2>1. ASSUME NEW u \in Workers \cup Callers
        PROVE  /\ drv'[u].at \in {"scan", "steal", "runStolen", "done"} =>
                    Drained(drv[u].job, drv[u].band)'
               /\ drv'[u].at = "done" => AllDrained(drv[u].job)'
    <3>1. CASE u = t
      <4>1. drv'[t].at # "done" /\ drv'[t].at # "steal"  BY <1>13
      <4>2. CASE lo >= top
        <5>1. run = "run" => Drained(c, drv[t].band)  BY <4>2 DEF Drained
        <5>2. Drained(c, drv[t].band)  BY <5>1
        <5>3. cursor'[c][drv[t].band] >= BandHi(op[c], drv[t].band)
          BY <1>1, <1>3, <1>9, <5>2 DEF Drained
        <5> QED  BY <1>3, <1>13, <3>1, <4>1, <5>3 DEF Drained
      <4>3. CASE ~(lo >= top)
        <5>1. drv'[t].at = "runStolen" => Drained(c, drv[t].band)  BY <1>13, <4>3
        <5>2. drv'[t].at = "runStolen" => cursor'[c][drv[t].band] >= BandHi(op[c], drv[t].band)
          BY <1>1, <1>3, <1>9, <5>1 DEF Drained
        <5> QED  BY <1>3, <1>13, <3>1, <4>1, <4>3, <5>2 DEF Drained
      <4> QED  BY <4>2, <4>3
    <3>2. CASE u # t
      <4>1. drv'[u] = drv[u]  BY <1>11, <3>2
      <4>2. CASE drv[u].at = "off"  BY <4>1, <4>2
      <4>3. CASE drv[u].at # "off"
        <5>1. drv[u].job = c /\ drv[u].band \in 0 .. op[c].n - 1  BY <1>14, <1>15, <4>3
        <5>2. /\ drv[u].at \in {"scan", "steal", "runStolen", "done"} => Drained(c, drv[u].band)
              /\ drv[u].at = "done" => AllDrained(c)
          BY <1>8, <5>1 DEF DriverPlaces
        <5>3. drv[u].at \in {"scan", "steal", "runStolen", "done"} =>
                 cursor'[c][drv[u].band] >= BandHi(op[c], drv[u].band)
          BY <1>3, <1>9, <5>1, <5>2 DEF Drained
        <5>4. drv[u].at = "done" => \A a \in 0 .. op[c].n - 1 : cursor'[c][a] >= BandHi(op[c], a)
          BY <1>3, <1>9, <5>2 DEF Drained, AllDrained
        <5> QED  BY <1>3, <4>1, <5>1, <5>3, <5>4 DEF Drained, AllDrained
      <4> QED  BY <4>2, <4>3
    <3> QED  BY <3>1, <3>2
  <2> QED  BY <1>3, <1>8, <2>1 DEF DriverPlaces
<1>17. /\ FirstWorkerBand' = FirstWorkerBand
       /\ \A d \in Callers : Dispatched(op[d])' = Dispatched(op[d])
  BY <1>3, SameCut
<1>18. \A d \in Callers : (Dispatching(d)' <=> Dispatching(d)) /\ ToWrite(d)' = ToWrite(d)
  BY <1>3, <1>17 DEF Dispatching, ToWrite
<1>19. Engaged(c)' = Engaged(c)  BY <1>3, <1>18 DEF Engaged
<1>20. LeftDrained'
  BY <1>2, <1>3, <1>8, <1>10, <1>17, <1>18, <1>19 DEF LeftDrained
<1>21. RowTypes' /\ Inlined'  BY <1>3 DEF RowTypes, Inlined
<1>22. Held(t) = {} /\ \A u \in Workers \cup Callers : u # t => Held(u)' = Held(u)
  BY <1>11 DEF Held
<1>23. Placed'
  <2> SUFFICES ASSUME NEW r \in 0 .. op[c].rows - 1
               PROVE  /\ \A u \in Workers \cup Callers : r \in Held(u)' => touched[c][r] = 0
                      /\ \A u, v \in Workers \cup Callers :
                            r \in Held(u)' /\ r \in Held(v)' => u = v
                      /\ Unclaimed(c, r)' => touched[c][r] = 0
                                             /\ \A u \in Workers \cup Callers : r \notin Held(u)'
                      /\ \/ touched[c][r] = 1
                         \/ \E u \in Workers \cup Callers : r \in Held(u)'
                         \/ Unclaimed(c, r)'
    BY <1>2, <1>3, <1>18 DEF Placed
  <2>1. /\ \A u \in Workers \cup Callers : r \in Held(u) => touched[c][r] = 0
        /\ \A u, v \in Workers \cup Callers : r \in Held(u) /\ r \in Held(v) => u = v
        /\ Unclaimed(c, r) => touched[c][r] = 0
                              /\ \A u \in Workers \cup Callers : r \notin Held(u)
        /\ \/ touched[c][r] = 1
           \/ \E u \in Workers \cup Callers : r \in Held(u)
           \/ Unclaimed(c, r)
    BY <1>1 DEF Placed
  <2>2. r \in Nat  BY <1>1 DEF Ops
  <2>3. r \in Held(t)' <=> lo <= r /\ r < hi /\ lo < top
    <3>1. CASE lo >= top
      <4>1. Held(t)' = {}  BY <1>13, <3>1 DEF Held
      <4> QED  BY <1>6, <3>1, <4>1
    <3>2. CASE ~(lo >= top)
      <4>1. Held(t)' = lo .. hi - 1  BY <1>13, <3>2 DEF Held
      <4> QED  BY <1>6, <2>2, <3>2, <4>1
    <3> QED  BY <3>1, <3>2
  <2>4. Unclaimed(c, r) <=> \E a \in 0 .. op[c].n - 1 : cursor[c][a] <= r /\ r < BandHi(op[c], a)
    BY <1>8 DEF Unclaimed
  <2>5. Unclaimed(c, r)' <=> \E a \in 0 .. op[c].n - 1 : cursor'[c][a] <= r /\ r < BandHi(op[c], a)
    BY <1>3, <1>8 DEF Unclaimed
  <2>6. r \in Held(t)' => Unclaimed(c, r)
    <3>1. r \in Held(t)' => cursor[c][b] <= r /\ r < BandHi(op[c], b)  BY <1>6, <2>2, <2>3
    <3> QED  BY <2>4, <3>1
  <2>7. Unclaimed(c, r)' => Unclaimed(c, r)
    <3> SUFFICES ASSUME Unclaimed(c, r)' PROVE Unclaimed(c, r)  OBVIOUS
    <3>1. PICK a \in 0 .. op[c].n - 1 : cursor'[c][a] <= r /\ r < BandHi(op[c], a)  BY <2>5
    <3>2. cursor[c][a] <= r  BY <1>5, <1>7, <2>2, <3>1
    <3> QED  BY <2>4, <3>1, <3>2
  <2>8. Unclaimed(c, r)' => r \notin Held(t)'
    <3> SUFFICES ASSUME Unclaimed(c, r)', r \in Held(t)' PROVE FALSE  OBVIOUS
    <3>1. PICK a \in 0 .. op[c].n - 1 : cursor'[c][a] <= r /\ r < BandHi(op[c], a)  BY <2>5
    <3>2. CASE a = b
      <4>1. lo + by <= r /\ r < hi  BY <1>7, <2>3, <3>1, <3>2
      <4> QED  BY <1>6, <2>2, <4>1
    <3>3. CASE a # b
      <4>1. cursor[c][a] <= r /\ BandLo(op[c], a) <= r
        <5>1. cursor[c][a] <= r  BY <1>7, <3>1, <3>3
        <5> QED  BY <1>4, <1>5, <2>2, <5>1
      <4>2. BandLo(op[c], b) <= r /\ r < BandHi(op[c], b)  BY <1>5, <1>6, <2>2, <2>3
      <4> QED  BY <1>1, <1>5, <2>2, <3>1, <3>3, <4>1, <4>2, BandsDisjoint
    <3> QED  BY <3>2, <3>3
  <2>9. Unclaimed(c, r) => r \in Held(t)' \/ Unclaimed(c, r)'
    <3> SUFFICES ASSUME Unclaimed(c, r), ~Unclaimed(c, r)' PROVE r \in Held(t)'  OBVIOUS
    <3>1. PICK a \in 0 .. op[c].n - 1 : cursor[c][a] <= r /\ r < BandHi(op[c], a)  BY <2>4
    <3>2. a = b  BY <1>7, <2>5, <3>1
    <3>3. ~(lo + by <= r)  BY <1>7, <2>5, <3>1, <3>2
    <3> QED  BY <1>6, <2>2, <2>3, <3>1, <3>2, <3>3
  <2> QED  BY <1>22, <2>1, <2>6, <2>7, <2>8, <2>9
<1> QED  BY <1>16, <1>20, <1>21, <1>23

\* f(lo, hi): the rows in the thread's hands are run, each for the first time.
LEMMA RunKeeps ==
    ASSUME FrameInv, OneAtATime, RowInv, NEW t \in Workers \cup Callers, DriveRun(t)
    PROVE  /\ RowInv'
           /\ \A r \in DOMAIN touched[drv[t].job] :
                 \/ touched'[drv[t].job][r] = touched[drv[t].job][r]
                 \/ touched[drv[t].job][r] = 0 /\ touched'[drv[t].job][r] = 1
<1> USE DEF RowInv
<1> PICK c : c = drv[t].job  OBVIOUS
<1> PICK d : d = drv[t]  OBVIOUS
<1>1. d.at \in {"run", "runStolen"} /\ d.job = c  BY DEF DriveRun
<1>2. /\ c \in Callers /\ Dispatching(c) /\ d.band \in 0 .. op[c].n - 1
      /\ op[c] \in Ops /\ 2 <= op[c].n /\ op[c].n <= op[c].rows
  <2>1. drv[t].at # "off"  BY <1>1
  <2> QED  BY <2>1, DriverFacts
<1>3. /\ \A a \in Callers : a # c => ~Dispatching(a) /\ cpc[a] = "idle"
      /\ cpc[c] # "idle" /\ cpc[c] \notin {"inline", "return"}
  BY <1>2, OnlyCall DEF Dispatching
<1> PICK to : to = IF ~steal THEN "done" ELSE IF d.at = "run" THEN "load" ELSE "steal"
  OBVIOUS
<1>4. /\ touched' = [touched EXCEPT ![c] =
             [r \in DOMAIN touched[c] |->
                IF r \in d.lo .. d.hi - 1 THEN touched[c][r] + 1 ELSE touched[c][r]]]
      /\ drv' = [drv EXCEPT ![t] = [d EXCEPT !.at = to, !.lo = 0, !.hi = 0]]
      /\ UNCHANGED <<steal, assist, op, cursor, state, flips, wpc, cpc, idx>>
  BY <1>1 DEF DriveRun, driving, flags, slots
<1>5. /\ d \in DriverStates /\ drv'[t] = [d EXCEPT !.at = to, !.lo = 0, !.hi = 0]
      /\ \A u \in Workers \cup Callers : u # t => drv'[u] = drv[u]
  BY <1>4 DEF FrameInv, Types
<1>6. drv'[t].job = c /\ drv'[t].band = d.band /\ drv'[t].at = to
  <2> PICK z \in Int : z = 0  OBVIOUS
  <2> PICK e : e = drv'[t]  OBVIOUS
  <2>1. e = [d EXCEPT !.at = to, !.lo = z, !.hi = z]  BY <1>5
  <2>2. to \in DrivePlaces  BY DEF DrivePlaces
  <2>3. e.job = d.job /\ e.band = d.band /\ e.at = to
    BY <1>5, <2>1, <2>2, ReplacedSpan DEF DriverStates
  <2> QED  BY <1>1, <2>3
<1>7. Held(t) = d.lo .. d.hi - 1 /\ Held(t)' = {}
      /\ \A u \in Workers \cup Callers : u # t => Held(u)' = Held(u)
  BY <1>1, <1>5, <1>6 DEF Held
<1>8. touched[c] \in [0 .. op[c].rows - 1 -> {0, 1}] /\ DOMAIN touched = Callers
  BY <1>2, <1>3 DEF RowTypes
<1>9. \A r \in 0 .. op[c].rows - 1 : r \in Held(t) => touched[c][r] = 0
  BY <1>2 DEF Placed
<1>10. /\ touched'[c] \in [0 .. op[c].rows - 1 -> {0, 1}] /\ DOMAIN touched' = Callers
       /\ \A r \in 0 .. op[c].rows - 1 :
             touched'[c][r] = IF r \in Held(t) THEN 1 ELSE touched[c][r]
  <2>1. touched'[c] = [r \in 0 .. op[c].rows - 1 |->
                         IF r \in Held(t) THEN touched[c][r] + 1 ELSE touched[c][r]]
    BY <1>2, <1>4, <1>7, <1>8
  <2>2. ASSUME NEW r \in 0 .. op[c].rows - 1
        PROVE  touched'[c][r] = IF r \in Held(t) THEN 1 ELSE touched[c][r]
    BY <1>9, <2>1
  <2>3. ASSUME NEW r \in 0 .. op[c].rows - 1 PROVE touched'[c][r] \in {0, 1}
    BY <1>8, <2>2
  <2>4. touched'[c] \in [0 .. op[c].rows - 1 -> {0, 1}]
    <3>1. DOMAIN touched'[c] = 0 .. op[c].rows - 1
          /\ touched'[c] = [r \in 0 .. op[c].rows - 1 |-> touched'[c][r]]
      BY <2>1
    <3> HIDE DEF RowInv
    <3> QED  BY <2>3, <3>1
  <2>5. DOMAIN touched' = Callers  BY <1>4, <1>8
  <2> QED  BY <2>2, <2>4, <2>5
<1>11. \A r \in DOMAIN touched[c] : touched'[c][r] = touched[c][r]
                                    \/ (touched[c][r] = 0 /\ touched'[c][r] = 1)
  BY <1>8, <1>9, <1>10
<1>12. RowTypes'  BY <1>3, <1>4, <1>10 DEF RowTypes
<1>13. Inlined'  BY <1>3, <1>4 DEF Inlined
<1>14. \A a, b : Drained(a, b)' <=> Drained(a, b)  BY <1>4 DEF Drained
<1>15. \A a : AllDrained(a)' <=> AllDrained(a)  BY <1>4, <1>14 DEF AllDrained
<1>16. DriverPlaces'
  <2>1. \A u \in Workers \cup Callers : ~steal' => drv'[u].at \in {"off", "run", "done"}
    BY <1>4, <1>5, <1>6 DEF DriverPlaces
  <2>2. ASSUME steal', NEW u \in Workers \cup Callers
        PROVE  /\ drv'[u].at \in {"scan", "steal", "runStolen", "done"} =>
                    Drained(drv[u].job, drv[u].band)'
               /\ drv'[u].at = "done" => AllDrained(drv[u].job)'
    <3>1. CASE u = t
      <4>1. steal /\ to \in {"load", "steal"} /\ (to = "steal" => d.at = "runStolen")
        BY <1>1, <1>4, <2>2
      <4>2. to = "steal" => Drained(c, d.band)  BY <1>1, <4>1 DEF DriverPlaces
      <4>3. Drained(drv[u].job, drv[u].band)' <=> Drained(c, d.band)
        BY <1>4, <1>6, <3>1 DEF Drained
      <4> QED  BY <1>6, <3>1, <4>1, <4>2, <4>3
    <3>2. CASE u # t
      BY <1>4, <1>5, <1>14, <1>15, <2>2, <3>2 DEF DriverPlaces, Drained, AllDrained
    <3> QED  BY <3>1, <3>2
  <2> QED  BY <2>1, <2>2 DEF DriverPlaces
<1>17. /\ FirstWorkerBand' = FirstWorkerBand
       /\ \A a \in Callers : Dispatched(op[a])' = Dispatched(op[a])
  BY <1>4, SameCut
<1>18. \A a \in Callers : (Dispatching(a)' <=> Dispatching(a)) /\ ToWrite(a)' = ToWrite(a)
  BY <1>4, <1>17 DEF Dispatching, ToWrite
<1>19. \A a \in Callers : Awaited(a)' = Awaited(a) /\ Engaged(a)' = Engaged(a)
  BY <1>4, <1>18 DEF Awaited, Engaged
<1>20. LeftDrained'  BY <1>4, <1>15, <1>17, <1>18, <1>19 DEF LeftDrained
<1>21. \A a \in Callers : Waiting(a)' = Waiting(a)  BY <1>4, <1>17, <1>19 DEF Waiting
<1>22. \A a \in Callers : \A r : Unclaimed(a, r)' <=> Unclaimed(a, r)
  BY <1>4, <1>21 DEF Unclaimed
<1>23. op' = op  BY <1>4
<1>24. Placed'
  <2> SUFFICES ASSUME NEW r \in 0 .. op[c].rows - 1
               PROVE  /\ \A u \in Workers \cup Callers : r \in Held(u)' => touched'[c][r] = 0
                      /\ \A u, v \in Workers \cup Callers :
                            r \in Held(u)' /\ r \in Held(v)' => u = v
                      /\ Unclaimed(c, r)' => touched'[c][r] = 0
                                             /\ \A u \in Workers \cup Callers : r \notin Held(u)'
                      /\ \/ touched'[c][r] = 1
                         \/ \E u \in Workers \cup Callers : r \in Held(u)'
                         \/ Unclaimed(c, r)'
    BY <1>3, <1>18, <1>23 DEF Placed
  <2>1. /\ \A u \in Workers \cup Callers : r \in Held(u) => touched[c][r] = 0
        /\ \A u, v \in Workers \cup Callers : r \in Held(u) /\ r \in Held(v) => u = v
        /\ Unclaimed(c, r) => touched[c][r] = 0
                              /\ \A u \in Workers \cup Callers : r \notin Held(u)
        /\ \/ touched[c][r] = 1
           \/ \E u \in Workers \cup Callers : r \in Held(u)
           \/ Unclaimed(c, r)
    BY <1>2 DEF Placed
  <2>2. touched'[c][r] = IF r \in Held(t) THEN 1 ELSE touched[c][r]  BY <1>10
  <2>3. Unclaimed(c, r)' <=> Unclaimed(c, r)  BY <1>2, <1>22
  <2> QED  BY <1>7, <2>1, <2>2, <2>3
<1> QED  BY <1>11, <1>12, <1>13, <1>16, <1>20, <1>24

\* Every step of a driver keeps the rows in one place.
LEMMA DriveRows ==
    ASSUME FrameInv, OneAtATime, RowInv, NEW t \in Workers \cup Callers, DriveStep(t)
    PROVE  RowInv'
<1> PICK d : d = drv[t]  OBVIOUS
<1> PICK c : c = d.job  OBVIOUS
<1>1. d.at # "off"
  BY DEF DriveStep, DriveLoad, DriveClaim, DriveRun, DriveScan, DriveSteal
<1>2. /\ c \in Callers /\ Dispatching(c) /\ d.band \in 0 .. op[c].n - 1
      /\ op[c] \in Ops /\ 2 <= op[c].n /\ op[c].n <= op[c].rows
  BY <1>1, DriverFacts
<1>3. d \in DriverStates  BY DEF FrameInv, Types
<1>4. \A b : Cur(d, b) = cursor[c][b] /\ Top(d, b) = BandHi(op[c], b)  BY DEF Cur, Top
<1>5. cursor[c] \in [0 .. op[c].n - 1 -> Nat]  BY <1>2 DEF FrameInv, Cursors
<1>6. \A b \in 0 .. op[c].n - 1 : b \in Nat /\ cursor[c][b] \in Nat /\ BandHi(op[c], b) \in Nat
  <2> SUFFICES ASSUME NEW b \in 0 .. op[c].n - 1
               PROVE  b \in Nat /\ cursor[c][b] \in Nat /\ BandHi(op[c], b) \in Nat
    OBVIOUS
  <2>1. b \in Nat  BY <1>2 DEF Ops
  <2> QED  BY <1>2, <1>5, <2>1, BandFacts
<1>7. Chunk(op[c]) \in Nat  BY <1>2, BandFacts
<1>8. CASE DriveLoad(t)
  <2> PICK cur : cur = Cur(d, d.band)  OBVIOUS
  <2> PICK top : top = Top(d, d.band)  OBVIOUS
  <2> PICK arg : arg = MaxOf((top - cur) \div 2, Chunk(op[c]))  OBVIOUS
  <2>1. /\ d.at = "load"
        /\ drv' = [drv EXCEPT ![t] = IF cur >= top THEN [d EXCEPT !.at = "scan"]
                                     ELSE [d EXCEPT !.at = "claim", !.arg = arg]]
        /\ UNCHANGED <<steal, assist, op, cursor, touched, state, flips, wpc, cpc, idx>>
    BY <1>8 DEF DriveLoad, driving, flags, slots
  <2>2. cur \in Nat /\ top \in Nat  BY <1>2, <1>4, <1>6
  <2>3. arg \in Int
    <3>1. (top - cur) \div 2 \in Int  BY <2>2
    <3> QED  BY <1>7, <3>1 DEF MaxOf
  <2>4. CASE cur >= top
    <3>1. PICK e \in DriverStates : /\ e.job = d.job /\ e.band = d.band /\ e.at = "scan"
                                    /\ drv' = [drv EXCEPT ![t] = e]
      <4> PICK e : e = [d EXCEPT !.at = "scan"]  OBVIOUS
      <4>1. "scan" \in DrivePlaces  BY DEF DrivePlaces
      <4>2. e \in DriverStates /\ e.job = d.job /\ e.band = d.band /\ e.at = "scan"
        BY <1>3, <4>1, ReplacedAt DEF DriverStates
      <4>3. drv' = [drv EXCEPT ![t] = e]  BY <2>1, <2>4
      <4> QED  BY <4>2, <4>3
    <3>2. Drained(e.job, e.band)  BY <1>4, <2>4, <3>1 DEF Drained
    <3>3. e.job = drv[t].job /\ e.band = drv[t].band /\ drv[t].at = "load"  BY <2>1, <3>1
    <3>4. UNCHANGED <<steal, assist, op, cursor, touched, state, flips, wpc, cpc, idx>>
      BY <2>1
    <3> QED  BY <3>1, <3>2, <3>3, <3>4, LookKeeps
  <2>5. CASE ~(cur >= top)
    <3>1. PICK e \in DriverStates : /\ e.job = d.job /\ e.band = d.band /\ e.at = "claim"
                                    /\ drv' = [drv EXCEPT ![t] = e]
      <4> PICK e : e = [d EXCEPT !.at = "claim", !.arg = arg]  OBVIOUS
      <4>1. "claim" \in DrivePlaces  BY DEF DrivePlaces
      <4>2. e \in DriverStates /\ e.job = d.job /\ e.band = d.band /\ e.at = "claim"
        BY <1>3, <2>3, <4>1, ReplacedArg DEF DriverStates
      <4>3. drv' = [drv EXCEPT ![t] = e]  BY <2>1, <2>5
      <4> QED  BY <4>2, <4>3
    <3>2. e.job = drv[t].job /\ e.band = drv[t].band /\ drv[t].at = "load"  BY <2>1, <3>1
    <3>3. UNCHANGED <<steal, assist, op, cursor, touched, state, flips, wpc, cpc, idx>>
      BY <2>1
    <3> QED  BY <3>1, <3>2, <3>3, LookKeeps
  <2> QED  BY <2>4, <2>5
<1>9. CASE DriveClaim(t)
  <2>1. d.at = "claim" /\ Claim(t, d.band, d.arg, "run", "scan")  BY <1>9 DEF DriveClaim
  <2>2. d.arg \in Nat  BY <2>1 DEF FrameInv, Cursors
  <2> QED  BY <1>2, <2>1, <2>2, ClaimKeeps
<1>10. CASE DriveSteal(t)
  <2>1. d.at = "steal" /\ Claim(t, d.arg, Chunk(op[c]), "runStolen", "scan")
    BY <1>10 DEF DriveSteal
  <2>2. d.arg \in 0 .. op[c].n - 1  BY <2>1 DEF FrameInv, Cursors
  <2>3. Drained(c, d.band)  BY <2>1 DEF RowInv, DriverPlaces
  <2> QED  BY <1>2, <1>7, <2>1, <2>2, <2>3, ClaimKeeps
<1>11. CASE DriveRun(t)  BY <1>11, RunKeeps
<1>12. CASE DriveScan(t)
  <2> DEFINE left == {b \in DOMAIN cursor[c] \ {d.band} : Cur(d, b) < Top(d, b)}
  <2>1. d.at = "scan"
        /\ UNCHANGED <<steal, assist, op, cursor, touched, state, flips, wpc, cpc, idx>>
    BY <1>12 DEF DriveScan, driving, flags, slots
  <2>2. Drained(c, d.band)  BY <2>1 DEF RowInv, DriverPlaces
  <2>3. PICK to \in {"done", "steal"}, v \in DOMAIN cursor[c] \cup {0} :
           /\ drv' = [drv EXCEPT ![t] = [d EXCEPT !.at = to, !.arg = v]]
           /\ to = "done" => left = {}
    BY <1>12 DEF DriveScan
  <2>4. v \in Int
    <3>1. DOMAIN cursor[c] = 0 .. op[c].n - 1  BY <1>5
    <3> QED  BY <1>6, <3>1
  <2>5. to = "done" => AllDrained(c)
    <3> SUFFICES ASSUME left = {}, NEW b \in 0 .. op[c].n - 1 PROVE Drained(c, b)
      BY <2>3 DEF AllDrained
    <3>1. CASE b = d.band  BY <2>2, <3>1
    <3>2. CASE b # d.band
      <4>1. ~(Cur(d, b) < Top(d, b))  BY <1>5, <3>2
      <4> QED  BY <1>4, <1>6, <4>1 DEF Drained
    <3> QED  BY <3>1, <3>2
  <2> PICK e : e = [d EXCEPT !.at = to, !.arg = v]  OBVIOUS
  <2>6. to \in DrivePlaces  BY DEF DrivePlaces
  <2>7. e \in DriverStates /\ e.job = d.job /\ e.band = d.band /\ e.at = to
    BY <1>3, <2>4, <2>6, ReplacedArg DEF DriverStates
  <2>8. drv' = [drv EXCEPT ![t] = e]  BY <2>3
  <2> QED  BY <2>1, <2>2, <2>5, <2>7, <2>8, LookKeeps
<1> QED  BY <1>8, <1>9, <1>10, <1>11, <1>12 DEF DriveStep

\* A call starts with no row run, held or claimed: the bands cover the rows,
\* and each band with rows has a thread on its way.
LEMMA CallRows ==
    ASSUME FrameInv, FrameInv', OneAtATime, OneAtATime', RowInv, NEW c \in Callers, Call(c)
    PROVE  RowInv'
<1>1. PICK rows \in RowCounts, threads \in Threads :
         LET o == [rows |-> rows, n |-> Width(rows, threads), call |-> op[c].call + 1]
         IN /\ op' = [op EXCEPT ![c] = o]
            /\ touched' = [touched EXCEPT ![c] = [r \in 0 .. rows - 1 |-> 0]]
            /\ cursor' = [cursor EXCEPT ![c] = [b \in 0 .. o.n - 1 |-> BandLo(o, b)]]
            /\ GoC(c, "idle", IF o.n <= 1 THEN "inline" ELSE "slots")
            /\ pending' = IF o.n <= 1 THEN pending ELSE Dispatched(o)
  BY DEF Call
<1> PICK o : o = [rows |-> rows, n |-> Width(rows, threads), call |-> op[c].call + 1]
  OBVIOUS
<1>2. /\ op' = [op EXCEPT ![c] = o]
      /\ touched' = [touched EXCEPT ![c] = [r \in 0 .. rows - 1 |-> 0]]
      /\ cursor' = [cursor EXCEPT ![c] = [b \in 0 .. o.n - 1 |-> BandLo(o, b)]]
      /\ cpc[c] = "idle"
      /\ cpc' = [cpc EXCEPT ![c] = IF o.n <= 1 THEN "inline" ELSE "slots"]
      /\ idx' = [idx EXCEPT ![c] = 1]
      /\ UNCHANGED <<steal, assist, state, flips, wpc, drv>>
  BY <1>1 DEF Call, GoC, flags
<1>3. /\ o \in Ops /\ o.rows = rows /\ o.n <= o.rows /\ o.n <= NWorkers + FirstWorkerBand
      /\ o.rows \in RowCounts
  <2>1. op[c].call + 1 \in Nat  BY DEF FrameInv, Types
  <2>2. Width(rows, threads) \in Nat /\ Width(rows, threads) <= rows
        /\ Width(rows, threads) <= NWorkers + FirstWorkerBand /\ rows \in Nat
    BY WidthFacts DEF FrameInv, Types
  <2> QED  BY <2>1, <2>2 DEF Ops
<1>4. /\ op'[c] = o /\ idx'[c] = 1
      /\ cursor'[c] = [b \in 0 .. o.n - 1 |-> BandLo(o, b)]
      /\ touched'[c] = [r \in 0 .. o.rows - 1 |-> 0]
      /\ DOMAIN touched' = Callers
      /\ cpc'[c] = IF o.n <= 1 THEN "inline" ELSE "slots"
      /\ \A d \in Callers : d # c => cpc'[d] = cpc[d]
  BY <1>2, <1>3 DEF FrameInv, Types, Cursors, RowInv, RowTypes
<1>5. \A d \in Callers : d # c => cpc'[d] = "idle" /\ cpc[d] = "idle" /\ ~Dispatching(d)'
  <2>1. cpc'[c] # "idle"  BY <1>4
  <2> QED  BY <1>4, <2>1 DEF OneAtATime, Dispatching
<1>6. \A d \in Callers : ~Dispatching(d)  BY <1>2, <1>5 DEF Dispatching
<1>7. /\ \A t \in Workers \cup Callers : drv[t].at = "off"
      /\ \A w \in Workers : state[w] = 0
      /\ \A d \in Callers : flips[d] = {}
  BY <1>6, NoCall
<1>8. RowTypes'
  <2>1. touched'[c] \in [0 .. op'[c].rows - 1 -> {0, 1}]  BY <1>4
  <2> QED  BY <1>4, <1>5, <2>1 DEF RowTypes
<1>9. DriverPlaces'  BY <1>2, <1>7 DEF DriverPlaces
<1>10. Inlined'
  <2>1. cpc'[c] # "return" /\ \A r \in 0 .. o.rows - 1 : touched'[c][r] = 0  BY <1>4
  <2>2. ASSUME NEW d \in Callers, NEW r \in 0 .. op'[d].rows - 1
        PROVE  /\ cpc'[d] = "inline" => touched'[d][r] = 0
               /\ cpc'[d] = "return" => touched'[d][r] = 1
    <3>1. CASE d = c  BY <1>4, <2>1, <3>1
    <3>2. CASE d # c  BY <1>5, <3>2
    <3> QED  BY <3>1, <3>2
  <2> QED  BY <2>2 DEF Inlined
<1>11. CASE o.n <= 1
  <2>1. ~Dispatching(c)'  BY <1>4, <1>11 DEF Dispatching
  <2>2. LeftDrained' /\ Placed'  BY <1>5, <2>1 DEF LeftDrained, Placed
  <2> QED  BY <1>8, <1>9, <1>10, <2>2 DEF RowInv
<1>12. CASE ~(o.n <= 1)
  <2> PICK D : D = Dispatched(o)  OBVIOUS
  <2>1. 2 <= o.n  BY <1>3, <1>12 DEF Ops
  <2>2. /\ D \in Nat /\ 1 <= D /\ D <= NWorkers
        /\ ~steal => \A b \in FirstWorkerBand .. o.n - 1 :
                        b * BandSize(o) < o.rows => b - FirstWorkerBand < D
    BY <1>3, <2>1, DispatchFacts DEF FrameInv, Types
  <2>3. Dispatched(op[c])' = D /\ FirstWorkerBand' = FirstWorkerBand
    BY <1>2, <1>4, NextCut
  <2>4. cpc'[c] = "slots"  BY <1>4, <1>12
  <2>5. ToWrite(c)' = 1 .. D  BY <1>4, <2>3, <2>4 DEF ToWrite
  <2>6. 1 .. D \subseteq Workers  BY <2>2, NWorkersNat DEF Workers
  <2>7. 1 .. D \subseteq Engaged(c)' /\ 1 .. D \subseteq Awaited(c)'
    BY <2>5, <2>6 DEF Engaged, Awaited
  <2>8. LeftDrained'  BY <1>5, <2>3, <2>7 DEF LeftDrained
  <2>9. \A t \in Workers \cup Callers : Held(t)' = {}  BY <1>2, <1>7 DEF Held
  <2>10. ASSUME NEW r \in 0 .. o.rows - 1 PROVE Unclaimed(c, r)'
    <3>1. PICK b \in 0 .. o.n - 1 : /\ BandLo(o, b) <= r /\ r < BandHi(o, b)
                                    /\ b * BandSize(o) < o.rows
      BY <1>3, <2>1, BandsCover
    <3>2. CASE steal
      <4>1. cursor'[c][b] <= r  BY <1>4, <3>1
      <4> QED  BY <1>2, <1>4, <3>1, <3>2, <4>1 DEF Unclaimed
    <3>3. CASE ~steal
      <4>1. b \in Waiting(c)'
        <5>1. FirstWorkerBand \in {0, 1} /\ (assist => FirstWorkerBand = 1)
              /\ (~assist => FirstWorkerBand = 0) /\ b \in Nat /\ o.n \in Nat
          BY <1>3 DEF FirstWorkerBand, Ops
        <5>2. CASE assist /\ b = 0
          BY <1>2, <1>4, <2>4, <5>2 DEF Waiting
        <5>3. CASE ~(assist /\ b = 0)
          <6>1. b \in FirstWorkerBand .. o.n - 1  BY <5>1, <5>3
          <6>2. b - FirstWorkerBand < D  BY <2>2, <3>1, <3>3, <6>1
          <6>3. b - FirstWorkerBand + 1 \in 1 .. D  BY <2>2, <5>1, <6>1, <6>2
          <6>4. b - FirstWorkerBand + 1 \in Awaited(c)'  BY <2>7, <6>3
          <6> QED  BY <1>2, <1>4, <2>3, <5>3, <6>4 DEF Waiting
        <5> QED  BY <5>2, <5>3
      <4> QED  BY <1>2, <1>4, <3>1, <3>3, <4>1 DEF Unclaimed
    <3> QED  BY <3>2, <3>3
  <2>11. \A r \in 0 .. o.rows - 1 : touched'[c][r] = 0  BY <1>4
  <2>12. Placed'  BY <1>4, <1>5, <2>9, <2>10, <2>11 DEF Placed
  <2> QED  BY <1>8, <1>9, <1>10, <2>8, <2>12 DEF RowInv
<1> QED  BY <1>11, <1>12

\* On the caller alone all rows are run at once.
LEMMA InlineRows ==
    ASSUME FrameInv, RowInv, NEW c \in Callers, Inline(c),
           \A d \in Callers : d # c => cpc[d] = "idle"
    PROVE  /\ RowInv'
           /\ \A r \in DOMAIN touched[c] : touched[c][r] = 0 /\ touched'[c][r] = 1
<1> USE DEF RowInv
<1>1. /\ cpc[c] = "inline" /\ cpc' = [cpc EXCEPT ![c] = "return"]
      /\ touched' = [touched EXCEPT ![c] = [r \in DOMAIN touched[c] |-> touched[c][r] + 1]]
      /\ UNCHANGED <<steal, assist, op, cursor, drv>>
  BY DEF Inline, GoC, flags
<1>2. /\ cpc'[c] = "return" /\ \A d \in Callers : d # c => cpc'[d] = "idle"
  BY <1>1 DEF FrameInv, Types
<1>3. \A d \in Callers : ~Dispatching(d) /\ ~Dispatching(d)'
  BY <1>1, <1>2 DEF Dispatching
<1>4. /\ touched[c] \in [0 .. op[c].rows - 1 -> {0, 1}] /\ DOMAIN touched = Callers
  BY <1>1 DEF RowTypes
<1>5. \A r \in 0 .. op[c].rows - 1 : touched[c][r] = 0  BY <1>1 DEF Inlined
<1>6. touched'[c] = [r \in 0 .. op[c].rows - 1 |-> 1] /\ DOMAIN touched' = Callers
  <2>1. touched'[c] = [r \in 0 .. op[c].rows - 1 |-> touched[c][r] + 1]  BY <1>1, <1>4
  <2> QED  BY <1>1, <1>4, <1>5, <2>1
<1>7. RowTypes'  BY <1>1, <1>2, <1>6 DEF RowTypes
<1>8. \A t \in Workers \cup Callers : drv[t].at = "off"  BY <1>3, NoCall
<1>9. DriverPlaces'  BY <1>1, <1>8 DEF DriverPlaces
<1>10. LeftDrained' /\ Placed'  BY <1>3 DEF LeftDrained, Placed
<1>11. Inlined'  BY <1>1, <1>2, <1>6 DEF Inlined
<1> QED  BY <1>4, <1>5, <1>6, <1>7, <1>9, <1>10, <1>11

\* A worker that enters takes its band, and no other thread waits for that
\* band.
LEMMA FetchRows ==
    ASSUME FrameInv, OneAtATime, RowInv, NEW w \in Workers, Fetch(w)
    PROVE  RowInv'
<1>1. /\ wpc[w] = "fetch" /\ wpc' = [wpc EXCEPT ![w] = "drive"]
      /\ drv' = [drv EXCEPT ![w] = Enter(slot[w])]
      /\ UNCHANGED <<steal, assist, state, flips, cpc, op, idx, cursor, touched>>
  BY DEF Fetch, GoW, flags, slots, call
<1>2. state[w] = 1 /\ drv[w].at = "off"  BY <1>1 DEF FrameInv, Stages, Drivers
<1>3. PICK c \in Callers : Dispatching(c) /\ SlotOf(c, w)  BY <1>2 DEF FrameInv, Stages
<1>4. \A d \in Callers : d # c => ~Dispatching(d)  BY <1>3, OnlyCall DEF Dispatching
<1> PICK s : s = slot[w]  OBVIOUS
<1> PICK b : b = s.band  OBVIOUS
<1>5. /\ op[c].n \in Nat /\ FirstWorkerBand \in {0, 1} /\ Dispatched(op[c]) \in Int
      /\ FirstWorkerBand + Dispatched(op[c]) <= op[c].n
      /\ (assist => FirstWorkerBand = 1) /\ w \in Int /\ 1 <= w
  BY <1>3, NWorkersNat DEF FrameInv, Types, Shaped, FirstWorkerBand, Workers
<1>6. s.job = c /\ b = FirstWorkerBand + w - 1 /\ w <= Dispatched(op[c]) /\ s.call \in Nat
  BY <1>3 DEF SlotOf, FrameInv, Types
<1>7. b \in 0 .. op[c].n - 1  BY <1>5, <1>6
<1>8. PICK e \in DriverStates :
         /\ e.job = c /\ e.band = b /\ e.at = (IF steal THEN "load" ELSE "run")
         /\ e.lo = BandLo(op[c], b) /\ e.hi = BandHi(op[c], b)
         /\ drv' = [drv EXCEPT ![w] = e]
  <2> PICK e : e = Enter(s)  OBVIOUS
  <2>1. s.band \in 0 .. op[c].n - 1  BY <1>7
  <2>2. /\ e \in DriverStates
        /\ e.job = c /\ e.band = s.band /\ e.at = (IF steal THEN "load" ELSE "run")
        /\ e.lo = BandLo(op[c], s.band) /\ e.hi = BandHi(op[c], s.band)
    BY <1>3, <1>6, <2>1, EnterFacts
  <2>3. drv' = [drv EXCEPT ![w] = e]  BY <1>1
  <2> QED  BY <2>2, <2>3
<1>9. /\ FirstWorkerBand' = FirstWorkerBand
      /\ \A d \in Callers : Dispatched(op[d])' = Dispatched(op[d])
  BY <1>1, SameCut
<1>10. ToWrite(c)' = ToWrite(c)  BY <1>1, <1>9 DEF ToWrite
<1>11. /\ wpc'[w] = "drive" /\ \A v \in Workers : v # w => wpc'[v] = wpc[v]
  BY <1>1 DEF FrameInv, Types
<1>12. w \notin ToWrite(c) \cup flips[c]  BY <1>1 DEF FrameInv, Stages, Apart
<1>13. /\ w \in Awaited(c) /\ Awaited(c)' = Awaited(c) \ {w} /\ Engaged(c)' = Engaged(c)
  BY <1>1, <1>2, <1>10, <1>11, <1>12 DEF Awaited, Engaged
<1>14. b \in Waiting(c) /\ Waiting(c)' = Waiting(c) \ {b}
  <2>1. b - FirstWorkerBand + 1 = w /\ ~(assist /\ b = 0)  BY <1>5, <1>6
  <2>2. \A a \in 0 .. op[c].n - 1 : a - FirstWorkerBand + 1 = w <=> a = b
    BY <1>5, <1>6
  <2>3. b \in Waiting(c)  BY <1>7, <1>13, <2>1 DEF Waiting
  <2>4. ASSUME NEW a \in 0 .. op[c].n - 1 PROVE a \in Waiting(c)' <=> a \in Waiting(c) /\ a # b
    BY <1>1, <1>9, <1>13, <2>1, <2>2 DEF Waiting
  <2>5. Waiting(c) \subseteq 0 .. op[c].n - 1 /\ Waiting(c)' \subseteq 0 .. op[c].n - 1
    BY <1>1 DEF Waiting
  <2> QED  BY <2>3, <2>4, <2>5
<1>15. \A d \in Callers : cpc'[d] = cpc[d] \/ (cpc[d] = "assist" /\ cpc'[d] = "drive")
  BY <1>1
<1>16. UNCHANGED <<steal, assist, op, cursor, touched>>  BY <1>1
<1> QED  BY <1>2, <1>3, <1>4, <1>7, <1>8, <1>13, <1>14, <1>15, <1>16, EnterKeeps

\* The caller that assists takes band 0.
LEMMA AssistRows ==
    ASSUME FrameInv, OneAtATime, RowInv, NEW c \in Callers, Assist(c), assist
    PROVE  RowInv'
<1>1. /\ cpc[c] = "assist" /\ cpc' = [cpc EXCEPT ![c] = "drive"]
      /\ drv' = [drv EXCEPT ![c] = Enter([job |-> c, call |-> op[c].call, band |-> 0])]
      /\ UNCHANGED <<steal, assist, state, flips, wpc, op, idx, cursor, touched>>
  BY DEF Assist, GoC, flags, slots, call
<1>2. Dispatching(c) /\ drv[c].at = "off"  BY <1>1 DEF Dispatching, FrameInv, Drivers
<1>3. \A d \in Callers : d # c => ~Dispatching(d)  BY <1>2, OnlyCall DEF Dispatching
<1> PICK s : s = [job |-> c, call |-> op[c].call, band |-> 0]  OBVIOUS
<1>4. s.job = c /\ s.call \in Nat /\ s.band = 0 /\ 0 \in 0 .. op[c].n - 1
  BY <1>2 DEF FrameInv, Types, Shaped
<1>5. PICK e \in DriverStates :
         /\ e.job = c /\ e.band = 0 /\ e.at = (IF steal THEN "load" ELSE "run")
         /\ e.lo = BandLo(op[c], 0) /\ e.hi = BandHi(op[c], 0)
         /\ drv' = [drv EXCEPT ![c] = e]
  <2> PICK e : e = Enter(s)  OBVIOUS
  <2>1. s.band \in 0 .. op[c].n - 1  BY <1>4
  <2>2. /\ e \in DriverStates
        /\ e.job = c /\ e.band = s.band /\ e.at = (IF steal THEN "load" ELSE "run")
        /\ e.lo = BandLo(op[c], s.band) /\ e.hi = BandHi(op[c], s.band)
    BY <1>2, <1>4, <2>1, EnterFacts
  <2>3. drv' = [drv EXCEPT ![c] = e]  BY <1>1
  <2> QED  BY <1>4, <2>2, <2>3
<1>6. /\ FirstWorkerBand' = FirstWorkerBand
      /\ \A d \in Callers : Dispatched(op[d])' = Dispatched(op[d])
  BY <1>1, SameCut
<1>7. cpc'[c] = "drive" /\ \A d \in Callers : d # c => cpc'[d] = cpc[d]
  BY <1>1 DEF FrameInv, Types
<1>8. ToWrite(c)' = ToWrite(c)  BY <1>1, <1>7 DEF ToWrite
<1>9. Awaited(c)' = Awaited(c) /\ Engaged(c)' = Engaged(c)
  BY <1>1, <1>8 DEF Awaited, Engaged
<1>10. 0 \in Waiting(c) /\ Waiting(c)' = Waiting(c) \ {0}
  BY <1>1, <1>4, <1>6, <1>7, <1>9 DEF Waiting
<1>11. \A d \in Callers : cpc'[d] = cpc[d] \/ (cpc[d] = "assist" /\ cpc'[d] = "drive")
  BY <1>1, <1>7
<1>12. UNCHANGED <<steal, assist, op, cursor, touched>>  BY <1>1
<1>13. 0 \in 0 .. op[c].n - 1  BY <1>4
<1> QED  BY <1>2, <1>3, <1>5, <1>9, <1>10, <1>11, <1>12, <1>13, EnterKeeps

\* The worker's trampoline returns.
LEMMA ResetRows ==
    ASSUME FrameInv, OneAtATime, RowInv, NEW t \in Workers, Reset(t)
    PROVE  RowInv'
<1>1. /\ wpc[t] = "drive" /\ wpc' = [wpc EXCEPT ![t] = "countdown"]
      /\ drv[t].at = "done"
      /\ drv' = [drv EXCEPT ![t] = Idle] /\ state' = [state EXCEPT ![t] = 0]
      /\ UNCHANGED <<steal, assist, flips, cpc, op, idx, cursor, touched>>
  BY DEF Reset, GoW, flags, call
<1>2. /\ wpc'[t] = "countdown" /\ state'[t] = 0
      /\ \A v \in Workers : v # t => wpc'[v] = wpc[v] /\ state'[v] = state[v]
  BY <1>1 DEF FrameInv, Types
<1>3. \A d \in Callers : Dispatched(op[d])' = Dispatched(op[d])  BY <1>1, SameCut
<1>4. \A d \in Callers : ToWrite(d)' = ToWrite(d)  BY <1>1, <1>3 DEF ToWrite
<1>5. \A d \in Callers : t \notin ToWrite(d) \cup flips[d]
  BY <1>1 DEF FrameInv, Stages, Apart
<1>6. \A d \in Callers : Awaited(d)' = Awaited(d)
  BY <1>1, <1>2, <1>4, <1>5 DEF Awaited
<1>7. \A d \in Callers : \A w \in Engaged(d) : w # t => w \in Engaged(d)'
  BY <1>1, <1>2, <1>4 DEF Engaged
<1>8. ASSUME steal, NEW d \in Callers, Dispatching(d), NEW w \in Engaged(d)
      PROVE  w \in Engaged(d)' \/ AllDrained(d)
  <2>1. AllDrained(drv[t].job)  BY <1>1, <1>8 DEF RowInv, DriverPlaces
  <2>2. drv[t].job \in Callers /\ Dispatching(drv[t].job)  BY <1>1, DriverFacts
  <2>3. d = drv[t].job  BY <1>8, <2>2, OnlyCall DEF Dispatching
  <2> QED  BY <1>7, <2>1, <2>3
<1> QED  BY <1>1, <1>6, <1>8, LeaveKeeps

\* The caller is through with its band.
LEMMA AssistDoneRows ==
    ASSUME FrameInv, OneAtATime, RowInv, NEW t \in Callers, AssistDone(t)
    PROVE  RowInv'
<1>1. /\ cpc[t] = "drive" /\ cpc' = [cpc EXCEPT ![t] = "join"]
      /\ drv[t].at = "done" /\ drv' = [drv EXCEPT ![t] = Idle]
      /\ UNCHANGED <<steal, assist, state, flips, wpc, op, idx, cursor, touched>>
  BY DEF AssistDone, GoC, flags, slots, call
<1>2. \A d \in Callers : cpc'[d] = cpc[d] \/ (cpc[d] = "drive" /\ cpc'[d] = "join")
  BY <1>1 DEF FrameInv, Types
<1>3. \A d \in Callers : Dispatched(op[d])' = Dispatched(op[d])  BY <1>1, SameCut
<1>4. \A d \in Callers : ToWrite(d)' = ToWrite(d)  BY <1>1, <1>2, <1>3 DEF ToWrite
<1>5. \A d \in Callers : Awaited(d)' = Awaited(d) /\ Engaged(d)' = Engaged(d)
  BY <1>1, <1>4 DEF Awaited, Engaged
<1> QED  BY <1>1, <1>2, <1>5, LeaveKeeps

\* A step of a worker outside the closures, of Drop, or of nobody.
LEMMA WorkerRows ==
    ASSUME RowInv, \A c \in Callers : idx'[c] = idx[c],
           UNCHANGED <<steal, assist, op, cursor, touched, drv, state, flips, cpc>>,
           \A v \in Workers : wpc'[v] = "drive" <=> wpc[v] = "drive"
    PROVE  RowInv'
<1>1. \A c \in Callers : Dispatched(op[c])' = Dispatched(op[c])  BY SameCut
<1>2. \A c \in Callers : Dispatching(c)' <=> Dispatching(c)  BY DEF Dispatching
<1>3. \A c \in Callers : ToWrite(c)' = ToWrite(c)  BY <1>1 DEF ToWrite
<1>4. \A c \in Callers : Awaited(c)' = Awaited(c) /\ Engaged(c)' = Engaged(c)
  BY <1>3 DEF Awaited, Engaged
<1> QED  BY <1>2, <1>4, RowsKeep

\* A step of the caller that neither dispatches nor takes up a band.
LEMMA CallerRows ==
    ASSUME FrameInv, RowInv, NEW c \in Callers, NEW p,
           cpc[c] \notin {"idle", "slots"}, cpc' = [cpc EXCEPT ![c] = p],
           p \notin {"slots", "inline", "return"}, p # "idle" => Dispatching(c),
           p # "idle" /\ assist => (p \in {"drive", "join"} <=> cpc[c] \in {"drive", "join"}),
           \A d \in Callers : d # c => idx'[d] = idx[d],
           UNCHANGED <<steal, assist, op, cursor, touched, drv, state, flips, wpc>>
    PROVE  RowInv'
<1>1. \A d \in Callers : Dispatched(op[d])' = Dispatched(op[d])  BY SameCut
<1>2. cpc'[c] = p /\ \A d \in Callers : d # c => cpc'[d] = cpc[d]
  BY DEF FrameInv, Types
<1>3. \A d \in Callers : Dispatching(d)' => Dispatching(d)
  BY <1>2 DEF Dispatching
<1>4. \A d \in Callers : ToWrite(d)' = ToWrite(d)  BY <1>1, <1>2 DEF ToWrite
<1>5. \A d \in Callers : Awaited(d)' = Awaited(d) /\ Engaged(d)' = Engaged(d)
  BY <1>4 DEF Awaited, Engaged
<1>6. \A d \in Callers : Dispatching(d)' /\ assist =>
         (cpc'[d] \in {"drive", "join"} <=> cpc[d] \in {"drive", "join"})
  BY <1>2 DEF Dispatching
<1>7. /\ \A d \in Callers : cpc'[d] # "idle" => cpc[d] # "idle"
      /\ \A d \in Callers : cpc'[d] \in {"inline", "return"} => cpc'[d] = cpc[d]
  BY <1>2
<1> QED  BY <1>3, <1>5, <1>6, <1>7, RowsKeep

\* A slot that is written is a flip that is not visible yet.
LEMMA WriteSlotRows ==
    ASSUME FrameInv, RowInv, NEW c \in Callers, WriteSlot(c)
    PROVE  RowInv'
<1> PICK w : w = idx[c]  OBVIOUS
<1> PICK D : D = Dispatched(op[c])  OBVIOUS
<1> PICK p : p = IF w = D THEN "fence" ELSE "slots"  OBVIOUS
<1>1. /\ cpc[c] = "slots" /\ cpc' = [cpc EXCEPT ![c] = p]
      /\ flips' = [flips EXCEPT ![c] = flips[c] \cup {w}]
      /\ idx' = [idx EXCEPT ![c] = w + 1]
      /\ UNCHANGED <<steal, assist, state, wpc, op, cursor, touched, drv>>
  BY DEF WriteSlot, GoC, flags, call
<1>2. w \in Nat /\ D \in Int /\ w <= D
  <2>1. w \in Nat  BY DEF FrameInv, Types
  <2>2. D \in 1 .. NWorkers  BY <1>1 DEF FrameInv, Shaped, Dispatching
  <2>3. w <= D  BY <1>1 DEF FrameInv, InLoop
  <2> QED  BY <2>1, <2>2, <2>3, NWorkersNat
<1>3. /\ cpc'[c] = p /\ flips'[c] = flips[c] \cup {w} /\ idx'[c] = w + 1
      /\ \A d \in Callers : d # c => cpc'[d] = cpc[d] /\ flips'[d] = flips[d] /\ idx'[d] = idx[d]
  BY <1>1 DEF FrameInv, Types
<1>4. \A d \in Callers : Dispatched(op[d])' = Dispatched(op[d])  BY <1>1, SameCut
<1>5. ToWrite(c) = w .. D  BY <1>1 DEF ToWrite
<1>6. ToWrite(c)' = w + 1 .. D
  <2>1. CASE w = D
    <3>1. ToWrite(c)' = {}  BY <1>3, <2>1 DEF ToWrite
    <3> QED  BY <1>2, <2>1, <3>1
  <2>2. CASE w # D  BY <1>3, <1>4, <2>2 DEF ToWrite
  <2> QED  BY <2>1, <2>2
<1>7. ToWrite(c)' \cup flips'[c] = ToWrite(c) \cup flips[c]
  <2>1. w .. D = (w + 1 .. D) \cup {w}  BY <1>2
  <2> QED  BY <1>3, <1>5, <1>6, <2>1
<1>8. \A d \in Callers : d # c => ToWrite(d)' = ToWrite(d)  BY <1>3, <1>4 DEF ToWrite
<1>9. \A d \in Callers : ToWrite(d)' \cup flips'[d] = ToWrite(d) \cup flips[d]
  BY <1>3, <1>7, <1>8
<1>10. \A d \in Callers : Awaited(d)' = Awaited(d) /\ Engaged(d)' = Engaged(d)
  <2>1. ASSUME NEW d \in Callers, NEW v \in Workers
        PROVE  v \in ToWrite(d)' \cup flips'[d] <=> v \in ToWrite(d) \cup flips[d]
    BY <1>9
  <2> QED  BY <1>1, <2>1 DEF Awaited, Engaged
<1>11. /\ \A d \in Callers : Dispatching(d)' => Dispatching(d)
       /\ \A d \in Callers : cpc'[d] # "idle" => cpc[d] # "idle"
       /\ \A d \in Callers : cpc'[d] \in {"inline", "return"} => cpc'[d] = cpc[d]
       /\ \A d \in Callers : cpc'[d] \in {"drive", "join"} <=> cpc[d] \in {"drive", "join"}
  <2>1. \A d \in Callers : \/ cpc'[d] = cpc[d]
                           \/ cpc[d] = "slots" /\ cpc'[d] \in {"fence", "slots"}
    BY <1>1, <1>3
  <2> QED  BY <2>1 DEF Dispatching
<1>12. UNCHANGED <<steal, assist, op, cursor, touched, drv>>  BY <1>1
<1> QED  BY <1>10, <1>11, <1>12, RowsKeep

\* A flip that becomes visible leaves its worker on his way in.
LEMMA FlipRows ==
    ASSUME FrameInv, OneAtATime, RowInv, NEW c \in Callers, Dispatching(c),
           NEW F \in SUBSET flips[c],
           flips' = [flips EXCEPT ![c] = flips[c] \ F],
           state' = [w \in Workers |-> IF w \in F THEN 1 ELSE state[w]],
           \A d \in Callers : cpc'[d] = cpc[d] \/ (cpc[d] = "fence" /\ cpc'[d] = "count"),
           UNCHANGED <<steal, assist, op, cursor, touched, drv, wpc, idx>>
    PROVE  RowInv'
<1>1. \A d \in Callers : d # c => ~Dispatching(d)  BY OnlyCall DEF Dispatching
<1>2. \A d \in Callers : Dispatched(op[d])' = Dispatched(op[d])  BY SameCut
<1>3. /\ flips'[c] = flips[c] \ F /\ F \in SUBSET Workers
      /\ \A w \in Workers : state'[w] = IF w \in F THEN 1 ELSE state[w]
  BY DEF FrameInv, Types
<1>4. ToWrite(c)' = ToWrite(c)  BY <1>2 DEF ToWrite
<1>5. \A w \in F : wpc[w] # "drive"  BY <1>3 DEF FrameInv, Stages, Apart
<1>6. Awaited(c)' = Awaited(c)
  <2>1. ASSUME NEW w \in Workers PROVE w \in Awaited(c)' <=> w \in Awaited(c)
    BY <1>3, <1>4, <1>5 DEF Awaited
  <2> QED  BY <2>1 DEF Awaited
<1>7. Engaged(c)' = Engaged(c)
  <2>1. ASSUME NEW w \in Workers PROVE w \in Engaged(c)' <=> w \in Engaged(c)
    BY <1>3, <1>4 DEF Engaged
  <2> QED  BY <2>1 DEF Engaged
<1>8. \A d \in Callers : Dispatching(d)' => d = c  BY <1>1 DEF Dispatching
<1>9. /\ \A d \in Callers : cpc'[d] # "idle" => cpc[d] # "idle"
      /\ \A d \in Callers : cpc'[d] \in {"inline", "return"} => cpc'[d] = cpc[d]
      /\ \A d \in Callers : cpc'[d] \in {"drive", "join"} <=> cpc[d] \in {"drive", "join"}
  OBVIOUS
<1> QED  BY <1>6, <1>7, <1>8, <1>9, RowsKeep

\* Every step keeps the rows in their places.
LEMMA RowStep ==
    ASSUME FrameInv, FrameInv', OneAtATime, OneAtATime', RowInv, [Next]_vars
    PROVE  RowInv'
<1> USE DEF flags, slots, parking, call
<1>1. CASE UNCHANGED vars  BY <1>1, WorkerRows DEF vars
<1>2. ASSUME NEW c \in Callers, CallStep(c) PROVE RowInv'
  <2>1. CASE Inline(c)
    <3>1. \A d \in Callers : d # c => cpc[d] = "idle"  BY <2>1, OnlyCall DEF Inline, GoC
    <3> QED  BY <2>1, <3>1, InlineRows
  <2>2. CASE Return(c)  BY <2>2, CallerRows DEF Return, GoC
  <2>3. CASE WriteSlot(c)  BY <2>3, WriteSlotRows
  <2>4. CASE WakeFence(c)
    <3>1. /\ cpc[c] = "fence" /\ cpc' = [cpc EXCEPT ![c] = "count"]
          /\ flips' = [flips EXCEPT ![c] = {}]
          /\ state' = [w \in Workers |-> IF w \in flips[c] THEN 1 ELSE state[w]]
          /\ UNCHANGED <<steal, assist, op, cursor, touched, drv, wpc, idx>>
      BY <2>4 DEF WakeFence, GoC
    <3>2. \A d \in Callers : cpc'[d] = cpc[d] \/ (cpc[d] = "fence" /\ cpc'[d] = "count")
      BY <3>1 DEF FrameInv, Types
    <3>3. Dispatching(c)  BY <3>1 DEF Dispatching
    <3>4. PICK F \in SUBSET flips[c] :
             /\ flips' = [flips EXCEPT ![c] = flips[c] \ F]
             /\ state' = [w \in Workers |-> IF w \in F THEN 1 ELSE state[w]]
      <4>1. flips[c] \ flips[c] = {} /\ flips[c] \in SUBSET flips[c]  OBVIOUS
      <4> QED  BY <3>1, <4>1
    <3>5. UNCHANGED <<steal, assist, op, cursor, touched, drv, wpc, idx>>  BY <3>1
    <3> QED  BY <3>2, <3>3, <3>4, <3>5, FlipRows
  <2>5. idx \in [Callers \cup {None} -> Nat]  BY DEF FrameInv, Types
  <2>6. CASE WakeCount(c)
    <3> PICK p : p = IF parkedCount = 0 THEN "assist" ELSE "wake"  OBVIOUS
    <3>1. /\ cpc[c] = "count" /\ cpc' = [cpc EXCEPT ![c] = p]
          /\ idx' = [idx EXCEPT ![c] = 1]
          /\ UNCHANGED <<steal, assist, op, cursor, touched, drv, state, flips, wpc>>
      BY <2>6 DEF WakeCount, GoC
    <3>2. Dispatching(c) /\ p \in {"assist", "wake"}  BY <3>1 DEF Dispatching
    <3>3. \A d \in Callers : d # c => idx'[d] = idx[d]  BY <2>5, <3>1
    <3> QED  BY <3>1, <3>2, <3>3, CallerRows
  <2>7. CASE WakeScan(c)
    <3> PICK p : p = IF idx[c] = Dispatched(op[c]) THEN "assist" ELSE "wake"  OBVIOUS
    <3>1. /\ cpc[c] = "wake" /\ cpc' = [cpc EXCEPT ![c] = p]
          /\ idx' = [idx EXCEPT ![c] = idx[c] + 1]
          /\ UNCHANGED <<steal, assist, op, cursor, touched, drv, state, flips, wpc>>
      BY <2>7 DEF WakeScan, GoC
    <3>2. Dispatching(c) /\ p \in {"assist", "wake"}  BY <3>1 DEF Dispatching
    <3>3. \A d \in Callers : d # c => idx'[d] = idx[d]  BY <2>5, <3>1
    <3> QED  BY <3>1, <3>2, <3>3, CallerRows
  <2>8. CASE Assist(c)
    <3>1. CASE assist  BY <2>8, <3>1, AssistRows
    <3>2. CASE ~assist
      <4>1. /\ cpc[c] = "assist" /\ cpc' = [cpc EXCEPT ![c] = "join"]
            /\ UNCHANGED <<steal, assist, op, cursor, touched, drv, state, flips, wpc, idx>>
        BY <2>8, <3>2 DEF Assist, GoC
      <4>2. Dispatching(c)  BY <4>1 DEF Dispatching
      <4> QED  BY <3>2, <4>1, <4>2, CallerRows
    <3> QED  BY <3>1, <3>2
  <2>9. CASE AssistDone(c)  BY <2>9, AssistDoneRows
  <2>10. CASE Join(c)  BY <2>10, CallerRows DEF Join, GoC
  <2>11. CASE DriveStep(c)  BY <2>11, DriveRows
  <2> QED
    BY <1>2, <2>1, <2>2, <2>3, <2>4, <2>6, <2>7, <2>8, <2>9, <2>10, <2>11 DEF CallStep
<1>3. ASSUME NEW w \in Workers, NEW p, wpc[w] # "drive", p # "drive",
             wpc' = [wpc EXCEPT ![w] = p],
             UNCHANGED <<steal, assist, op, cursor, touched, drv, state, flips, cpc, idx>>
      PROVE  RowInv'
  <2>1. \A v \in Workers : wpc'[v] = "drive" <=> wpc[v] = "drive"
    BY <1>3 DEF FrameInv, Types
  <2> QED  BY <1>3, <2>1, WorkerRows
<1>4. ASSUME NEW w \in Workers, WorkerStep(w) \/ ParkSpurious(w) PROVE RowInv'
  <2> USE DEF GoW
  <2>1. CASE SpinLoad(w)  BY <1>3, <2>1 DEF SpinLoad
  <2>2. CASE SpinIdle(w)  BY <1>3, <2>2 DEF SpinIdle
  <2>3. CASE ParkFence(w)  BY <1>3, <2>3 DEF ParkFence
  <2>4. CASE ParkRecheck(w)  BY <1>3, <2>4 DEF ParkRecheck
  <2>5. CASE Park(w)  BY <1>3, <2>5 DEF Park
  <2>6. CASE ParkSpurious(w)  BY <1>3, <2>6 DEF ParkSpurious
  <2>7. CASE Unparked(w)  BY <1>3, <2>7 DEF Unparked
  <2>8. CASE Fetch(w)  BY <2>8, FetchRows
  <2>9. CASE Reset(w)  BY <2>9, ResetRows
  <2>10. CASE Countdown(w)  BY <1>3, <2>10 DEF Countdown
  <2>11. CASE DriveStep(w)  BY <2>11, DriveRows
  <2> QED
    BY <1>4, <2>1, <2>2, <2>3, <2>4, <2>5, <2>6, <2>7, <2>8, <2>9, <2>10, <2>11 DEF WorkerStep
<1>5. ASSUME NEW c \in Callers, NEW w \in Workers, FlipVisible(c, w) PROVE RowInv'
  <2> PICK F : F = {w}  OBVIOUS
  <2>1. /\ F \in SUBSET flips[c] /\ flips' = [flips EXCEPT ![c] = flips[c] \ F]
        /\ UNCHANGED <<steal, assist, op, cursor, touched, drv, wpc, idx, cpc>>
    BY <1>5 DEF FlipVisible
  <2>2. state' = [v \in Workers |-> IF v \in F THEN 1 ELSE state[v]]
    BY <1>5 DEF FlipVisible, FrameInv, Types
  <2>3. Dispatching(c)  BY <1>5 DEF FlipVisible, FrameInv, Stages
  <2> QED  BY <2>1, <2>2, <2>3, FlipRows
<1>6. ASSUME (\E w \in Workers : ParkedVisible(w)) \/ DropStart \/ DropStep PROVE RowInv'
  <2>1. UNCHANGED <<steal, assist, op, cursor, touched, drv, state, flips, cpc, wpc>>
    BY <1>6 DEF ParkedVisible, DropStart, DropStep, DropUnpark, DropJoin
  <2>2. idx' = idx \/ idx' = [idx EXCEPT ![None] = idx[None] + 1]
    BY <1>6 DEF ParkedVisible, DropStart, DropStep, DropUnpark, DropJoin
  <2>3. \A c \in Callers : idx'[c] = idx[c]
    BY <2>2, NoneIsNoCaller DEF FrameInv, Types
  <2> QED  BY <2>1, <2>3, WorkerRows
<1> QED  BY <1>1, <1>2, <1>4, <1>5, <1>6, CallRows DEF Next, Visible
-----------------------------------------------------------------------------
(* The pool implements the fork-join *)

\* The rows are in their places at all times.
LEMMA RowInvAlways == Spec /\ []OneAtATime => [](FrameInv /\ RowInv)
<1>1. Init => FrameInv /\ RowInv  BY FrameInit, RowInit
<1>2. FrameInv /\ RowInv /\ OneAtATime /\ OneAtATime' /\ [Next]_vars => (FrameInv /\ RowInv)'
  BY FrameStep, RowStep
<1> QED  BY <1>1, <1>2, PTL DEF Spec

\* At the join nobody is inside the closure or on his way, so that every row
\* has been run.
LEMMA JoinedAllRun ==
    ASSUME FrameInv, OneAtATime, RowInv, NEW c \in Callers, cpc[c] = "join", pending = 0
    PROVE  \A r \in DOMAIN touched[c] : touched[c][r] = 1
<1>1. Owing = {}  BY OwingFinite, FS_EmptySet DEF FrameInv, Counted
<1>2. /\ \A w \in Workers : state[w] # 1 /\ w \notin ToWrite(c) \cup flips[c]
      /\ Dispatching(c) /\ \A d \in Callers : cpc[d] # "drive"
  <2>1. \A d \in Callers : d # c => cpc[d] = "idle"  BY OnlyCall
  <2> QED  BY <1>1, <2>1 DEF Owing, Dispatching
<1>3. Awaited(c) = {} /\ Engaged(c) = {}  BY <1>2 DEF Awaited, Engaged
<1>4. \A t \in Workers \cup Callers : Held(t) = {}
  <2>1. \A t \in Workers \cup Callers : drv[t].at = "off"
    BY <1>2 DEF FrameInv, Stages, Drivers
  <2> QED  BY <2>1 DEF Held
<1>5. op[c] \in Ops /\ 2 <= op[c].n /\ op[c].n <= op[c].rows
  BY <1>2 DEF FrameInv, Types, Shaped, Ops
<1>6. ASSUME NEW r \in 0 .. op[c].rows - 1 PROVE ~Unclaimed(c, r)
  <2>1. CASE steal
    <3>1. 1 \in 1 .. Dispatched(op[c])
      <4>1. Dispatched(op[c]) \in 1 .. NWorkers  BY <1>2 DEF FrameInv, Shaped
      <4> QED  BY <4>1, NWorkersNat
    <3>2. AllDrained(c)  BY <1>2, <1>3, <2>1, <3>1 DEF RowInv, LeftDrained
    <3>3. ASSUME NEW b \in 0 .. op[c].n - 1, r < BandHi(op[c], b), cursor[c][b] <= r PROVE FALSE
      <4>1. cursor[c][b] >= BandHi(op[c], b)  BY <3>2 DEF AllDrained, Drained
      <4>2. cursor[c][b] \in Nat  BY <1>2 DEF FrameInv, Cursors
      <4>3. b \in Nat  BY <1>5 DEF Ops
      <4>4. BandHi(op[c], b) \in Nat  BY <1>5, <4>3, BandFacts
      <4> QED  BY <1>5, <3>3, <4>1, <4>2, <4>4 DEF Ops
    <3> QED  BY <2>1, <3>3 DEF Unclaimed
  <2>2. CASE ~steal
    <3>1. Waiting(c) = {}  BY <1>3 DEF Waiting
    <3> QED  BY <2>2, <3>1 DEF Unclaimed
  <2> QED  BY <2>1, <2>2
<1>7. \A r \in 0 .. op[c].rows - 1 : touched[c][r] = 1  BY <1>2, <1>4, <1>6 DEF RowInv, Placed
<1>8. DOMAIN touched[c] = 0 .. op[c].rows - 1  BY DEF RowInv, RowTypes
<1> QED  BY <1>7, <1>8

\* A step that opens and closes no call and runs no row is no step of the
\* fork-join.
LEMMA Stutter ==
    ASSUME UNCHANGED touched, \A c \in Callers : cpc'[c] = "idle" <=> cpc[c] = "idle"
    PROVE  UNCHANGED FJ!vars
BY DEF FJ!vars

\* Entry of parallel_rows is the fork.
LEMMA CallForks ==
    ASSUME FrameInv, NEW c \in Callers, Call(c)
    PROVE  FJ!Fork(c)
<1>1. PICK rows \in RowCounts, to \in {"inline", "slots"} :
         /\ touched' = [touched EXCEPT ![c] = [r \in 0 .. rows - 1 |-> 0]]
         /\ cpc[c] = "idle" /\ cpc' = [cpc EXCEPT ![c] = to]
  BY DEF Call, GoC
<1>2. cpc'[c] = to /\ \A d \in Callers : d # c => cpc'[d] = cpc[d]
  BY <1>1 DEF FrameInv, Types
<1>3. cpc[c] = "idle" /\ cpc'[c] # "idle"  BY <1>1, <1>2
<1>4. [d \in Callers |-> cpc'[d] # "idle"] = [[d \in Callers |-> cpc[d] # "idle"] EXCEPT ![c] = TRUE]
  BY <1>2, <1>3
<1> QED  BY <1>1, <1>3, <1>4 DEF FJ!Fork

\* Rows that are run, on the caller alone or by a driver, are run for the
\* first time.
LEMMA RunComputes ==
    ASSUME NEW c \in Callers, cpc[c] # "idle", DOMAIN touched = Callers,
           NEW f, touched' = [touched EXCEPT ![c] = f], DOMAIN f = DOMAIN touched[c],
           \A r \in DOMAIN touched[c] :
              f[r] = touched[c][r] \/ (touched[c][r] = 0 /\ f[r] = 1),
           \A d \in Callers : cpc'[d] = "idle" <=> cpc[d] = "idle"
    PROVE  FJ!Compute(c)
<1>1. touched'[c] = f /\ DOMAIN touched' = Callers
      /\ \A d \in Callers \ {c} : touched'[d] = touched[d]
  OBVIOUS
<1>2. [d \in Callers |-> cpc'[d] # "idle"] = [d \in Callers |-> cpc[d] # "idle"]
  OBVIOUS
<1> QED  BY <1>1, <1>2 DEF FJ!Compute

\* The return of parallel_rows is the join.
LEMMA ReturnJoins ==
    ASSUME FrameInv, NEW c \in Callers, cpc[c] # "idle", cpc' = [cpc EXCEPT ![c] = "idle"],
           UNCHANGED touched, \A r \in DOMAIN touched[c] : touched[c][r] = 1
    PROVE  FJ!Join(c)
<1>1. cpc'[c] = "idle" /\ \A d \in Callers : d # c => cpc'[d] = cpc[d]
  BY DEF FrameInv, Types
<1>2. [d \in Callers |-> cpc'[d] # "idle"] = [[d \in Callers |-> cpc[d] # "idle"] EXCEPT ![c] = FALSE]
  BY <1>1
<1> QED  BY <1>2 DEF FJ!Join

\* Every step of the pool is one of the fork-join, or none.
LEMMA RefineStep ==
    ASSUME FrameInv, OneAtATime, RowInv, [Next]_vars
    PROVE  [FJ!Next]_(FJ!vars)
<1> USE DEF flags, slots, parking, call
<1>1. DOMAIN touched = Callers  BY DEF RowInv, RowTypes
<1>2. ASSUME NEW t \in Workers \cup Callers, DriveStep(t) PROVE [FJ!Next]_(FJ!vars)
  <2>1. CASE DriveRun(t)
    <3> PICK c : c = drv[t].job  OBVIOUS
    <3>1. drv[t].at # "off"  BY <2>1 DEF DriveRun
    <3>2. c \in Callers /\ cpc[c] # "idle"  BY <3>1, DriverFacts DEF Dispatching
    <3>3. PICK f : /\ touched' = [touched EXCEPT ![c] = f]
                   /\ DOMAIN f = DOMAIN touched[c] /\ UNCHANGED cpc
      BY <2>1 DEF DriveRun, driving
    <3>4. touched'[c] = f  BY <1>1, <3>2, <3>3
    <3>5. \A r \in DOMAIN touched[c] :
             f[r] = touched[c][r] \/ (touched[c][r] = 0 /\ f[r] = 1)
      BY <2>1, <3>4, RunKeeps
    <3>6. FJ!Compute(c)
      <4>1. touched' = [touched EXCEPT ![c] = f] /\ DOMAIN f = DOMAIN touched[c]  BY <3>3
      <4>2. \A d \in Callers : cpc'[d] = "idle" <=> cpc[d] = "idle"  BY <3>3
      <4> QED  BY <1>1, <3>2, <3>5, <4>1, <4>2, RunComputes
    <3> QED  BY <3>2, <3>6 DEF FJ!Next
  <2>2. CASE ~DriveRun(t)
    <3>1. UNCHANGED <<touched, cpc>>
      BY <1>2, <2>2 DEF DriveStep, DriveLoad, DriveClaim, DriveSteal, Claim, DriveScan, driving
    <3> QED  BY <3>1, Stutter
  <2> QED  BY <2>1, <2>2
<1>3. ASSUME NEW c \in Callers, NEW from, NEW to, from # "idle", to # "idle",
             GoC(c, from, to), UNCHANGED touched
      PROVE  UNCHANGED FJ!vars
  <2>1. \A d \in Callers : cpc'[d] = "idle" <=> cpc[d] = "idle"
    BY <1>3 DEF GoC, FrameInv, Types
  <2> QED  BY <1>3, <2>1, Stutter
<1>4. ASSUME NEW c \in Callers, CallStep(c) PROVE [FJ!Next]_(FJ!vars)
  <2>1. CASE Inline(c)
    <3>1. \A d \in Callers : d # c => cpc[d] = "idle"  BY <2>1, OnlyCall DEF Inline, GoC
    <3>2. PICK f : /\ touched' = [touched EXCEPT ![c] = f]
                   /\ DOMAIN f = DOMAIN touched[c]
      <4> PICK f : f = [r \in DOMAIN touched[c] |-> touched[c][r] + 1]  OBVIOUS
      <4>1. touched' = [touched EXCEPT ![c] = f]  BY <2>1 DEF Inline
      <4>2. DOMAIN f = DOMAIN touched[c]  OBVIOUS
      <4> QED  BY <4>1, <4>2
    <3>3. /\ touched'[c] = f /\ cpc[c] # "idle"
          /\ \A d \in Callers : cpc'[d] = "idle" <=> cpc[d] = "idle"
      BY <1>1, <2>1, <3>2 DEF Inline, GoC, FrameInv, Types
    <3>4. \A r \in DOMAIN touched[c] : touched[c][r] = 0 /\ f[r] = 1
      BY <2>1, <3>1, <3>3, InlineRows
    <3>5. FJ!Compute(c)  BY <1>1, <3>2, <3>3, <3>4, RunComputes
    <3> QED  BY <3>5 DEF FJ!Next
  <2>2. CASE Return(c)
    <3>1. cpc[c] = "return" /\ cpc' = [cpc EXCEPT ![c] = "idle"] /\ UNCHANGED touched
      BY <2>2 DEF Return, GoC
    <3>2. \A r \in DOMAIN touched[c] : touched[c][r] = 1
      BY <3>1 DEF RowInv, RowTypes, Inlined
    <3>3. FJ!Join(c)  BY <3>1, <3>2, ReturnJoins
    <3> QED  BY <3>3 DEF FJ!Next
  <2>3. CASE WriteSlot(c)  BY <1>3, <2>3 DEF WriteSlot
  <2>4. CASE WakeFence(c)  BY <1>3, <2>4 DEF WakeFence
  <2>5. CASE WakeCount(c)  BY <1>3, <2>5 DEF WakeCount
  <2>6. CASE WakeScan(c)  BY <1>3, <2>6 DEF WakeScan
  <2>7. CASE Assist(c)  BY <1>3, <2>7 DEF Assist
  <2>8. CASE AssistDone(c)  BY <1>3, <2>8 DEF AssistDone
  <2>9. CASE Join(c)
    <3>1. /\ cpc[c] = "join" /\ cpc' = [cpc EXCEPT ![c] = "idle"]
          /\ pending = 0 /\ UNCHANGED touched
      BY <2>9 DEF Join, GoC
    <3>2. \A r \in DOMAIN touched[c] : touched[c][r] = 1  BY <3>1, JoinedAllRun
    <3>3. FJ!Join(c)  BY <3>1, <3>2, ReturnJoins
    <3> QED  BY <3>3 DEF FJ!Next
  <2>10. CASE DriveStep(c)  BY <1>2, <2>10
  <2> QED
    BY <1>4, <2>1, <2>2, <2>3, <2>4, <2>5, <2>6, <2>7, <2>8, <2>9, <2>10 DEF CallStep
<1>5. ASSUME NEW w \in Workers, WorkerStep(w) \/ ParkSpurious(w) PROVE [FJ!Next]_(FJ!vars)
  <2>1. CASE DriveStep(w)  BY <1>2, <2>1
  <2>2. CASE ~DriveStep(w)
    <3>1. UNCHANGED <<touched, cpc>>
      BY <1>5, <2>2 DEF WorkerStep, SpinLoad, SpinIdle, ParkFence, ParkRecheck, Park,
         ParkSpurious, Unparked, Fetch, Reset, Countdown
    <3> QED  BY <3>1, Stutter
  <2> QED  BY <2>1, <2>2
<1>6. ASSUME Visible \/ DropStart \/ DropStep \/ UNCHANGED vars PROVE UNCHANGED FJ!vars
  <2>1. UNCHANGED <<touched, cpc>>
    BY <1>6 DEF Visible, FlipVisible, ParkedVisible, DropStart, DropStep, DropUnpark,
       DropJoin, vars
  <2> QED  BY <2>1, Stutter
<1>7. ASSUME NEW c \in Callers, Call(c) PROVE FJ!Next  BY <1>7, CallForks DEF FJ!Next
<1> QED  BY <1>4, <1>5, <1>6, <1>7 DEF Next

\* Calls that do not overlap keep the promise of parallel_rows: the closure is
\* run on every row exactly once, and the call returns only when all rows have
\* been run; for every number of workers, rows and threads asked for, with
\* static bands and with stealing, with the caller's help and without it.
THEOREM PoolForksAndJoins == Spec /\ []OneAtATime => ImplementsForkJoin
<1>1. Init => FJ!Init
  BY DEF Init, FJ!Init
<1>2. FrameInv /\ RowInv /\ OneAtATime /\ [Next]_vars => [FJ!Next]_(FJ!vars)
  BY RefineStep
<1> QED  BY <1>1, <1>2, RowInvAlways, PTL DEF Spec, ImplementsForkJoin, FJ!Spec
=============================================================================
