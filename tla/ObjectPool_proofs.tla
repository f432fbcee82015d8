-------------------------- MODULE ObjectPool_proofs --------------------------
(***************************************************************************)
(* Proofs about ObjectPool, for every number of threads, classes and       *)
(* chunks.                                                                 *)
(***************************************************************************)
EXTENDS ObjectPool, FiniteSetTheorems, TLAPS

-----------------------------------------------------------------------------
(* Multiples of a block size *)

\* A division without a rest can be undone ...
LEMMA DivideExactly ==
    ASSUME NEW s \in Nat \ {0}, NEW a \in Nat, a % s = 0
    PROVE  a \div s \in Nat /\ a = s * (a \div s)
OBVIOUS

\* ... and a multiple leaves no rest.
LEMMA MultipleHasNoRest ==
    ASSUME NEW s \in Nat \ {0}, NEW q \in Nat
    PROVE  (s * q) % s = 0
OBVIOUS

\* The next multiple is one block further.
LEMMA NextMultiple ==
    ASSUME NEW s \in Nat \ {0}, NEW a \in Nat, a % s = 0
    PROVE  (a + s) % s = 0
<1> DEFINE q == a \div s
<1>1. q \in Nat /\ a = s * q  BY DivideExactly
<1> HIDE DEF q
<1>2. a + s = s * (q + 1) /\ q + 1 \in Nat  BY <1>1
<1> QED  BY <1>2, MultipleHasNoRest

\* Two multiples are a block apart.
LEMMA MultiplesApart ==
    ASSUME NEW s \in Nat \ {0}, NEW a \in Nat, a % s = 0, NEW d \in Nat, d % s = 0, a < d
    PROVE  a + s <= d
<1> DEFINE q == a \div s
           r == d \div s
<1>1. q \in Nat /\ a = s * q /\ r \in Nat /\ d = s * r  BY DivideExactly
<1> HIDE DEF q, r
<1>2. s * q < s * r  BY <1>1
<1>3. q < r  BY <1>1, <1>2
<1>4. q + 1 <= r  BY <1>1, <1>3
<1>5. s * (q + 1) <= s * r /\ s * (q + 1) = s * q + s  BY <1>1, <1>4
<1> QED  BY <1>1, <1>5

-----------------------------------------------------------------------------
(* Types *)

Steps == {"run", "map", "giveUp", "exchange", "storeNext", "storeEnd", "reload", "carve", "header"}

ClassStates == [free : Seq(Blocks), chunk : Region \cup {0}, at : 0 .. Span]

Types ==
    /\ base \in {0, Base, Failed} /\ next \in Nat /\ end \in Nat
    /\ header \in [Region -> Classes \cup {0}]
    /\ local \in [Threads -> [Classes -> ClassStates]]
    /\ pc \in [Threads -> Steps]
    /\ want \in [Threads -> Classes \cup {0}]
    /\ chunk \in [Threads -> Nat]
    /\ held \in SUBSET Blocks

\* Who allocates has a class to allocate for, and no room left in it.
Allocating ==
    \A t \in Threads : pc[t] # "run" =>
        /\ want[t] \in Classes
        /\ local[t][want[t]].at + want[t] > Span

-----------------------------------------------------------------------------
(* Who reserves the region *)

\* Threads that may still carve in the allocation they are in.
Coming == {t \in Threads : pc[t] \in {"map", "exchange", "storeNext", "storeEnd", "reload", "carve"}}

\* One thread at most sets up the region.
Reserved ==
    /\ base = 0 => next = 0 /\ \A t \in Threads : pc[t] \in {"run", "map", "giveUp", "exchange"}
    /\ \A t \in Threads : pc[t] = "storeNext" => next < Base
    /\ \A t, u \in Threads : pc[t] = "storeNext" /\ pc[u] = "storeNext" => t = u

\* Until it has, few chunks are carved: too few to reach the region.
Few == next < Base => next + Cardinality(Coming) <= MaxMisses + Cardinality(Threads)

-----------------------------------------------------------------------------
(* Whose a chunk is *)

\* What fetch_add gave out is below REGION_NEXT, and given out once: to an
\* allocation that is under way or to a thread and class that bump in it.
Claimed ==
    /\ \A t \in Threads : pc[t] = "header" => chunk[t] < next
    /\ \A t \in Threads : \A s \in Classes : local[t][s].chunk # 0 => local[t][s].chunk < next
    /\ \A t, u \in Threads :
          pc[t] = "header" /\ pc[u] = "header" /\ chunk[t] = chunk[u] => t = u
    /\ \A t, u \in Threads : \A s \in Classes :
          pc[t] = "header" /\ chunk[t] # 0 => local[u][s].chunk # chunk[t]
    /\ \A t, u \in Threads : \A s, r \in Classes :
          local[t][s].chunk # 0 /\ local[t][s].chunk = local[u][r].chunk => t = u /\ s = r

\* The header names the class that bumps in the chunk; there is none before.
Headed ==
    /\ \A t \in Threads : \A s \in Classes :
          local[t][s].chunk # 0 => header[local[t][s].chunk] = s
    /\ \A c \in Region : header[c] # 0 => c < next
    /\ \A t \in Threads : pc[t] = "header" /\ chunk[t] \in Region => header[chunk[t]] = 0

\* A rest starts at a block; no chunk has no rest.
Aligned ==
    \A t \in Threads : \A s \in Classes :
        /\ local[t][s].chunk # 0 => local[t][s].at % s = 0
        /\ local[t][s].chunk = 0 => local[t][s].at = Span

ChunkInv == Types /\ Allocating /\ Reserved /\ Few /\ Claimed /\ Headed /\ Aligned

\* The constants as numbers; no chunk of the region is null.
LEMMA ConstantFacts ==
    /\ Base \in Nat /\ Chunks \in Nat /\ Span \in Nat /\ MaxMisses \in Nat
    /\ Cardinality(Threads) \in Nat /\ MaxMisses + Cardinality(Threads) < Base
    /\ Classes \subseteq Nat \ {0} /\ \A s \in Classes : s <= Span
    /\ \A c : c \in Region <=> c \in Nat /\ Base <= c /\ c < Base + Chunks
    /\ Failed = Base + Chunks + 1
    /\ 0 \notin Region
<1>1. Cardinality(Threads) \in Nat  BY ThreadsFinite, FS_CardinalityType
<1> QED  BY <1>1, ClassesFit, RegionIsHigh, SpanNat DEF Region, Failed

\* Finitely many threads are on their way to a chunk.
LEMMA ComingFinite ==
    /\ IsFiniteSet(Coming) /\ Cardinality(Coming) \in Nat
    /\ Cardinality(Coming) <= Cardinality(Threads)
<1>1. Coming \in SUBSET Threads  BY DEF Coming
<1> QED  BY <1>1, ThreadsFinite, FS_Subset, FS_CardinalityType

\* Before the first allocation no chunk is carved.
LEMMA ChunkInit == Init => ChunkInv
<1> SUFFICES ASSUME Init PROVE ChunkInv  OBVIOUS
<1> USE ConstantFacts
<1>1. Nothing \in ClassStates  BY DEF Nothing, ClassStates
<1>2. Types  BY <1>1 DEF Init, Types, Steps
<1>3. Reserved  BY DEF Init, Reserved
<1>4. Few
  <2>1. next = 0  BY DEF Init
  <2> QED  BY <2>1, ComingFinite DEF Few
<1>5. Allocating /\ Claimed /\ Headed /\ Aligned
  BY DEF Init, Allocating, Claimed, Headed, Aligned, Nothing
<1> QED  BY <1>2, <1>3, <1>4, <1>5 DEF ChunkInv

\* No new thread is on its way to carve.
LEMMA FewerComing ==
    ASSUME Types, Few, next' = next, Coming' \subseteq Coming
    PROVE  Few'
<1>1. Coming' \in SUBSET Coming  OBVIOUS
<1>2. Cardinality(Coming') <= Cardinality(Coming) /\ Cardinality(Coming') \in Nat
  BY <1>1, ComingFinite, FS_Subset, FS_CardinalityType
<1> QED  BY <1>2, ComingFinite, ConstantFacts DEF Few, Types

\* Until REGION_NEXT is stored each carve out of nowhere is one of few.
LEMMA FewStep == ChunkInv /\ Next => Few'
<1> SUFFICES ASSUME ChunkInv, Next PROVE Few'  OBVIOUS
<1> USE DEF ChunkInv, Go, Leave, region
<1>1. ASSUME NEW t \in Threads, NEW s \in Classes, Pop(t, s) \/ Bump(t, s) PROVE Few'
  <2>1. next' = next /\ Coming' \subseteq Coming  BY <1>1 DEF Types, Coming, Pop, Bump
  <2> QED  BY <2>1, FewerComing
<1>2. ASSUME NEW t \in Threads, NEW s \in Classes, NewChunk(t, s) PROVE Few'
  <2>1. next' = next /\ (next < Base => next < MaxMisses)
    BY <1>2, ConstantFacts DEF NewChunk, Misses, Types
  <2>2. Coming' \in SUBSET Threads  BY DEF Coming
  <2>3. Cardinality(Coming') <= Cardinality(Threads) /\ Cardinality(Coming') \in Nat
    BY <2>2, ThreadsFinite, FS_Subset, FS_CardinalityType
  <2> QED  BY <2>1, <2>3, ConstantFacts DEF Few, Types
<1>3. ASSUME NEW t \in Threads,
             Map(t) \/ GiveUp(t) \/ Exchange(t) \/ StoreEnd(t) \/ Reload(t) \/ Header(t)
      PROVE  Few'
  <2>1. next' = next
    BY <1>3 DEF Map, GiveUp, Exchange, StoreEnd, Reload, Header
  <2>2. Coming' \subseteq Coming
    BY <1>3 DEF Types, Coming, Map, GiveUp, Exchange, StoreEnd, Reload, Header
  <2> QED  BY <2>1, <2>2, FewerComing
<1>4. ASSUME NEW t \in Threads, StoreNext(t) PROVE Few'
  BY <1>4, ConstantFacts DEF StoreNext, Few
<1>5. ASSUME NEW t \in Threads, Carve(t) PROVE Few'
  <2>1. next' = next + 1 /\ t \in Coming /\ Coming' = Coming \ {t}
    BY <1>5 DEF Carve, Coming, Types
  <2>2. Cardinality(Coming') = Cardinality(Coming) - 1
    BY <2>1, ComingFinite, FS_RemoveElement
  <2> QED  BY <2>1, <2>2, ComingFinite, ConstantFacts DEF Few, Types
<1>6. ASSUME NEW t \in Threads, NEW b \in held, Free(t, b) PROVE Few'
  <2>1. next' = next /\ Coming' \subseteq Coming  BY <1>6 DEF Types, Coming, Free
  <2> QED  BY <2>1, FewerComing
<1> QED  BY <1>1, <1>2, <1>3, <1>4, <1>5, <1>6 DEF Next

\* Only one thread wins the exchange and stores REGION_NEXT.
LEMMA ReservedStep == ChunkInv /\ Next => Reserved'
<1> SUFFICES ASSUME ChunkInv, Next PROVE Reserved'  OBVIOUS
<1> USE ConstantFacts DEF ChunkInv, Types, Steps, Reserved, Go, Leave, region
<1>1. ASSUME NEW t \in Threads, NEW s \in Classes, Pop(t, s) \/ Bump(t, s) PROVE Reserved'
  BY <1>1, ZenonT(30) DEF Pop, Bump
<1>2. ASSUME NEW t \in Threads, NEW s \in Classes, NewChunk(t, s) PROVE Reserved'
  BY <1>2 DEF NewChunk
<1>3. ASSUME NEW t \in Threads, Map(t) PROVE Reserved'
  BY <1>3, SMTT(20) DEF Map
<1>4. ASSUME NEW t \in Threads, GiveUp(t) PROVE Reserved'  BY <1>4 DEF GiveUp
<1>5. ASSUME NEW t \in Threads, Exchange(t) PROVE Reserved'
  BY <1>5, SMTT(20) DEF Exchange
<1>6. ASSUME NEW t \in Threads, StoreNext(t) PROVE Reserved'  BY <1>6 DEF StoreNext
<1>7. ASSUME NEW t \in Threads, StoreEnd(t) PROVE Reserved'  BY <1>7 DEF StoreEnd
<1>8. ASSUME NEW t \in Threads, Reload(t) PROVE Reserved'
  <2>1. /\ pc' = [pc EXCEPT ![t] = "run"] \/ pc' = [pc EXCEPT ![t] = "carve"]
        /\ pc[t] = "reload" /\ next' = next /\ base' = base
    BY <1>8 DEF Reload
  <2>2. base # 0  BY <2>1
  <2>3. CASE pc' = [pc EXCEPT ![t] = "run"]  BY <2>1, <2>2, <2>3
  <2>4. CASE pc' = [pc EXCEPT ![t] = "carve"]  BY <2>1, <2>2, <2>4
  <2> QED  BY <2>1, <2>3, <2>4
<1>9. ASSUME NEW t \in Threads, Carve(t) PROVE Reserved'
  <2>0. pc' = [pc EXCEPT ![t] = "header"] /\ pc[t] = "carve" /\ next' = next + 1 /\ base' = base
    BY <1>9 DEF Carve
  <2>1. next < Base => next + 1 < Base
    <3>1. t \in Coming /\ Coming # {}  BY <1>9 DEF Coming, Carve
    <3>2. Cardinality(Coming) >= 1  BY <3>1, ComingFinite, FS_EmptySet
    <3> QED  BY <3>2, ComingFinite DEF Few
  <2>2. base # 0  BY <2>0
  <2> QED  BY <2>0, <2>1, <2>2
<1>10. ASSUME NEW t \in Threads, Header(t) PROVE Reserved'  BY <1>10 DEF Header
<1>11. ASSUME NEW t \in Threads, NEW b \in held, Free(t, b) PROVE Reserved'  BY <1>11 DEF Free
<1> QED
  BY <1>1, <1>2, <1>3, <1>4, <1>5, <1>6, <1>7, <1>8, <1>9, <1>10, <1>11 DEF Next


-----------------------------------------------------------------------------
(* What the steps do to a thread's own state *)

Locals == [Threads -> [Classes -> ClassStates]]

\* local' is local but for the class s of thread t, which is v.
Sets(t, s, v) ==
    /\ local' \in Locals
    /\ \A u \in Threads : \A r \in Classes :
          local'[u][r] = IF u = t /\ r = s THEN v ELSE local[u][r]

\* Writing one class of one thread changes nothing else of the local pools.
LEMMA LocalUpdate ==
    ASSUME local \in Locals, NEW t \in Threads, NEW s \in Classes, NEW v \in ClassStates,
           local' = [local EXCEPT ![t] = [local[t] EXCEPT ![s] = v]]
    PROVE  Sets(t, s, v)
<1>1. [local[t] EXCEPT ![s] = v] \in [Classes -> ClassStates]  BY DEF Locals
<1>2. local' \in Locals  BY <1>1 DEF Locals
<1>3. ASSUME NEW u \in Threads, NEW r \in Classes
      PROVE  local'[u][r] = IF u = t /\ r = s THEN v ELSE local[u][r]
  BY DEF Locals
<1> QED  BY <1>2, <1>3 DEF Sets

\* A record with some of its fields set.
LEMMA FieldUpdate ==
    ASSUME NEW l \in ClassStates, NEW f, NEW a
    PROVE  /\ [l EXCEPT !.free = f] = [free |-> f, chunk |-> l.chunk, at |-> l.at]
           /\ [l EXCEPT !.at = a] = [free |-> l.free, chunk |-> l.chunk, at |-> a]
<1>1. [l EXCEPT !.free = f] = [free |-> f, chunk |-> l.chunk, at |-> l.at]  BY DEF ClassStates
<1>2. [l EXCEPT !.at = a] = [free |-> l.free, chunk |-> l.chunk, at |-> a]  BY DEF ClassStates
<1> QED  BY <1>1, <1>2

\* The fast path takes the head of the free list.
LEMMA PopEffect ==
    ASSUME ChunkInv, NEW t \in Threads, NEW s \in Classes, Pop(t, s)
    PROVE  /\ pc' = pc
           /\ local[t][s].free # <<>> /\ local[t][s].free \in Seq(Blocks)
           /\ held' = held \cup {Head(local[t][s].free)}
           /\ Sets(t, s, [free |-> Tail(local[t][s].free),
                          chunk |-> local[t][s].chunk, at |-> local[t][s].at])
<1> DEFINE l == local[t][s]
           v == [free |-> Tail(l.free), chunk |-> l.chunk, at |-> l.at]
<1>1. local \in Locals /\ l \in ClassStates  BY DEF ChunkInv, Types, Locals
<1>2. l.free \in Seq(Blocks) /\ l.free # <<>>  BY <1>1 DEF Pop, ClassStates
<1>3. v \in ClassStates  BY <1>1, <1>2 DEF ClassStates
<1>4. local' = [local EXCEPT ![t] = [local[t] EXCEPT ![s] = v]]
  <2>1. [l EXCEPT !.free = Tail(l.free)] = v  BY <1>1, FieldUpdate
  <2>2. local' = [local EXCEPT ![t] = [local[t] EXCEPT ![s] = [l EXCEPT !.free = Tail(l.free)]]]
    BY DEF Pop
  <2> QED  BY <2>1, <2>2
<1>5. pc' = pc  BY DEF Pop, Go, ChunkInv, Types
<1>6. held' = held \cup {Head(l.free)}  BY DEF Pop
<1>7. Sets(t, s, v)
  <2> HIDE DEF v
  <2> QED  BY <1>1, <1>3, <1>4, LocalUpdate
<1> QED  BY <1>2, <1>5, <1>6, <1>7

\* The bump takes the next block of the thread's chunk, which is inside of it.
LEMMA BumpEffect ==
    ASSUME ChunkInv, NEW t \in Threads, NEW s \in Classes, Bump(t, s)
    PROVE  /\ pc' = pc
           /\ local[t][s].chunk \in Region /\ local[t][s].at + s <= Span
           /\ local[t][s].at % s = 0 /\ local[t][s].at \in Nat
           /\ held' = held \cup {Block(local[t][s].chunk, local[t][s].at, s)}
           /\ Block(local[t][s].chunk, local[t][s].at, s) \in Blocks
           /\ Sets(t, s, [free |-> local[t][s].free,
                          chunk |-> local[t][s].chunk, at |-> local[t][s].at + s])
<1> DEFINE l == local[t][s]
           v == [free |-> l.free, chunk |-> l.chunk, at |-> l.at + s]
<1>1. local \in Locals /\ l \in ClassStates  BY DEF ChunkInv, Types, Locals
<1>2. l.at \in 0 .. Span /\ l.at + s <= Span /\ s \in Nat \ {0} /\ Span \in Nat
  BY <1>1, ConstantFacts DEF Bump, ClassStates
<1>3. l.chunk # 0  BY <1>2 DEF ChunkInv, Aligned
<1>4. l.chunk \in Region /\ l.at % s = 0  BY <1>1, <1>3 DEF ChunkInv, Aligned, ClassStates
<1>5. v \in ClassStates  BY <1>1, <1>2 DEF ClassStates
<1>6. local' = [local EXCEPT ![t] = [local[t] EXCEPT ![s] = v]]
  <2>1. [l EXCEPT !.at = l.at + s] = v  BY <1>1, FieldUpdate
  <2>2. local' = [local EXCEPT ![t] = [local[t] EXCEPT ![s] = [l EXCEPT !.at = l.at + s]]]
    BY DEF Bump
  <2> QED  BY <2>1, <2>2
<1>7. pc' = pc  BY DEF Bump, Go, ChunkInv, Types
<1>8. held' = held \cup {Block(l.chunk, l.at, s)}  BY DEF Bump
<1>9. Block(l.chunk, l.at, s) \in Blocks  BY <1>2, <1>4 DEF Block, Blocks
<1>10. Sets(t, s, v)
  <2> HIDE DEF v
  <2> QED  BY <1>1, <1>5, <1>6, LocalUpdate
<1> QED  BY <1>2, <1>4, <1>7, <1>8, <1>9, <1>10

\* A chunk is taken into use.
LEMMA HeaderEffect ==
    ASSUME ChunkInv, NEW t \in Threads, Header(t), chunk[t] + 1 <= end, chunk[t] \in Region
    PROVE  /\ want[t] \in Classes
           /\ header' = [header EXCEPT ![chunk[t]] = want[t]]
           /\ held' = held \cup {Block(chunk[t], 0, want[t])}
           /\ Block(chunk[t], 0, want[t]) \in Blocks
           /\ Sets(t, want[t], [free |-> local[t][want[t]].free, chunk |-> chunk[t], at |-> want[t]])
<1> DEFINE s == want[t]
           l == local[t][s]
           v == [free |-> l.free, chunk |-> chunk[t], at |-> s]
<1>1. s \in Classes  BY DEF ChunkInv, Allocating, Header, Leave, Go
<1>2. local \in Locals /\ l \in ClassStates  BY <1>1 DEF ChunkInv, Types, Locals
<1>3. s \in 1 .. Span /\ Span \in Nat  BY <1>1, ClassesFit, SpanNat
<1>4. v \in ClassStates  BY <1>2, <1>3 DEF ClassStates
<1>5. local' = [local EXCEPT ![t] = [local[t] EXCEPT ![s] = v]]
  BY DEF Header
<1>6. header' = [header EXCEPT ![chunk[t]] = s] /\ held' = held \cup {Block(chunk[t], 0, s)}
  BY DEF Header
<1>7. Block(chunk[t], 0, s) \in Blocks  BY <1>1, <1>3 DEF Block, Blocks
<1>8. Sets(t, s, v)
  <2> HIDE DEF v, s
  <2> QED  BY <1>1, <1>2, <1>4, <1>5, LocalUpdate
<1> QED  BY <1>1, <1>6, <1>7, <1>8

\* A block that is freed joins the list that its chunk's header names.
LEMMA FreeEffect ==
    ASSUME ChunkInv, NEW t \in Threads, NEW b \in held, header[b.chunk] \in Classes, Free(t, b),
           base = Base
    PROVE  /\ held' = held \ {b}
           /\ Sets(t, header[b.chunk], [free |-> <<b>> \o local[t][header[b.chunk]].free,
                                        chunk |-> local[t][header[b.chunk]].chunk,
                                        at |-> local[t][header[b.chunk]].at])
<1> DEFINE s == header[b.chunk]
           l == local[t][s]
           v == [free |-> <<b>> \o l.free, chunk |-> l.chunk, at |-> l.at]
<1>1. local \in Locals /\ l \in ClassStates /\ b \in Blocks  BY DEF ChunkInv, Types, Locals
<1>2. <<b>> \o l.free \in Seq(Blocks)  BY <1>1 DEF ClassStates
<1>3. v \in ClassStates  BY <1>1, <1>2 DEF ClassStates
<1>4. local' = [local EXCEPT ![t] = [local[t] EXCEPT ![s] = v]]
  <2>1. [l EXCEPT !.free = <<b>> \o l.free] = v  BY <1>1, FieldUpdate
  <2>2. local' = [local EXCEPT ![t] = [local[t] EXCEPT ![s] = [l EXCEPT !.free = <<b>> \o l.free]]]
    BY DEF Free
  <2> QED  BY <2>1, <2>2
<1>5. held' = held \ {b}  BY DEF Free
<1>6. Sets(t, s, v)
  <2>1. s \in Classes  OBVIOUS
  <2> HIDE DEF v, s
  <2> QED  BY <1>1, <1>3, <1>4, <2>1, LocalUpdate
<1> QED  BY <1>5, <1>6


-----------------------------------------------------------------------------
(* The steps keep the chunks apart *)

\* Steps of a thread between its allocations that leave the chunks alone.
LEMMA ListStepKeeps ==
    ASSUME ChunkInv, local' \in Locals, held' \in SUBSET Blocks, pc' = pc,
           \A u \in Threads : \A r \in Classes :
               local'[u][r].chunk = local[u][r].chunk /\ local'[u][r].at = local[u][r].at,
           UNCHANGED <<region, header, want, chunk>>
    PROVE  Types' /\ Allocating' /\ Claimed' /\ Headed' /\ Aligned'
<1> USE DEF ChunkInv, Types
<1>1. Types'  BY DEF region, Locals
<1>2. Allocating'  BY DEF Allocating
<1>3. Claimed'
  <2>1. pc' = pc /\ chunk' = chunk /\ next' = next  BY DEF region
  <2>2. \A u \in Threads : pc'[u] = "header" => chunk'[u] < next'  BY <2>1 DEF Claimed
  <2>3. \A u \in Threads : \A r \in Classes : local'[u][r].chunk # 0 => local'[u][r].chunk < next'
    BY <2>1 DEF Claimed
  <2>4. \A u, v \in Threads : \A r \in Classes :
          pc'[u] = "header" /\ chunk'[u] # 0 => local'[v][r].chunk # chunk'[u]
    BY <2>1 DEF Claimed
  <2>5. \A u, v \in Threads : \A r, q \in Classes :
          local'[u][r].chunk # 0 /\ local'[u][r].chunk = local'[v][q].chunk => u = v /\ r = q
    BY DEF Claimed
  <2>6. \A u, v \in Threads :
          pc'[u] = "header" /\ pc'[v] = "header" /\ chunk'[u] = chunk'[v] => u = v
    BY <2>1 DEF Claimed
  <2> QED  BY <2>2, <2>3, <2>4, <2>5, <2>6 DEF Claimed
<1>4. Headed'  BY DEF Headed, region
<1>5. Aligned'  BY DEF Aligned
<1> QED  BY <1>1, <1>2, <1>3, <1>4, <1>5

\* A bump keeps the chunks' part of the invariant.
LEMMA BumpKeeps ==
    ASSUME ChunkInv, NEW t \in Threads, NEW s \in Classes, Bump(t, s)
    PROVE  Types' /\ Allocating' /\ Claimed' /\ Headed' /\ Aligned'
<1>1. /\ pc' = pc /\ UNCHANGED <<region, header, want, chunk>> /\ pc[t] = "run"
      /\ held' \in SUBSET Blocks /\ local' \in Locals
  <2>1. UNCHANGED <<region, header, want, chunk>> /\ pc[t] = "run"  BY DEF Bump, Go
  <2>2. held \in SUBSET Blocks  BY DEF ChunkInv, Types
  <2>3. pc' = pc /\ held' \in SUBSET Blocks /\ local' \in Locals  BY <2>2, BumpEffect DEF Sets
  <2> QED  BY <2>1, <2>3
<1>2. \A u \in Threads : \A r \in Classes :
        /\ local'[u][r].chunk = local[u][r].chunk
        /\ local'[u][r].at = IF u = t /\ r = s THEN local[t][s].at + s ELSE local[u][r].at
  <2> DEFINE v == [free |-> local[t][s].free, chunk |-> local[t][s].chunk, at |-> local[t][s].at + s]
  <2>1. v.chunk = local[t][s].chunk /\ v.at = local[t][s].at + s  OBVIOUS
  <2>2. \A u \in Threads : \A r \in Classes :
          local'[u][r] = IF u = t /\ r = s THEN v ELSE local[u][r]
    BY BumpEffect DEF Sets
  <2> HIDE DEF v
  <2> QED  BY <2>1, <2>2
<1>3. local[t][s].chunk # 0 /\ (local[t][s].at + s) % s = 0
  <2>1. s \in Nat \ {0}  BY ConstantFacts
  <2>2. (local[t][s].at + s) % s = 0  BY <2>1, BumpEffect, NextMultiple
  <2> QED  BY <2>2, BumpEffect, ConstantFacts
<1> USE DEF ChunkInv
<1>4. Types'  BY <1>1 DEF Types, region, Locals
<1>5. Allocating'  BY <1>1, <1>2 DEF Allocating, Types
<1>6. Claimed'  BY <1>1, <1>2 DEF Claimed, region
<1>7. Headed'  BY <1>1, <1>2 DEF Headed, region
<1>8. Aligned'  BY <1>2, <1>3 DEF Aligned
<1> QED  BY <1>4, <1>5, <1>6, <1>7, <1>8

\* The reservation.
LEMMA ReservationKeeps ==
    ASSUME ChunkInv, NEW t \in Threads,
           \/ \E s \in Classes : NewChunk(t, s)
           \/ Map(t) \/ GiveUp(t) \/ Exchange(t) \/ StoreNext(t) \/ StoreEnd(t) \/ Reload(t)
    PROVE  Types' /\ Allocating' /\ Claimed' /\ Headed' /\ Aligned'
<1> USE DEF ChunkInv
<1>1. /\ UNCHANGED <<header, local, held>>
      /\ chunk' = chunk \/ (chunk' = [chunk EXCEPT ![t] = 0] /\ pc' = [pc EXCEPT ![t] = "run"])
      /\ next' \in Nat /\ next' >= next
  <2>1. StoreNext(t) => next < Base  BY DEF StoreNext, Go, Reserved
  <2> QED  BY <2>1, ConstantFacts
      DEF NewChunk, Map, GiveUp, Exchange, StoreNext, StoreEnd, Reload, Leave, Go, region, Types
<1>2. \E to \in Steps : to # "header" /\ pc' = [pc EXCEPT ![t] = to]
  <2> DEFINE P(to) == pc' = [pc EXCEPT ![t] = to]
  <2>1. P("run") \/ P("map") \/ P("giveUp") \/ P("exchange") \/ P("storeNext") \/ P("storeEnd")
        \/ P("reload") \/ P("carve")
    BY DEF NewChunk, Map, GiveUp, Exchange, StoreNext, StoreEnd, Reload, Leave, Go
  <2> HIDE DEF P
  <2>2. \E to \in Steps : to # "header" /\ P(to)  BY <2>1 DEF Steps
  <2> QED  BY <2>2 DEF P
<1>3. base' \in {0, Base, Failed} /\ end' \in Nat /\ want' \in [Threads -> Classes \cup {0}]
  <2>1. base' = base \/ base' = Base \/ base' = Failed
    BY DEF NewChunk, Map, GiveUp, Exchange, StoreNext, StoreEnd, Reload, region
  <2>2. end' = end \/ end' = Base + Chunks
    BY DEF NewChunk, Map, GiveUp, Exchange, StoreNext, StoreEnd, Reload, region
  <2>3. want' = want \/ \E s \in Classes \cup {0} : want' = [want EXCEPT ![t] = s]
    BY DEF NewChunk, Map, GiveUp, Exchange, StoreNext, StoreEnd, Reload, Leave
  <2>4. want' \in [Threads -> Classes \cup {0}]  BY <2>3 DEF Types
  <2> QED  BY <2>1, <2>2, <2>4, ConstantFacts DEF Types
<1>4. Types'
  <2>1. pc' \in [Threads -> Steps]  BY <1>2 DEF Types
  <2>2. chunk' \in [Threads -> Nat]  BY <1>1 DEF Types
  <2> QED  BY <1>1, <1>3, <2>1, <2>2 DEF Types
<1>5. Allocating'
  <2>1. CASE \E s \in Classes : NewChunk(t, s)
    <3>1. PICK s \in Classes : NewChunk(t, s)  BY <2>1
    <3>2. want' = [want EXCEPT ![t] = s] /\ local' = local /\ local[t][s].at + s > Span
      BY <3>1 DEF NewChunk
    <3> QED  BY <1>2, <3>2 DEF Allocating, Types
  <2>2. CASE Map(t) \/ Exchange(t) \/ StoreNext(t) \/ StoreEnd(t)
    <3>1. want' = want /\ local' = local /\ pc[t] # "run"
      BY <2>2 DEF Map, Exchange, StoreNext, StoreEnd, Go
    <3> QED  BY <1>2, <3>1 DEF Allocating, Types
  <2>3. CASE GiveUp(t) \/ Reload(t)
    <3>1. \/ want' = [want EXCEPT ![t] = 0] /\ pc' = [pc EXCEPT ![t] = "run"]
          \/ want' = want /\ pc[t] # "run"
      BY <2>3 DEF GiveUp, Reload, Leave, Go
    <3> QED  BY <1>1, <1>2, <3>1 DEF Allocating, Types
  <2> QED  BY <2>1, <2>2, <2>3
<1>6. \A u \in Threads : pc'[u] = "header" => u # t /\ pc[u] = "header" /\ chunk'[u] = chunk[u]
  BY <1>1, <1>2 DEF Types
<1>7. Claimed'
  <2>1. \A u \in Threads : pc'[u] = "header" => chunk'[u] < next'  BY <1>1, <1>6 DEF Claimed, Types
  <2>2. \A u \in Threads : \A s \in Classes : local'[u][s].chunk # 0 => local'[u][s].chunk < next'
    <3> SUFFICES ASSUME NEW u \in Threads, NEW s \in Classes, local[u][s].chunk # 0
                 PROVE  local[u][s].chunk < next'
      BY <1>1
    <3>1. local[u][s].chunk < next  BY DEF Claimed
    <3>2. local[u][s].chunk \in Nat  BY ConstantFacts DEF Types, ClassStates
    <3> QED  BY <1>1, <3>1, <3>2 DEF Types
  <2> QED  BY <1>1, <1>6, <2>1, <2>2 DEF Claimed
<1>8. Headed'
  <2>1. \A c \in Region : header'[c] # 0 => c < next'
    BY <1>1, ConstantFacts DEF Headed, Types
  <2> QED  BY <1>1, <1>6, <2>1 DEF Headed
<1>9. Aligned'  BY <1>1 DEF Aligned
<1> QED  BY <1>4, <1>5, <1>7, <1>8, <1>9

\* The fetch_add on REGION_NEXT gives a thread a chunk that nobody has.
LEMMA CarveKeeps ==
    ASSUME ChunkInv, NEW t \in Threads, Carve(t)
    PROVE  Types' /\ Allocating' /\ Claimed' /\ Headed' /\ Aligned'
<1> USE DEF ChunkInv
<1>1. /\ UNCHANGED <<base, end, header, local, want, held>>
      /\ pc[t] = "carve" /\ pc' = [pc EXCEPT ![t] = "header"]
      /\ chunk' = [chunk EXCEPT ![t] = next] /\ next' = next + 1 /\ next \in Nat
  BY DEF Carve, Go, Types
<1>2. Types'  BY <1>1 DEF Types, Steps
<1>3. Allocating'  BY <1>1 DEF Allocating, Types
<1>4. \A u \in Threads : \A s \in Classes :
        local[u][s].chunk \in Nat /\ (local[u][s].chunk # 0 => local[u][s].chunk < next)
  BY ConstantFacts DEF Types, ClassStates, Claimed
<1>5. Claimed'
  <2>1. \A u \in Threads : chunk[u] \in Nat /\ (pc[u] = "header" => chunk[u] < next)
    BY DEF Claimed, Types
  <2>2. /\ chunk'[t] = next
        /\ \A u \in Threads : u # t => chunk'[u] = chunk[u] /\ pc'[u] = pc[u]
    BY <1>1 DEF Types
  <2>3. \A u \in Threads : pc'[u] = "header" => chunk'[u] < next'  BY <1>1, <2>1, <2>2
  <2>4. \A u, v \in Threads :
          pc'[u] = "header" /\ pc'[v] = "header" /\ chunk'[u] = chunk'[v] => u = v
    BY <1>1, <2>1, <2>2 DEF Claimed
  <2>5. \A u, v \in Threads : \A s \in Classes :
          pc'[u] = "header" /\ chunk'[u] # 0 => local[v][s].chunk # chunk'[u]
    BY <1>4, <2>2 DEF Claimed
  <2>6. \A u \in Threads : \A s \in Classes : local[u][s].chunk # 0 => local[u][s].chunk < next'
    BY <1>1, <1>4
  <2> QED  BY <1>1, <2>3, <2>4, <2>5, <2>6 DEF Claimed
<1>6. Headed'
  <2>1. \A c \in Region : c \in Nat /\ (header[c] # 0 => c < next)  BY ConstantFacts DEF Headed
  <2>2. \A u \in Threads : pc'[u] = "header" /\ chunk'[u] \in Region => header[chunk'[u]] = 0
    BY <1>1, <2>1 DEF Headed, Types
  <2> QED  BY <1>1, <2>1, <2>2 DEF Headed
<1>7. Aligned'  BY <1>1 DEF Aligned
<1> QED  BY <1>2, <1>3, <1>5, <1>6, <1>7

\* Writing the header makes the chunk the thread's for one class.
LEMMA HeaderKeeps ==
    ASSUME ChunkInv, NEW t \in Threads, Header(t)
    PROVE  Types' /\ Allocating' /\ Claimed' /\ Headed' /\ Aligned'
<1> USE DEF ChunkInv
<1>1. /\ UNCHANGED <<base, next, end>>
      /\ pc[t] = "header" /\ pc' = [pc EXCEPT ![t] = "run"]
      /\ want' = [want EXCEPT ![t] = 0] /\ chunk' = [chunk EXCEPT ![t] = 0]
  BY DEF Header, Leave, Go, region
<1>2. /\ pc' \in [Threads -> Steps] /\ want' \in [Threads -> Classes \cup {0}]
      /\ chunk' \in [Threads -> Nat]
  BY <1>1 DEF Types, Steps
<1>3. \A u \in Threads : pc'[u] # "run" =>
        u # t /\ pc'[u] = pc[u] /\ want'[u] = want[u] /\ chunk'[u] = chunk[u]
  BY <1>1 DEF Types
<1>4. CASE chunk[t] + 1 <= end /\ chunk[t] \in Region
  <2> DEFINE c == chunk[t]
             s == want[t]
             v == [free |-> local[t][s].free, chunk |-> c, at |-> s]
  <2>1. /\ s \in Classes /\ header' = [header EXCEPT ![c] = s]
        /\ held' = held \cup {Block(c, 0, s)} /\ Block(c, 0, s) \in Blocks
        /\ Sets(t, s, v)
    BY <1>4, HeaderEffect
  <2>2. c \in Region /\ c # 0 /\ c < next /\ header[c] = 0
    BY <1>1, <1>4, ConstantFacts DEF Claimed, Headed
  <2>3. v.chunk = c /\ v.at = s  OBVIOUS
  <2>4. /\ local' \in Locals
        /\ \A u \in Threads : \A r \in Classes :
             local'[u][r] = IF u = t /\ r = s THEN v ELSE local[u][r]
    BY <2>1 DEF Sets
  <2>5. \A u \in Threads : \A r \in Classes : local[u][r].chunk # c
    BY <1>1, <2>2 DEF Claimed
  <2>6. \A u \in Threads : pc'[u] = "header" => chunk'[u] # c  BY <1>1, <1>3 DEF Claimed
  <2> HIDE DEF c, s, v
  <2>7. Types'
    <3>1. header' \in [Region -> Classes \cup {0}]  BY <2>1, <2>2 DEF Types
    <3>2. held' \in SUBSET Blocks  BY <2>1 DEF Types
    <3> QED  BY <1>1, <1>2, <2>4, <3>1, <3>2 DEF Types, Locals
  <2>8. Allocating'
    <3> SUFFICES ASSUME NEW u \in Threads, pc'[u] # "run"
                 PROVE  want'[u] \in Classes /\ local'[u][want'[u]].at + want'[u] > Span
      BY DEF Allocating
    <3>1. u # t /\ want'[u] = want[u] /\ pc[u] # "run"  BY <1>3
    <3>2. want[u] \in Classes /\ local[u][want[u]].at + want[u] > Span  BY <3>1 DEF Allocating
    <3> QED  BY <2>4, <3>1, <3>2
  <2>9. Claimed'
    <3>1. \A u \in Threads : pc'[u] = "header" => chunk'[u] < next'  BY <1>1, <1>3 DEF Claimed
    <3>2. \A u \in Threads : \A r \in Classes : local'[u][r].chunk # 0 => local'[u][r].chunk < next'
      BY <1>1, <2>2, <2>3, <2>4 DEF Claimed
    <3>3. \A u, w \in Threads :
            pc'[u] = "header" /\ pc'[w] = "header" /\ chunk'[u] = chunk'[w] => u = w
      BY <1>3 DEF Claimed
    <3>4. \A u, w \in Threads : \A r \in Classes :
            pc'[u] = "header" /\ chunk'[u] # 0 => local'[w][r].chunk # chunk'[u]
      BY <1>3, <2>3, <2>4, <2>6 DEF Claimed
    <3>5. \A u, w \in Threads : \A r, q \in Classes :
            local'[u][r].chunk # 0 /\ local'[u][r].chunk = local'[w][q].chunk => u = w /\ r = q
      BY <2>3, <2>4, <2>5 DEF Claimed
    <3> QED  BY <3>1, <3>2, <3>3, <3>4, <3>5 DEF Claimed
  <2>10. Headed'
    <3>1. \A u \in Threads : \A r \in Classes :
            local'[u][r].chunk # 0 => header'[local'[u][r].chunk] = r
      <4> SUFFICES ASSUME NEW u \in Threads, NEW r \in Classes, local'[u][r].chunk # 0
                   PROVE  header'[local'[u][r].chunk] = r
        OBVIOUS
      <4>1. CASE u = t /\ r = s  BY <2>1, <2>2, <2>3, <2>4, <4>1 DEF Types
      <4>2. CASE ~(u = t /\ r = s)
        <5>1. local'[u][r] = local[u][r] /\ local[u][r].chunk # c  BY <2>4, <2>5, <4>2
        <5>2. header[local[u][r].chunk] = r /\ local[u][r].chunk \in Region
          BY <5>1 DEF Headed, Types, ClassStates
        <5> QED  BY <2>1, <5>1, <5>2 DEF Types
      <4> QED  BY <4>1, <4>2
    <3>2. \A d \in Region : header'[d] # 0 => d < next'  BY <1>1, <2>1, <2>2 DEF Headed, Types
    <3>3. \A u \in Threads : pc'[u] = "header" /\ chunk'[u] \in Region => header'[chunk'[u]] = 0
      BY <1>3, <2>1, <2>6 DEF Headed, Types
    <3> QED  BY <3>1, <3>2, <3>3 DEF Headed
  <2>11. Aligned'
    <3>1. s % s = 0
      <4>1. s \in Nat \ {0} /\ s * 1 = s  BY <2>1, ConstantFacts
      <4> QED  BY <4>1, MultipleHasNoRest
    <3> QED  BY <2>2, <2>3, <2>4, <3>1 DEF Aligned
  <2> QED  BY <2>7, <2>8, <2>9, <2>10, <2>11
<1>5. CASE ~(chunk[t] + 1 <= end /\ chunk[t] \in Region)
  <2>1. UNCHANGED <<header, local, held>>  BY <1>5 DEF Header
  <2>2. Types'  BY <1>1, <1>2, <2>1 DEF Types
  <2>3. Allocating'  BY <1>3, <2>1 DEF Allocating
  <2>4. Claimed'  BY <1>1, <1>3, <2>1 DEF Claimed
  <2>5. Headed'  BY <1>1, <1>3, <2>1 DEF Headed
  <2>6. Aligned'  BY <2>1 DEF Aligned
  <2> QED  BY <2>2, <2>3, <2>4, <2>5, <2>6
<1> QED  BY <1>4, <1>5

-----------------------------------------------------------------------------
(* Where a block is *)

\* The block was carved from its chunk.
Out(b) ==
    /\ header[b.chunk] = b.size
    /\ b.at % b.size = 0
    /\ b.at + b.size <= Span
    /\ \A t \in Threads : local[t][b.size].chunk = b.chunk => b.at + b.size <= local[t][b.size].at

\* The block is in place i of the list of thread t and class s.
IsAt(b, t, s, i) == i \in 1 .. Len(local[t][s].free) /\ local[t][s].free[i] = b

OnList(b) == \E t \in Threads, s \in Classes, i \in Nat : IsAt(b, t, s, i)

\* The program holds what was carved and is on no list; a list of a class has
\* blocks of that class that were carved, and none twice.
Placed ==
    /\ \A b \in held : Out(b) /\ ~OnList(b)
    /\ \A b \in Blocks : \A t \in Threads, s \in Classes, i \in Nat :
          IsAt(b, t, s, i) => s = b.size /\ Out(b)
    /\ \A b \in Blocks : \A t, u \in Threads, s, r \in Classes, i, j \in Nat :
          IsAt(b, t, s, i) /\ IsAt(b, u, r, j) => t = u /\ s = r /\ i = j
    /\ \A b \in Blocks : Out(b) => b \in held \/ OnList(b)

\* What a block's fields are.
LEMMA BlockFields ==
    ASSUME NEW b \in Blocks
    PROVE  /\ b.chunk \in Region /\ b.at \in Nat /\ b.size \in Classes
           /\ b.size \in Nat \ {0} /\ b.chunk # 0
           /\ b = Block(b.chunk, b.at, b.size)
<1>1. b \in [chunk : Region, at : 0 .. Span - 1, size : Classes]  BY DEF Blocks
<1>2. b.chunk \in Region /\ b.at \in 0 .. Span - 1 /\ b.size \in Classes  BY <1>1
<1>3. b = Block(b.chunk, b.at, b.size)  BY <1>1 DEF Block
<1>4. b.at \in Nat  BY <1>2, SpanNat
<1>5. b.size \in Nat \ {0}  BY <1>2, ConstantFacts
<1>6. b.chunk # 0  BY <1>2, ConstantFacts
<1> QED  BY <1>2, <1>3, <1>4, <1>5, <1>6

\* Before the first allocation there is no block anywhere.
LEMMA PlacedInit == Init => Placed
<1> SUFFICES ASSUME Init PROVE Placed  OBVIOUS
<1>1. \A t \in Threads : \A s \in Classes : local[t][s].free = <<>>  BY DEF Init, Nothing
<1>2. \A b \in Blocks : ~Out(b)
  <2> SUFFICES ASSUME NEW b \in Blocks PROVE header[b.chunk] # b.size  BY DEF Out
  <2> QED  BY BlockFields DEF Init
<1>3. \A b, t, s, i : t \in Threads /\ s \in Classes => ~IsAt(b, t, s, i)  BY <1>1 DEF IsAt
<1>4. held = {}  BY DEF Init
<1> QED  BY <1>2, <1>3, <1>4 DEF Placed

\* A block that was not carved before is handed out; the lists stay.
LEMMA NewBlockKeeps ==
    ASSUME Types, Placed, NEW nb \in Blocks, held' = held \cup {nb}, ~Out(nb),
           \A u \in Threads : \A r \in Classes : local'[u][r].free = local[u][r].free,
           \A b \in Blocks : Out(b)' <=> Out(b) \/ b = nb
    PROVE  Placed'
<1>1. \A b : \A u \in Threads, r \in Classes, i \in Nat : IsAt(b, u, r, i)' <=> IsAt(b, u, r, i)
  BY DEF IsAt
<1>2. \A b : OnList(b)' <=> OnList(b)  BY <1>1 DEF OnList
<1>3. ~OnList(nb)  BY DEF Placed, OnList
<1>4. held \subseteq Blocks  BY DEF Types
<1>5. \A b \in held' : Out(b)' /\ ~OnList(b)'  BY <1>2, <1>3, <1>4 DEF Placed
<1>6. \A b \in Blocks : Out(b)' => b \in held' \/ OnList(b)'  BY <1>2 DEF Placed
<1>7. \A b \in Blocks : \A t \in Threads, r \in Classes, i \in Nat :
          IsAt(b, t, r, i)' => r = b.size /\ Out(b)'
  BY <1>1 DEF Placed
<1>8. \A b \in Blocks : \A t, u \in Threads, q, r \in Classes, i, j \in Nat :
          IsAt(b, t, q, i)' /\ IsAt(b, u, r, j)' => t = u /\ q = r /\ i = j
  BY <1>1 DEF Placed
<1> QED  BY <1>5, <1>6, <1>7, <1>8 DEF Placed

\* Bump serves the block at the start of the rest.
LEMMA BumpPlaces ==
    ASSUME ChunkInv, Placed, NEW t \in Threads, NEW s \in Classes, Bump(t, s)
    PROVE  Placed'
<1> DEFINE c == local[t][s].chunk
           a == local[t][s].at
           nb == Block(c, a, s)
           v == [free |-> local[t][s].free, chunk |-> c, at |-> a + s]
<1>1. /\ c \in Region /\ a + s <= Span /\ a % s = 0 /\ a \in Nat
      /\ held' = held \cup {nb} /\ nb \in Blocks /\ Sets(t, s, v)
  BY BumpEffect
<1>2. header' = header /\ s \in Nat \ {0} /\ c # 0 /\ Span \in Nat  BY <1>1, ConstantFacts DEF Bump
<1>3. v.free = local[t][s].free /\ v.chunk = c /\ v.at = a + s  OBVIOUS
<1>4. nb.chunk = c /\ nb.at = a /\ nb.size = s  BY DEF Block
<1>5. \A u \in Threads : \A r \in Classes :
        local'[u][r] = IF u = t /\ r = s THEN v ELSE local[u][r]
  BY <1>1 DEF Sets
<1>6. header[c] = s /\ \A u \in Threads : \A r \in Classes : local[u][r].chunk = c => u = t /\ r = s
  BY <1>2 DEF ChunkInv, Headed, Claimed
<1>7. \A b \in Blocks : b = nb <=> b.chunk = c /\ b.at = a /\ b.size = s
  BY <1>4, BlockFields
<1> HIDE DEF nb, v
<1>8. ~Out(nb)
  <2>1. local[t][nb.size].chunk = nb.chunk /\ ~(nb.at + nb.size <= local[t][nb.size].at)
    BY <1>1, <1>2, <1>4
  <2> QED  BY <2>1 DEF Out
<1>9. ASSUME NEW b \in Blocks
      PROVE  Out(b)' <=> Out(b) \/ b = nb
  <2> USE BlockFields
  <2>1. Out(b)' <=> /\ header[b.chunk] = b.size /\ b.at % b.size = 0 /\ b.at + b.size <= Span
                    /\ \A u \in Threads : local'[u][b.size].chunk = b.chunk =>
                                             b.at + b.size <= local'[u][b.size].at
    BY <1>2 DEF Out
  <2>2. CASE b.chunk = c /\ b.size = s
    <3>1. (\A u \in Threads : local'[u][b.size].chunk = b.chunk => b.at + b.size <= local'[u][b.size].at)
             <=> b.at + s <= a + s
      BY <1>3, <1>5, <1>6, <2>2
    <3>2. (\A u \in Threads : local[u][b.size].chunk = b.chunk => b.at + b.size <= local[u][b.size].at)
             <=> b.at + s <= a
      BY <1>6, <2>2
    <3>3. Out(b)' <=> b.at % s = 0 /\ b.at <= a /\ b.at + s <= Span
      BY <1>1, <1>2, <1>6, <2>1, <2>2, <3>1
    <3>4. Out(b) <=> b.at % s = 0 /\ b.at + s <= a /\ b.at + s <= Span
      BY <1>6, <2>2, <3>2 DEF Out
    <3>5. b.at % s = 0 /\ b.at < a => b.at + s <= a  BY <1>1, <1>2, MultiplesApart
    <3> QED  BY <1>1, <1>2, <1>7, <2>2, <3>3, <3>4, <3>5
  <2>3. CASE ~(b.chunk = c /\ b.size = s)
    <3>1. b # nb  BY <1>7, <2>3
    <3>2. \A u \in Threads : local'[u][b.size].chunk = b.chunk => local'[u][b.size] = local[u][b.size]
      BY <1>3, <1>5, <2>3
    <3>3. \A u \in Threads : local[u][b.size].chunk = b.chunk => local'[u][b.size] = local[u][b.size]
      BY <1>5, <2>3
    <3> QED  BY <2>1, <3>1, <3>2, <3>3 DEF Out
  <2> QED  BY <2>2, <2>3
<1>10. \A u \in Threads : \A r \in Classes : local'[u][r].free = local[u][r].free  BY <1>3, <1>5
<1> QED  BY <1>1, <1>8, <1>9, <1>10, NewBlockKeeps DEF ChunkInv

\* Header serves the first block of a new chunk; the chunk that the thread
\* leaves has no room for another block.
LEMMA HeaderPlaces ==
    ASSUME ChunkInv, Placed, NEW t \in Threads, Header(t), chunk[t] + 1 <= end, chunk[t] \in Region
    PROVE  Placed'
<1> DEFINE c == chunk[t]
           s == want[t]
           a == local[t][s].at
           nb == Block(c, 0, s)
           v == [free |-> local[t][s].free, chunk |-> c, at |-> s]
<1>0. pc[t] = "header"  BY DEF Header, Leave, Go
<1>1. /\ s \in Classes /\ header' = [header EXCEPT ![c] = s]
      /\ held' = held \cup {nb} /\ nb \in Blocks /\ Sets(t, s, v)
  BY HeaderEffect
<1>2. /\ s \in Nat \ {0} /\ s <= Span /\ Span \in Nat /\ c \in Region /\ c # 0
      /\ local[t][s] \in ClassStates /\ a \in Nat /\ a + s > Span
  <2>1. s \in Nat \ {0} /\ s <= Span /\ Span \in Nat /\ c \in Region /\ c # 0
    BY <1>1, ConstantFacts
  <2>2. local[t][s] \in ClassStates  BY <1>1 DEF ChunkInv, Types
  <2>3. a \in Nat  BY <2>2 DEF ClassStates
  <2>4. a + s > Span  BY <1>0 DEF ChunkInv, Allocating
  <2> QED  BY <2>1, <2>2, <2>3, <2>4
<1>3. v.free = local[t][s].free /\ v.chunk = c /\ v.at = s  OBVIOUS
<1>4. nb.chunk = c /\ nb.at = 0 /\ nb.size = s  BY DEF Block
<1>5. \A u \in Threads : \A r \in Classes :
        local'[u][r] = IF u = t /\ r = s THEN v ELSE local[u][r]
  BY <1>1 DEF Sets
<1>6. header[c] = 0 /\ \A u \in Threads : \A r \in Classes : local[u][r].chunk # c
  BY <1>0, <1>2 DEF ChunkInv, Headed, Claimed
<1>7. \A b \in Blocks : b = nb <=> b.chunk = c /\ b.at = 0 /\ b.size = s
  BY <1>4, BlockFields
<1>8. header' \in [Region -> Classes \cup {0}] /\ header \in [Region -> Classes \cup {0}]
  BY <1>1, <1>2 DEF ChunkInv, Types
<1>9. local[t][s].chunk # 0 => a % s = 0  BY <1>1 DEF ChunkInv, Aligned
<1> HIDE DEF nb, v, c, s, a
<1>10. ~Out(nb)  BY <1>2, <1>4, <1>6 DEF Out
<1>11. ASSUME NEW b \in Blocks
       PROVE  Out(b)' <=> Out(b) \/ b = nb
  <2> USE BlockFields
  <2>1. Out(b)' <=> /\ header'[b.chunk] = b.size /\ b.at % b.size = 0 /\ b.at + b.size <= Span
                    /\ \A u \in Threads : local'[u][b.size].chunk = b.chunk =>
                                             b.at + b.size <= local'[u][b.size].at
    BY DEF Out
  <2>2. CASE b.chunk = c
    <3>1. ~Out(b)  BY <1>2, <1>6, <2>2 DEF Out
    <3>2. header'[b.chunk] = s  BY <1>1, <1>2, <1>8, <2>2 DEF ChunkInv, Types
    <3>3. ASSUME b.size = s
          PROVE  (\A u \in Threads : local'[u][b.size].chunk = b.chunk =>
                                        b.at + b.size <= local'[u][b.size].at) <=> b.at + s <= s
      BY <1>1, <1>3, <1>5, <1>6, <2>2, <3>3
    <3>4. 0 % s = 0  BY <1>2, MultipleHasNoRest
    <3>5. b.at = 0 => b.at + s <= s /\ b.at + s <= Span  BY <1>2
    <3>6. b.at + s <= s => b.at = 0  BY <1>2
    <3> QED  BY <1>7, <2>1, <2>2, <3>1, <3>2, <3>3, <3>4, <3>5, <3>6
  <2>3. CASE b.chunk # c
    <3>1. b # nb /\ header'[b.chunk] = header[b.chunk]  BY <1>1, <1>7, <1>8, <2>3
    <3>2. \A u \in Threads : local'[u][b.size].chunk = b.chunk => local'[u][b.size] = local[u][b.size]
      BY <1>3, <1>5, <2>3
    <3>3. ASSUME NEW u \in Threads, local[u][b.size].chunk = b.chunk,
                 b.at % b.size = 0, b.at + b.size <= Span
          PROVE  local'[u][b.size] = local[u][b.size] \/ b.at + b.size <= local[u][b.size].at
      <4>1. CASE u = t /\ b.size = s
        <5>1. a % s = 0 /\ local[u][b.size].at = a  BY <1>9, <3>3, <4>1 DEF a
        <5>2. b.at < a  BY <1>2, <3>3, <4>1
        <5> QED  BY <1>2, <3>3, <4>1, <5>1, <5>2, MultiplesApart
      <4>2. CASE ~(u = t /\ b.size = s)  BY <1>5, <4>2
      <4> QED  BY <4>1, <4>2
    <3> QED  BY <2>1, <3>1, <3>2, <3>3 DEF Out
  <2> QED  BY <2>2, <2>3
<1>12. \A u \in Threads : \A r \in Classes : local'[u][r].free = local[u][r].free
  BY <1>3, <1>5
<1> QED  BY <1>1, <1>10, <1>11, <1>12, NewBlockKeeps DEF ChunkInv

\* Lists and rests that only change their lists leave what was carved.
LEMMA SameOut ==
    ASSUME header' = header,
           \A u \in Threads : \A r \in Classes :
               local'[u][r].chunk = local[u][r].chunk /\ local'[u][r].at = local[u][r].at
    PROVE  \A b \in Blocks : Out(b)' <=> Out(b)
<1> SUFFICES ASSUME NEW b \in Blocks PROVE Out(b)' <=> Out(b)  OBVIOUS
<1>1. b.size \in Classes  BY BlockFields
<1> QED  BY <1>1 DEF Out

\* Pop moves the first block of a list to the program.
LEMMA PopPlaces ==
    ASSUME ChunkInv, Placed, NEW t \in Threads, NEW s \in Classes, Pop(t, s)
    PROVE  Types' /\ Allocating' /\ Claimed' /\ Headed' /\ Aligned' /\ Placed'
<1> DEFINE f == local[t][s].free
           h == Head(f)
           v == [free |-> Tail(f), chunk |-> local[t][s].chunk, at |-> local[t][s].at]
<1>1. /\ pc' = pc /\ f # <<>> /\ f \in Seq(Blocks) /\ held' = held \cup {h} /\ Sets(t, s, v)
  BY PopEffect
<1>2. UNCHANGED <<region, header, want, chunk>>  BY DEF Pop
<1>3. v.free = Tail(f) /\ v.chunk = local[t][s].chunk /\ v.at = local[t][s].at  OBVIOUS
<1>4. /\ local' \in Locals
      /\ \A u \in Threads : \A r \in Classes :
           local'[u][r] = IF u = t /\ r = s THEN v ELSE local[u][r]
  BY <1>1 DEF Sets
<1>5. /\ h \in Blocks /\ h = f[1] /\ Len(f) \in Nat \ {0} /\ Len(Tail(f)) = Len(f) - 1
      /\ \A i \in 1 .. Len(f) - 1 : Tail(f)[i] = f[i + 1]
  BY <1>1
<1> HIDE DEF v, h
<1>6. \A u \in Threads : \A r \in Classes :
        local'[u][r].chunk = local[u][r].chunk /\ local'[u][r].at = local[u][r].at
  BY <1>3, <1>4
<1>7. held \in SUBSET Blocks /\ held' \in SUBSET Blocks  BY <1>1, <1>5 DEF ChunkInv, Types
<1>8. Types' /\ Allocating' /\ Claimed' /\ Headed' /\ Aligned'
  BY <1>1, <1>2, <1>4, <1>6, <1>7, ListStepKeeps
<1>9. \A b \in Blocks : Out(b)' <=> Out(b)  BY <1>2, <1>6, SameOut
\* Where a block is after the step, from where it was.
<1>10. ASSUME NEW b, NEW u \in Threads, NEW r \in Classes, NEW i \in Nat
       PROVE  IsAt(b, u, r, i)' <=> IF u = t /\ r = s THEN i # 0 /\ IsAt(b, t, s, i + 1)
                                                     ELSE IsAt(b, u, r, i)
  <2>1. CASE u = t /\ r = s
    <3>1. IsAt(b, u, r, i)' <=> i \in 1 .. Len(f) - 1 /\ Tail(f)[i] = b
      BY <1>3, <1>4, <1>5, <2>1 DEF IsAt
    <3>2. IsAt(b, t, s, i + 1) <=> i + 1 \in 1 .. Len(f) /\ f[i + 1] = b  BY DEF IsAt
    <3>3. i \in 1 .. Len(f) - 1 <=> i # 0 /\ i + 1 \in 1 .. Len(f)  BY <1>5
    <3> QED  BY <1>5, <2>1, <3>1, <3>2, <3>3
  <2>2. CASE ~(u = t /\ r = s)  BY <1>4, <2>2 DEF IsAt
  <2> QED  BY <2>1, <2>2
<1>11. IsAt(h, t, s, 1)  BY <1>5 DEF IsAt
<1>12. \A b \in Blocks : OnList(b)' => OnList(b) /\ b # h
  <2> SUFFICES ASSUME NEW b \in Blocks, OnList(b)' PROVE OnList(b) /\ b # h  OBVIOUS
  <2>1. PICK u \in Threads, r \in Classes, i \in Nat : IsAt(b, u, r, i)'  BY DEF OnList
  <2>2. CASE u = t /\ r = s
    <3>1. i # 0 /\ IsAt(b, t, s, i + 1) /\ i + 1 \in Nat /\ i + 1 # 1  BY <1>10, <2>1, <2>2
    <3> QED  BY <1>11, <3>1 DEF OnList, Placed
  <2>3. CASE ~(u = t /\ r = s)
    <3>1. IsAt(b, u, r, i)  BY <1>10, <2>1, <2>3
    <3> QED  BY <1>11, <2>3, <3>1 DEF OnList, Placed
  <2> QED  BY <2>2, <2>3
<1>13. \A b \in Blocks : OnList(b) /\ b # h => OnList(b)'
  <2> SUFFICES ASSUME NEW b \in Blocks, OnList(b), b # h PROVE OnList(b)'  OBVIOUS
  <2>1. PICK u \in Threads, r \in Classes, i \in Nat : IsAt(b, u, r, i)  BY DEF OnList
  <2>2. CASE u = t /\ r = s
    <3>1. i \in 1 .. Len(f) /\ i # 1  BY <1>5, <2>1, <2>2 DEF IsAt
    <3>2. i - 1 \in Nat /\ i - 1 # 0 /\ (i - 1) + 1 = i  BY <1>5, <3>1
    <3>3. IsAt(b, t, s, i - 1)'  BY <1>10, <2>1, <2>2, <3>2
    <3> QED  BY <3>2, <3>3 DEF OnList
  <2>3. CASE ~(u = t /\ r = s)
    <3>1. IsAt(b, u, r, i)'  BY <1>10, <2>1, <2>3
    <3> QED  BY <3>1 DEF OnList
  <2> QED  BY <2>2, <2>3
<1>14. Placed'
  <2>1. Out(h)  BY <1>5, <1>11 DEF Placed
  <2>2. \A b \in held' : Out(b)' /\ ~OnList(b)'
    BY <1>1, <1>5, <1>7, <1>9, <1>12, <2>1 DEF Placed
  <2>3. \A b \in Blocks : Out(b)' => b \in held' \/ OnList(b)'
    BY <1>1, <1>9, <1>13 DEF Placed
  <2>4. \A b \in Blocks : \A u \in Threads, r \in Classes, i \in Nat :
            IsAt(b, u, r, i)' => r = b.size /\ Out(b)'
    <3> SUFFICES ASSUME NEW b \in Blocks, NEW u \in Threads, NEW r \in Classes, NEW i \in Nat,
                        IsAt(b, u, r, i)'
                 PROVE  r = b.size /\ Out(b)'
      OBVIOUS
    <3>1. \E j \in Nat : IsAt(b, u, r, j)  BY <1>10
    <3> QED  BY <1>9, <3>1 DEF Placed
  <2>5. \A b \in Blocks : \A u, w \in Threads, r, q \in Classes, i, j \in Nat :
            IsAt(b, u, r, i)' /\ IsAt(b, w, q, j)' => u = w /\ r = q /\ i = j
    <3> SUFFICES ASSUME NEW b \in Blocks, NEW u \in Threads, NEW w \in Threads,
                        NEW r \in Classes, NEW q \in Classes, NEW i \in Nat, NEW j \in Nat,
                        IsAt(b, u, r, i)', IsAt(b, w, q, j)'
                 PROVE  u = w /\ r = q /\ i = j
      OBVIOUS
    <3>1. PICK k \in Nat : IsAt(b, u, r, k) /\ k = IF u = t /\ r = s THEN i + 1 ELSE i
      BY <1>10
    <3>2. PICK l \in Nat : IsAt(b, w, q, l) /\ l = IF w = t /\ q = s THEN j + 1 ELSE j
      BY <1>10
    <3>3. u = w /\ r = q /\ k = l  BY <3>1, <3>2 DEF Placed
    <3> QED  BY <3>1, <3>2, <3>3
  <2> QED  BY <2>2, <2>3, <2>4, <2>5 DEF Placed
<1> QED  BY <1>8, <1>14

\* A sequence with an element put in front.
LEMMA PutInFront ==
    ASSUME NEW S, NEW e \in S, NEW q \in Seq(S)
    PROVE  /\ Len(q) \in Nat /\ Len(<<e>> \o q) = Len(q) + 1 /\ (<<e>> \o q)[1] = e
           /\ \A i \in 1 .. Len(q) : (<<e>> \o q)[i + 1] = q[i]
OBVIOUS

\* Free moves a block from the program to the front of the list of its class.
LEMMA FreePlaces ==
    ASSUME ChunkInv, Placed, NEW t \in Threads, NEW x \in held, Free(t, x), base = Base
    PROVE  Types' /\ Allocating' /\ Claimed' /\ Headed' /\ Aligned' /\ Placed'
<1> DEFINE s == x.size
           f == local[t][s].free
           v == [free |-> <<x>> \o f, chunk |-> local[t][s].chunk, at |-> local[t][s].at]
<1>0. x \in Blocks /\ Out(x) /\ ~OnList(x)  BY DEF ChunkInv, Types, Placed
<1>1. header[x.chunk] = s /\ s \in Classes  BY <1>0, BlockFields DEF Out
<1>2. held' = held \ {x} /\ Sets(t, s, v)  BY <1>1, FreeEffect
<1>3. UNCHANGED <<region, header, want, chunk>> /\ pc' = pc
  BY DEF Free, Go, ChunkInv, Types
<1>4. v.free = <<x>> \o f /\ v.chunk = local[t][s].chunk /\ v.at = local[t][s].at  OBVIOUS
<1>5. /\ local' \in Locals
      /\ \A u \in Threads : \A r \in Classes :
           local'[u][r] = IF u = t /\ r = s THEN v ELSE local[u][r]
  BY <1>2 DEF Sets
<1>6. f \in Seq(Blocks)  BY <1>1 DEF ChunkInv, Types, ClassStates
<1>7. /\ Len(f) \in Nat /\ Len(<<x>> \o f) = Len(f) + 1 /\ (<<x>> \o f)[1] = x
      /\ \A i \in 1 .. Len(f) : (<<x>> \o f)[i + 1] = f[i]
  BY <1>0, <1>6, PutInFront
<1> HIDE DEF v, s
<1>8. \A u \in Threads : \A r \in Classes :
        local'[u][r].chunk = local[u][r].chunk /\ local'[u][r].at = local[u][r].at
  BY <1>4, <1>5
<1>9. held \in SUBSET Blocks /\ held' \in SUBSET Blocks  BY <1>2 DEF ChunkInv, Types
<1>10. Types' /\ Allocating' /\ Claimed' /\ Headed' /\ Aligned'
  BY <1>3, <1>5, <1>8, <1>9, ListStepKeeps
<1>11. \A b \in Blocks : Out(b)' <=> Out(b)  BY <1>3, <1>8, SameOut
<1>12. ASSUME NEW b, NEW u \in Threads, NEW r \in Classes, NEW i \in Nat
       PROVE  IsAt(b, u, r, i)' <=> IF u = t /\ r = s
                                    THEN (i = 1 /\ b = x) \/ (i > 1 /\ IsAt(b, t, s, i - 1))
                                    ELSE IsAt(b, u, r, i)
  <2>1. CASE u = t /\ r = s
    <3>1. IsAt(b, u, r, i)' <=> i \in 1 .. Len(f) + 1 /\ (<<x>> \o f)[i] = b
      BY <1>4, <1>5, <1>7, <2>1 DEF IsAt
    <3>2. IsAt(b, t, s, i - 1) <=> i - 1 \in 1 .. Len(f) /\ f[i - 1] = b  BY DEF IsAt
    <3>3. i \in 1 .. Len(f) + 1 <=> i = 1 \/ (i > 1 /\ i - 1 \in 1 .. Len(f))  BY <1>7
    <3>4. i > 1 /\ i - 1 \in 1 .. Len(f) => (<<x>> \o f)[i] = f[i - 1]
      <4>1. (i - 1) + 1 = i  OBVIOUS
      <4> QED  BY <1>7, <4>1
    <3> QED  BY <1>7, <2>1, <3>1, <3>2, <3>3, <3>4
  <2>2. CASE ~(u = t /\ r = s)  BY <1>5, <2>2 DEF IsAt
  <2> QED  BY <2>1, <2>2
<1>13. OnList(x)'
  <2>1. IsAt(x, t, s, 1)'  BY <1>1, <1>12
  <2> QED  BY <1>1, <2>1 DEF OnList
<1>14. \A b \in Blocks : OnList(b)' => OnList(b) \/ b = x
  <2> SUFFICES ASSUME NEW b \in Blocks, OnList(b)', b # x PROVE OnList(b)  OBVIOUS
  <2>1. PICK u \in Threads, r \in Classes, i \in Nat : IsAt(b, u, r, i)'  BY DEF OnList
  <2>2. \E j \in Nat : IsAt(b, u, r, j)
    <3>1. i > 1 => i - 1 \in Nat  OBVIOUS
    <3> QED  BY <1>12, <2>1, <3>1
  <2> QED  BY <2>2 DEF OnList
<1>15. \A b \in Blocks : OnList(b) => OnList(b)'
  <2> SUFFICES ASSUME NEW b \in Blocks, OnList(b) PROVE OnList(b)'  OBVIOUS
  <2>1. PICK u \in Threads, r \in Classes, i \in Nat : IsAt(b, u, r, i)  BY DEF OnList
  <2>2. i \in Nat /\ i > 0 /\ i + 1 > 1 /\ (i + 1) - 1 = i /\ i + 1 \in Nat
    <3>1. i # 0  BY <2>1 DEF IsAt
    <3> QED  BY <3>1
  <2>3. CASE u = t /\ r = s
    <3>1. IsAt(b, t, s, i + 1)'  BY <1>12, <2>1, <2>2, <2>3
    <3> QED  BY <1>1, <2>2, <3>1 DEF OnList
  <2>4. CASE ~(u = t /\ r = s)
    <3>1. IsAt(b, u, r, i)'  BY <1>12, <2>1, <2>4
    <3> QED  BY <3>1 DEF OnList
  <2> QED  BY <2>3, <2>4
<1>16. Placed'
  <2>1. \A b \in held' : Out(b)' /\ ~OnList(b)'  BY <1>2, <1>9, <1>11, <1>14 DEF Placed
  <2>2. \A b \in Blocks : Out(b)' => b \in held' \/ OnList(b)'
    BY <1>2, <1>11, <1>13, <1>15 DEF Placed
  <2>3. \A b \in Blocks : \A u \in Threads, r \in Classes, i \in Nat :
            IsAt(b, u, r, i)' => r = b.size /\ Out(b)'
    <3> SUFFICES ASSUME NEW b \in Blocks, NEW u \in Threads, NEW r \in Classes, NEW i \in Nat,
                        IsAt(b, u, r, i)'
                 PROVE  r = b.size /\ Out(b)'
      OBVIOUS
    <3>1. CASE u = t /\ r = s /\ i = 1 /\ b = x  BY <1>0, <1>11, <3>1 DEF s
    <3>2. CASE ~(u = t /\ r = s /\ i = 1 /\ b = x)
      <4>1. \E j \in Nat : IsAt(b, u, r, j)
        <5>1. i > 1 => i - 1 \in Nat  OBVIOUS
        <5> QED  BY <1>12, <3>2, <5>1
      <4> QED  BY <1>11, <4>1 DEF Placed
    <3> QED  BY <3>1, <3>2
  <2>4. \A b \in Blocks : \A u, w \in Threads, r, q \in Classes, i, j \in Nat :
            IsAt(b, u, r, i)' /\ IsAt(b, w, q, j)' => u = w /\ r = q /\ i = j
    <3> SUFFICES ASSUME NEW b \in Blocks, NEW u \in Threads, NEW w \in Threads,
                        NEW r \in Classes, NEW q \in Classes, NEW i \in Nat, NEW j \in Nat,
                        IsAt(b, u, r, i)', IsAt(b, w, q, j)'
                 PROVE  u = w /\ r = q /\ i = j
      OBVIOUS
    <3>1. CASE b = x
      <4>1. \A y \in Threads, p \in Classes, k \in Nat : ~IsAt(b, y, p, k)
        BY <1>0, <3>1 DEF OnList
      <4>2. u = t /\ r = s /\ i = 1
        <5>1. i > 1 => i - 1 \in Nat  OBVIOUS
        <5> QED  BY <1>1, <1>12, <4>1, <5>1
      <4>3. w = t /\ q = s /\ j = 1
        <5>1. j > 1 => j - 1 \in Nat  OBVIOUS
        <5> QED  BY <1>1, <1>12, <4>1, <5>1
      <4> QED  BY <4>2, <4>3
    <3>2. CASE b # x
      <4>1. PICK k \in Nat : IsAt(b, u, r, k) /\ i = IF u = t /\ r = s THEN k + 1 ELSE k
        <5>1. i > 1 => i - 1 \in Nat /\ i = (i - 1) + 1  OBVIOUS
        <5> QED  BY <1>12, <3>2, <5>1
      <4>2. PICK l \in Nat : IsAt(b, w, q, l) /\ j = IF w = t /\ q = s THEN l + 1 ELSE l
        <5>1. j > 1 => j - 1 \in Nat /\ j = (j - 1) + 1  OBVIOUS
        <5> QED  BY <1>12, <3>2, <5>1
      <4>3. u = w /\ r = q /\ k = l  BY <4>1, <4>2 DEF Placed
      <4> QED  BY <4>1, <4>2, <4>3
    <3> QED  BY <3>1, <3>2
  <2> QED  BY <2>1, <2>2, <2>3, <2>4 DEF Placed
<1> QED  BY <1>10, <1>16

\* Steps that leave the lists, the headers and the program's blocks alone move
\* no block.
LEMMA SamePlaces ==
    ASSUME Placed, UNCHANGED <<header, local, held>>
    PROVE  Placed'
<1>1. \A b : Out(b)' <=> Out(b)  BY DEF Out
<1>2. \A b, t, s, i : IsAt(b, t, s, i)' <=> IsAt(b, t, s, i)  BY DEF IsAt
<1>3. \A b : OnList(b)' <=> OnList(b)  BY <1>2 DEF OnList
<1> QED  BY <1>1, <1>2, <1>3 DEF Placed

PoolInv == ChunkInv /\ Placed

\* Every step keeps both parts of the invariant.
LEMMA PoolStep == PoolInv /\ [Next]_vars => PoolInv'
<1> SUFFICES ASSUME PoolInv, [Next]_vars PROVE PoolInv'  OBVIOUS
<1> DEFINE Rest == Types' /\ Allocating' /\ Claimed' /\ Headed' /\ Aligned' /\ Placed'
<1>0. ChunkInv /\ Placed  BY DEF PoolInv
<1>1. ASSUME NEW t \in Threads, NEW s \in Classes, Pop(t, s) PROVE Rest
  BY <1>0, <1>1, PopPlaces
<1>2. ASSUME NEW t \in Threads, NEW s \in Classes, Bump(t, s) PROVE Rest
  BY <1>0, <1>2, BumpPlaces, BumpKeeps
<1>3. ASSUME NEW t \in Threads,
             \/ \E s \in Classes : NewChunk(t, s)
             \/ Map(t) \/ GiveUp(t) \/ Exchange(t) \/ StoreNext(t) \/ StoreEnd(t) \/ Reload(t)
      PROVE  Rest
  <2>1. UNCHANGED <<header, local, held>>
    BY <1>3 DEF NewChunk, Map, GiveUp, Exchange, StoreNext, StoreEnd, Reload
  <2> QED  BY <1>0, <1>3, <2>1, SamePlaces, ReservationKeeps
<1>4. ASSUME NEW t \in Threads, Carve(t) PROVE Rest
  <2>1. UNCHANGED <<header, local, held>>  BY <1>4 DEF Carve
  <2> QED  BY <1>0, <1>4, <2>1, SamePlaces, CarveKeeps
<1>5. ASSUME NEW t \in Threads, Header(t) PROVE Rest
  <2>1. CASE chunk[t] + 1 <= end /\ chunk[t] \in Region
    BY <1>0, <1>5, <2>1, HeaderPlaces, HeaderKeeps
  <2>2. CASE ~(chunk[t] + 1 <= end /\ chunk[t] \in Region)
    <3>1. UNCHANGED <<header, local, held>>  BY <1>5, <2>2 DEF Header
    <3> QED  BY <1>0, <1>5, <3>1, SamePlaces, HeaderKeeps
  <2> QED  BY <2>1, <2>2
<1>6. ASSUME NEW t \in Threads, NEW b \in held, Free(t, b) PROVE Rest
  <2>1. CASE base = Base  BY <1>0, <1>6, <2>1, FreePlaces
  <2>2. CASE base # Base
    <3>1. UNCHANGED <<region, header, local, held, want, chunk>> /\ pc' = pc
      BY <1>0, <1>6, <2>2 DEF Free, Go, ChunkInv, Types
    <3>2. local' \in Locals /\ held' \in SUBSET Blocks  BY <1>0, <3>1 DEF ChunkInv, Types, Locals
    <3> QED  BY <1>0, <3>1, <3>2, ListStepKeeps, SamePlaces
  <2> QED  BY <2>1, <2>2
<1>7. CASE UNCHANGED vars
  <2>1. UNCHANGED <<region, header, local, pc, want, chunk, held>>  BY <1>7 DEF vars
  <2>2. local' \in Locals /\ held' \in SUBSET Blocks  BY <1>0, <2>1 DEF ChunkInv, Types, Locals
  <2>3. Rest  BY <1>0, <2>1, <2>2, ListStepKeeps, SamePlaces
  <2>4. Reserved'  BY <1>0, <2>1 DEF ChunkInv, Reserved, region
  <2>5. Few'
    <3>1. Coming' = Coming /\ next' = next  BY <2>1 DEF Coming, region
    <3> QED  BY <1>0, <3>1 DEF ChunkInv, Few
  <2> QED  BY <2>3, <2>4, <2>5 DEF PoolInv, ChunkInv
<1>8. CASE Next
  <2>1. Rest  BY <1>1, <1>2, <1>3, <1>4, <1>5, <1>6, <1>8 DEF Next
  <2>2. Reserved' /\ Few'  BY <1>0, <1>8, ReservedStep, FewStep
  <2> QED  BY <2>1, <2>2 DEF PoolInv, ChunkInv
<1> QED  BY <1>7, <1>8

\* The invariant holds in every behaviour.
LEMMA PoolAlways == Spec => []PoolInv
<1>1. Init => PoolInv  BY ChunkInit, PlacedInit DEF PoolInv
<1> QED  BY <1>1, PoolStep, PTL DEF Spec

-----------------------------------------------------------------------------
(* Theorems *)

\* However the threads race for the region and for REGION_NEXT, a chunk is
\* bumped by one thread for one class.
THEOREM ChunkHasOneOwner == Spec => []ChunkOwned
<1>1. PoolInv => ChunkOwned
  <2> SUFFICES ASSUME PoolInv, NEW c \in Region PROVE Cardinality(Bumpers(c)) <= 1
    BY DEF ChunkOwned
  <2>1. c # 0  BY ConstantFacts
  <2>2. \A p, q \in Bumpers(c) : p = q
    <3> SUFFICES ASSUME NEW p \in Bumpers(c), NEW q \in Bumpers(c) PROVE p = q  OBVIOUS
    <3>1. /\ p \in Threads \X Classes /\ q \in Threads \X Classes
          /\ local[p[1]][p[2]].chunk = c /\ local[q[1]][q[2]].chunk = c
      BY DEF Bumpers
    <3>2. p[1] = q[1] /\ p[2] = q[2]  BY <2>1, <3>1 DEF PoolInv, ChunkInv, Claimed
    <3> QED  BY <3>1, <3>2
  <2>3. CASE Bumpers(c) = {}  BY <2>3, FS_EmptySet
  <2>4. CASE Bumpers(c) # {}
    <3>1. PICK p : p \in Bumpers(c)  BY <2>4
    <3>2. Bumpers(c) = {p}  BY <2>2, <3>1
    <3> QED  BY <3>2, FS_Singleton
  <2> QED  BY <2>3, <2>4
<1> QED  BY <1>1, PoolAlways, PTL

\* The region has finitely many blocks.
LEMMA BlocksFinite == IsFiniteSet(Blocks) /\ Cardinality(Blocks) \in Nat
<1> DEFINE P == (Region \X (0 .. Span - 1)) \X Classes
           f == [b \in Blocks |-> <<<<b.chunk, b.at>>, b.size>>]
<1>1. IsFiniteSet(Region) /\ IsFiniteSet(0 .. Span - 1)
  <2>1. Base \in Int /\ Base + Chunks - 1 \in Int /\ Span - 1 \in Int /\ 0 \in Int
    BY ConstantFacts
  <2> QED  BY <2>1, FS_Interval DEF Region
<1>2. IsFiniteSet(Classes)
  <2>1. IsFiniteSet(1 .. Span)  BY SpanNat, FS_Interval
  <2> QED  BY <2>1, ClassesFit, FS_Subset
<1>3. IsFiniteSet(P)
  <2>1. IsFiniteSet(Region \X (0 .. Span - 1))  BY <1>1, FS_Product
  <2> QED  BY <1>2, <2>1, FS_Product
<1>4. f \in [Blocks -> P]  BY DEF Blocks
<1>5. \A b, d \in Blocks : f[b] = f[d] => b = d
  <2> SUFFICES ASSUME NEW b \in Blocks, NEW d \in Blocks, f[b] = f[d] PROVE b = d  OBVIOUS
  <2>1. b.chunk = d.chunk /\ b.at = d.at /\ b.size = d.size  OBVIOUS
  <2>2. b = Block(b.chunk, b.at, b.size) /\ d = Block(d.chunk, d.at, d.size)  BY BlockFields
  <2> QED  BY <2>1, <2>2
<1> HIDE DEF f, P
<1>6. f \in Injection(Blocks, P)  BY <1>4, <1>5 DEF Injection, IsInjective
<1> QED  BY <1>3, <1>6, FS_Injection, FS_CardinalityType

\* A list is no longer than there are blocks.
LEMMA ListsFit ==
    ASSUME PoolInv, NEW t \in Threads, NEW s \in Classes
    PROVE  /\ local[t][s].free \in Seq(Blocks)
           /\ Len(local[t][s].free) <= Cardinality(Blocks)
<1> DEFINE f == local[t][s].free
           n == Len(f)
<1>1. f \in Seq(Blocks) /\ n \in Nat  BY DEF PoolInv, ChunkInv, Types, ClassStates
<1>2. f \in [1 .. n -> Blocks]  BY <1>1
<1>3. \A i, j \in 1 .. n : f[i] = f[j] => i = j
  <2> SUFFICES ASSUME NEW i \in 1 .. n, NEW j \in 1 .. n, f[i] = f[j] PROVE i = j  OBVIOUS
  <2>1. f[i] \in Blocks /\ i \in Nat /\ j \in Nat  BY <1>2
  <2>2. IsAt(f[i], t, s, i) /\ IsAt(f[i], t, s, j)  BY DEF IsAt
  <2> QED  BY <2>1, <2>2 DEF PoolInv, Placed
<1> HIDE DEF f, n
<1>4. f \in Injection(1 .. n, Blocks)  BY <1>2, <1>3 DEF Injection, IsInjective
<1>5. Cardinality(1 .. n) <= Cardinality(Blocks)  BY <1>4, BlocksFinite, FS_Injection
<1>6. Cardinality(1 .. n) = n  BY <1>1, FS_Interval
<1> QED  BY <1>1, <1>5, <1>6 DEF f, n

\* Every block that was carved is in one place: with the program or once on
\* one list of its class; and nothing else is anywhere.
THEOREM BlockInOnePlace == Spec => []EveryBlockOnce
<1>1. PoolInv => EveryBlockOnce
  <2> SUFFICES ASSUME PoolInv, NEW b \in Blocks
               PROVE  Cardinality({i \in {1} : b \in held}) + Cardinality(Listed(b, b.size))
                        = IF /\ header[b.chunk] = b.size
                             /\ b.at % b.size = 0
                             /\ b.at + b.size <= Carved(b.chunk) /\ b.at + b.size <= Span
                          THEN 1 ELSE 0
    BY DEF EveryBlockOnce
  <2> DEFINE s == b.size
             H == {i \in {1} : b \in held}
  <2>0. s \in Classes /\ s \in Nat \ {0} /\ b.at \in Nat /\ b.chunk \in Region /\ b.chunk # 0
    BY BlockFields
  <2>1. header[b.chunk] = s => (b.at + s <= Span /\ b.at + s <= Carved(b.chunk) <=>
                                b.at + s <= Span /\ \A t \in Threads :
                                   local[t][s].chunk = b.chunk => b.at + s <= local[t][s].at)
    <3> SUFFICES ASSUME header[b.chunk] = s
                 PROVE  b.at + s <= Span /\ b.at + s <= Carved(b.chunk) <=>
                        b.at + s <= Span /\ \A t \in Threads :
                           local[t][s].chunk = b.chunk => b.at + s <= local[t][s].at
      OBVIOUS
    <3>1. CASE Bumpers(b.chunk) = {}
      <4>1. \A t \in Threads : local[t][s].chunk # b.chunk
        <5> SUFFICES ASSUME NEW t \in Threads, local[t][s].chunk = b.chunk PROVE FALSE  OBVIOUS
        <5>1. <<t, s>> \in Bumpers(b.chunk)  BY <2>0 DEF Bumpers
        <5> QED  BY <3>1, <5>1
      <4>2. Carved(b.chunk) = Span  BY <3>1 DEF Carved
      <4> QED  BY <4>1, <4>2
    <3>2. CASE Bumpers(b.chunk) # {}
      <4> DEFINE p == CHOOSE p \in Bumpers(b.chunk) : TRUE
      <4>1. p \in Bumpers(b.chunk)  BY <3>2
      <4>2. Carved(b.chunk) = local[p[1]][p[2]].at  BY <3>2 DEF Carved
      <4> HIDE DEF p
      <4>3. p[1] \in Threads /\ p[2] \in Classes /\ local[p[1]][p[2]].chunk = b.chunk
        BY <4>1 DEF Bumpers
      <4>4. p[2] = s  BY <2>0, <4>3 DEF PoolInv, ChunkInv, Headed
      <4>5. \A t \in Threads : local[t][s].chunk = b.chunk <=> t = p[1]
        BY <2>0, <4>3, <4>4 DEF PoolInv, ChunkInv, Claimed
      <4> QED  BY <4>2, <4>3, <4>4, <4>5
    <3> QED  BY <3>1, <3>2
  <2>2. Out(b) <=> /\ header[b.chunk] = b.size
                   /\ b.at % b.size = 0
                   /\ b.at + b.size <= Carved(b.chunk) /\ b.at + b.size <= Span
    BY <2>1 DEF Out
  <2>3. (b \in held => H = {1}) /\ (b \notin held => H = {})  OBVIOUS
  <2>4. \A t \in Threads, i \in Nat : <<t, i>> \in Listed(b, s) <=> IsAt(b, t, s, i)
    <3> SUFFICES ASSUME NEW t \in Threads, NEW i \in Nat
                 PROVE  <<t, i>> \in Listed(b, s) <=> IsAt(b, t, s, i)
      OBVIOUS
    <3>1. /\ local[t][s].free \in Seq(Blocks) /\ Len(local[t][s].free) <= Cardinality(Blocks)
          /\ Cardinality(Blocks) \in Nat /\ Len(local[t][s].free) \in Nat
          /\ DOMAIN local[t][s].free = 1 .. Len(local[t][s].free)
      BY <2>0, ListsFit, BlocksFinite
    <3>2. i \in 1 .. Len(local[t][s].free) => i \in 1 .. Cardinality(Blocks)  BY <3>1
    <3> QED  BY <3>1, <3>2 DEF Listed, IsAt
  <2>5. \A p \in Listed(b, s) : p[1] \in Threads /\ p[2] \in Nat /\ p = <<p[1], p[2]>>
    BY BlocksFinite DEF Listed
  <2>6. OnList(b) => \E p : Listed(b, s) = {p}
    <3> SUFFICES ASSUME OnList(b) PROVE \E p : Listed(b, s) = {p}  OBVIOUS
    <3>1. PICK t \in Threads, r \in Classes, i \in Nat : IsAt(b, t, r, i)  BY DEF OnList
    <3>2. r = s /\ IsAt(b, t, s, i)  BY <3>1 DEF PoolInv, Placed
    <3>3. <<t, i>> \in Listed(b, s)  BY <2>4, <3>2
    <3>4. ASSUME NEW p \in Listed(b, s) PROVE p = <<t, i>>
      <4>1. p[1] \in Threads /\ p[2] \in Nat /\ p = <<p[1], p[2]>>  BY <2>5
      <4>2. IsAt(b, p[1], s, p[2])  BY <2>4, <4>1
      <4>3. p[1] = t /\ p[2] = i  BY <2>0, <3>2, <4>1, <4>2 DEF PoolInv, Placed
      <4> QED  BY <4>1, <4>3
    <3> QED  BY <3>3, <3>4
  <2>7. ~OnList(b) => Listed(b, s) = {}
    <3> SUFFICES ASSUME ~OnList(b), NEW p \in Listed(b, s) PROVE FALSE  OBVIOUS
    <3>1. p[1] \in Threads /\ p[2] \in Nat /\ p = <<p[1], p[2]>>  BY <2>5
    <3>2. IsAt(b, p[1], s, p[2])  BY <2>4, <3>1
    <3> QED  BY <2>0, <3>1, <3>2 DEF OnList
  <2> HIDE DEF H, s
  <2>8. /\ Cardinality(H) = IF b \in held THEN 1 ELSE 0
        /\ Cardinality(Listed(b, s)) = IF OnList(b) THEN 1 ELSE 0
    <3>1. Cardinality(H) = IF b \in held THEN 1 ELSE 0  BY <2>3, FS_EmptySet, FS_Singleton
    <3>2. CASE OnList(b)
      <4>1. PICK p : Listed(b, s) = {p}  BY <2>6, <3>2
      <4>2. Cardinality({p}) = 1  BY FS_Singleton
      <4> QED  BY <3>1, <3>2, <4>1, <4>2
    <3>3. CASE ~OnList(b)  BY <2>7, <3>1, <3>3, FS_EmptySet
    <3> QED  BY <3>2, <3>3
  <2>9. /\ ~(b \in held /\ OnList(b))
        /\ b \in held \/ OnList(b) <=> Out(b)
    BY DEF PoolInv, Placed, OnList
  <2> QED  BY <2>2, <2>8, <2>9 DEF H, s
<1> QED  BY <1>1, PoolAlways, PTL
=============================================================================
