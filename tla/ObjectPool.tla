----------------------------- MODULE ObjectPool -----------------------------
(***************************************************************************)
(* The pool of small heap objects (runtime/src/object_pool.rs).  Chunks    *)
(* are carved from one region that the first allocation reserves; a chunk  *)
(* serves one size class, named in its header.  Every thread has, per      *)
(* class, a free list and the rest of its current chunk.  A block may be   *)
(* freed by any thread and joins that thread's list.                       *)
(*                                                                         *)
(* Addresses are counted in chunks; a chunk has Span units for blocks and  *)
(* a block of class c is c units.  The steps of the reservation are single *)
(* atomic operations; what only touches thread-local state is one step.    *)
(***************************************************************************)
EXTENDS Naturals, Sequences, FiniteSets

CONSTANTS Threads,       \* threads that allocate and free
          Classes,       \* the size classes in use, by their block size
          Base,          \* the address of the region, in chunks
          Chunks,        \* how many chunks the region has
          Span,          \* the units for blocks of a chunk
          MaxMisses      \* chunks taken beside the region (bound)

ASSUME ClassesFit == Classes \subseteq 1 .. Span
ASSUME RegionIsHigh == /\ Base \in Nat /\ Chunks \in Nat /\ MaxMisses \in Nat
                       /\ Base > MaxMisses + Cardinality(Threads)
ASSUME SpanNat == Span \in Nat
ASSUME ThreadsFinite == IsFiniteSet(Threads)

VARIABLES base,          \* REGION_BASE: 0, the address or usize::MAX
          next,          \* REGION_NEXT
          end,           \* REGION_END
          header,        \* ChunkHeader.class_index of each chunk; 0 is no chunk
          local,         \* CLASSES of each thread
          pc,            \* where each thread is
          want,          \* the class it allocates for
          chunk,         \* what fetch_add gave it
          held,          \* the blocks the program holds
          fault          \* the process was killed by a wild access or free

region == <<base, next, end>>
vars == <<region, header, local, pc, want, chunk, held, fault>>

Failed == Base + Chunks + 1          \* usize::MAX
Region == Base .. Base + Chunks - 1  \* the chunks that are mapped
Block(c, k, s) == [chunk |-> c, at |-> k, size |-> s]

\* ClassState: an empty list and an empty rest.
Nothing == [free |-> <<>>, chunk |-> 0, at |-> Span]

Init == /\ base = 0 /\ next = 0 /\ end = 0
        /\ header = [c \in Region |-> 0]
        /\ local = [t \in Threads |-> [s \in Classes |-> Nothing]]
        /\ pc = [t \in Threads |-> "run"]
        /\ want = [t \in Threads |-> 0]
        /\ chunk = [t \in Threads |-> 0]
        /\ held = {}
        /\ fault = FALSE

Go(t, from, to) == ~fault /\ pc[t] = from /\ pc' = [pc EXCEPT ![t] = to]

\* The allocation ends: its locals are gone.
Leave(t, from) == /\ Go(t, from, "run")
                  /\ want' = [want EXCEPT ![t] = 0]
                  /\ chunk' = [chunk EXCEPT ![t] = 0]

\* What fetch_add has handed out below and beyond the region.
Misses == IF next < Base THEN next ELSE IF next > Base + Chunks THEN next - Base - Chunks ELSE 0

-----------------------------------------------------------------------------
(* rayzor_object_alloc *)

\* The free list is not empty: pop.
Pop(t, s) ==
    LET l == local[t][s]
    IN /\ Go(t, "run", "run")
       /\ l.free # <<>>
       /\ held' = held \cup {Head(l.free)}
       /\ local' = [local EXCEPT ![t][s].free = Tail(l.free)]
       /\ UNCHANGED <<region, header, want, chunk, fault>>

\* The rest of the chunk has room: bump.
Bump(t, s) ==
    LET l == local[t][s]
    IN /\ Go(t, "run", "run")
       /\ l.free = <<>> /\ l.at + s <= Span
       /\ held' = held \cup {Block(l.chunk, l.at, s)}
       /\ local' = [local EXCEPT ![t][s].at = l.at + s]
       /\ UNCHANGED <<region, header, want, chunk, fault>>

\* Neither: new_chunk, which loads REGION_BASE first.  After a failed
\* reservation libc serves, which changes nothing here.
NewChunk(t, s) ==
    LET l == local[t][s]
    IN /\ base # Failed /\ Misses < MaxMisses
       /\ Go(t, "run", IF base = 0 THEN "map" ELSE "carve")
       /\ l.free = <<>> /\ l.at + s > Span
       /\ want' = [want EXCEPT ![t] = s]
       /\ UNCHANGED <<region, header, local, chunk, held, fault>>

-----------------------------------------------------------------------------
(* ensure_region *)

\* mmap succeeds, or fails.
Map(t) ==
    /\ Go(t, "map", "exchange") \/ Go(t, "map", "giveUp")
    /\ UNCHANGED <<region, header, local, want, chunk, held, fault>>

\* REGION_BASE.store(usize::MAX), whatever is there; libc serves.
GiveUp(t) ==
    /\ Leave(t, "giveUp")
    /\ base' = Failed
    /\ UNCHANGED <<next, end, header, local, held, fault>>

\* The exchange 0 -> address; a loser gives its reservation back.
Exchange(t) ==
    /\ IF base = 0 THEN Go(t, "exchange", "storeNext") /\ base' = Base
                   ELSE Go(t, "exchange", "reload") /\ UNCHANGED base
    /\ UNCHANGED <<next, end, header, local, want, chunk, held, fault>>

StoreNext(t) ==
    /\ Go(t, "storeNext", "storeEnd")
    /\ next' = Base
    /\ UNCHANGED <<base, end, header, local, want, chunk, held, fault>>

StoreEnd(t) ==
    /\ Go(t, "storeEnd", "carve")
    /\ end' = Base + Chunks
    /\ UNCHANGED <<base, next, header, local, want, chunk, held, fault>>

\* The loser looks again.
Reload(t) ==
    /\ IF base = Failed THEN Leave(t, "reload")
                        ELSE Go(t, "reload", "carve") /\ UNCHANGED <<want, chunk>>
    /\ UNCHANGED <<region, header, local, held, fault>>

-----------------------------------------------------------------------------
(* new_chunk *)

\* Mutant: a load and a store in place of the fetch_add; the store is late.
CarveLate(t) ==
    /\ Go(t, "carve", "header")
    /\ chunk' = [chunk EXCEPT ![t] = next]
    /\ next' = IF \E u \in Threads \ {t} : pc[u] = "carve" THEN next ELSE next + 1
    /\ UNCHANGED <<base, end, header, local, want, held, fault>>

\* REGION_NEXT.fetch_add.
Carve(t) ==
    /\ Go(t, "carve", "header")
    /\ chunk' = [chunk EXCEPT ![t] = next]
    /\ next' = next + 1
    /\ UNCHANGED <<base, end, header, local, want, held, fault>>

\* Mutant: the first block of a new chunk stays in the rest.
HeaderKeepsFirst(t) ==
    LET c == chunk[t]  s == want[t]
    IN /\ Leave(t, "header")
       /\ IF c + 1 <= end /\ c \in Region
          THEN /\ header' = [header EXCEPT ![c] = s]
               /\ local' = [local EXCEPT ![t][s] = [free |-> @.free, chunk |-> c, at |-> 0]]
               /\ held' = held \cup {Block(c, 0, s)}
          ELSE UNCHANGED <<header, local, held>>
       /\ fault' = (c + 1 <= end /\ c \notin Region)
       /\ UNCHANGED region

\* Past REGION_END: libc serves.  Otherwise the header is written, which is a
\* fault when the chunk lies outside the region, and the first block served.
Header(t) ==
    LET c == chunk[t]  s == want[t]
    IN /\ Leave(t, "header")
       /\ IF c + 1 <= end /\ c \in Region
          THEN /\ header' = [header EXCEPT ![c] = s]
               /\ local' = [local EXCEPT ![t][s] = [free |-> @.free, chunk |-> c, at |-> s]]
               /\ held' = held \cup {Block(c, 0, s)}
          ELSE UNCHANGED <<header, local, held>>
       /\ fault' = (c + 1 <= end /\ c \notin Region)
       /\ UNCHANGED region

-----------------------------------------------------------------------------
\* rayzor_object_free of a block of the pool, by any thread.  in_region loads
\* REGION_BASE: outside, the pointer goes to libc, which did not allocate it.
\* Inside, the chunk's header says whose list it joins.
Free(t, b) ==
    /\ Go(t, "run", "run")
    /\ b \in held
    /\ IF base = Base
       THEN /\ held' = held \ {b}
            /\ local' = [local EXCEPT ![t][header[b.chunk]].free = <<b>> \o @]
            /\ UNCHANGED fault
       ELSE fault' = TRUE /\ UNCHANGED <<held, local>>
    /\ UNCHANGED <<region, header, want, chunk>>

-----------------------------------------------------------------------------
Next == \E t \in Threads :
    \/ \E s \in Classes : Pop(t, s) \/ Bump(t, s) \/ NewChunk(t, s)
    \/ Map(t) \/ GiveUp(t) \/ Exchange(t) \/ StoreNext(t) \/ StoreEnd(t) \/ Reload(t)
    \/ Carve(t) \/ Header(t)
    \/ \E b \in held : Free(t, b)

Spec == Init /\ [][Next]_vars

-----------------------------------------------------------------------------
(* Properties *)

\* Every block that can be carved from the region.
Blocks == [chunk : Region, at : 0 .. Span - 1, size : Classes]

\* The rest of chunk c: where it starts, if some thread still bumps in it.
Bumpers(c) == {p \in Threads \X Classes : local[p[1]][p[2]].chunk = c}
Carved(c) == IF Bumpers(c) = {} THEN Span
             ELSE LET p == CHOOSE p \in Bumpers(c) : TRUE IN local[p[1]][p[2]].at

\* How often block b is on a free list of class s.
Listed(b, s) == {p \in Threads \X (1 .. Cardinality(Blocks)) :
                    LET free == local[p[1]][s].free
                    IN p[2] \in DOMAIN free /\ free[p[2]] = b}

\* A chunk belongs to one thread and one class, whoever raced for the region.
ChunkOwned == \A c \in Region : Cardinality(Bumpers(c)) <= 1

\* Every block that was carved is in one place: with the program or on one
\* thread's list of its own class, however often it was freed by a thread that
\* did not allocate it.  Nothing that was not carved, or that reaches past its
\* chunk, is anywhere.
EveryBlockOnce ==
    \A b \in Blocks :
        Cardinality({i \in {1} : b \in held}) + Cardinality(Listed(b, b.size))
            = IF /\ header[b.chunk] = b.size
                 /\ b.at % b.size = 0
                 /\ b.at + b.size <= Carved(b.chunk) /\ b.at + b.size <= Span
              THEN 1 ELSE 0

\* "chunks are carved from one reserved region": no header is written outside of
\* it; and "Failure is not fatal: every path falls back to libc, so the pool
\* simply stays empty": no block of the pool is handed to libc.
NoWildAccess == ~fault
=============================================================================
