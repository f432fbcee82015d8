----------------------- MODULE DependencyGraph_proofs -----------------------
(***************************************************************************)
(* Proofs about DependencyGraph, for every program.                        *)
(***************************************************************************)
EXTENDS DependencyGraph, FiniteSetTheorems, TLAPS

-----------------------------------------------------------------------------
(* Finite sets of numbers *)

\* A family of subsets of a finite set has a minimal member.
LEMMA MinimalSubset ==
    ASSUME NEW S, IsFiniteSet(S), NEW F \in SUBSET (SUBSET S), F # {}
    PROVE  \E T \in F : \A U \in F : U \subseteq T => U = T
<1>1. IsWellFoundedOn(StrictSubsetOrdering(S), FiniteSubsetsOf(S))
  BY FS_StrictSubsetOrderingWellFounded
<1>2. F \subseteq FiniteSubsetsOf(S)  BY FS_FiniteSubsetsOfFinite
<1>3. \E T \in F : \A U \in F : <<U, T>> \notin StrictSubsetOrdering(S)
  BY <1>1, <1>2, WFMin
<1> QED  BY <1>3 DEF StrictSubsetOrdering

\* A set of numbers in an interval has a least and a greatest member.
LEMMA LeastAndGreatest ==
    ASSUME NEW k \in Nat, NEW S \in SUBSET (1 .. k), S # {}
    PROVE  /\ \E x \in S : \A y \in S : x <= y
           /\ \E x \in S : \A y \in S : y <= x
<1> DEFINE Below(x) == {y \in 1 .. k : y < x}
           Above(x) == {y \in 1 .. k : y > x}
           D == 1 .. k
           B == {Below(y) : y \in S}
           A == {Above(y) : y \in S}
<1>0. IsFiniteSet(D)  BY FS_Interval
<1>1. \E T \in B : \A U \in B : U \subseteq T => U = T
  <2>1. B \in SUBSET (SUBSET D)  OBVIOUS
  <2>2. B # {}  OBVIOUS
  <2> HIDE DEF B, D
  <2> QED  BY <1>0, <2>1, <2>2, MinimalSubset
<1>2. PICK x \in S : \A y \in S : Below(y) \subseteq Below(x) => Below(y) = Below(x)
  <2> HIDE DEF Below
  <2> QED  BY <1>1
<1>3. \A y \in S : x <= y
  <2> SUFFICES ASSUME NEW y \in S, y < x PROVE FALSE  OBVIOUS
  <2>1. Below(y) \subseteq Below(x) /\ y \in Below(x) /\ y \notin Below(y)  OBVIOUS
  <2> QED  BY <1>2, <2>1
<1>4. \E T \in A : \A U \in A : U \subseteq T => U = T
  <2>1. A \in SUBSET (SUBSET D)  OBVIOUS
  <2>2. A # {}  OBVIOUS
  <2> HIDE DEF A, D
  <2> QED  BY <1>0, <2>1, <2>2, MinimalSubset
<1>5. PICK z \in S : \A y \in S : Above(y) \subseteq Above(z) => Above(y) = Above(z)
  <2> HIDE DEF Above
  <2> QED  BY <1>4
<1>6. \A y \in S : y <= z
  <2> SUFFICES ASSUME NEW y \in S, y > z PROVE FALSE  OBVIOUS
  <2>1. Above(y) \subseteq Above(z) /\ y \in Above(z) /\ y \notin Above(y)  OBVIOUS
  <2> QED  BY <1>5, <2>1
<1> QED  BY <1>3, <1>6

\* Names are finitely many numbers.
LEMMA NamesFinite == IsFiniteSet(Names) /\ Names \subseteq Nat
BY NNamesNat, FS_Interval DEF Names

\* First takes a member of a set of names.
LEMMA FirstIsMember ==
    ASSUME NEW S \in SUBSET Names, S # {}
    PROVE  First(S) \in S
<1>1. \E n \in S : \A m \in S : n <= m  BY NNamesNat, LeastAndGreatest DEF Names
<1> QED  BY <1>1 DEF First

\* Sorted lists every member of a set of names once.
LEMMA SortedLists ==
    ASSUME NEW S \in SUBSET Names
    PROVE  /\ Sorted(S) \in Seq(S)
           /\ Len(Sorted(S)) = Cardinality(S)
           /\ \A n \in S : \E i \in 1 .. Len(Sorted(S)) : Sorted(S)[i] = n
           /\ \A i, j \in 1 .. Len(Sorted(S)) : Sorted(S)[i] = Sorted(S)[j] => i = j
<1> DEFINE Upto(n) == {m \in S : m <= n}
           rank == [n \in S |-> Cardinality(Upto(n))]
           N == Cardinality(S)
<1>0. S \subseteq Nat  BY NamesFinite
<1>1. IsFiniteSet(S) /\ N \in Nat
  BY NamesFinite, FS_Subset, FS_CardinalityType
<1>2. \A n \in S : IsFiniteSet(Upto(n)) /\ Cardinality(Upto(n)) \in 1 .. N
  <2> SUFFICES ASSUME NEW n \in S
               PROVE  IsFiniteSet(Upto(n)) /\ Cardinality(Upto(n)) \in 1 .. N
    OBVIOUS
  <2>1. Upto(n) \in SUBSET S /\ n \in Upto(n)  BY <1>0
  <2> HIDE DEF Upto
  <2>2. /\ IsFiniteSet(Upto(n)) /\ Cardinality(Upto(n)) <= N
        /\ Cardinality(Upto(n)) \in Nat
    BY <1>1, <2>1, FS_Subset, FS_CardinalityType
  <2>3. Cardinality(Upto(n)) # 0  BY <2>1, <2>2, FS_EmptySet
  <2> QED  BY <1>1, <2>2, <2>3
<1>3. \A m, n \in S : m < n => Cardinality(Upto(m)) < Cardinality(Upto(n))
  <2> SUFFICES ASSUME NEW m \in S, NEW n \in S, m < n
               PROVE  Cardinality(Upto(m)) < Cardinality(Upto(n))
    OBVIOUS
  <2>1. Upto(m) \in SUBSET Upto(n) /\ n \in Upto(n) /\ n \notin Upto(m)
    <3>1. n <= n /\ ~(n <= m)  BY <1>0
    <3>2. \A l \in S : l <= m => l <= n  BY <1>0
    <3> QED  BY <3>1, <3>2, Zenon
  <2> HIDE DEF Upto
  <2>2. Cardinality(Upto(m)) <= Cardinality(Upto(n)) /\ Cardinality(Upto(m)) # Cardinality(Upto(n))
    BY <1>2, <2>1, FS_Subset
  <2> QED  BY <1>1, <1>2, <2>2
<1>4. rank \in [S -> 1 .. N]  BY <1>2
<1>5. \A m, n \in S : m < n => rank[m] < rank[n]  BY <1>3
<1>6. \A i \in 1 .. N : Sorted(S)[i] = CHOOSE n \in S : rank[n] = i
  <2>1. \A n \in S : rank[n] = Cardinality({m \in S : m <= n})  OBVIOUS
  <2> SUFFICES ASSUME NEW i \in 1 .. N
               PROVE  Sorted(S)[i] = CHOOSE n \in S : rank[n] = i
    OBVIOUS
  <2>2. Sorted(S)[i] = CHOOSE n \in S : Cardinality({m \in S : m <= n}) = i  BY DEF Sorted
  <2> QED  BY <2>2, Zenon
<1>7. Sorted(S) = [i \in 1 .. N |-> Sorted(S)[i]]
  <2> DEFINE pick(i) == CHOOSE n \in S : Cardinality({m \in S : m <= n}) = i
  <2>1. Sorted(S) = [i \in 1 .. N |-> pick(i)]  BY DEF Sorted
  <2> HIDE DEF pick
  <2> QED  BY <2>1
<1> HIDE DEF rank, Upto, N
<1>8. rank \in Injection(S, 1 .. N)
  <2>1. \A m, n \in S : m # n => rank[m] # rank[n]
    <3> SUFFICES ASSUME NEW m \in S, NEW n \in S, m # n PROVE rank[m] # rank[n]  OBVIOUS
    <3>1. m < n \/ n < m  BY <1>0
    <3>2. rank[m] \in Nat /\ rank[n] \in Nat  BY <1>4
    <3> QED  BY <1>5, <3>1, <3>2
  <2> QED  BY <1>4, <2>1 DEF Injection, IsInjective
<1>9. rank \in Surjection(S, 1 .. N)
  <2>1. IsFiniteSet(1 .. N) /\ Cardinality(1 .. N) = N
    BY <1>1, FS_Interval
  <2>2. Cardinality(S) = N  BY DEF N
  <2> QED  BY <1>1, <1>8, <2>1, <2>2, FS_Injection
<1>10. \A i \in 1 .. N : \E n \in S : rank[n] = i  BY <1>9 DEF Surjection
<1>11. \A i \in 1 .. N : Sorted(S)[i] \in S /\ rank[Sorted(S)[i]] = i
  BY <1>6, <1>10
<1>12. Sorted(S) \in Seq(S) /\ Len(Sorted(S)) = N
  BY <1>1, <1>7, <1>11
<1>13. \A n \in S : Sorted(S)[rank[n]] = n
  BY <1>4, <1>8, <1>11 DEF Injection, IsInjective
<1> QED  BY <1>4, <1>11, <1>12, <1>13 DEF N

\* The members of two sequences put together.
LEMMA Concatenated ==
    ASSUME NEW S, NEW s \in Seq(S), NEW t \in Seq(S)
    PROVE  /\ s \o t \in Seq(S) /\ Len(s \o t) = Len(s) + Len(t)
           /\ \A i \in 1 .. Len(s) : (s \o t)[i] = s[i]
           /\ \A i \in 1 .. Len(t) : (s \o t)[Len(s) + i] = t[i]
OBVIOUS

-----------------------------------------------------------------------------
(* The graph *)

\* What the files are.
InputOK == /\ name \in [Files -> Names]
           /\ imports \in [Files -> SUBSET Names]

\* There are finitely many names, because there are finitely many files.
LEMMA NodesFinite ==
    ASSUME InputOK
    PROVE  Nodes \subseteq Names /\ IsFiniteSet(Nodes)
<1>1. Nodes \in SUBSET Names  BY DEF InputOK, Nodes
<1> QED  BY <1>1, NamesFinite, FS_Subset

\* A node stands for a file of its name.
LEMMA FileOfNode ==
    ASSUME InputOK, NEW n \in Nodes
    PROVE  FileIndex(n) \in Files /\ name[FileIndex(n)] = n
<1> DEFINE S == {f \in Files : name[f] = n}
<1>1. S \in SUBSET (1 .. NFiles) /\ S # {}  BY DEF Nodes, Files
<1>2. \E f \in S : \A g \in S : g <= f
  <2> HIDE DEF S
  <2> QED  BY <1>1, NFilesNat, LeastAndGreatest
<1>3. \E f \in Files : name[f] = n /\ \A g \in Files : name[g] = n => g <= f  BY <1>2
<1> QED  BY <1>3 DEF FileIndex

\* Edges lead from nodes to nodes.
LEMMA EdgesInNodes == \A n : Edges(n) \subseteq Nodes /\ (n \notin Nodes => Edges(n) = {})
BY DEF Edges

\* Who imports a name directly is among its dependents; so is who imports a
\* dependent; and a set of nodes that is closed under the edges and has the
\* direct importers has all of them.
LEMMA DependentsClosed ==
    ASSUME NEW n
    PROVE  /\ Dependents(n) \subseteq Nodes
           /\ Edges(n) \subseteq Dependents(n)
           /\ \A m \in Dependents(n) : Edges(m) \subseteq Dependents(n)
           /\ \A S \in SUBSET Nodes :
                  Edges(n) \subseteq S /\ (\A k \in S : Edges(k) \subseteq S) => Dependents(n) \subseteq S
<1>1. Dependents(n) \subseteq Nodes  BY DEF Dependents
<1>2. Edges(n) \subseteq Dependents(n)  BY EdgesInNodes DEF Dependents
<1>3. ASSUME NEW m \in Dependents(n), NEW l \in Edges(m)
      PROVE  l \in Dependents(n)
  <2>1. l \in Nodes  BY EdgesInNodes
  <2>2. ASSUME NEW S \in SUBSET Nodes, Edges(n) \subseteq S, \A k \in S : Edges(k) \subseteq S
        PROVE  l \in S
    <3>1. m \in S  BY <2>2 DEF Dependents
    <3> QED  BY <2>2, <3>1
  <2> QED  BY <2>1, <2>2 DEF Dependents
<1>4. ASSUME NEW S \in SUBSET Nodes, Edges(n) \subseteq S, \A k \in S : Edges(k) \subseteq S
      PROVE  Dependents(n) \subseteq S
  BY <1>4 DEF Dependents
<1> QED  BY <1>1, <1>2, <1>3, <1>4

\* Dependents of dependents are dependents.
LEMMA DependentsTransitive ==
    ASSUME NEW k, NEW m \in Dependents(k)
    PROVE  Dependents(m) \subseteq Dependents(k)
<1> DEFINE D == Dependents(k)
<1>1. D \in SUBSET Nodes /\ Edges(m) \subseteq D /\ \A l \in D : Edges(l) \subseteq D
  BY DependentsClosed
<1> HIDE DEF D
<1>2. Dependents(m) \subseteq D  BY <1>1, DependentsClosed
<1> QED  BY <1>2 DEF D

\* Nothing changes the graph once it is built.
LEMMA SameGraph ==
    ASSUME UNCHANGED input
    PROVE  /\ Nodes' = Nodes
           /\ \A n : Edges(n)' = Edges(n)
           /\ \A n : FileIndex(n)' = FileIndex(n)
           /\ \A n : Dependents(n)' = Dependents(n)
<1>1. name' = name /\ imports' = imports  BY DEF input
<1>2. Nodes' = Nodes  BY <1>1 DEF Nodes
<1>3. \A n : Edges(n)' = Edges(n)  BY <1>1, <1>2 DEF Edges
<1>4. \A n : FileIndex(n)' = FileIndex(n)  BY <1>1 DEF FileIndex
<1>5. \A n : Dependents(n)' = Dependents(n)  BY <1>2, <1>3 DEF Dependents
<1> QED  BY <1>2, <1>3, <1>4, <1>5

-----------------------------------------------------------------------------
(* The search for cycles *)

SearchTypes ==
    /\ InputOK
    /\ phase \in {"cycles", "sort", "done"}
    /\ visited \in SUBSET Nodes
    /\ path \in Seq(Nodes)
    /\ todo \in Seq(SUBSET Nodes)
    /\ cycles \in Seq(Seq(Nodes))

\* recStack and path are the same names; none is entered twice.
Stack ==
    /\ Len(todo) = Len(path)
    /\ \A n : n \in recStack <=> \E i \in 1 .. Len(path) : path[i] = n
    /\ \A i, j \in 1 .. Len(path) : path[i] = path[j] => i = j
    /\ recStack \subseteq visited

\* The path follows the edges.
Chain ==
    /\ \A i \in 1 .. Len(path) : todo[i] \subseteq Edges(path[i])
    /\ \A i \in 1 .. Len(path) - 1 : path[i + 1] \in Edges(path[i])
    /\ \A i, j \in 1 .. Len(path) : i < j => path[j] \in Dependents(path[i])

\* Neighbours that were looked at are visited; unless a cycle was found, the
\* only one of them still on the stack is the next.
Looked ==
    \A i \in 1 .. Len(path) : \A m \in Edges(path[i]) \ todo[i] :
        /\ m \in visited
        /\ cycles = <<>> => m \notin recStack \/ (i < Len(path) /\ m = path[i + 1])

\* Names that were left: nothing reachable from them is open or unvisited,
\* and none of them is in a cycle.
Left ==
    cycles = <<>> => \A n \in visited \ recStack :
                        Edges(n) \subseteq visited \ recStack /\ n \notin Dependents(n)

\* What was reported.
Reported ==
    /\ \A i \in DOMAIN cycles : ClosedWalk(cycles[i])
    /\ cycles # <<>> => \E n \in Nodes : n \in Dependents(n)

SearchEnded == phase # "cycles" => path = <<>> /\ Nodes \subseteq visited

SearchInv == SearchTypes /\ Stack /\ Chain /\ Looked /\ Left /\ Reported /\ SearchEnded

\* Before the search nothing is visited and nothing reported.
LEMMA SearchInit == Init => SearchInv
<1> SUFFICES ASSUME Init PROVE SearchInv  OBVIOUS
<1>1. SearchTypes  BY DEF Init, SearchTypes, InputOK
<1> QED  BY <1>1 DEF Init, SearchInv, Stack, Chain, Looked, Left, Reported, SearchEnded

\* Entering a name that was not visited, as a root or as a neighbour of the top.
LEMMA EnterKeeps ==
    ASSUME SearchInv, phase = "cycles", UNCHANGED <<input, phase, cycles>>,
           NEW n \in Nodes \ visited, NEW rest, EnterWith(n, rest),
           \/ path = <<>> /\ rest = todo
           \/ path # <<>> /\ n \in Rest /\ rest = [todo EXCEPT ![Len(todo)] = @ \ {n}]
    PROVE  SearchInv'
<1> DEFINE L == Len(path)
<1> USE DEF SearchTypes, Stack
<1>0. SearchTypes /\ Stack /\ L \in Nat  BY DEF SearchInv
<1>1. Nodes' = Nodes /\ (\A m : Edges(m)' = Edges(m)) /\ (\A m : Dependents(m)' = Dependents(m))
  BY SameGraph
<1>2. /\ path' \in Seq(Nodes) /\ Len(path') = L + 1
      /\ \A i \in 1 .. L : path'[i] = path[i]
      /\ path'[L + 1] = n
  BY <1>0 DEF EnterWith
<1>3. /\ rest \in Seq(SUBSET Nodes) /\ Len(rest) = L
      /\ \A i \in 1 .. L : rest[i] = todo[i] \/ (i = L /\ L # 0 /\ n \in todo[i] /\ rest[i] = todo[i] \ {n})
      /\ L # 0 => n \in todo[L]
  BY <1>0 DEF Rest
<1>4. /\ todo' \in Seq(SUBSET Nodes) /\ Len(todo') = L + 1
      /\ \A i \in 1 .. L : todo'[i] = rest[i]
      /\ todo'[L + 1] = Edges(n)
  BY <1>3, EdgesInNodes DEF EnterWith
<1>5. visited' = visited \cup {n} /\ recStack' = recStack \cup {n} /\ cycles' = cycles /\ phase' = phase
  BY DEF EnterWith
<1>6. InputOK'  BY <1>0 DEF InputOK, input
<1> HIDE DEF L
<1>7. SearchTypes'  BY <1>0, <1>1, <1>2, <1>4, <1>5, <1>6
<1>8. Stack'
  <2>1. ASSUME NEW m PROVE m \in recStack' <=> \E i \in 1 .. L + 1 : path'[i] = m
    <3>1. m \in recStack <=> \E i \in 1 .. L : path[i] = m  BY <1>0 DEF L
    <3>2. 1 .. L + 1 = 1 .. L \cup {L + 1}  BY <1>0
    <3> QED  BY <1>2, <1>5, <3>1, <3>2
  <2>2. ASSUME NEW i \in 1 .. L + 1, NEW j \in 1 .. L + 1, path'[i] = path'[j] PROVE i = j
    <3>1. \A k \in 1 .. L : path[k] # n  BY <1>0 DEF L
    <3>2. \A k, l \in 1 .. L : path[k] = path[l] => k = l  BY <1>0 DEF L
    <3>3. (i \in 1 .. L \/ i = L + 1) /\ (j \in 1 .. L \/ j = L + 1)  BY <1>0
    <3> QED  BY <1>2, <2>2, <3>1, <3>2, <3>3
  <2>3. recStack' \subseteq visited'  BY <1>0, <1>5
  <2> QED  BY <1>2, <1>4, <2>1, <2>2, <2>3
<1>9. Chain'
  <2>0. Chain  BY DEF SearchInv
  <2>1. ASSUME NEW i \in 1 .. L + 1 PROVE todo'[i] \subseteq Edges(path'[i])
    <3>1. CASE i = L + 1  BY <1>2, <1>4, <3>1
    <3>2. CASE i \in 1 .. L
      <4>1. todo[i] \subseteq Edges(path[i])  BY <2>0, <3>2 DEF Chain, L
      <4> QED  BY <1>2, <1>3, <1>4, <3>2, <4>1
    <3> QED  BY <1>0, <3>1, <3>2
  <2>2. L # 0 => n \in Edges(path[L])
    BY <1>0, <1>3, <2>0 DEF Chain, L
  <2>3. ASSUME NEW i \in 1 .. L PROVE path'[i + 1] \in Edges(path'[i])
    BY <1>0, <1>2, <2>0, <2>2 DEF Chain, L
  <2>4. ASSUME NEW i \in 1 .. L PROVE n \in Dependents(path[i])
    <3>1. CASE i = L  BY <2>2, <3>1, DependentsClosed
    <3>2. CASE i < L
      <4>1. path[L] \in Dependents(path[i])  BY <1>0, <2>0, <3>2 DEF Chain, L
      <4> QED  BY <2>2, <4>1, DependentsClosed
    <3> QED  BY <1>0, <3>1, <3>2
  <2>5. ASSUME NEW i \in 1 .. L + 1, NEW j \in 1 .. L + 1, i < j
        PROVE  path'[j] \in Dependents(path'[i])
    <3>1. i \in 1 .. L /\ (j \in 1 .. L \/ j = L + 1)  BY <1>0, <2>5
    <3>2. j \in 1 .. L => path[j] \in Dependents(path[i])  BY <2>0, <2>5, <3>1 DEF Chain, L
    <3> QED  BY <1>2, <2>4, <3>1, <3>2
  <2> QED  BY <1>0, <1>1, <1>2, <2>1, <2>3, <2>5 DEF Chain
<1>10. Looked'
  <2>0. Looked  BY DEF SearchInv
  <2>1. ASSUME NEW i \in 1 .. L + 1, NEW m \in Edges(path'[i]) \ todo'[i]
        PROVE  m \in visited' /\ (cycles' = <<>> => m \notin recStack' \/ (i < L + 1 /\ m = path'[i + 1]))
    <3>1. CASE i = L + 1  BY <1>2, <1>4, <3>1
    <3>2. CASE i \in 1 .. L /\ m = n
      <4>1. i = L
        <5> SUFFICES ASSUME i # L PROVE FALSE  OBVIOUS
        <5>1. todo'[i] = todo[i] /\ path'[i] = path[i]  BY <1>2, <1>3, <1>4, <3>2
        <5>2. n \in Edges(path[i]) \ todo[i]  BY <3>2, <5>1
        <5>3. n \in visited  BY <2>0, <3>2, <5>2 DEF Looked, L
        <5> QED  BY <5>3
      <4>2. m \in visited'  BY <1>5, <3>2
      <4>3. i < L + 1 /\ m = path'[i + 1]  BY <1>0, <1>2, <3>2, <4>1
      <4> QED  BY <4>2, <4>3
    <3>3. CASE i \in 1 .. L /\ m # n
      <4>1. m \in Edges(path[i]) \ todo[i]  BY <1>2, <1>3, <1>4, <3>3
      <4>2. /\ m \in visited
            /\ cycles = <<>> => m \notin recStack \/ (i < L /\ m = path[i + 1])
        BY <2>0, <3>3, <4>1 DEF Looked, L
      <4>3. i < L => i + 1 \in 1 .. L  BY <1>0, <3>3
      <4> QED  BY <1>0, <1>2, <1>5, <3>3, <4>2, <4>3
    <3> QED  BY <1>0, <3>1, <3>2, <3>3
  <2> QED  BY <1>0, <1>1, <1>2, <2>1 DEF Looked
<1>11. Left'
  <2>1. visited' \ recStack' = visited \ recStack  BY <1>0, <1>5
  <2> QED  BY <1>1, <1>5, <2>1 DEF SearchInv, Left
<1>12. Reported'
  <2>1. \A c : ClosedWalk(c)' <=> ClosedWalk(c)  BY <1>1 DEF ClosedWalk
  <2> QED  BY <1>1, <1>5, <2>1 DEF SearchInv, Reported
<1>13. SearchEnded'  BY <1>5 DEF SearchEnded
<1> QED  BY <1>7, <1>8, <1>9, <1>10, <1>11, <1>12, <1>13 DEF SearchInv

\* A neighbour that was visited before: passed by, or reported.
LEMMA PassKeeps ==
    ASSUME SearchInv, phase = "cycles", UNCHANGED <<input, phase>>,
           path # <<>>, NEW n \in Rest, n \in visited,
           cycles' = IF n \in recStack THEN Append(cycles, CycleAt(n)) ELSE cycles,
           todo' = [todo EXCEPT ![Len(todo)] = @ \ {n}],
           UNCHANGED <<visited, recStack, path>>
    PROVE  SearchInv'
<1> DEFINE L == Len(path)
<1>0. SearchTypes /\ Stack /\ Chain /\ Looked /\ L \in Nat \ {0}
  BY DEF SearchInv, SearchTypes
<1>1. Nodes' = Nodes /\ (\A m : Edges(m)' = Edges(m)) /\ (\A m : Dependents(m)' = Dependents(m))
  BY SameGraph
<1>2. /\ todo' \in Seq(SUBSET Nodes) /\ Len(todo') = L
      /\ \A i \in 1 .. L : i # L => todo'[i] = todo[i]
      /\ todo'[L] = todo[L] \ {n}
      /\ n \in todo[L]
  BY <1>0 DEF SearchTypes, Stack, Rest
<1>3. n \in Edges(path[L])  BY <1>0, <1>2 DEF Chain
<1>4. L \in 1 .. L /\ path \in Seq(Nodes) /\ \A i \in 1 .. L : path[i] \in Nodes
  BY <1>0 DEF SearchTypes
<1>5. n \in Nodes  BY <1>3, EdgesInNodes
<1>6. \A c : ClosedWalk(c)' <=> ClosedWalk(c)  BY <1>1 DEF ClosedWalk
<1>7. CASE n \in recStack
  <2> DEFINE s == CHOOSE i \in DOMAIN path : path[i] = n
             c == CycleAt(n)
  <2>1. s \in 1 .. L /\ path[s] = n
    <3>1. \E i \in DOMAIN path : path[i] = n  BY <1>0, <1>4, <1>7 DEF Stack
    <3> QED  BY <3>1, <1>4
  <2> HIDE DEF s
  <2>2. c = Append(SubSeq(path, s, L), n)  BY DEF CycleAt, s
  <2>3. /\ SubSeq(path, s, L) \in Seq(Nodes)
        /\ Len(SubSeq(path, s, L)) = L - s + 1
        /\ \A j \in 1 .. L - s + 1 : SubSeq(path, s, L)[j] = path[s + j - 1]
    BY <1>0, <1>4, <2>1
  <2> HIDE DEF c, L
  <2>4. /\ c \in Seq(Nodes) /\ Len(c) = L - s + 2
        /\ \A j \in 1 .. L - s + 1 : c[j] = path[s + j - 1]
        /\ c[L - s + 2] = n
    BY <1>0, <1>5, <2>1, <2>2, <2>3
  <2>5. ClosedWalk(c)
    <3>1. Len(c) > 1 /\ c[1] = n /\ c[Len(c)] = n  BY <1>0, <2>1, <2>4
    <3>2. ASSUME NEW j \in 1 .. Len(c) - 1 PROVE c[j + 1] \in Edges(c[j])
      <4>1. CASE j = L - s + 1
        <5>1. c[j] = path[L] /\ c[j + 1] = n  BY <1>0, <2>1, <2>4, <4>1
        <5> QED  BY <1>3, <5>1
      <4>2. CASE j \in 1 .. L - s
        <5>0. j \in 1 .. L - s + 1 /\ j + 1 \in 1 .. L - s + 1 /\ s + (j + 1) - 1 = s + j
          BY <1>0, <2>1, <4>2
        <5>1. c[j] = path[s + j - 1] /\ c[j + 1] = path[s + j]  BY <2>4, <5>0
        <5>2. s + j - 1 \in 1 .. L - 1 /\ (s + j - 1) + 1 = s + j  BY <1>0, <2>1, <4>2
        <5>3. path[(s + j - 1) + 1] \in Edges(path[s + j - 1])  BY <1>0, <5>2 DEF Chain, L
        <5> QED  BY <5>1, <5>2, <5>3
      <4> QED  BY <1>0, <2>1, <2>4, <3>2, <4>1, <4>2
    <3> QED  BY <3>1, <3>2 DEF ClosedWalk
  <2>6. n \in Dependents(n)
    <3>1. CASE s = L  BY <1>3, <2>1, <3>1, DependentsClosed
    <3>2. CASE s < L
      <4>1. path[L] \in Dependents(path[s])  BY <1>0, <1>4, <2>1, <3>2 DEF Chain, L
      <4> QED  BY <1>3, <2>1, <4>1, DependentsClosed
    <3> QED  BY <1>0, <2>1, <3>1, <3>2
  <2>7. /\ cycles' \in Seq(Seq(Nodes)) /\ Len(cycles') = Len(cycles) + 1
        /\ \A i \in 1 .. Len(cycles) : cycles'[i] = cycles[i]
        /\ cycles'[Len(cycles) + 1] = c
        /\ cycles' # <<>>
    <3>1. cycles' = Append(cycles, c)  BY <1>7 DEF c
    <3>2. c \in Seq(Nodes) /\ cycles \in Seq(Seq(Nodes))  BY <1>0, <2>4 DEF SearchTypes
    <3> DEFINE W == Seq(Nodes)
    <3> HIDE DEF W
    <3>3. c \in W /\ cycles \in Seq(W)  BY <3>2 DEF W
    <3>4. /\ cycles' \in Seq(W) /\ Len(cycles') = Len(cycles) + 1
          /\ \A i \in 1 .. Len(cycles) : cycles'[i] = cycles[i]
          /\ cycles'[Len(cycles) + 1] = c
          /\ cycles' # <<>>
      BY <3>1, <3>3
    <3> QED  BY <3>4 DEF W
  <2>8. SearchTypes'
    <3>1. InputOK'  BY <1>0 DEF SearchTypes, InputOK, input
    <3> QED  BY <1>0, <1>1, <1>2, <2>7, <3>1 DEF SearchTypes
  <2>9. Stack'  BY <1>0, <1>2 DEF Stack, L
  <2>10. Chain'
    <3>1. ASSUME NEW i \in 1 .. L PROVE todo'[i] \subseteq Edges(path[i])
      <4>1. todo[i] \subseteq Edges(path[i])  BY <1>0 DEF Chain, L
      <4> QED  BY <1>2, <4>1
    <3> QED  BY <1>0, <1>1, <3>1 DEF Chain, L
  <2>11. Looked'
    <3>1. ASSUME NEW i \in 1 .. L, NEW m \in Edges(path[i]) \ todo'[i] PROVE m \in visited
      <4>1. CASE m = n  BY <4>1
      <4>2. CASE m # n
        <5>1. m \in Edges(path[i]) \ todo[i]  BY <1>2, <4>2
        <5> QED  BY <1>0, <5>1 DEF Looked, L
      <4> QED  BY <4>1, <4>2
    <3> QED  BY <1>1, <2>7, <3>1 DEF Looked, L
  <2>12. Left'  BY <2>7 DEF Left
  <2>13. Reported'
    <3>1. ASSUME NEW i \in DOMAIN cycles' PROVE ClosedWalk(cycles'[i])
      <4>1. i \in 1 .. Len(cycles) \/ i = Len(cycles) + 1  BY <1>0, <2>7 DEF SearchTypes
      <4>2. ASSUME i \in 1 .. Len(cycles) PROVE ClosedWalk(cycles[i])
        BY <1>0, <4>2 DEF SearchInv, Reported, SearchTypes
      <4> QED  BY <2>5, <2>7, <4>1, <4>2
    <3> QED  BY <1>1, <1>5, <1>6, <2>6, <3>1 DEF Reported
  <2>14. SearchEnded'  BY DEF SearchEnded
  <2> QED  BY <2>8, <2>9, <2>10, <2>11, <2>12, <2>13, <2>14 DEF SearchInv
<1>8. CASE n \notin recStack
  <2> HIDE DEF L
  <2>1. cycles' = cycles  BY <1>8
  <2>2. SearchTypes'
    <3>1. InputOK'  BY <1>0 DEF SearchTypes, InputOK, input
    <3> QED  BY <1>0, <1>1, <1>2, <2>1, <3>1 DEF SearchTypes
  <2>3. Stack'  BY <1>0, <1>2 DEF Stack, L
  <2>4. Chain'
    <3>1. ASSUME NEW i \in 1 .. L PROVE todo'[i] \subseteq Edges(path[i])
      <4>1. todo[i] \subseteq Edges(path[i])  BY <1>0 DEF Chain, L
      <4> QED  BY <1>2, <4>1
    <3> QED  BY <1>0, <1>1, <3>1 DEF Chain, L
  <2>5. Looked'
    <3>1. ASSUME NEW i \in 1 .. L, NEW m \in Edges(path[i]) \ todo'[i]
          PROVE  m \in visited /\ (cycles = <<>> => m \notin recStack \/ (i < L /\ m = path[i + 1]))
      <4>1. CASE m = n  BY <1>8, <4>1
      <4>2. CASE m # n
        <5>1. m \in Edges(path[i]) \ todo[i]  BY <1>2, <4>2
        <5> QED  BY <1>0, <5>1 DEF Looked, L
      <4> QED  BY <4>1, <4>2
    <3> QED  BY <1>1, <2>1, <3>1 DEF Looked, L
  <2>6. Left'  BY <1>1, <2>1 DEF SearchInv, Left
  <2>7. Reported'  BY <1>1, <1>6, <2>1 DEF SearchInv, Reported
  <2>8. SearchEnded'  BY DEF SearchEnded
  <2> QED  BY <2>2, <2>3, <2>4, <2>5, <2>6, <2>7, <2>8 DEF SearchInv
<1> QED  BY <1>7, <1>8

\* The call for the top ends: it is in no cycle, for what it leads to was left
\* before it.
LEMMA ReturnKeeps ==
    ASSUME SearchInv, Return
    PROVE  SearchInv'
<1> DEFINE L == Len(path)
           t == path[L]
<1>0. SearchTypes /\ Stack /\ Chain /\ Looked /\ Left /\ L \in Nat \ {0}
  BY DEF SearchInv, SearchTypes, Return
<1>1. Nodes' = Nodes /\ (\A m : Edges(m)' = Edges(m)) /\ (\A m : Dependents(m)' = Dependents(m))
  BY SameGraph DEF Return
<1>2. \A c : ClosedWalk(c)' <=> ClosedWalk(c)  BY <1>1 DEF ClosedWalk
<1>3. /\ path' \in Seq(Nodes) /\ Len(path') = L - 1
      /\ \A i \in 1 .. L - 1 : path'[i] = path[i]
      /\ todo' \in Seq(SUBSET Nodes) /\ Len(todo') = L - 1
      /\ \A i \in 1 .. L - 1 : todo'[i] = todo[i]
      /\ recStack' = recStack \ {t}
      /\ L \in 1 .. L /\ todo[L] = {}
  BY <1>0 DEF Return, SearchTypes, Stack, Top, Rest
<1>4. visited' = visited /\ cycles' = cycles /\ phase' = phase  BY DEF Return
<1>5. /\ \A n : n \in recStack <=> \E i \in 1 .. L : path[i] = n
      /\ \A i, j \in 1 .. L : path[i] = path[j] => i = j
      /\ recStack \subseteq visited
  BY <1>0 DEF Stack
<1>6. t \in recStack  BY <1>3, <1>5
<1>7. SearchTypes'
  <2>1. InputOK'  BY <1>0 DEF SearchTypes, InputOK, input, Return
  <2> QED  BY <1>0, <1>1, <1>3, <1>4, <2>1 DEF SearchTypes
<1>8. Looked'
  <2>1. ASSUME NEW i \in 1 .. L - 1, NEW m \in Edges(path'[i]) \ todo'[i]
        PROVE  /\ m \in visited
               /\ cycles = <<>> => m \notin recStack' \/ (i < L - 1 /\ m = path'[i + 1])
    <3>1. i \in 1 .. L /\ m \in Edges(path[i]) \ todo[i]  BY <1>0, <1>3
    <3>2. m \in visited /\ (cycles = <<>> => m \notin recStack \/ (i < L /\ m = path[i + 1]))
      BY <1>0, <3>1 DEF Looked
    <3>3. i + 1 \in 1 .. L - 1 \/ i + 1 = L  BY <1>0
    <3> HIDE DEF L
    <3> QED  BY <1>0, <1>3, <3>2, <3>3
  <2> QED  BY <1>1, <1>3, <1>4, <2>1 DEF Looked
<1>9. Left'
  <2> SUFFICES ASSUME cycles = <<>>, NEW n \in visited \ recStack'
               PROVE  Edges(n) \subseteq visited \ recStack' /\ n \notin Dependents(n)
    BY <1>1, <1>4 DEF Left
  <2> DEFINE F == visited \ recStack
  <2>1. F \in SUBSET Nodes /\ \A k \in F : Edges(k) \subseteq F /\ k \notin Dependents(k)
    BY <1>0 DEF Left, SearchTypes
  <2>2. Edges(t) \subseteq F
    <3> SUFFICES ASSUME NEW m \in Edges(t) PROVE m \in visited /\ m \notin recStack  OBVIOUS
    <3>1. m \in Edges(path[L]) \ todo[L]  BY <1>3
    <3> QED  BY <1>0, <1>3, <3>1 DEF Looked
  <2>3. Dependents(t) \subseteq F  BY <2>1, <2>2, DependentsClosed
  <2>4. CASE n = t  BY <1>3, <1>6, <2>2, <2>3, <2>4
  <2>5. CASE n # t  BY <1>3, <2>1, <2>5
  <2> QED  BY <2>4, <2>5
<1> HIDE DEF L
<1>10. Stack'
  <2>1. ASSUME NEW m PROVE m \in recStack' <=> \E i \in 1 .. L - 1 : path'[i] = m
    <3>1. 1 .. L = 1 .. L - 1 \cup {L} /\ L \notin 1 .. L - 1  BY <1>0
    <3> QED  BY <1>3, <1>5, <3>1
  <2>2. ASSUME NEW i \in 1 .. L - 1, NEW j \in 1 .. L - 1, path'[i] = path'[j] PROVE i = j
    BY <1>0, <1>3, <1>5, <2>2
  <2> QED  BY <1>3, <1>4, <1>5, <2>1, <2>2 DEF Stack
<1>11. Chain'
  <2>1. ASSUME NEW i \in 1 .. L - 1 PROVE todo'[i] \subseteq Edges(path'[i])
    BY <1>0, <1>3 DEF Chain, L
  <2>2. ASSUME NEW i \in 1 .. L - 1 - 1 PROVE path'[i + 1] \in Edges(path'[i])
    <3>1. i \in 1 .. L - 1 /\ i + 1 \in 1 .. L - 1  BY <1>0
    <3> QED  BY <1>0, <1>3, <3>1 DEF Chain, L
  <2>3. ASSUME NEW i \in 1 .. L - 1, NEW j \in 1 .. L - 1, i < j
        PROVE  path'[j] \in Dependents(path'[i])
    <3>1. i \in 1 .. L /\ j \in 1 .. L  BY <1>0
    <3> QED  BY <1>0, <1>3, <2>3, <3>1 DEF Chain, L
  <2> QED  BY <1>1, <1>3, <2>1, <2>2, <2>3 DEF Chain
<1>12. Reported'  BY <1>1, <1>2, <1>4 DEF SearchInv, Reported
<1>13. SearchEnded'  BY <1>4 DEF SearchEnded, Return
<1> QED  BY <1>7, <1>8, <1>9, <1>10, <1>11, <1>12, <1>13 DEF SearchInv

\* The sort leaves the search's results alone.
LEMMA SortLeavesSearch ==
    ASSUME SearchInv, UNCHANGED <<input, search>>,
           \/ phase' = phase
           \/ path = <<>> /\ Nodes \subseteq visited /\ phase' \in {"sort", "done"}
    PROVE  SearchInv'
<1>1. Nodes' = Nodes /\ (\A m : Edges(m)' = Edges(m)) /\ (\A m : Dependents(m)' = Dependents(m))
  BY SameGraph
<1>2. \A c : ClosedWalk(c)' <=> ClosedWalk(c)  BY <1>1 DEF ClosedWalk
<1>3. UNCHANGED <<visited, recStack, path, todo, cycles>>  BY DEF search
<1>4. SearchTypes'
  <2>1. InputOK'  BY DEF SearchInv, SearchTypes, InputOK, input
  <2> QED  BY <1>1, <1>3, <2>1 DEF SearchInv, SearchTypes
<1>5. Stack'  BY <1>3 DEF SearchInv, Stack
<1>6. Chain'  BY <1>1, <1>3 DEF SearchInv, Chain
<1>7. Looked'  BY <1>1, <1>3 DEF SearchInv, Looked
<1>8. Left'  BY <1>1, <1>3 DEF SearchInv, Left
<1>9. Reported'  BY <1>1, <1>2, <1>3 DEF SearchInv, Reported
<1>10. SearchEnded'  BY <1>1, <1>3 DEF SearchInv, SearchEnded
<1> QED  BY <1>4, <1>5, <1>6, <1>7, <1>8, <1>9, <1>10 DEF SearchInv

\* Every step of detect_cycles keeps its invariant, and the sort does not touch
\* it.
LEMMA SearchStep == SearchInv /\ [Next]_vars => SearchInv'
<1> SUFFICES ASSUME SearchInv, [Next]_vars PROVE SearchInv'  OBVIOUS
<1>0. Nodes \subseteq Names  BY NodesFinite DEF SearchInv, SearchTypes
<1>1. CASE Root
  <2>1. First(Nodes \ visited) \in Nodes \ visited  BY <1>0, <1>1, FirstIsMember DEF Root
  <2> QED  BY <1>1, <2>1, EnterKeeps DEF Root
<1>2. CASE Look
  <2> DEFINE n == First(Rest)
  <2>1. Rest \subseteq Nodes  BY <1>2 DEF Look, Rest, SearchInv, SearchTypes, Stack
  <2>2. n \in Rest /\ n \in Nodes  BY <1>0, <1>2, <2>1, FirstIsMember DEF Look
  <2>3. phase = "cycles" /\ path # <<>> /\ UNCHANGED <<input, phase>>  BY <1>2 DEF Look
  <2>4. CASE n \notin visited
    <3> DEFINE left == [todo EXCEPT ![Len(todo)] = @ \ {n}]
    <3>1. EnterWith(n, left) /\ UNCHANGED cycles  BY <1>2, <2>4 DEF Look
    <3> HIDE DEF n
    <3> QED  BY <2>2, <2>3, <2>4, <3>1, EnterKeeps
  <2>5. CASE n \in visited
    <3>1. /\ cycles' = IF n \in recStack THEN Append(cycles, CycleAt(n)) ELSE cycles
          /\ todo' = [todo EXCEPT ![Len(todo)] = @ \ {n}]
          /\ UNCHANGED <<visited, recStack, path>>
      BY <1>2, <2>5 DEF Look
    <3> HIDE DEF n
    <3> QED  BY <2>2, <2>3, <2>5, <3>1, PassKeeps
  <2> QED  BY <2>4, <2>5
<1>3. CASE Return  BY <1>3, ReturnKeeps
<1>4. CASE StartSort  BY <1>4, SortLeavesSearch DEF StartSort
<1>5. CASE Take  BY <1>5, SortLeavesSearch DEF Take
<1>6. CASE Finish
  <2>1. path = <<>> /\ Nodes \subseteq visited  BY <1>6 DEF Finish, SearchInv, SearchEnded
  <2> QED  BY <1>6, <2>1, SortLeavesSearch DEF Finish
<1>7. CASE UNCHANGED vars  BY <1>7, SortLeavesSearch DEF vars
<1> QED  BY <1>1, <1>2, <1>3, <1>4, <1>5, <1>6, <1>7 DEF Next

\* Circular imports are reported exactly when there are any, and a report is a
\* closed walk along the imports: detect_cycles is right for every program.
THEOREM CyclesFoundAlways == Spec => []CyclesFound
<1>1. SearchInv => CyclesFound
  <2> SUFFICES ASSUME SearchInv PROVE CyclesFound  OBVIOUS
  <2>1. ASSUME phase # "cycles", cycles = <<>>, NEW n \in Nodes PROVE n \notin Dependents(n)
    <3>1. path = <<>> /\ n \in visited  BY <2>1 DEF SearchInv, SearchEnded
    <3>2. n \notin recStack  BY <3>1 DEF SearchInv, Stack
    <3> QED  BY <2>1, <3>1, <3>2 DEF SearchInv, Left
  <2> QED  BY <2>1 DEF SearchInv, Reported, CyclesFound, InCycle
<1> QED  BY <1>1, SearchInit, SearchStep, PTL DEF Spec

-----------------------------------------------------------------------------
(* The sort *)

\* Where every name has a dependency among the same names, each of them is in
\* a cycle or depends on one: the search for dependencies has to come back.
LEMMA LeadsToCycle ==
    ASSUME InputOK, NEW U \in SUBSET Nodes, \A v \in U : \E u \in U : v \in Edges(u),
           NEW n \in U
    PROVE  \E k \in Nodes : InCycle(k) /\ n \in Dependents(k) \cup {k}
<1> DEFINE A == {v \in U : v = n \/ n \in Dependents(v)}
           Anc(v) == {u \in A : v \in Dependents(u)}
           F == {Anc(v) : v \in A}
<1>1. IsFiniteSet(Nodes)  BY NodesFinite
<1>2. A \in SUBSET Nodes /\ n \in A  OBVIOUS
<1>3. ASSUME NEW v \in A
      PROVE  \E u \in A : v \in Edges(u)
  <2>1. PICK u \in U : v \in Edges(u)  OBVIOUS
  <2>2. v \in Dependents(u)  BY <2>1, DependentsClosed
  <2>3. n \in Dependents(u)  BY <2>2, DependentsTransitive
  <2> QED  BY <2>1, <2>3
<1> HIDE DEF A
<1>4. F \in SUBSET (SUBSET Nodes)  BY <1>2
<1>5. F # {}  BY <1>2
<1>6. \E T \in F : \A S \in F : S \subseteq T => S = T
  <2> HIDE DEF F
  <2> QED  BY <1>1, <1>4, <1>5, MinimalSubset
<1>7. PICK v \in A : \A u \in A : Anc(u) \subseteq Anc(v) => Anc(u) = Anc(v)
  <2> HIDE DEF Anc
  <2> QED  BY <1>6
<1>8. PICK u \in A : v \in Edges(u)  BY <1>3
<1>9. u \in Anc(v)  BY <1>8, DependentsClosed
<1>10. Anc(u) \subseteq Anc(v)
  <2> SUFFICES ASSUME NEW w \in Anc(u) PROVE v \in Dependents(w)  OBVIOUS
  <2> QED  BY <1>8, DependentsClosed
<1>11. u \in Dependents(u)
  <2>1. u \in Anc(u)  BY <1>7, <1>9, <1>10
  <2> QED  BY <2>1
<1>12. u \in Nodes /\ n \in Dependents(u) \cup {u}  BY <1>2 DEF A
<1> QED  BY <1>11, <1>12 DEF InCycle

\* The names in the order so far, those in the queue, and the dependencies
\* of n that are not in the order.
Taken == {n \in Nodes : \E i \in 1 .. Len(order) : order[i] = FileIndex(n)}
Queued == {n \in Nodes : \E i \in 1 .. Len(queue) : queue[i] = n}
Pending(n) == {m \in Nodes \ Taken : n \in Edges(m)}

SortTypes ==
    /\ order \in Seq(Files)
    /\ queue \in Seq(Nodes)
    /\ degree \in [Names -> Nat]

\* The order is one of files that stand for names, without repetition.
OrderOK ==
    /\ \A i \in 1 .. Len(order) : \E n \in Nodes : order[i] = FileIndex(n)
    /\ \A i, j \in 1 .. Len(order) : order[i] = order[j] => i = j

\* No name is queued twice, or again.
QueueOK ==
    /\ \A i, j \in 1 .. Len(queue) : queue[i] = queue[j] => i = j
    /\ Queued \cap Taken = {}

\* in_degree counts what is pending; a name without is queued or taken.
DegreeOK ==
    \A n \in Nodes : /\ degree[n] = Cardinality(Pending(n))
                     /\ degree[n] = 0 <=> n \in Taken \cup Queued

\* Dependencies of what is in the order come before it.
Topological ==
    \A j \in 1 .. Len(order) : \A n, m \in Nodes :
        order[j] = FileIndex(n) /\ n \in Edges(m) =>
            \E i \in 1 .. Len(order) : i < j /\ order[i] = FileIndex(m)

SortInv ==
    /\ phase = "cycles" => order = <<>>
    /\ phase = "sort" => SortTypes /\ OrderOK /\ QueueOK /\ DegreeOK /\ Topological
    /\ EveryFileOnce
    /\ DependenciesFirst

\* Different names stand for different files.
LEMMA FilesDiffer ==
    ASSUME InputOK, NEW m \in Nodes, NEW n \in Nodes, FileIndex(m) = FileIndex(n)
    PROVE  m = n
BY FileOfNode

\* Each name has as many dependencies as can be counted.
LEMMA PendingFinite ==
    ASSUME InputOK, NEW n
    PROVE  IsFiniteSet(Pending(n)) /\ Cardinality(Pending(n)) \in Nat
<1>1. Pending(n) \in SUBSET Nodes  BY DEF Pending
<1> QED  BY <1>1, NodesFinite, FS_Subset, FS_CardinalityType

\* The sort begins: every name without a dependency is queued.
LEMMA StartSortKeeps ==
    ASSUME SearchInv, SortInv, StartSort
    PROVE  SortInv'
<1>0. InputOK /\ Nodes \subseteq Names  BY NodesFinite DEF SearchInv, SearchTypes
<1>1. /\ Nodes' = Nodes /\ \A m : Edges(m)' = Edges(m)
      /\ \A m : FileIndex(m)' = FileIndex(m)
  BY SameGraph DEF StartSort
<1>2. phase' = "sort" /\ order = <<>> /\ order' = <<>>  BY DEF StartSort, SortInv
<1>3. Taken = {} /\ Taken' = {}  BY <1>2 DEF Taken
<1>4. \A n : Pending(n)' = Pending(n)  BY <1>1, <1>3 DEF Pending
<1>5. \A n : InDegree(n) = Cardinality(Pending(n))  BY <1>3 DEF InDegree, Pending
<1>6. degree' \in [Names -> Nat] /\ \A n \in Names : degree'[n] = Cardinality(Pending(n))
  BY <1>0, <1>5, PendingFinite DEF StartSort
<1> DEFINE Z == {n \in Nodes : InDegree(n) = 0}
<1>7. Z \in SUBSET Names /\ Z \subseteq Nodes /\ queue' = Sorted(Z)  BY <1>0 DEF StartSort
<1>8. \A n \in Nodes : n \in Z <=> Cardinality(Pending(n)) = 0  BY <1>5
<1> HIDE DEF Z
<1>9. /\ queue' \in Seq(Z)
      /\ \A n \in Z : \E i \in 1 .. Len(queue') : queue'[i] = n
      /\ \A i, j \in 1 .. Len(queue') : queue'[i] = queue'[j] => i = j
  BY <1>7, SortedLists
<1>10. queue' \in Seq(Nodes) /\ \A i \in 1 .. Len(queue') : queue'[i] \in Z  BY <1>7, <1>9
<1>11. Queued' = Z  BY <1>1, <1>7, <1>9, <1>10 DEF Queued
<1>12. SortTypes'  BY <1>1, <1>2, <1>6, <1>10 DEF SortTypes
<1>13. OrderOK' /\ Topological'  BY <1>2 DEF OrderOK, Topological
<1>14. QueueOK'  BY <1>3, <1>9 DEF QueueOK
<1>15. DegreeOK'  BY <1>0, <1>1, <1>3, <1>4, <1>6, <1>8, <1>11 DEF DegreeOK
<1> QED  BY <1>2, <1>12, <1>13, <1>14, <1>15 DEF SortInv, EveryFileOnce, DependenciesFirst

\* A name is taken: all it depends on was taken before, and what waited for it
\* alone is queued.
LEMMA TakeKeeps ==
    ASSUME SearchInv, SortInv, Take
    PROVE  SortInv'
<1> DEFINE n == Head(queue)
           Z == {m \in Edges(n) : degree[m] = 1}
           L == Len(order)
<1>0. InputOK /\ Nodes \subseteq Names  BY NodesFinite DEF SearchInv, SearchTypes
<1>1. /\ Nodes' = Nodes /\ (\A m : Edges(m)' = Edges(m))
      /\ \A m : FileIndex(m)' = FileIndex(m)
  BY SameGraph DEF Take
<1>2. SortTypes /\ OrderOK /\ QueueOK /\ DegreeOK /\ Topological /\ phase' = "sort"
  BY DEF SortInv, Take
<1>3. /\ order \in Seq(Files) /\ queue \in Seq(Nodes) /\ degree \in [Names -> Nat] /\ L \in Nat
      /\ queue # <<>>
  BY <1>2 DEF SortTypes, Take
<1>4. /\ n \in Nodes /\ Tail(queue) \in Seq(Nodes) /\ Len(Tail(queue)) = Len(queue) - 1
      /\ \A i \in 1 .. Len(queue) - 1 : Tail(queue)[i] = queue[i + 1]
      /\ n = queue[1] /\ Len(queue) \in Nat \ {0}
  BY <1>3
<1>5. /\ order' = Append(order, FileIndex(n))
      /\ degree' = [m \in Names |-> IF m \in Edges(n) THEN degree[m] - 1 ELSE degree[m]]
      /\ queue' = Tail(queue) \o Sorted(Z)
  BY DEF Take
<1>6. n \in Queued /\ n \notin Taken  BY <1>2, <1>4 DEF Queued, QueueOK
<1> HIDE DEF n, L, Z
<1>7. Pending(n) = {}
  <2>1. Cardinality(Pending(n)) = 0  BY <1>2, <1>4, <1>6 DEF DegreeOK
  <2> QED  BY <1>0, <2>1, PendingFinite, FS_EmptySet
<1>8. \A m \in Nodes : n \in Edges(m) => m \in Taken  BY <1>7 DEF Pending
<1>9. n \notin Edges(n)  BY <1>4, <1>6, <1>8
<1>10. FileIndex(n) \in Files  BY <1>0, <1>4, FileOfNode
<1>11. /\ order' \in Seq(Files) /\ Len(order') = L + 1
       /\ \A i \in 1 .. L : order'[i] = order[i]
       /\ order'[L + 1] = FileIndex(n)
  BY <1>3, <1>5, <1>10 DEF L
<1>12. 1 .. L + 1 = 1 .. L \cup {L + 1}  BY <1>3
<1>13. Taken' = Taken \cup {n}
  <2>1. ASSUME NEW m \in Nodes
        PROVE  (\E i \in 1 .. L + 1 : order'[i] = FileIndex(m)) <=> m \in Taken \/ m = n
    <3>1. FileIndex(n) = FileIndex(m) <=> m = n  BY <1>0, <1>4, FilesDiffer
    <3>2. m \in Taken <=> \E i \in 1 .. L : order[i] = FileIndex(m)  BY DEF Taken, L
    <3> QED  BY <1>11, <1>12, <3>1, <3>2
  <2>2. Taken' = {m \in Nodes : \E i \in 1 .. L + 1 : order'[i] = FileIndex(m)}
    BY <1>1, <1>11 DEF Taken
  <2> QED  BY <1>4, <2>1, <2>2 DEF Taken
<1>14. ASSUME NEW m \in Nodes
       PROVE  /\ Pending(m)' = Pending(m) \ {n}
              /\ n \in Pending(m) <=> m \in Edges(n)
  BY <1>1, <1>4, <1>6, <1>13 DEF Pending
<1>15. ASSUME NEW m \in Nodes
       PROVE  /\ m \in Edges(n) => degree[m] \in Nat \ {0}
              /\ degree'[m] = Cardinality(Pending(m)') /\ degree'[m] \in Nat
  <2>1. degree[m] = Cardinality(Pending(m)) /\ degree[m] \in Nat /\ IsFiniteSet(Pending(m))
    BY <1>0, <1>2, <1>3, PendingFinite DEF DegreeOK
  <2>2. m \in Edges(n) => degree[m] # 0  BY <1>14, <2>1, FS_EmptySet
  <2>3. Cardinality(Pending(m) \ {n}) = IF n \in Pending(m) THEN degree[m] - 1 ELSE degree[m]
    BY <2>1, FS_RemoveElement
  <2>4. degree'[m] = IF m \in Edges(n) THEN degree[m] - 1 ELSE degree[m]  BY <1>0, <1>5
  <2>5. degree'[m] = Cardinality(Pending(m) \ {n})
    <3>1. m \in Edges(n) <=> n \in Pending(m)  BY <1>14
    <3> QED  BY <2>3, <2>4, <3>1
  <2>6. Cardinality(Pending(m)') = Cardinality(Pending(m) \ {n})  BY <1>14
  <2>7. degree'[m] \in Nat  BY <2>1, <2>2, <2>4
  <2> QED  BY <2>1, <2>2, <2>5, <2>6, <2>7
<1>16. degree' \in [Names -> Nat]
  <2>1. ASSUME NEW m \in Names, m \in Edges(n) PROVE degree[m] - 1 \in Nat
    <3>1. m \in Nodes  BY <2>1, EdgesInNodes
    <3> QED  BY <1>15, <2>1, <3>1
  <2> QED  BY <1>3, <1>5, <2>1
<1>17. Z \in SUBSET Names /\ Z \subseteq Nodes  BY <1>0, EdgesInNodes DEF Z
<1> DEFINE s == Sorted(Z)
           T == Len(queue) - 1
<1>18. /\ s \in Seq(Z)
       /\ \A m \in Z : \E i \in 1 .. Len(s) : s[i] = m
       /\ \A i, j \in 1 .. Len(s) : s[i] = s[j] => i = j
  BY <1>17, SortedLists
<1> HIDE DEF s
<1>19. s \in Seq(Nodes) /\ Len(s) \in Nat /\ \A i \in 1 .. Len(s) : s[i] \in Z  BY <1>17, <1>18
<1>20. /\ queue' \in Seq(Nodes) /\ Len(queue') = T + Len(s) /\ T \in Nat
       /\ \A i \in 1 .. T : queue'[i] = queue[i + 1]
       /\ \A i \in 1 .. Len(s) : queue'[T + i] = s[i]
  <2>1. queue' = Tail(queue) \o s  BY <1>5 DEF s
  <2> QED  BY <1>4, <1>19, <2>1
<1> HIDE DEF T
<1>21. \A i \in 1 .. T + Len(s) : i \in 1 .. T \/ \E j \in 1 .. Len(s) : i = T + j
  <2> SUFFICES ASSUME NEW i \in 1 .. T + Len(s), i \notin 1 .. T
               PROVE  \E j \in 1 .. Len(s) : i = T + j
    OBVIOUS
  <2>1. i - T \in 1 .. Len(s) /\ i = T + (i - T)  BY <1>19, <1>20
  <2> QED  BY <2>1
<1>22. ASSUME NEW i \in 1 .. T
       PROVE  queue[i + 1] \in Queued /\ queue[i + 1] # n /\ i + 1 \in 1 .. Len(queue)
  <2>1. i + 1 \in 1 .. Len(queue) /\ 1 \in 1 .. Len(queue) /\ i + 1 # 1  BY <1>4 DEF T
  <2>2. queue[i + 1] \in Nodes  BY <1>3, <2>1
  <2> QED  BY <1>2, <1>4, <2>1, <2>2 DEF QueueOK, Queued
<1>23. Z \cap (Queued \cup Taken) = {}
  <2> SUFFICES ASSUME NEW m \in Z, m \in Queued \cup Taken PROVE FALSE  OBVIOUS
  <2> QED  BY <1>2, <1>17 DEF Z, DegreeOK
<1>24. Queued' = (Queued \ {n}) \cup Z
  <2>1. Queued' = {m \in Nodes : \E i \in 1 .. T + Len(s) : queue'[i] = m}
    BY <1>1, <1>20 DEF Queued
  <2>2. ASSUME NEW m \in Queued' PROVE m \in (Queued \ {n}) \cup Z
    <3>1. PICK i \in 1 .. T + Len(s) : queue'[i] = m  BY <2>1, <2>2
    <3>2. CASE i \in 1 .. T  BY <1>20, <1>22, <3>1, <3>2
    <3>3. CASE i \notin 1 .. T
      <4>1. PICK j \in 1 .. Len(s) : i = T + j  BY <1>21, <3>3
      <4> QED  BY <1>19, <1>20, <3>1, <4>1
    <3> QED  BY <3>2, <3>3
  <2>3. ASSUME NEW m \in Queued, m # n PROVE m \in Queued'
    <3>1. PICK i \in 1 .. Len(queue) : queue[i] = m  BY DEF Queued
    <3>2. i # 1  BY <1>4, <2>3, <3>1
    <3>3. i - 1 \in 1 .. T /\ (i - 1) + 1 = i /\ i - 1 \in 1 .. T + Len(s)
      BY <1>4, <1>19, <3>1, <3>2 DEF T
    <3>4. queue'[i - 1] = m  BY <1>20, <3>1, <3>3
    <3> QED  BY <2>1, <3>3, <3>4 DEF Queued
  <2>4. ASSUME NEW m \in Z PROVE m \in Queued'
    <3>1. PICK i \in 1 .. Len(s) : s[i] = m  BY <1>18
    <3>2. T + i \in 1 .. T + Len(s)  BY <1>19, <1>20
    <3> QED  BY <1>17, <1>20, <2>1, <3>1, <3>2
  <2> QED  BY <2>2, <2>3, <2>4
<1>25. SortTypes'  BY <1>1, <1>11, <1>16, <1>20 DEF SortTypes, Files
<1>26. OrderOK'
  <2>1. ASSUME NEW i \in 1 .. L + 1 PROVE \E m \in Nodes : order'[i] = FileIndex(m)
    BY <1>2, <1>4, <1>11, <1>12 DEF OrderOK, L
  <2>2. ASSUME NEW i \in 1 .. L PROVE order[i] # FileIndex(n)  BY <1>4, <1>6 DEF Taken, L
  <2>3. ASSUME NEW i \in 1 .. L + 1, NEW j \in 1 .. L + 1, order'[i] = order'[j] PROVE i = j
    <3>1. \A k, l \in 1 .. L : order[k] = order[l] => k = l  BY <1>2 DEF OrderOK, L
    <3> QED  BY <1>11, <1>12, <2>2, <2>3, <3>1
  <2> QED  BY <1>1, <1>11, <2>1, <2>3 DEF OrderOK
<1>27. QueueOK'
  <2>1. ASSUME NEW i \in 1 .. T + Len(s), NEW j \in 1 .. T + Len(s), queue'[i] = queue'[j]
        PROVE  i = j
    <3>1. CASE i \in 1 .. T /\ j \in 1 .. T
      <4>1. queue[i + 1] = queue[j + 1] /\ i + 1 \in 1 .. Len(queue) /\ j + 1 \in 1 .. Len(queue)
        BY <1>20, <1>22, <2>1, <3>1
      <4>2. i + 1 = j + 1  BY <1>2, <4>1 DEF QueueOK
      <4> QED  BY <4>2
    <3>2. CASE i \notin 1 .. T /\ j \notin 1 .. T
      <4>1. PICK k \in 1 .. Len(s), l \in 1 .. Len(s) : i = T + k /\ j = T + l  BY <1>21, <3>2
      <4>2. s[k] = s[l]  BY <1>20, <2>1, <4>1
      <4> QED  BY <1>18, <4>1, <4>2
    <3>3. CASE i \in 1 .. T /\ j \notin 1 .. T
      <4>1. PICK l \in 1 .. Len(s) : j = T + l  BY <1>21, <3>3
      <4> QED  BY <1>19, <1>20, <1>22, <1>23, <2>1, <3>3, <4>1
    <3>4. CASE i \notin 1 .. T /\ j \in 1 .. T
      <4>1. PICK k \in 1 .. Len(s) : i = T + k  BY <1>21, <3>4
      <4> QED  BY <1>19, <1>20, <1>22, <1>23, <2>1, <3>4, <4>1
    <3> QED  BY <3>1, <3>2, <3>3, <3>4
  <2>2. Queued' \cap Taken' = {}
    <3>1. n \notin Z  BY <1>9 DEF Z
    <3> QED  BY <1>2, <1>13, <1>23, <1>24, <3>1 DEF QueueOK
  <2> QED  BY <1>20, <2>1, <2>2 DEF QueueOK
<1>28. DegreeOK'
  <2>1. ASSUME NEW m \in Nodes
        PROVE  degree'[m] = 0 <=> m \in Taken' \cup Queued'
    <3>1. degree'[m] = IF m \in Edges(n) THEN degree[m] - 1 ELSE degree[m]  BY <1>0, <1>5
    <3>2. degree'[m] = 0 <=> degree[m] = 0 \/ m \in Z  BY <1>15, <3>1 DEF Z
    <3>3. degree[m] = 0 <=> m \in Taken \cup Queued  BY <1>2 DEF DegreeOK
    <3> QED  BY <1>6, <1>13, <1>24, <3>2, <3>3
  <2> QED  BY <1>1, <1>15, <2>1 DEF DegreeOK
<1>29. Topological'
  <2>1. ASSUME NEW j \in 1 .. L + 1, NEW k \in Nodes, NEW m \in Nodes,
               order'[j] = FileIndex(k), k \in Edges(m)
        PROVE  \E i \in 1 .. L + 1 : i < j /\ order'[i] = FileIndex(m)
    <3>1. CASE j \in 1 .. L
      <4>1. PICK i \in 1 .. L : i < j /\ order[i] = FileIndex(m)
        BY <1>2, <1>11, <2>1, <3>1 DEF Topological, L
      <4> QED  BY <1>11, <1>12, <4>1
    <3>2. CASE j = L + 1
      <4>1. k = n  BY <1>0, <1>4, <1>11, <2>1, <3>2, FilesDiffer
      <4>2. PICK i \in 1 .. L : order[i] = FileIndex(m)  BY <1>8, <2>1, <4>1 DEF Taken, L
      <4>3. i < L + 1 /\ i \in 1 .. L + 1  BY <1>3
      <4> QED  BY <1>11, <3>2, <4>2, <4>3
    <3> QED  BY <1>12, <3>1, <3>2
  <2> QED  BY <1>1, <1>11, <2>1 DEF Topological
<1> QED  BY <1>2, <1>25, <1>26, <1>27, <1>28, <1>29 DEF SortInv, EveryFileOnce, DependenciesFirst

\* What a cycle keeps back is appended: the order is complete.
LEMMA FinishKeeps ==
    ASSUME SearchInv, SortInv, Finish
    PROVE  SortInv'
<1> DEFINE U == {n \in Nodes : FileIndex(n) \notin Listed}
           late == Sorted(U)
           added == [i \in DOMAIN late |-> FileIndex(late[i])]
           L == Len(order)
           K == Len(late)
<1>0. InputOK /\ Nodes \subseteq Names  BY NodesFinite DEF SearchInv, SearchTypes
<1>1. /\ Nodes' = Nodes /\ (\A m : Edges(m)' = Edges(m)) /\ (\A m : FileIndex(m)' = FileIndex(m))
      /\ \A m : Dependents(m)' = Dependents(m)
  BY SameGraph DEF Finish
<1>2. SortTypes /\ OrderOK /\ DegreeOK /\ Topological /\ phase' = "done" /\ queue = <<>>
  BY DEF SortInv, Finish
<1>3. order \in Seq(Files) /\ L \in Nat /\ DOMAIN order = 1 .. L  BY <1>2 DEF SortTypes
<1>4. U = Nodes \ Taken  BY <1>3 DEF Taken, Listed
<1>5. U \in SUBSET Names  BY <1>0
<1>6. order' = order \o added  BY DEF Finish
<1> HIDE DEF U
<1>7. /\ late \in Seq(U)
      /\ \A m \in U : \E i \in 1 .. K : late[i] = m
      /\ \A i, j \in 1 .. K : late[i] = late[j] => i = j
  BY <1>5, SortedLists
<1>8. K \in Nat /\ DOMAIN late = 1 .. K /\ \A i \in 1 .. K : late[i] \in U  BY <1>7
<1> HIDE DEF late
<1>9. \A i \in 1 .. K : FileIndex(late[i]) \in Files  BY <1>0, <1>4, <1>8, FileOfNode
<1>10. added \in Seq(Files) /\ Len(added) = K /\ \A i \in 1 .. K : added[i] = FileIndex(late[i])
  <2>1. added = [i \in 1 .. K |-> FileIndex(late[i])]  BY <1>8
  <2> HIDE DEF added, K
  <2> QED  BY <1>8, <1>9, <2>1
<1> HIDE DEF added, L, K
<1>11. /\ order' \in Seq(Files) /\ Len(order') = L + K
       /\ \A i \in 1 .. L : order'[i] = order[i]
       /\ \A i \in 1 .. K : order'[L + i] = FileIndex(late[i])
  <2>1. /\ order' \in Seq(Files) /\ Len(order') = L + K
        /\ \A i \in 1 .. L : order'[i] = order[i]
        /\ \A i \in 1 .. K : order'[L + i] = added[i]
    <3>1. Len(order) = L /\ Len(added) = K  BY <1>10 DEF L
    <3>2. order \in Seq(Files) /\ added \in Seq(Files) /\ order' = order \o added
      BY <1>3, <1>6, <1>10
    <3>3. /\ order \o added \in Seq(Files)
          /\ Len(order \o added) = Len(order) + Len(added)
          /\ \A i \in 1 .. Len(order) : (order \o added)[i] = order[i]
          /\ \A i \in 1 .. Len(added) : (order \o added)[Len(order) + i] = added[i]
      <4>1. order \o added \in Seq(Files)  BY <3>2, Concatenated
      <4>2. Len(order \o added) = Len(order) + Len(added)  BY <3>2, Concatenated
      <4>3. \A i \in 1 .. Len(order) : (order \o added)[i] = order[i]  BY <3>2, Concatenated
      <4>4. \A i \in 1 .. Len(added) : (order \o added)[Len(order) + i] = added[i]  BY <3>2, Concatenated
      <4> QED  BY <4>1, <4>2, <4>3, <4>4
    <3> QED  BY <3>1, <3>2, <3>3, Zenon
  <2> QED  BY <1>10, <2>1
<1>12. \A i \in 1 .. L + K : i \in 1 .. L \/ \E j \in 1 .. K : i = L + j
  <2> SUFFICES ASSUME NEW i \in 1 .. L + K, i \notin 1 .. L
               PROVE  \E j \in 1 .. K : i = L + j
    OBVIOUS
  <2>1. i - L \in 1 .. K /\ i = L + (i - L)  BY <1>3, <1>8
  <2> QED  BY <2>1
<1>13. /\ \A i \in 1 .. L : i \in 1 .. L + K
       /\ \A i \in 1 .. K : L + i \in 1 .. L + K /\ L + i \notin 1 .. L
  BY <1>3, <1>8
\* The files listed are those that stand for names, each once.
<1>14. ASSUME NEW i \in 1 .. L + K
       PROVE  \E n \in Nodes : order'[i] = FileIndex(n) /\ (n \in Taken <=> i \in 1 .. L)
  <2>1. CASE i \in 1 .. L
    <3>1. PICK n \in Nodes : order[i] = FileIndex(n)  BY <1>2, <2>1 DEF OrderOK, L
    <3>2. n \in Taken  BY <2>1, <3>1 DEF Taken, L
    <3> QED  BY <1>11, <2>1, <3>1, <3>2
  <2>2. CASE i \notin 1 .. L
    <3>1. PICK j \in 1 .. K : i = L + j  BY <1>12, <2>2
    <3> QED  BY <1>4, <1>8, <1>11, <2>2, <3>1
  <2> QED  BY <2>1, <2>2
<1>15. ASSUME NEW n \in Nodes
       PROVE  \E i \in 1 .. L + K : order'[i] = FileIndex(n)
  <2>1. CASE n \in Taken
    <3>1. PICK i \in 1 .. L : order[i] = FileIndex(n)  BY <2>1 DEF Taken, L
    <3> QED  BY <1>11, <1>13, <3>1
  <2>2. CASE n \notin Taken
    <3>1. PICK j \in 1 .. K : late[j] = n  BY <1>4, <1>7, <2>2 DEF K
    <3> QED  BY <1>11, <1>13, <3>1
  <2> QED  BY <2>1, <2>2
<1>16. ASSUME NEW i \in 1 .. L + K, NEW j \in 1 .. L + K, order'[i] = order'[j]
       PROVE  i = j
  <2>1. CASE i \in 1 .. L /\ j \in 1 .. L  BY <1>2, <1>11, <1>16, <2>1 DEF OrderOK, L
  <2>2. CASE i \notin 1 .. L /\ j \notin 1 .. L
    <3>1. PICK k \in 1 .. K, l \in 1 .. K : i = L + k /\ j = L + l  BY <1>12, <2>2
    <3>2. FileIndex(late[k]) = FileIndex(late[l])  BY <1>11, <1>16, <3>1
    <3>3. late[k] \in Nodes /\ late[l] \in Nodes  BY <1>4, <1>8
    <3>4. late[k] = late[l]  BY <1>0, <3>2, <3>3, FilesDiffer
    <3> QED  BY <1>7, <3>1, <3>4 DEF K
  <2>3. CASE ~(i \in 1 .. L <=> j \in 1 .. L)
    <3>1. PICK m \in Nodes : order'[i] = FileIndex(m) /\ (m \in Taken <=> i \in 1 .. L)  BY <1>14
    <3>2. PICK n \in Nodes : order'[j] = FileIndex(n) /\ (n \in Taken <=> j \in 1 .. L)  BY <1>14
    <3>3. m = n  BY <1>0, <1>16, <3>1, <3>2, FilesDiffer
    <3> QED  BY <2>3, <3>1, <3>2, <3>3
  <2> QED  BY <2>1, <2>2, <2>3
<1>17. DOMAIN order' = 1 .. L + K  BY <1>11
<1>18. \A f \in Files : \E g \in Listed' : name'[g] = name'[f]
  <2> SUFFICES ASSUME NEW f \in Files PROVE \E g \in Listed' : name'[g] = name'[f]  OBVIOUS
  <2>1. name' = name /\ name[f] \in Nodes  BY DEF Finish, input, Nodes
  <2>2. PICK i \in 1 .. L + K : order'[i] = FileIndex(name[f])  BY <1>15, <2>1
  <2>3. name[FileIndex(name[f])] = name[f]  BY <1>0, <2>1, FileOfNode
  <2>4. order'[i] \in Listed'  BY <1>17 DEF Listed
  <2> QED  BY <2>1, <2>2, <2>3, <2>4
<1>19. EveryFileOnce'  BY <1>16, <1>17, <1>18 DEF EveryFileOnce, Files
\* Whoever is kept back depends on a cycle.
<1>20. ASSUME NEW m \in Nodes, NEW n \in Edges(m)
       PROVE  Before(FileIndex(m), FileIndex(n))' \/ \E k \in Nodes : InCycle(k) /\ n \in Dependents(k) \cup {k}
  <2>0. n \in Nodes  BY EdgesInNodes
  <2>1. CASE n \in Taken
    <3>1. PICK j \in 1 .. L : order[j] = FileIndex(n)  BY <2>1 DEF Taken, L
    <3>2. PICK i \in 1 .. L : i < j /\ order[i] = FileIndex(m)
      BY <1>2, <2>0, <3>1 DEF Topological, L
    <3>3. /\ i \in DOMAIN order' /\ j \in DOMAIN order' /\ i < j
          /\ order'[i] = FileIndex(m) /\ order'[j] = FileIndex(n)
      BY <1>11, <1>13, <3>1, <3>2
    <3> QED  BY <1>1, <3>3 DEF Before
  <2>2. CASE n \notin Taken
    <3>1. ASSUME NEW v \in U PROVE \E u \in U : v \in Edges(u)
      <4>1. v \in Nodes /\ v \notin Taken  BY <1>4
      <4>2. v \notin Queued  BY <1>2 DEF Queued
      <4>3. Cardinality(Pending(v)) # 0  BY <1>2, <4>1, <4>2 DEF DegreeOK
      <4>4. Pending(v) # {}  BY <4>3, FS_EmptySet
      <4> QED  BY <1>4, <4>4 DEF Pending
    <3>2. n \in U /\ U \in SUBSET Nodes  BY <1>4, <2>0, <2>2
    <3>3. \E k \in Nodes : InCycle(k) /\ n \in Dependents(k) \cup {k}
      BY <1>0, <3>1, <3>2, LeadsToCycle
    <3> QED  BY <3>3
  <2> QED  BY <2>1, <2>2
<1>21. DependenciesFirst'
  <2>1. \A k : InCycle(k)' <=> InCycle(k)  BY <1>1 DEF InCycle
  <2>2. \A m, n : Before(FileIndex(m), FileIndex(n))' <=>
                    \E i, j \in DOMAIN order' : i < j /\ order'[i] = FileIndex(m) /\ order'[j] = FileIndex(n)
    BY <1>1 DEF Before
  <2> QED  BY <1>1, <1>20, <2>1, <2>2 DEF DependenciesFirst
<1> QED  BY <1>2, <1>19, <1>21 DEF SortInv

\* Everything else leaves the sort alone.
LEMMA SearchLeavesSort ==
    ASSUME SortInv, UNCHANGED <<input, phase, sort>>
    PROVE  SortInv'
<1>1. /\ Nodes' = Nodes /\ (\A m : Edges(m)' = Edges(m)) /\ (\A m : FileIndex(m)' = FileIndex(m))
      /\ \A m : Dependents(m)' = Dependents(m)
  BY SameGraph
<1>2. degree' = degree /\ queue' = queue /\ order' = order /\ phase' = phase  BY DEF sort
<1>3. Taken' = Taken /\ Queued' = Queued  BY <1>1, <1>2 DEF Taken, Queued
<1>4. \A n : Pending(n)' = Pending(n)  BY <1>1, <1>3 DEF Pending
<1>5. Listed' = Listed  BY <1>2 DEF Listed
<1>6. EveryFileOnce'  BY <1>2, <1>5 DEF SortInv, EveryFileOnce, input, Files
<1>7. DependenciesFirst'
  <2>1. \A k : InCycle(k)' <=> InCycle(k)  BY <1>1 DEF InCycle
  <2>2. \A m, n : Before(FileIndex(m), FileIndex(n))' <=> Before(FileIndex(m), FileIndex(n))
    BY <1>1, <1>2 DEF Before
  <2> QED  BY <1>1, <1>2, <2>1, <2>2 DEF SortInv, DependenciesFirst
<1>8. phase = "sort" => (SortTypes /\ OrderOK /\ QueueOK /\ DegreeOK /\ Topological)'
  BY <1>1, <1>2, <1>3, <1>4
     DEF SortInv, SortTypes, OrderOK, QueueOK, DegreeOK, Topological, Files
<1> QED  BY <1>2, <1>6, <1>7, <1>8 DEF SortInv

\* Before the sort nothing is listed.
LEMMA SortInit == Init => SortInv
BY DEF Init, SortInv, EveryFileOnce, DependenciesFirst

\* Every step of topological_sort keeps its invariant.
LEMMA SortStep == SearchInv /\ SortInv /\ [Next]_vars => SortInv'
<1> SUFFICES ASSUME SearchInv, SortInv, [Next]_vars PROVE SortInv'  OBVIOUS
<1>1. CASE Root  BY <1>1, SearchLeavesSort DEF Root
<1>2. CASE Look  BY <1>2, SearchLeavesSort DEF Look
<1>3. CASE Return  BY <1>3, SearchLeavesSort DEF Return
<1>4. CASE StartSort  BY <1>4, StartSortKeeps
<1>5. CASE Take  BY <1>5, TakeKeeps
<1>6. CASE Finish  BY <1>6, FinishKeeps
<1>7. CASE UNCHANGED vars  BY <1>7, SearchLeavesSort DEF vars
<1> QED  BY <1>1, <1>2, <1>3, <1>4, <1>5, <1>6, <1>7 DEF Next

\* topological_sort puts every file after the files it imports, unless it is
\* in a cycle or depends on one.
THEOREM ImportsComeFirst == Spec => []DependenciesFirst
<1>1. SortInv => DependenciesFirst  BY DEF SortInv
<1> QED  BY <1>1, SearchInit, SearchStep, SortInit, SortStep, PTL DEF Spec

\* topological_sort lists no file twice and misses no file, in a cycle or not,
\* whose name is its own.
THEOREM EveryFileListed == Spec => []EveryFileOnce
<1>1. SortInv => EveryFileOnce  BY DEF SortInv
<1> QED  BY <1>1, SearchInit, SearchStep, SortInit, SortStep, PTL DEF Spec
=============================================================================
