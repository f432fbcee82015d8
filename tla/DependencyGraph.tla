-------------------------- MODULE DependencyGraph --------------------------
(***************************************************************************)
(* The order in which the files of a program are compiled                  *)
(* (compiler/src/dependency_graph.rs).  A file is known by the qualified   *)
(* name of its first type; an import of a known name is an edge from the   *)
(* imported file to the importing one.  analyze first looks for cycles, by *)
(* depth-first search, and then sorts with Kahn's algorithm; what a cycle  *)
(* keeps out of the order is appended at the end.                          *)
(*                                                                         *)
(* Names are numbered in the order of the BTreeMap's keys.                 *)
(***************************************************************************)
EXTENDS Naturals, Sequences, FiniteSets

CONSTANTS NFiles,        \* how many files the program has
          NNames         \* qualified names in use

ASSUME NFilesNat == NFiles \in Nat
ASSUME NNamesNat == NNames \in Nat

Files == 1 .. NFiles
Names == 1 .. NNames

VARIABLES name,          \* extract_package_name of each file
          imports,       \* extract_imports of each file
          phase,         \* which part of analyze runs
          visited,       \* detect_cycles: names that were entered
          recStack,      \* names that were entered and not left
          path,          \* the same, in order
          todo,          \* for each of them the neighbours left to look at
          cycles,        \* the circular dependencies found, in order
          degree,        \* topological_sort: in_degree
          queue,         \* names without an unsorted dependency
          order          \* file indices, sorted

input == <<name, imports>>
search == <<visited, recStack, path, todo, cycles>>
sort == <<degree, queue, order>>
vars == <<input, phase, search, sort>>

-----------------------------------------------------------------------------
(* from_files *)

\* The keys of nodes.
Nodes == {name[f] : f \in Files}

\* A later file of the same name replaces the earlier one.
FileIndex(n) == CHOOSE f \in Files : name[f] = n /\ \A g \in Files : name[g] = n => g <= f

\* edges: from what is imported to who imports it; imports of names outside
\* of the program are left out.
Edges(n) == {m \in Nodes : n \in Nodes /\ \E f \in Files : name[f] = m /\ n \in imports[f]}

\* A set of names as the BTreeSet iterates over it.
Sorted(S) == [i \in 1 .. Cardinality(S) |->
                 CHOOSE n \in S : Cardinality({m \in S : m <= n}) = i]
First(S) == CHOOSE n \in S : \A m \in S : n <= m

\* Any files with any imports.
Init == /\ name \in [Files -> Names]
        /\ imports \in [Files -> SUBSET Names]
        /\ phase = "cycles"
        /\ visited = {} /\ recStack = {} /\ path = <<>> /\ todo = <<>> /\ cycles = <<>>
        /\ degree = [n \in Names |-> 0]
        /\ queue = <<>> /\ order = <<>>

-----------------------------------------------------------------------------
(* detect_cycles *)

Top == path[Len(path)]
Rest == todo[Len(todo)]

\* The call for n begins.
EnterWith(n, rest) ==
    /\ visited' = visited \cup {n}
    /\ recStack' = recStack \cup {n}
    /\ path' = Append(path, n)
    /\ todo' = Append(rest, Edges(n))

\* analyze starts a search at the first name that was not visited.
Root ==
    /\ phase = "cycles" /\ path = <<>> /\ Nodes \ visited # {}
    /\ EnterWith(First(Nodes \ visited), todo)
    /\ UNCHANGED <<input, phase, cycles, sort>>

\* The path from n to the top, closed.
CycleAt(n) ==
    LET start == CHOOSE i \in DOMAIN path : path[i] = n
    IN Append(SubSeq(path, start, Len(path)), n)

\* Mutant: any visited neighbour closes a cycle.
LookVisited ==
    /\ phase = "cycles" /\ path # <<>> /\ Rest # {}
    /\ LET n == First(Rest)
           left == [todo EXCEPT ![Len(todo)] = @ \ {n}]
       IN IF n \notin visited
          THEN EnterWith(n, left) /\ UNCHANGED cycles
          ELSE /\ cycles' = Append(cycles, <<n, Top, n>>)
               /\ todo' = left
               /\ UNCHANGED <<visited, recStack, path>>
    /\ UNCHANGED <<input, phase, sort>>

\* The next neighbour: enter it, report a cycle or pass it by.
Look ==
    /\ phase = "cycles" /\ path # <<>> /\ Rest # {}
    /\ LET n == First(Rest)
           left == [todo EXCEPT ![Len(todo)] = @ \ {n}]
       IN IF n \notin visited
          THEN EnterWith(n, left) /\ UNCHANGED cycles
          ELSE /\ cycles' = IF n \in recStack THEN Append(cycles, CycleAt(n)) ELSE cycles
               /\ todo' = left
               /\ UNCHANGED <<visited, recStack, path>>
    /\ UNCHANGED <<input, phase, sort>>

\* The call for the top ends.
Return ==
    /\ phase = "cycles" /\ path # <<>> /\ Rest = {}
    /\ recStack' = recStack \ {Top}
    /\ path' = SubSeq(path, 1, Len(path) - 1)
    /\ todo' = SubSeq(todo, 1, Len(todo) - 1)
    /\ UNCHANGED <<input, phase, visited, cycles, sort>>

-----------------------------------------------------------------------------
(* topological_sort *)

InDegree(n) == Cardinality({m \in Nodes : n \in Edges(m)})

\* Mutant: the search is over when it has met as many names as there are files.
StartSortFiles ==
    /\ phase = "cycles" /\ path = <<>> /\ Cardinality(visited) = NFiles
    /\ phase' = "sort"
    /\ degree' = [n \in Names |-> InDegree(n)]
    /\ queue' = Sorted({n \in Nodes : InDegree(n) = 0})
    /\ UNCHANGED <<input, search, order>>

\* Every name was visited: count the dependencies and queue what has none.
StartSort ==
    /\ phase = "cycles" /\ path = <<>> /\ Nodes \subseteq visited
    /\ phase' = "sort"
    /\ degree' = [n \in Names |-> InDegree(n)]
    /\ queue' = Sorted({n \in Nodes : InDegree(n) = 0})
    /\ UNCHANGED <<input, search, order>>

\* Mutant: a neighbour is ready with its first dependency.
TakeEager ==
    /\ phase = "sort" /\ queue # <<>>
    /\ LET n == Head(queue)
       IN /\ order' = Append(order, FileIndex(n))
          /\ degree' = [m \in Names |-> IF m \in Edges(n) THEN 0 ELSE degree[m]]
          /\ queue' = Tail(queue) \o Sorted({m \in Edges(n) : degree[m] > 0})
    /\ UNCHANGED <<input, phase, search>>

\* pop_front; the neighbours lose a dependency, and those that lose their last
\* one are queued.
Take ==
    /\ phase = "sort" /\ queue # <<>>
    /\ LET n == Head(queue)
       IN /\ order' = Append(order, FileIndex(n))
          /\ degree' = [m \in Names |-> IF m \in Edges(n) THEN degree[m] - 1 ELSE degree[m]]
          /\ queue' = Tail(queue) \o Sorted({m \in Edges(n) : degree[m] = 1})
    /\ UNCHANGED <<input, phase, search>>

\* The files in the order so far.
Listed == {order[i] : i \in DOMAIN order}

\* Mutant: what is in a cycle is left out.
FinishShort ==
    /\ phase = "sort" /\ queue = <<>>
    /\ phase' = "done"
    /\ UNCHANGED <<input, search, degree, queue, order>>

\* What a cycle kept back comes last, in the order of the keys.
Finish ==
    /\ phase = "sort" /\ queue = <<>>
    /\ phase' = "done"
    /\ LET late == Sorted({n \in Nodes : FileIndex(n) \notin Listed})
       IN order' = order \o [i \in DOMAIN late |-> FileIndex(late[i])]
    /\ UNCHANGED <<input, search, degree, queue>>

-----------------------------------------------------------------------------
Next == Root \/ Look \/ Return \/ StartSort \/ Take \/ Finish

Spec == Init /\ [][Next]_vars

\* One thread runs the analysis, and runs.
FairSpec == Spec /\ WF_vars(Next)

-----------------------------------------------------------------------------
(* Properties *)

\* What depends on n, directly or not: the least set closed under the edges.
Dependents(n) ==
    {m \in Nodes : \A S \in SUBSET Nodes :
        Edges(n) \subseteq S /\ (\A k \in S : Edges(k) \subseteq S) => m \in S}

InCycle(n) == n \in Dependents(n)

\* Cycles are reported exactly when there are any, so that the search does not
\* miss one because it met its names from another root; and what is reported is
\* a closed walk along the imports.
ClosedWalk(c) == /\ Len(c) > 1 /\ c[1] = c[Len(c)]
                 /\ \A j \in 1 .. Len(c) - 1 : c[j + 1] \in Edges(c[j])

CyclesFound ==
    /\ \A i \in DOMAIN cycles : ClosedWalk(cycles[i])
    /\ phase # "cycles" => (cycles # <<>> <=> \E n \in Nodes : InCycle(n))

Before(f, g) == \E i, j \in DOMAIN order : i < j /\ order[i] = f /\ order[j] = g

\* "dependencies first": what a file imports is compiled before it, unless the
\* file is in a cycle or depends on one.
DependenciesFirst ==
    phase = "done" =>
        \A m \in Nodes : \A n \in Edges(m) :
            \/ Before(FileIndex(m), FileIndex(n))
            \/ \E k \in Nodes : InCycle(k) /\ n \in Dependents(k) \cup {k}

\* No file is compiled twice, and every file is compiled, in a cycle or not,
\* whose name is its own.  Files that share a name have one of them compiled at
\* least, and no more is asked: nodes has one entry for the name, so that the
\* others are dropped although from_files is to "Register all files as nodes".
EveryFileOnce ==
    phase = "done" =>
        /\ \A i, j \in DOMAIN order : order[i] = order[j] => i = j
        /\ \A f \in Files : \E g \in Listed : name[g] = name[f]

\* The analysis ends, whatever imports what.
AnalysisEnds == <>(phase = "done")
=============================================================================
