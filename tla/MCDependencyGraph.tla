------------------------- MODULE MCDependencyGraph -------------------------
(***************************************************************************)
(* DependencyGraph for TLC.                                                *)
(*   MCDependencyGraph.cfg  every program of four files with up to four    *)
(*                          imports, two files of one name among them      *)
(***************************************************************************)
EXTENDS DependencyGraph

CONSTANT MaxImports      \* imports of all the files together (bound)

\* Who imports whom, with few imports.
FewImports == {[f \in Files |-> {n \in Names : <<f, n>> \in P}] :
                  P \in {Q \in SUBSET (Files \X Names) : Cardinality(Q) <= MaxImports}}

\* Files are listed by name: the order decides nothing but their indices.
MCInit == /\ name \in {f \in [Files -> Names] : \A i, j \in Files : i <= j => f[i] <= f[j]}
          /\ imports \in FewImports
          /\ Init

MCSpec == MCInit /\ [][Next]_vars /\ WF_vars(Next)
=============================================================================
