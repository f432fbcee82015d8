------------------------------ MODULE ForkJoin ------------------------------
(***************************************************************************)
(* What WorkerPool::parallel_rows promises its callers                     *)
(* (rayzor-tensors/src/worker_pool.rs): the closure is run over disjoint   *)
(* ranges that cover [0, rows), and the call returns only when all of them *)
(* are complete.                                                           *)
(***************************************************************************)
EXTENDS Naturals

CONSTANTS Callers,      \* threads that call parallel_rows
          RowCounts     \* the row counts they call it with

VARIABLES open,         \* which callers are inside a call
          touched       \* how often each row of a caller's last call was run

vars == <<open, touched>>

Init == /\ open = [c \in Callers |-> FALSE]
        /\ touched = [c \in Callers |-> <<>>]

\* A call starts; none of its rows has been run.
Fork(c) ==
    /\ ~open[c]
    /\ open' = [open EXCEPT ![c] = TRUE]
    /\ \E n \in RowCounts :
          touched' = [touched EXCEPT ![c] = [r \in 0 .. n - 1 |-> 0]]

\* Some rows that had not been run are run.
Compute(c) ==
    /\ open[c]
    /\ UNCHANGED open
    /\ DOMAIN touched' = Callers
    /\ \A d \in Callers \ {c} : touched'[d] = touched[d]
    /\ DOMAIN touched'[c] = DOMAIN touched[c]
    /\ \A r \in DOMAIN touched[c] :
          touched'[c][r] = touched[c][r] \/ (touched[c][r] = 0 /\ touched'[c][r] = 1)

\* The call returns; every row was run exactly once.
Join(c) ==
    /\ open[c]
    /\ \A r \in DOMAIN touched[c] : touched[c][r] = 1
    /\ open' = [open EXCEPT ![c] = FALSE]
    /\ UNCHANGED touched

Next == \E c \in Callers : Fork(c) \/ Compute(c) \/ Join(c)

Spec == Init /\ [][Next]_vars
=============================================================================
