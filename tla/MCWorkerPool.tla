---------------------------- MODULE MCWorkerPool ----------------------------
(***************************************************************************)
(* WorkerPool for TLC.                                                     *)
(*   MCWorkerPool.cfg  one caller, two workers, all four modes             *)
(***************************************************************************)
EXTENDS WorkerPool
=============================================================================
