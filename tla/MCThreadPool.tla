---------------------------- MODULE MCThreadPool ----------------------------
(***************************************************************************)
(* ThreadPool for TLC.                                                     *)
(*   MCThreadPool.cfg  two workers, one permit, two tasks and a helper;    *)
(*                     two threads more, to replace a worker per task      *)
(***************************************************************************)
EXTENDS ThreadPool
=============================================================================
