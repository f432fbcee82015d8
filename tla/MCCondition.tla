---------------------------- MODULE MCCondition ----------------------------
(***************************************************************************)
(* Condition for TLC.                                                      *)
(*   MCCondition.cfg  three threads, two calls each (finding)              *)
(***************************************************************************)
EXTENDS Condition
=============================================================================
