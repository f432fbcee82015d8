----------------------------- MODULE MCChannel -----------------------------
(***************************************************************************)
(* Channel for TLC.  MCChannel.cfg: four threads, capacity 2, safety and   *)
(* liveness.                                                               *)
(***************************************************************************)
EXTENDS Channel
=============================================================================
