------------------------- MODULE MCPromotionBarrier -------------------------
(***************************************************************************)
(* PromotionBarrier for TLC.                                               *)
(*   MCPromotionBarrier.cfg  two executors, one promoter, safety and       *)
(*                           liveness                                      *)
(***************************************************************************)
EXTENDS PromotionBarrier
=============================================================================
