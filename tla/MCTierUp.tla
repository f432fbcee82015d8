------------------------------ MODULE MCTierUp ------------------------------
(***************************************************************************)
(* TierUp for TLC: a program whose top function calls one that loops and   *)
(* calls one with vector code.  The loop of the top function can have no   *)
(* resume point.                                                           *)
(*   MCTierUp.cfg        both compiled tiers, everything that must hold    *)
(*   MCTierUp_simd.cfg   vector code fails for want of code (finding)      *)
(***************************************************************************)
EXTENDS TierUp, TLC

CONSTANTS top, looping, vector

Chain == (top :> {looping}) @@ (looping :> {vector}) @@ (vector :> {})
TwoLoops == (top :> {"loop"}) @@ (looping :> {"loop"}) @@ (vector :> {"block"})
=============================================================================
