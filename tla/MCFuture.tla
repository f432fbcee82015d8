------------------------------ MODULE MCFuture ------------------------------
(***************************************************************************)
(* Future for TLC.                                                         *)
(*   MCFuture.cfg           every kind of future, every operation          *)
(*   MCFuture_await.cfg     an await that never returns (finding)          *)
(***************************************************************************)
EXTENDS Future
=============================================================================
