---------------------------- MODULE MCObjectPool ----------------------------
(***************************************************************************)
(* ObjectPool for TLC.                                                     *)
(*   MCObjectPool.cfg         two threads, two classes, two chunks; the    *)
(*                            threads are alike                            *)
(*   MCObjectPool_region.cfg  a wild access while the region is reserved   *)
(*                            (finding)                                    *)
(***************************************************************************)
EXTENDS ObjectPool, TLC

SameThreads == Permutations(Threads)
=============================================================================
