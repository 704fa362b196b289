----------------------------- MODULE MCBarrier ------------------------------
(* The threads of barrier_test.c, numbered as Task asks.                   *)
EXTENDS Barrier

MCTask == 0 .. NumThreads - 1
=============================================================================
