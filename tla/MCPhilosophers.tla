--------------------------- MODULE MCPhilosophers ---------------------------
(* The philosophers of philosophers.c, numbered as Task and Obj ask.       *)
EXTENDS Philosophers

MCTask == 0 .. NumPhilosophers - 1
MCObj  == {Fork(i) : i \in MCTask}
=============================================================================
