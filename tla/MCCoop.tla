------------------------------- MODULE MCCoop -------------------------------
(* Three tasks and the two locks of the programs.                          *)
EXTENDS Coop
=============================================================================
