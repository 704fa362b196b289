----------------------------- MODULE MCMonitor ------------------------------
(* The test as it is: 200 and 100 turns, a yield every 13 and 17 of them.  *)
EXTENDS Monitor

MCTurns == [th \in Thread |-> IF th = thread2 THEN 200 ELSE 100]
MCEvery == [th \in Thread |-> IF th = thread2 THEN 13 ELSE 17]
=============================================================================
