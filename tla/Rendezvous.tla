----------------------------- MODULE Rendezvous -----------------------------
(***************************************************************************)
(* What a barrier promises (barrier_wait() of sync.c: "Block until all n   *)
(* threads have called barrier_wait"), used again and again: nobody leaves *)
(* a round that somebody has not reached, and when everybody has reached   *)
(* it, everybody leaves it.                                                *)
(***************************************************************************)
EXTENDS Integers

CONSTANT Thread

VARIABLES
  arrived,  \* how often each thread has called barrier_wait()
  passed    \* and how often it has come back

vars == <<arrived, passed>>

Init == arrived = [t \in Thread |-> 0] /\ passed = [t \in Thread |-> 0]

Arrive(t) ==
  /\ passed[t] = arrived[t]
  /\ arrived' = [arrived EXCEPT ![t] = @ + 1]
  /\ UNCHANGED passed

Leave(t) ==
  /\ passed[t] < arrived[t]
  /\ \A u \in Thread : arrived[t] <= arrived[u]
  /\ passed' = [passed EXCEPT ![t] = @ + 1]
  /\ UNCHANGED arrived

Next == \E t \in Thread : Arrive(t) \/ Leave(t)

SafeSpec == Init /\ [][Next]_vars

Spec == SafeSpec /\ \A t \in Thread : WF_vars(Leave(t))

(* No thread has passed a round that another one has not reached.          *)
Together == \A t, u \in Thread : passed[t] <= arrived[u]
=============================================================================
