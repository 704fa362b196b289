----------------------------- MODULE MCMailbox ------------------------------
(* Instances of Mailbox for TLC.                                           *)
EXTENDS Mailbox

CONSTANTS clock, p1, p2, pub, sub, third

TwoPrograms == {p1, p2, clock}
TwoBoxes    == {0, 1} \X {"full", "empty"}

(* Both programs send to and receive from the box they share; each of them *)
(* opens a box of its own, too, so that the table is full. One name is     *)
(* longer than the others.                                                 *)
Names      == {pub, sub, third}
SomeLonger == [n \in Names |-> IF n = third THEN 20 ELSE 18]
WhoOpens   == [n \in Names |-> IF n = pub THEN {p1, p2} ELSE IF n = sub THEN {p1} ELSE {p2}]
WhoReads   == [n \in Names |-> IF n = pub THEN {p1, p2} ELSE {}]

(* Left out: what never changes here (task types, deadlines, the sleep     *)
(* queue) and wait_in, which only do_kill() reads.                         *)
View == <<status, ready, wq, cur, mode, used, name, num, buf, value, call, opened, wanted, unread, wrong, overlap, wild>>
=============================================================================
