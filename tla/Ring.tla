-------------------------------- MODULE Ring --------------------------------
(***************************************************************************)
(* The ring buffer of the Project 2 kernel (queue.c), in which the ready   *)
(* and the blocked tasks wait. Coop takes it for a bounded sequence;       *)
(* CoopFileSysProofs proves that it is one.                                *)
(***************************************************************************)
EXTENDS Integers

CONSTANTS Pcb, NULL

(* struct queue, with the array of n entries that pcbs points to.          *)
Rings(n) ==
  {q \in [head : 0 .. n - 1, tail : 0 .. n - 1, isEmpty : BOOLEAN, capacity : {n},
          pcbs : [0 .. n - 1 -> Pcb \cup {NULL}]] : q.isEmpty => q.head = q.tail}

(* queue_init(): the array, and the capacity, are the caller's.            *)
QueueInit(q) ==
  [head |-> 0, tail |-> 0, isEmpty |-> TRUE, capacity |-> q.capacity, pcbs |-> q.pcbs]

Full(q)  == ~q.isEmpty /\ q.head = q.tail
Wrap(i, n) == i % n

(* queue_push(): FALSE, and no change, when the ring is full.              *)
QueuePush(q, pcb) ==
  IF Full(q) THEN q
  ELSE [head |-> q.head, tail |-> Wrap(q.tail + 1, q.capacity), isEmpty |-> FALSE,
        capacity |-> q.capacity, pcbs |-> [q.pcbs EXCEPT ![q.tail] = pcb]]

(* queue_pop(): what it returns, and what it leaves.                       *)
Popped(q) == IF q.isEmpty THEN NULL ELSE q.pcbs[q.head]
QueuePop(q) ==
  IF q.isEmpty THEN q
  ELSE [head |-> Wrap(q.head + 1, q.capacity), tail |-> q.tail,
        isEmpty |-> Wrap(q.head + 1, q.capacity) = q.tail,
        capacity |-> q.capacity, pcbs |-> q.pcbs]

QueueSize(q) ==
  IF q.isEmpty THEN 0
  ELSE IF q.head < q.tail THEN q.tail - q.head ELSE q.tail + q.capacity - q.head

(* What the ring holds, from the next to be popped on.                     *)
Contents(q) == [i \in 1 .. QueueSize(q) |-> q.pcbs[Wrap(q.head + i - 1, q.capacity)]]
=============================================================================
