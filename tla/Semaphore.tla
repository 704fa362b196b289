------------------------------ MODULE Semaphore -----------------------------
(***************************************************************************)
(* The semaphores of the Project 4 kernel (sync.c), over its scheduler.    *)
(*                                                                         *)
(* semaphore_up() and semaphore_down() run without a switch up to the      *)
(* point where down blocks: the callers are kernel threads, or processes   *)
(* in a system call, and neither is preempted. So the mutex inside the     *)
(* semaphore is always free when it is asked for, and the gap in down      *)
(* between the release of that mutex and the block is never seen.          *)
(***************************************************************************)
EXTENDS Sched

VARIABLE value   \* value of each semaphore

(* semaphore_down(o) with nothing to wait for, and one that has to wait:   *)
(* the value stays 0, and the up that wakes p leaves it at 0.              *)
DownNow(o) ==
  /\ value[o] > 0
  /\ value' = [value EXCEPT ![o] = @ - 1]

DownWait(p, o) ==
  /\ value[o] = 0
  /\ Block(p, o)
  /\ UNCHANGED value

\* Versions of semaphore_up(): the value goes up although a waiter is freed;
\* the waiter is not freed.
UpTwice(val, o) ==
  /\ value' = [val EXCEPT ![o] = @ + 1]
  /\ IF wq[o] # <<>> THEN UnblockOne(o) ELSE UNCHANGED <<status, ready, wq>>

UpOnly(val, o) ==
  /\ value' = [val EXCEPT ![o] = @ + 1]
  /\ UNCHANGED <<status, ready, wq>>

(* semaphore_up(o), from the values val: the value goes up, unless it is 0 *)
(* and somebody waits.                                                     *)
Up(val, o) ==
  \/ /\ val[o] = 0 /\ wq[o] # <<>>
     /\ UnblockOne(o)
     /\ value' = val
  \/ /\ val[o] > 0 \/ wq[o] = <<>>
     /\ value' = [val EXCEPT ![o] = @ + 1]
     /\ UNCHANGED <<status, ready, wq>>
=============================================================================
