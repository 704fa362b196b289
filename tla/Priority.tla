------------------------------ MODULE Priority ------------------------------
(***************************************************************************)
(* The Project 3 scheduler (scheduler.c, queue.c): preemption, sleeping,   *)
(* and priorities that are paid for. A task of priority n is dispatched n  *)
(* times in each of its rounds; the ready queue is in order of rounds, and *)
(* of the priority left within a round.                                    *)
(*                                                                         *)
(* A step is what one task does up to a call of the scheduler. Its calls   *)
(* run with interrupts off, and the timer comes in between them. Time is   *)
(* relative: left[p] is deadline - time_elapsed, never below 0.            *)
(***************************************************************************)
EXTENDS Integers, FiniteSets, SequencesExt

CONSTANTS
  NumTasks,  \* NUM_TASKS
  MaxSleep,  \* the longest do_sleep(), in ticks
  MaxRound,  \* bound: the model stops before a task enters a later round
  Nobody     \* current_running while the scheduler waits for a sleeper

Task == 1 .. NumTasks   \* by pid

ASSUME PriorityAssumption ==
  NumTasks \in Nat \ {0} /\ MaxSleep \in Nat /\ MaxRound \in Nat /\ Nobody \notin Task

VARIABLES
  priority,     \* dispatches left in the task's round
  round,
  left,         \* ticks until deadline
  ready,        \* ready_queue, head first
  sleepq,       \* sleep_wait_queue, head first
  cur,          \* current_running
  entry_count,  \* dispatches so far
  exited,       \* the tasks whose status is EXITED
  slept         \* history: the tasks that have ever called do_sleep()

p3vars == <<priority, round, left, ready, sleepq, cur, entry_count, exited, slept>>

OriPriority(p) == p + 1   \* pcb.ori_priority

-----------------------------------------------------------------------------
\* What a call of the scheduler works on: both queues, with the keys that
\* the ready queue is sorted by.
Queues == [ready |-> ready, sleepq |-> sleepq, priority |-> priority, round |-> round]

\* A sortqueue() that has the rounds the wrong way round.
LaterFirst(s, p, t) ==
  \/ s.round[p] > s.round[t]
  \/ s.round[p] = s.round[t] /\ s.priority[p] > s.priority[t]

(* The order of sortqueue().                                               *)
Before(s, p, t) ==
  \/ s.round[p] < s.round[t]
  \/ s.round[p] = s.round[t] /\ s.priority[p] > s.priority[t]

\* An enqueue() without sortqueue().
InsertLast(s, p) == Append(s.ready, p)

(* enqueue() and sortqueue(): p moves forward from the end of the ready    *)
(* queue until it meets a task that it is not before.                      *)
Insert(s, p) ==
  LET stop == {i \in DOMAIN s.ready : ~Before(s, p, s.ready[i])}
  IN  InsertAt(s.ready, 1 + Max(stop \cup {0}), p)

\* Version: priority is given back at every chance.
RenewAlways(s, p) == [s EXCEPT !.priority[p] = OriPriority(p), !.round[p] = @ + 1]

(* A task that has used up its priority starts its next round.             *)
Renew(s, p) ==
  IF s.priority[p] = 0
  THEN [s EXCEPT !.priority[p] = OriPriority(p), !.round[p] = @ + 1]
  ELSE s

MakeReady(s, p) == LET r == Renew(s, p) IN [r EXCEPT !.ready = Insert(r, p)]

\* A check_sleeping() that takes the last one that is due.
CheckLast(s, lf) ==
  LET due == {i \in DOMAIN s.sleepq : lf[s.sleepq[i]] = 0}
  IN  IF due = {} THEN s
      ELSE MakeReady([s EXCEPT !.sleepq = RemoveAt(@, Max(due))], s.sleepq[Max(due)])

(* check_sleeping(), with lf the ticks left: it wakes the first task of    *)
(* the sleep queue that is due, and no more than one.                      *)
CheckSleeping(s, lf) ==
  LET due == {i \in DOMAIN s.sleepq : lf[s.sleepq[i]] = 0}
  IN  IF due = {} THEN s
      ELSE MakeReady([s EXCEPT !.sleepq = RemoveAt(@, Min(due))], s.sleepq[Min(due)])

(* The end of scheduler(): the head of the ready queue runs, at the price  *)
(* of one of its priority. With nobody ready the scheduler waits.          *)
Dispatch(s) ==
  /\ sleepq' = s.sleepq
  /\ round'  = s.round
  /\ \/ /\ s.ready # <<>>
        /\ cur'         = Head(s.ready)
        /\ ready'       = Tail(s.ready)
        /\ entry_count' = [entry_count EXCEPT ![cur'] = @ + 1]
        /\ priority'    = [s.priority EXCEPT ![cur'] = @ - 1]
     \/ /\ s.ready = <<>>
        /\ cur'      = Nobody
        /\ ready'    = <<>>
        /\ priority' = s.priority
        /\ UNCHANGED entry_count

(* scheduler() called by a task that stays READY: put_current_running()    *)
(* looks at the sleepers once more.                                        *)
PutCurrentRunning(s, lf) == MakeReady(CheckSleeping(s, lf), cur)

Reschedule(lf) == Dispatch(PutCurrentRunning(CheckSleeping(Queues, lf), lf))

-----------------------------------------------------------------------------
(* _start(): every task is put in the ready queue, which sorts it by       *)
(* priority, and the first one is dispatched.                              *)
P3Init ==
  /\ priority = [p \in Task |-> IF p = NumTasks THEN OriPriority(p) - 1 ELSE OriPriority(p)]
  /\ round    = [p \in Task |-> 0]
  /\ left     = [p \in Task |-> 0]
  /\ ready    = [i \in 1 .. NumTasks - 1 |-> NumTasks - i]
  /\ sleepq   = <<>>
  /\ cur      = NumTasks
  /\ entry_count = [p \in Task |-> IF p = NumTasks THEN 1 ELSE 0]
  /\ exited   = {}
  /\ slept    = {}

(* do_yield()                                                              *)
Yield ==
  /\ cur # Nobody
  /\ Reschedule(left)
  /\ UNCHANGED <<left, exited, slept>>

(* do_sleep(ticks)                                                         *)
Sleep(ticks) ==
  /\ cur # Nobody
  /\ left'  = [left EXCEPT ![cur] = ticks]
  /\ slept' = slept \cup {cur}
  /\ Dispatch(CheckSleeping([Queues EXCEPT !.sleepq = Append(@, cur)], left'))
  /\ UNCHANGED exited

(* do_exit()                                                               *)
Exit ==
  /\ cur # Nobody
  /\ exited' = exited \cup {cur}
  /\ Dispatch(CheckSleeping(Queues, left))
  /\ UNCHANGED <<left, slept>>

(* clock_handler(), and the ticks that handle_int() counts while the       *)
(* scheduler waits: it looks at the sleepers after each.                   *)
Tick ==
  /\ left' = [p \in Task |-> IF left[p] > 0 THEN left[p] - 1 ELSE 0]
  /\ \/ cur # Nobody /\ Reschedule(left')
     \/ cur = Nobody /\ Dispatch(CheckSleeping(Queues, left'))
  /\ UNCHANGED <<exited, slept>>

Call == Yield \/ Exit \/ \E ticks \in 0 .. MaxSleep : Sleep(ticks)

(* Bound: nothing more happens when the last round is about to begin.      *)
Stop == (\E p \in Task : round[p] = MaxRound) /\ UNCHANGED p3vars

P3Next == (Call \/ Tick \/ Stop) /\ \A p \in Task : round'[p] <= MaxRound

P3Spec == P3Init /\ [][P3Next]_p3vars

-----------------------------------------------------------------------------
P3TypeOK ==
  /\ priority \in [Task -> 0 .. NumTasks + 1]
  /\ round    \in [Task -> 0 .. MaxRound]
  /\ left     \in [Task -> 0 .. MaxSleep]
  /\ ready    \in Seq(Task)
  /\ sleepq   \in Seq(Task)
  /\ cur      \in Task \cup {Nobody}
  /\ entry_count \in [Task -> Nat]
  /\ exited   \subseteq Task
  /\ slept    \subseteq Task

(* Every task has been dispatched exactly its priority times in each round *)
(* it has been through, whatever sleeps and preemptions came in between.   *)
Share ==
  /\ P3TypeOK
  /\ \A p \in Task :
       entry_count[p] = round[p] * OriPriority(p) + OriPriority(p) - priority[p]

(* Tasks that never sleep stay within one round of each other, however     *)
(* the priorities differ and whatever the sleepers do.                     *)
InStep ==
  \A p, q \in Task \ (slept \cup exited) : round[p] <= round[q] + 1

\* The dispatches that a task q can still get before it is behind p.
Owed(q, p) ==
  IF round[q] > round[p] THEN 0
  ELSE priority[q] + OriPriority(q) * (round[p] - round[q])

Debt(p) == MapThenSumSet(LAMBDA q : Owed(q, p), Task \ (exited \cup {p}))

(* No starvation: each time the scheduler leaves p in the ready queue, the *)
(* dispatches that can still come before p's have become fewer, although   *)
(* sleepers come back with rounds long past and are sorted ahead of p.     *)
NoStarvation ==
  [][\A p \in ToSet(ready) \cap ToSet(ready)' : Debt(p)' < Debt(p)]_p3vars

(* A sleeper that is due waits for the sleepers ahead of it at the most:   *)
(* each call of the scheduler takes it or one that is ahead of it.         *)
WakesInTurn ==
  [][\A i \in DOMAIN sleepq :
       LET p == sleepq[i] IN
         left'[p] = 0 /\ p \in ToSet(sleepq') => \E j \in 1 .. i - 1 : sleepq'[j] = p]_p3vars
=============================================================================
