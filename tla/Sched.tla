------------------------------- MODULE Sched --------------------------------
(***************************************************************************)
(* The scheduler of the Project 4 kernel (scheduler.c, timer_irq).         *)
(*                                                                         *)
(* One CPU. A step of this model is what one task does between two calls   *)
(* of scheduler_entry() (or between two moments in user mode): kernel code *)
(* runs with nested_count # 0, and timer_irq() switches tasks only when    *)
(* nested_count is 0, so nothing else runs in between.                     *)
(*                                                                         *)
(* Time is relative: left[p] is deadline - time_elapsed, never below 0, so *)
(* that the clock needs no bound.                                          *)
(***************************************************************************)
EXTENDS Integers, Sequences, FiniteSets, SequencesExt

CONSTANTS
  Task,     \* the slots of pcb[]
  Obj,      \* everything else that owns a queue of blocked tasks
  NULL      \* no task, no queue: neither in Task nor in Obj

ASSUME SchedAssumption == Task \cap Obj = {} /\ NULL \notin Task \cup Obj

VARIABLES
  status,   \* pcb.status
  type,     \* pcb.task_type
  left,     \* ticks until pcb.deadline
  waitIn,   \* pcb.wait_in: the queue a BLOCKED task was put in
  ready,    \* ready_queue, head first
  sleepq,   \* sleep_wait_queue, head first
  wq,       \* pcb[q].wait_queue for q in Task, and the wait_queue of each q in Obj
  cur,      \* current_running, NULL while scheduler() spins on an empty ready queue
  mode      \* "run", or why the machine no longer makes progress

schedVars == <<status, type, left, waitIn, ready, sleepq, wq, cur, mode>>

\* Definitions marked as versions are not the program: each is the definition
\* after it with a bug, to see that the properties notice.

Queue    == Task \cup Obj
Runnable == {"FIRST_TIME", "READY"}
Dead     == {"EXITED", "KILLED"}
Status   == Runnable \cup Dead \cup {"BLOCKED", "SLEEPING"}
TaskType == {"KERNEL_THREAD", "PROCESS"}

\* "masked": scheduler() spins with interrupts masked (see Schedule)
\* "panic":  enter_critical() found disable_count # 0 (panice in entry.S)
\* "hang":   a loop in a critical section that does not end
Mode == {"run", "masked", "panic", "hang"}

SchedTypeOK ==
  /\ status \in [Task -> Status]
  /\ type   \in [Task -> TaskType]
  /\ left   \in [Task -> Nat]
  /\ waitIn \in [Task -> Queue \cup {NULL}]
  /\ ready  \in Seq(Task)
  /\ sleepq \in Seq(Task)
  /\ wq     \in [Queue -> Seq(Task)]
  /\ cur    \in Task \cup {NULL}
  /\ mode   \in Mode

-----------------------------------------------------------------------------
(* How many sleepers check_sleeping() takes off queue s: it stops at the   *)
(* first one that is not due, whatever is behind it.                       *)
Due(s, lf) == Cardinality({i \in 1 .. Len(s) : \A j \in 1 .. i : lf[s[j]] = 0})

(* scheduler(), entered with ready queue r, sleep queue s, deadlines lf    *)
(* and statuses st: wake the sleepers, then take the head of the ready     *)
(* queue. With nobody to run it spins, opening a window for interrupts on  *)
(* each turn; but a process got here through a system call exception, EXL  *)
(* is still set, and no interrupt can come in to move time_elapsed.        *)
Schedule(r, s, lf, st) ==
  LET k     == Due(s, lf)
      woken == SubSeq(s, 1, k)
      q     == r \o woken
  IN  /\ left'   = lf
      /\ sleepq' = SubSeq(s, k + 1, Len(s))
      /\ status' = [t \in Task |-> IF t \in ToSet(woken) THEN "READY" ELSE st[t]]
      /\ \/ /\ q # <<>>
            /\ cur'   = Head(q)
            /\ ready' = Tail(q)
            /\ mode'  = mode
         \/ /\ q = <<>>
            /\ cur'   = NULL
            /\ ready' = <<>>
            /\ mode'  = IF cur \in Task /\ type[cur] = "PROCESS" THEN "masked" ELSE mode

\* A block() that forgets wait_in.
BlockUnnoted(p, q) ==
  /\ wq' = [wq EXCEPT ![q] = Append(@, p)]
  /\ Schedule(ready, sleepq, left, [status EXCEPT ![p] = "BLOCKED"])
  /\ UNCHANGED waitIn

(* block(q): p goes to the back of queue q and the next task runs.         *)
Block(p, q) ==
  /\ wq'     = [wq EXCEPT ![q] = Append(@, p)]
  /\ waitIn' = [waitIn EXCEPT ![p] = q]
  /\ Schedule(ready, sleepq, left, [status EXCEPT ![p] = "BLOCKED"])

\* A do_kill() that forgets to unlink its victim.
UnlinkNothing(s, p) == s

(* dequeue(p->prev): p leaves the queue s it is linked in.                 *)
Unlink(s, p) == RemoveAt(s, CHOOSE i \in DOMAIN s : s[i] = p)

(* The statuses after unblock() of every task in queue s.                  *)
Unblocked(s) == [t \in Task |-> IF t \in ToSet(s) THEN "READY" ELSE status[t]]

\* An unblock_one() that takes the youngest waiter.
UnblockYoungest(q) ==
  /\ status' = [status EXCEPT ![Last(wq[q])] = "READY"]
  /\ ready'  = Append(ready, Last(wq[q]))
  /\ wq'     = [wq EXCEPT ![q] = Front(@)]

(* unblock_one(q), from a non-empty queue: the head becomes ready.         *)
UnblockOne(q) ==
  /\ status' = [status EXCEPT ![Head(wq[q])] = "READY"]
  /\ ready'  = Append(ready, Head(wq[q]))
  /\ wq'     = [wq EXCEPT ![q] = Tail(@)]

-----------------------------------------------------------------------------
\* Versions of do_yield(): one that does not put the task back in the ready
\* queue, one that puts it at the front, one that wakes who waits for it.
YieldUnqueued(p) ==
  /\ Schedule(ready, sleepq, left, [status EXCEPT ![p] = "READY"])
  /\ UNCHANGED <<type, waitIn, wq>>

YieldToFront(p) ==
  /\ Schedule(<<p>> \o ready, sleepq, left, [status EXCEPT ![p] = "READY"])
  /\ UNCHANGED <<type, waitIn, wq>>

YieldWakesWaiters(p) ==
  /\ Schedule(ready \o wq[p] \o <<p>>, sleepq, left, [Unblocked(wq[p]) EXCEPT ![p] = "READY"])
  /\ wq' = [wq EXCEPT ![p] = <<>>]
  /\ UNCHANGED <<type, waitIn>>

(* do_yield(). Its test for KILLED never succeeds: a task that is KILLED   *)
(* is in no queue and does not run again.                                  *)
DoYield(p) ==
  /\ Schedule(Append(ready, p), sleepq, left, [status EXCEPT ![p] = "READY"])
  /\ UNCHANGED <<type, waitIn, wq>>

(* do_sleep(): ms is given in the clock's units, a thousand to a tick; a   *)
(* sleep of no whole tick returns at once.                                 *)
DoSleep(p, ms) ==
  LET ticks == ms \div 1000
  IN  \/ /\ ticks > 0
         /\ Schedule(ready, Append(sleepq, p), [left EXCEPT ![p] = ticks],
                     [status EXCEPT ![p] = "SLEEPING"])
         /\ UNCHANGED <<type, waitIn, wq>>
      \/ /\ ticks = 0
         /\ left' = [left EXCEPT ![p] = 0]
         /\ UNCHANGED <<status, type, waitIn, ready, sleepq, wq, cur, mode>>

(* do_exit(): everyone in p's own wait queue becomes ready, in its order.  *)
DoExit(p) ==
  /\ wq' = [wq EXCEPT ![p] = <<>>]
  /\ Schedule(ready \o wq[p], sleepq, left, [Unblocked(wq[p]) EXCEPT ![p] = "EXITED"])
  /\ UNCHANGED <<type, waitIn>>

\* A deadline that runs past zero, and a clock that stops while a kernel
\* thread runs.
TickedPastZero == [t \in Task |-> left[t] - 1]

TickedUnlessNested ==
  IF cur # NULL /\ type[cur] = "KERNEL_THREAD" THEN left
  ELSE [t \in Task |-> IF left[t] > 0 THEN left[t] - 1 ELSE 0]

Ticked == [t \in Task |-> IF left[t] > 0 THEN left[t] - 1 ELSE 0]

(* timer_irq(): time passes; a task in user mode (nested_count = 0) is     *)
(* preempted, kernel code goes on. With no task to run, the scheduler      *)
(* looks at the sleepers again.                                            *)
TimerIrq(nested) ==
  /\ \/ /\ cur # NULL /\ nested
        /\ left' = Ticked
        /\ UNCHANGED <<status, ready, sleepq, cur, mode>>
     \/ /\ cur # NULL /\ ~nested
        /\ Schedule(Append(ready, cur), sleepq, Ticked, [status EXCEPT ![cur] = "READY"])
     \/ /\ cur = NULL
        /\ Schedule(ready, sleepq, Ticked, status)
  /\ UNCHANGED <<type, waitIn, wq>>
=============================================================================
