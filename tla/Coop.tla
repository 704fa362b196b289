-------------------------------- MODULE Coop --------------------------------
(***************************************************************************)
(* The Project 2 kernel: tasks that run until they yield, block or exit,   *)
(* one ring buffer of ready tasks, one of blocked tasks, and locks.        *)
(*                                                                         *)
(* No timer interrupts, so a step is what one task does up to a call of    *)
(* the kernel. Tasks keep the rules at the top of lock.c, and hold one     *)
(* lock at a time, as all the programs of the repository do; which calls   *)
(* they make in which order is open.                                       *)
(***************************************************************************)
EXTENDS Integers, Sequences, FiniteSets, SequencesExt

CONSTANTS
  Task,   \* task[]
  Lock,   \* the locks of the programs: l of th2.c, lock of th4.c
  NULL    \* no task, no lock

ASSUME CoopAssumption ==
  IsFiniteSet(Task) /\ Task # {} /\ NULL \notin Task /\ NULL \notin Lock

VARIABLES
  ready,    \* ready_queue
  blocked,  \* blocked_queue, shared by all the locks
  cur,      \* current_running
  locked,   \* is the status of each lock LOCKED?
  has,      \* the lock each task works with: one it waits for while in blocked
  frame,    \* has, in the context that save_pcb() last saved
  exited,   \* the tasks in state PROCESS_EXITED
  used,     \* history: the locks that somebody has asked for
  stray     \* history: a task has gone on without the lock it asked for

vars == <<ready, blocked, cur, locked, has, frame, exited, used, stray>>

-----------------------------------------------------------------------------
Capacity == Cardinality(Task)   \* of ready_arr[] and blocked_arr[]: NUM_TASKS

\* A queue_push() that takes a queue with one free entry for full.
PushShort(q, p) == IF Len(q) = Capacity - 1 THEN q ELSE Append(q, p)

(* queue_push(), whose result the scheduler does not look at: a task that  *)
(* does not fit is dropped. Module Ring has the ring buffer itself.        *)
Push(q, p) == IF Len(q) = Capacity THEN q ELSE Append(q, p)

-----------------------------------------------------------------------------
(* _stat(), with the locks initialised: every task is in the ready queue,  *)
(* which is full, and the first one is popped.                             *)
Init ==
  /\ \E order \in {f \in [1 .. Capacity -> Task] : ToSet(f) = Task} :
       cur = Head(order) /\ ready = Tail(order)
  /\ blocked = <<>>
  /\ locked  = [l \in Lock |-> FALSE]
  /\ has     = [p \in Task |-> NULL]
  /\ frame   = [p \in Task |-> NULL]
  /\ exited  = {}
  /\ used    = {}
  /\ stray   = FALSE

(* scheduler(), on ready queue r: with nobody ready, current_running stays *)
(* what it is, and scheduler_entry() goes back to its saved context.       *)
Scheduler(r) ==
  \/ r # <<>> /\ cur' = Head(r) /\ ready' = Tail(r)
  \/ r = <<>> /\ ready' = r /\ UNCHANGED cur

(* do_yield()                                                              *)
Yield(p) ==
  /\ p = cur
  /\ Scheduler(Push(ready, p))
  /\ frame' = [frame EXCEPT ![p] = has[p]]
  /\ UNCHANGED <<blocked, locked, has, exited, used, stray>>

(* do_exit(). The last task does not get away: it runs on from where it    *)
(* last yielded or blocked, or from its entry point.                       *)
Exit(p) ==
  /\ p = cur
  /\ has[p] = NULL
  /\ exited' = exited \cup {p}
  /\ Scheduler(ready)
  /\ has' = IF ready = <<>> THEN [has EXCEPT ![p] = frame[p]] ELSE has
  /\ UNCHANGED <<blocked, locked, frame, used, stray>>

(* lock_acquire() of a lock that is UNLOCKED.                              *)
AcquireFree(p, l) ==
  /\ p = cur
  /\ has[p] = NULL
  /\ ~locked[l]
  /\ locked' = [locked EXCEPT ![l] = TRUE]
  /\ has'    = [has EXCEPT ![p] = l]
  /\ used'   = used \cup {l}
  /\ UNCHANGED <<ready, blocked, cur, frame, exited, stray>>

(* lock_acquire() of a lock that is LOCKED: block(). Whoever makes p run   *)
(* again, p takes it that the lock is its own now. With nobody ready,      *)
(* block() returns at once.                                                *)
AcquireTaken(p, l) ==
  /\ p = cur
  /\ has[p] = NULL
  /\ locked[l]
  /\ blocked' = Push(blocked, p)
  /\ Scheduler(ready)
  /\ has'   = [has EXCEPT ![p] = l]
  /\ frame' = [frame EXCEPT ![p] = l]
  /\ used'  = used \cup {l}
  /\ stray' = (stray \/ (ready = <<>>))
  /\ UNCHANGED <<locked, exited>>

\* Versions of lock_release(): one that opens the lock although it wakes a
\* waiter, ones that forget the waiters, the lock UNLOCKED or not, and one that
\* wakes the youngest.
ReleaseOpens(p, l) ==
  /\ p = cur /\ has[p] = l
  /\ has'    = [has EXCEPT ![p] = NULL]
  /\ locked' = [locked EXCEPT ![l] = FALSE]
  /\ IF blocked = <<>> THEN UNCHANGED <<ready, blocked>>
     ELSE ready' = Push(ready, Head(blocked)) /\ blocked' = Tail(blocked)
  /\ UNCHANGED <<cur, frame, exited, used, stray>>

ReleaseForgets(p, l) ==
  /\ p = cur /\ has[p] = l
  /\ has'    = [has EXCEPT ![p] = NULL]
  /\ locked' = [locked EXCEPT ![l] = FALSE]
  /\ UNCHANGED <<ready, blocked, cur, frame, exited, used, stray>>

ReleaseKeeps(p, l) ==
  /\ p = cur /\ has[p] = l
  /\ has' = [has EXCEPT ![p] = NULL]
  /\ UNCHANGED <<ready, blocked, cur, locked, frame, exited, used, stray>>

ReleaseYoungest(p, l) ==
  /\ p = cur /\ has[p] = l
  /\ has' = [has EXCEPT ![p] = NULL]
  /\ IF blocked = <<>> THEN locked' = [locked EXCEPT ![l] = FALSE] /\ UNCHANGED <<ready, blocked>>
     ELSE ready' = Push(ready, Last(blocked)) /\ blocked' = Front(blocked) /\ UNCHANGED locked
  /\ UNCHANGED <<cur, frame, exited, used, stray>>

(* lock_release(): the first blocked task, whichever lock it waits for, is *)
(* made ready and l stays LOCKED for it; with none, l is UNLOCKED.         *)
Release(p, l) ==
  /\ p = cur
  /\ has[p] = l
  /\ has' = [has EXCEPT ![p] = NULL]
  /\ \/ /\ blocked = <<>>
        /\ locked' = [locked EXCEPT ![l] = FALSE]
        /\ UNCHANGED <<ready, blocked, stray>>
     \/ /\ blocked # <<>>
        /\ ready'   = Push(ready, Head(blocked))
        /\ blocked' = Tail(blocked)
        /\ stray'   = (stray \/ has[Head(blocked)] # l)
        /\ UNCHANGED locked
  /\ UNCHANGED <<cur, frame, exited, used>>

Next ==
  \E p \in Task :
    \/ Yield(p)
    \/ Exit(p)
    \/ \E l \in Lock : AcquireFree(p, l) \/ AcquireTaken(p, l) \/ Release(p, l)

(* Every program yields, and releases what it holds, again and again.      *)
Fairness ==
  \A p \in Task :
    /\ SF_vars(Yield(p))
    /\ SF_vars(\E l \in Lock : Release(p, l))

Spec == Init /\ [][Next]_vars /\ Fairness

-----------------------------------------------------------------------------
TypeOK ==
  /\ ready   \in Seq(Task)
  /\ blocked \in Seq(Task)
  /\ cur     \in Task
  /\ locked  \in [Lock -> BOOLEAN]
  /\ has     \in [Task -> Lock \cup {NULL}]
  /\ frame   \in [Task -> Lock \cup {NULL}]
  /\ exited  \subseteq Task
  /\ used    \subseteq Lock
  /\ stray   \in BOOLEAN

Waits(p, l) == has[p] = l /\ p \in ToSet(blocked)
Holds(p, l) == has[p] = l /\ p \notin ToSet(blocked)

(* As long as no task has gone on without its lock, two tasks never hold   *)
(* the same lock, and one that is held or waited for is LOCKED, whoever    *)
(* yields inside the lock: th2.c:46-48. A task that runs on after          *)
(* do_exit() is not counted: nobody else is left then.                     *)
MutualExclusion ==
  ~stray => \A l \in Lock :
    /\ \A p, q \in Task : Holds(p, l) /\ Holds(q, l) => p = q
    /\ (\E p \in Task \ exited : has[p] = l) => locked[l]

(* Programs that use one lock never meet the shared queue's fault: nobody  *)
(* is woken for another's lock, and nobody blocks when no task is ready.   *)
OneLockNeverStrays == Cardinality(used) <= 1 => ~stray

(* No task is lost or doubled by the two rings and current_running: each   *)
(* one that has not exited is in exactly one place.                        *)
OnePlace ==
  LET places == ready \o blocked
      times(p) == Cardinality({i \in DOMAIN places : places[i] = p})
  IN  /\ TypeOK
      /\ ~stray => \A p \in Task :
           times(p) = IF p = cur \/ p \in exited THEN 0 ELSE 1

(* FIFO fairness (lock.c:3): nobody gets a lock past a task that has been  *)
(* waiting for it since before.                                            *)
Fifo ==
  [][~stray' => \A l \in Lock, p, q \in Task :
       Waits(p, l) /\ Waits(p, l)' /\ Holds(q, l)' /\ ~Holds(q, l) =>
         \E i, j \in 1 .. Len(blocked) : i < j /\ blocked[i] = q /\ blocked[j] = p]_vars

(* A task that waits for a lock gets it, unless a task has gone on without *)
(* its own.                                                                *)
WaitEnds == \A p \in Task : p \in ToSet(blocked) ~> p \notin ToSet(blocked) \/ stray
=============================================================================
