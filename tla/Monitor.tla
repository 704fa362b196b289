------------------------------ MODULE Monitor -------------------------------
(***************************************************************************)
(* The condition variables of the Project 4 kernel (sync.c), used by the   *)
(* two threads of test_all/th2.c as a monitor over the scheduler: thread2  *)
(* counts when shared_var is no multiple of 3, thread3 when it is one.     *)
(*                                                                         *)
(* The threads are kernel threads and not preempted. condition_wait() has  *)
(* two steps all the same: the mutex is free before the thread has joined  *)
(* the queue of the condition.                                             *)
(***************************************************************************)
EXTENDS Sched

CONSTANTS
  thread2, thread3, Clock,  \* Clock stands for the threads that only yield
  c0mod3, cnot0mod3,        \* the conditions that thread3 and thread2 wait for
  Turns,     \* of thread2 and of thread3
  Every,     \* each of them yields in the monitor every so many turns
  SleepArg   \* what print_trace() passes to do_sleep()

Thread == {thread2, thread3}

ASSUME MonitorAssumption ==
  /\ thread2 # thread3 /\ Clock \notin Thread
  /\ Task = Thread \cup {Clock}
  /\ c0mod3 # cnot0mod3 /\ Obj = {c0mod3, cnot0mod3}
  /\ Turns \in [Thread -> Nat] /\ Every \in [Thread -> Nat \ {0}]
  /\ SleepArg \in Nat

VARIABLES
  shared_var,
  tmp,    \* of each thread
  turn,   \* i of each thread
  free,   \* is the mutex l UNLOCKED?
  init,   \* are l and the conditions initialised?
  pc      \* what each thread does when it runs again

vars == <<schedVars, shared_var, tmp, turn, free, init, pc>>

\* "join":   inside condition_wait(), the mutex released
\* "rejoin": blocked there, or about to ask for the mutex again
Step == {"start", "enter", "test", "use", "trace", "leave", "join", "rejoin", "last", "exited"}

Condition(th) == IF th = thread2 THEN cnot0mod3 ELSE c0mod3
Other(th)     == IF th = thread2 THEN thread3 ELSE thread2

(* What each thread waits for.                                             *)
MayCount(th, v) == IF th = thread2 THEN v % 3 # 0 ELSE v % 3 = 0

Init ==
  /\ status = [t \in Task |-> "FIRST_TIME"]
  /\ type   = [t \in Task |-> "KERNEL_THREAD"]
  /\ left   = [t \in Task |-> 0]
  /\ waitIn = [t \in Task |-> NULL]
  /\ \E order \in SetToSeqs(Task) : cur = Head(order) /\ ready = Tail(order)
  /\ sleepq = <<>>
  /\ wq     = [q \in Queue |-> <<>>]
  /\ mode   = "run"
  /\ shared_var = 0
  /\ tmp    = [th \in Thread |-> 0]
  /\ turn   = [th \in Thread |-> 0]
  /\ free   = TRUE
  /\ init   = FALSE
  /\ pc     = [th \in Thread |-> "start"]

At(th, step) == cur = th /\ pc[th] = step

GoTo(th, step) == pc' = [pc EXCEPT ![th] = step]

-----------------------------------------------------------------------------
Start(th) ==
  /\ At(th, "start")
  /\ \/ th = thread3 /\ ~init /\ DoYield(th) /\ UNCHANGED <<init, pc>>
     \/ /\ th = thread2 \/ init
        /\ init' = TRUE
        /\ GoTo(th, "enter")
        /\ UNCHANGED schedVars
  /\ UNCHANGED <<shared_var, tmp, turn, free>>

(* lock_acquire(&l) in front of a turn, and at the end of condition_wait().*)
(* Uncontended says that it always finds the mutex free.                   *)
Enter(th) ==
  /\ At(th, "enter") \/ At(th, "rejoin")
  /\ free
  /\ free' = FALSE
  /\ GoTo(th, "test")
  /\ UNCHANGED <<schedVars, shared_var, tmp, turn, init>>

\* A condition_wait() that lets others run before it joins the queue.
WaitGap(th) ==
  /\ At(th, "test")
  /\ ~MayCount(th, shared_var)
  /\ free' = TRUE
  /\ DoYield(th)
  /\ GoTo(th, "join")
  /\ UNCHANGED <<shared_var, tmp, turn, init>>

(* condition_wait(): first the mutex is released ...                       *)
Wait(th) ==
  /\ At(th, "test")
  /\ ~MayCount(th, shared_var)
  /\ free' = TRUE
  /\ GoTo(th, "join")
  /\ UNCHANGED <<schedVars, shared_var, tmp, turn, init>>

(* ... then the thread blocks on the condition.                            *)
Join(th) ==
  /\ At(th, "join")
  /\ Block(th, Condition(th))
  /\ GoTo(th, "rejoin")
  /\ UNCHANGED <<type, shared_var, tmp, turn, free, init>>

\* A thread that does not test again after condition_wait().
ReadUntested(th) ==
  /\ At(th, "test")
  /\ tmp' = [tmp EXCEPT ![th] = shared_var]
  /\ IF turn[th] % Every[th] = 0 THEN DoYield(th) ELSE UNCHANGED schedVars
  /\ GoTo(th, "use")
  /\ UNCHANGED <<shared_var, turn, free, init>>

(* The end of the while loop: the thread reads shared_var, and now and     *)
(* then lets others run before it writes it.                               *)
Read(th) ==
  /\ At(th, "test")
  /\ MayCount(th, shared_var)
  /\ tmp' = [tmp EXCEPT ![th] = shared_var]
  /\ \/ turn[th] % Every[th] = 0 /\ DoYield(th)
     \/ turn[th] % Every[th] # 0 /\ UNCHANGED schedVars
  /\ GoTo(th, "use")
  /\ UNCHANGED <<shared_var, turn, free, init>>

(* condition_signal() and condition_broadcast(), the same for a queue of   *)
(* at most one thread.                                                     *)
Signal(c) ==
  \/ wq[c] # <<>> /\ UnblockOne(c)
  \/ wq[c] = <<>> /\ UNCHANGED <<status, ready, wq>>

\* A thread that signals the condition it waits for itself.
UseMissignals(th) ==
  /\ At(th, "use")
  /\ shared_var' = tmp[th] + 1
  /\ Signal(Condition(th))
  /\ GoTo(th, "trace")
  /\ UNCHANGED <<type, left, waitIn, sleepq, cur, mode, tmp, turn, free, init>>

(* The write, with the signal to the other thread.                         *)
Use(th) ==
  /\ At(th, "use")
  /\ shared_var' = tmp[th] + 1
  /\ \/ MayCount(Other(th), shared_var') /\ Signal(Condition(Other(th)))
     \/ ~MayCount(Other(th), shared_var') /\ UNCHANGED <<status, ready, wq>>
  /\ GoTo(th, "trace")
  /\ UNCHANGED <<type, left, waitIn, sleepq, cur, mode, tmp, turn, free, init>>

\* A trace that sleeps ten times as long.
TraceLonger(th) ==
  /\ At(th, "trace")
  /\ DoSleep(th, 10 * SleepArg)
  /\ GoTo(th, "leave")
  /\ UNCHANGED <<shared_var, tmp, turn, free, init>>

(* print_trace(), still in the monitor.                                    *)
Trace(th) ==
  /\ At(th, "trace")
  /\ DoSleep(th, SleepArg)
  /\ GoTo(th, "leave")
  /\ UNCHANGED <<shared_var, tmp, turn, free, init>>

(* lock_release(&l), which nobody waits for.                               *)
Leave(th) ==
  /\ At(th, "leave")
  /\ free' = TRUE
  /\ turn' = [turn EXCEPT ![th] = @ + 1]
  /\ GoTo(th, IF turn[th] + 1 < Turns[th] THEN "enter" ELSE "last")
  /\ UNCHANGED <<schedVars, shared_var, tmp, init>>

(* After the loop: exit_count is counted in the monitor; the thread exits. *)
Finish(th) ==
  /\ At(th, "last")
  /\ free
  /\ DoExit(th)
  /\ GoTo(th, "exited")
  /\ UNCHANGED <<shared_var, tmp, turn, free, init>>

ClockYield == cur = Clock /\ DoYield(Clock) /\ UNCHANGED <<shared_var, tmp, turn, free, init, pc>>

Tick == TimerIrq(TRUE) /\ UNCHANGED <<shared_var, tmp, turn, free, init, pc>>

CpuStep ==
  \/ ClockYield
  \/ \E th \in Thread :
       Start(th) \/ Enter(th) \/ Wait(th) \/ Join(th) \/ Read(th) \/ Use(th)
         \/ Trace(th) \/ Leave(th) \/ Finish(th)

Next == CpuStep \/ Tick

(* The CPU goes on executing the thread it runs.                           *)
Spec == Init /\ [][Next]_vars /\ WF_vars(CpuStep)

-----------------------------------------------------------------------------
TypeOK ==
  /\ SchedTypeOK
  /\ shared_var \in Nat
  /\ tmp  \in [Thread -> Nat]
  /\ turn \in [Thread -> Nat]
  /\ free \in BOOLEAN
  /\ init \in BOOLEAN
  /\ pc   \in [Thread -> Step]

(* The ASSERTs of th2.c, and its last line: whoever is about to write      *)
(* shared_var may, and nobody has written it since he read it, although    *)
(* he yielded in between; no increment is lost.                            *)
Counted(th) == turn[th] + (IF pc[th] \in {"trace", "leave"} THEN 1 ELSE 0)

Asserts ==
  /\ TypeOK
  /\ \A th \in Thread : pc[th] = "use" => tmp[th] = shared_var /\ MayCount(th, shared_var)
  /\ shared_var = Counted(thread2) + Counted(thread3)

(* No signal is lost between the release of the mutex and the block: what  *)
(* a thread waits for does not hold while it is in the condition's queue.  *)
NoSignalLost ==
  \A th \in Thread : th \in ToSet(wq[Condition(th)]) => ~MayCount(th, shared_var)

(* The mutex is free whenever a thread asks for it: the monitor is only    *)
(* given away between its turns. (A thread that had to wait for l and was  *)
(* handed it would send lock_acquire_helper() of the other one round its   *)
(* notes for ever; see DetectorEnds in module Kernel.)                     *)
Uncontended ==
  \A th \in Thread : cur = th /\ pc[th] \in {"enter", "rejoin", "last"} => free

(* Both threads come to their end, with shared_var = 300 there.            *)
BothPass ==
  <>(/\ \A th \in Thread : pc[th] = "exited"
     /\ shared_var = Turns[thread2] + Turns[thread3])
=============================================================================
