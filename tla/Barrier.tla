------------------------------ MODULE Barrier -------------------------------
(***************************************************************************)
(* The barrier of the Project 4 kernel (sync.c), used by the threads of    *)
(* test_all/barrier_test.c over the scheduler. The threads are kernel      *)
(* threads and not preempted: only barrier_wait(), a sleep or the end of a *)
(* thread lets another one run.                                            *)
(***************************************************************************)
EXTENDS Sched

CONSTANTS
  NumThreads,     \* NUM_THREADS
  NumIterations,  \* NUM_ITERATIONS
  SleepArg,       \* what the threads pass to do_sleep()
  barrier         \* barrier, for its pro_wait_queue

ASSUME BarrierAssumption ==
  /\ NumThreads \in Nat \ {0} /\ NumIterations \in Nat \ {0}
  /\ Task = 0 .. NumThreads - 1
  /\ Obj = {barrier}
  /\ SleepArg \subseteq Nat

VARIABLES
  curNum,       \* barrier.cur_num
  pc,           \* what each thread does when it runs again
  value,        \* value[id]
  initialized   \* barrier_initialized

vars == <<schedVars, curNum, pc, value, initialized>>

\* "in1", "in2": inside the first or the second barrier_wait() of a turn
Step == {"start", "count", "in1", "sleep", "check", "in2", "passed", "exited"}

TypeOK ==
  /\ SchedTypeOK
  /\ curNum \in 0 .. NumThreads - 1
  /\ pc     \in [Task -> Step]
  /\ value  \in [Task -> 0 .. NumIterations]
  /\ initialized \in BOOLEAN

(* The threads were spawned, in some order, and none has run.              *)
Init ==
  /\ status = [t \in Task |-> "FIRST_TIME"]
  /\ type   = [t \in Task |-> "KERNEL_THREAD"]
  /\ left   = [t \in Task |-> 0]
  /\ waitIn = [t \in Task |-> NULL]
  /\ \E order \in [1 .. NumThreads -> Task] :
       /\ IsInjective(order)
       /\ cur   = Head(order)
       /\ ready = Tail(order)
  /\ sleepq = <<>>
  /\ wq     = [q \in Queue |-> <<>>]
  /\ mode   = "run"
  /\ curNum = 0
  /\ pc     = [t \in Task |-> "start"]
  /\ value  = [t \in Task |-> 0]
  /\ initialized = FALSE

At(id, step) == cur = id /\ pc[id] = step

GoTo(id, step) == pc' = [pc EXCEPT ![id] = step]

-----------------------------------------------------------------------------
\* Versions of barrier_wait(): the barrier opens one thread early, one waiter
\* only is freed.
WaitOpensEarly(p) ==
  \/ /\ curNum + 2 >= NumThreads
     /\ wq'     = [wq EXCEPT ![barrier] = <<>>]
     /\ status' = Unblocked(wq[barrier])
     /\ ready'  = ready \o wq[barrier]
     /\ curNum' = 0
     /\ UNCHANGED <<left, waitIn, sleepq, cur, mode>>
  \/ /\ curNum + 2 < NumThreads
     /\ Block(p, barrier)
     /\ curNum' = curNum + 1

WaitFreesOne(p) ==
  \/ /\ curNum + 1 = NumThreads
     /\ UnblockOne(barrier)
     /\ curNum' = 0
     /\ UNCHANGED <<left, waitIn, sleepq, cur, mode>>
  \/ /\ curNum + 1 # NumThreads
     /\ Block(p, barrier)
     /\ curNum' = curNum + 1

(* barrier_wait(): the last thread to arrive frees the others and starts   *)
(* the next round, before any of them has run.                             *)
BarrierWait(p) ==
  \/ /\ curNum + 1 = NumThreads
     /\ wq'     = [wq EXCEPT ![barrier] = <<>>]
     /\ status' = Unblocked(wq[barrier])
     /\ ready'  = ready \o wq[barrier]
     /\ curNum' = 0
     /\ UNCHANGED <<left, waitIn, sleepq, cur, mode>>
  \/ /\ curNum + 1 # NumThreads
     /\ Block(p, barrier)
     /\ curNum' = curNum + 1

(* barrier_thread(). Thread 0 initialises the barrier, the others yield    *)
(* until it has.                                                           *)
Start(id) ==
  /\ At(id, "start")
  /\ \/ id # 0 /\ ~initialized /\ DoYield(id) /\ UNCHANGED <<pc, initialized>>
     \/ /\ id = 0 \/ initialized
        /\ initialized' = TRUE
        /\ GoTo(id, "count")
        /\ UNCHANGED schedVars
  /\ UNCHANGED <<curNum, value>>

(* A turn of the loop, up to and into its first barrier_wait().            *)
Count(id) ==
  /\ At(id, "count")
  /\ value' = [value EXCEPT ![id] = @ + 1]
  /\ BarrierWait(id)
  /\ GoTo(id, "in1")
  /\ UNCHANGED <<type, initialized>>

Pause(id) ==
  /\ At(id, "sleep")
  /\ \E ms \in SleepArg : DoSleep(id, ms)
  /\ GoTo(id, "check")
  /\ UNCHANGED <<curNum, value, initialized>>

(* The values have been compared; the second barrier_wait() keeps the next *)
(* turn of the others from changing them under a slow thread.              *)
Check(id) ==
  /\ At(id, "check")
  /\ BarrierWait(id)
  /\ GoTo(id, "in2")
  /\ UNCHANGED <<type, value, initialized>>

(* barrier_wait() returns: at once, or when the blocked thread runs again. *)
Return(id) ==
  /\ \/ At(id, "in1") /\ GoTo(id, "sleep")
     \/ At(id, "in2") /\ GoTo(id, IF value[id] < NumIterations THEN "count" ELSE "passed")
  /\ UNCHANGED <<schedVars, curNum, value, initialized>>

Exit(id) ==
  /\ At(id, "passed")
  /\ DoExit(id)
  /\ GoTo(id, "exited")
  /\ UNCHANGED <<curNum, value, initialized>>

Tick == TimerIrq(TRUE) /\ UNCHANGED <<curNum, pc, value, initialized>>

CpuStep ==
  \E id \in Task : Start(id) \/ Count(id) \/ Pause(id) \/ Check(id) \/ Return(id) \/ Exit(id)

Next == CpuStep \/ Tick

(* The CPU goes on executing the thread it runs, the timer interrupting.   *)
Spec == Init /\ [][Next]_vars /\ WF_vars(CpuStep) /\ WF_vars(Tick)

-----------------------------------------------------------------------------
(* The ASSERTs of barrier_thread(): whenever a thread compares the values, *)
(* however long it slept, they are equal; at its end it has made every     *)
(* turn.                                                                   *)
ValuesEqual ==
  /\ TypeOK
  /\ \A id \in Task :
       /\ At(id, "check") => \A j \in Task : value[j] = value[id]
       /\ pc[id] \in {"passed", "exited"} => value[id] = NumIterations

(* The barrier implements Rendezvous: how often a thread has called        *)
(* barrier_wait() and how often it has returned, from where it is.         *)
Arrived(id) == 2 * value[id] - (IF pc[id] \in {"in1", "sleep", "check"} THEN 1 ELSE 0)
Passed(id)  == Arrived(id) - (IF pc[id] \in {"in1", "in2"} THEN 1 ELSE 0)

R == INSTANCE Rendezvous WITH
       Thread  <- Task,
       arrived <- [id \in Task |-> Arrived(id)],
       passed  <- [id \in Task |-> Passed(id)]

(* No thread leaves a round that another one has not reached, and every    *)
(* thread leaves a round that all have reached, round after round.         *)
ImplementsRendezvous == R!Spec
=============================================================================
