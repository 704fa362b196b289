---------------------------- MODULE Philosophers ----------------------------
(***************************************************************************)
(* Dijkstra's philosophers as kernel threads of the Project 4 kernel       *)
(* (test_all/philosophers.c): semaphores, sleeps and the scheduler         *)
(* together. Kernel threads are not preempted, so the steps below follow   *)
(* one another without another thread between them, up to the next switch; *)
(* only time passes.                                                       *)
(***************************************************************************)
EXTENDS Semaphore

CONSTANTS
  NumPhilosophers,  \* NUM_PHILOSOPHERS
  ThinkTime,        \* what a philosopher passes to do_sleep() when thinking
  EatTime           \* and when eating

\* The forks are numbered after the philosophers.
Fork(i) == NumPhilosophers + i

ASSUME PhilosophersAssumption ==
  /\ NumPhilosophers \in Nat /\ NumPhilosophers >= 2
  /\ Task = 0 .. NumPhilosophers - 1
  /\ Obj = {Fork(i) : i \in Task}
  /\ ThinkTime \subseteq Nat /\ EatTime \subseteq Nat

VARIABLES
  pc,                \* what each philosopher does when it runs again
  eating,            \* eating[id]
  forksInitialized   \* forks_initialized

vars == <<schedVars, value, pc, eating, forksInitialized>>

\* "second": it has, or was promised, its first fork; "eat": both
Step == {"start", "think", "first", "second", "eat", "ate", "putSecond"}

(* The forks of a philosopher, in the order it takes them.                 *)
Forks(id) ==
  IF id = 0 THEN <<Fork(0), Fork(NumPhilosophers - 1)>> ELSE <<Fork(id - 1), Fork(id)>>

TypeOK ==
  /\ SchedTypeOK
  /\ value  \in [Obj -> 0 .. 1]
  /\ pc     \in [Task -> Step]
  /\ eating \in [Task -> BOOLEAN]
  /\ forksInitialized \in BOOLEAN

(* The threads were spawned, in some order, and none has run.              *)
Init ==
  /\ status = [t \in Task |-> "FIRST_TIME"]
  /\ type   = [t \in Task |-> "KERNEL_THREAD"]
  /\ left   = [t \in Task |-> 0]
  /\ waitIn = [t \in Task |-> NULL]
  /\ \E order \in [1 .. NumPhilosophers -> Task] :
       /\ IsInjective(order)
       /\ cur   = Head(order)
       /\ ready = Tail(order)
  /\ sleepq = <<>>
  /\ wq     = [q \in Queue |-> <<>>]
  /\ mode   = "run"
  /\ value  = [f \in Obj |-> 0]
  /\ pc     = [t \in Task |-> "start"]
  /\ eating = [t \in Task |-> FALSE]
  /\ forksInitialized = FALSE

At(id, step) == cur = id /\ pc[id] = step

GoTo(id, step) == pc' = [pc EXCEPT ![id] = step]

-----------------------------------------------------------------------------
(* Philosopher 0 puts the forks on the table; the others yield until they  *)
(* are there.                                                              *)
LayForks ==
  /\ At(0, "start")
  /\ value' = [f \in Obj |-> 1]
  /\ forksInitialized' = TRUE
  /\ GoTo(0, "think")
  /\ UNCHANGED <<schedVars, eating>>

AwaitForks(id) ==
  /\ At(id, "start") /\ id # 0
  /\ \/ ~forksInitialized /\ DoYield(id) /\ UNCHANGED pc
     \/ forksInitialized /\ GoTo(id, "think") /\ UNCHANGED schedVars
  /\ UNCHANGED <<value, eating, forksInitialized>>

Think(id) ==
  /\ At(id, "think")
  /\ \E ms \in ThinkTime : DoSleep(id, ms)
  /\ GoTo(id, "first")
  /\ UNCHANGED <<value, eating, forksInitialized>>

(* semaphore_down(f): whether or not id has to wait, it goes on as the     *)
(* owner of the fork.                                                      *)
Take(id, f) ==
  /\ \/ DownNow(f) /\ UNCHANGED schedVars
     \/ DownWait(id, f) /\ UNCHANGED type
  /\ UNCHANGED <<eating, forksInitialized>>

TakeFirst(id)  == At(id, "first")  /\ Take(id, Forks(id)[1]) /\ GoTo(id, "second")
TakeSecond(id) == At(id, "second") /\ Take(id, Forks(id)[2]) /\ GoTo(id, "eat")

Eat(id) ==
  /\ At(id, "eat")
  /\ eating' = [eating EXCEPT ![id] = TRUE]
  /\ \E ms \in EatTime : DoSleep(id, ms)
  /\ GoTo(id, "ate")
  /\ UNCHANGED <<value, forksInitialized>>

Put(f) ==
  /\ Up(value, f)
  /\ UNCHANGED <<type, left, waitIn, sleepq, cur, mode, forksInitialized>>

PutFirst(id) ==
  /\ At(id, "ate")
  /\ eating' = [eating EXCEPT ![id] = FALSE]
  /\ Put(Forks(id)[1])
  /\ GoTo(id, "putSecond")

\* Version: the second fork is not given back.
PutSecondKept(id) ==
  /\ At(id, "putSecond")
  /\ GoTo(id, "think")
  /\ UNCHANGED <<schedVars, value, eating, forksInitialized>>

PutSecond(id) ==
  /\ At(id, "putSecond")
  /\ Put(Forks(id)[2])
  /\ GoTo(id, "think")
  /\ UNCHANGED eating

Tick == TimerIrq(TRUE) /\ UNCHANGED <<value, pc, eating, forksInitialized>>

Philosopher(id) ==
  \/ AwaitForks(id) \/ Think(id) \/ TakeFirst(id) \/ TakeSecond(id)
  \/ Eat(id) \/ PutFirst(id) \/ PutSecond(id)

CpuStep == LayForks \/ \E id \in Task : Philosopher(id)

Next == CpuStep \/ Tick

(* The CPU goes on executing the thread it runs, the timer interrupting.   *)
Spec == Init /\ [][Next]_vars /\ WF_vars(CpuStep) /\ WF_vars(Tick)

-----------------------------------------------------------------------------
(* The ASSERTs of philosopher(): while one eats, neither neighbour does.   *)
NeighboursApart ==
  \A id \in Task : eating[id] =>
    \A n \in {id + 1, id + NumPhilosophers - 1} : ~eating[n % NumPhilosophers]

(* The forks that id has in hand, or that an up has passed to it while it  *)
(* waits to run again.                                                     *)
InHand(id) ==
  {f \in Obj : /\ id \notin ToSet(wq[f])
               /\ \/ f = Forks(id)[1] /\ pc[id] \in {"second", "eat", "ate"}
                  \/ f = Forks(id)[2] /\ pc[id] \in {"eat", "ate", "putSecond"}}

(* No fork is lost and none is there twice: what the semaphore counts and  *)
(* what the philosophers believe agree, through every wait and hand-over.  *)
ForksConserved ==
  /\ TypeOK
  /\ forksInitialized =>
       \A f \in Obj : value[f] + Cardinality({id \in Task : f \in InHand(id)}) = 1

(* No deadlock and no starvation: who is hungry eats, although the others  *)
(* eat and grow hungry again in the meantime.                              *)
HungryEats == \A id \in Task : (pc[id] = "first") ~> eating[id]
=============================================================================
