----------------------------- MODULE KernelProofs ---------------------------
(***************************************************************************)
(* Theorems about Kernel, for any number of tasks and mutexes: no task is  *)
(* lost, the mutexes exclude, and what no step may do to the dead, to      *)
(* those that wait for a task, and to the queue of a mutex.                *)
(***************************************************************************)
EXTENDS Kernel, SchedProofs

-----------------------------------------------------------------------------
(* Types *)

LEMMA BlockTyped ==
  ASSUME SchedTypeOK, NEW p \in Task, NEW q \in Queue, Block(p, q), type' = type
  PROVE  SchedTypeOK'
<1>1. wq' \in [Queue -> Seq(Task)]
  <2>1. wq[q] \in Seq(Task) BY DEF SchedTypeOK
  <2>2. Append(wq[q], p) \in Seq(Task) BY <2>1, AppendQueue
  <2> QED BY <2>2 DEF Block, SchedTypeOK
<1>2. waitIn' \in [Task -> Queue \cup {NULL}]
  BY DEF Block, SchedTypeOK
<1>3. Schedule(ready, sleepq, left, [status EXCEPT ![p] = "BLOCKED"])
  BY DEF Block
<1>4. [status EXCEPT ![p] = "BLOCKED"] \in [Task -> Status]
  BY StatusNames DEF SchedTypeOK
<1> QED BY <1>1, <1>2, <1>3, <1>4, ScheduleTyped DEF SchedTypeOK

LEMMA UnblockedTyped ==
  ASSUME SchedTypeOK, NEW q \in Queue
  PROVE  Unblocked(wq[q]) \in [Task -> Status] /\ ready \o wq[q] \in Seq(Task)
<1>1. wq[q] \in Seq(Task) /\ ready \in Seq(Task) BY DEF SchedTypeOK
<1>2. ready \o wq[q] \in Seq(Task) BY <1>1, ConcatQueue
<1>3. Unblocked(wq[q]) \in [Task -> Status] BY StatusNames DEF Unblocked, SchedTypeOK
<1> QED BY <1>2, <1>3

LEMMA UnblockOneTyped ==
  ASSUME SchedTypeOK, NEW q \in Queue, wq[q] # <<>>, UnblockOne(q)
  PROVE  /\ status' \in [Task -> Status] /\ ready' \in Seq(Task)
         /\ wq' \in [Queue -> Seq(Task)] /\ Last(ready') \in Task
<1>1. wq[q] \in Seq(Task) /\ ready \in Seq(Task) BY DEF SchedTypeOK
<1>2. Head(wq[q]) \in Task /\ Tail(wq[q]) \in Seq(Task) BY <1>1, TailQueue
<1>3. Append(ready, Head(wq[q])) \in Seq(Task) BY <1>1, <1>2, AppendQueue
<1>4. Last(Append(ready, Head(wq[q]))) = Head(wq[q])
  <2>1. /\ Len(Append(ready, Head(wq[q]))) = Len(ready) + 1
        /\ Append(ready, Head(wq[q]))[Len(ready) + 1] = Head(wq[q])
    BY <1>1, <1>2, AppendProperties
  <2> QED BY <2>1 DEF Last
<1> QED BY <1>2, <1>3, <1>4, StatusNames DEF UnblockOne, SchedTypeOK

LEMMA SleepersTyped ==
  ASSUME SchedTypeOK
  PROVE  Ticked \in [Task -> Nat]
BY DEF Ticked, SchedTypeOK

LEMMA UnlinkTyped ==
  ASSUME NEW s \in Seq(Task), NEW p \in ToSet(s)
  PROVE  /\ Unlink(s, p) \in Seq(Task)
         /\ IsInjective(s) => /\ IsInjective(Unlink(s, p))
                              /\ ToSet(Unlink(s, p)) = ToSet(s) \ {p}
<1> DEFINE i == CHOOSE j \in DOMAIN s : s[j] = p
<1>1. i \in 1 .. Len(s) /\ s[i] = p
  <2>1. \E j \in DOMAIN s : s[j] = p BY DEF ToSet
  <2>2. DOMAIN s = 1 .. Len(s) BY LenProperties
  <2> QED BY <2>1, <2>2
<1> HIDE DEF i
<1>2. /\ RemoveAt(s, i) \in Seq(Task)
      /\ IsInjective(s) => /\ IsInjective(RemoveAt(s, i))
                           /\ ToSet(RemoveAt(s, i)) = ToSet(s) \ {s[i]}
  BY <1>1, RemoveAtQueue
<1>3. Unlink(s, p) = RemoveAt(s, i) BY DEF Unlink, i
<1> QED BY <1>1, <1>2, <1>3

LEMMA ReleaseHelperTyped ==
  ASSUME TypeOK, NEW l \in Lock, ReleaseHelper(l)
  PROVE  /\ status' \in [Task -> Status] /\ ready' \in Seq(Task) /\ wq' \in [Queue -> Seq(Task)]
         /\ lockStatus' \in [Lock -> {"UNLOCKED", "LOCKED"}]
         /\ heldTask' \in [Lock -> Task \cup {NULL}]
<1>1. l \in Queue BY KernelAssumption DEF Queue
<1>2. CASE /\ wq[l] # <<>> /\ UnblockOne(l) /\ UNCHANGED lockStatus
           /\ heldTask' = [heldTask EXCEPT ![l] = Last(ready')]
  BY <1>1, <1>2, UnblockOneTyped DEF TypeOK
<1>3. CASE /\ lockStatus' = [lockStatus EXCEPT ![l] = "UNLOCKED"]
           /\ heldTask' = [heldTask EXCEPT ![l] = NULL]
           /\ UNCHANGED <<status, ready, wq>>
  BY <1>3 DEF TypeOK, SchedTypeOK
<1> QED BY <1>2, <1>3 DEF ReleaseHelper

LEMMA RequestTyped ==
  ASSUME TypeOK, NEW p \in Task, NEW l \in Lock, Request(p, l)
  PROVE  heldLock' \in [Task -> Seq(Lock)]
<1>1. heldLock[p] \in Seq(Lock) BY DEF TypeOK
<1>2. Append(heldLock[p], l) \in Seq(Lock) BY <1>1, AppendQueue
<1> QED BY <1>2 DEF Request, TypeOK

(* The three queues after do_kill() has taken the victim v out of its own. *)
LEMMA KillTakeQueues ==
  ASSUME TypeOK, NEW p \in Task, NEW v \in Task, KillTake(p, v)
  PROVE  ready' \in Seq(Task) /\ sleepq' \in Seq(Task) /\ wq' \in [Queue -> Seq(Task)]
<1> DEFINE woken == [wq EXCEPT ![v] = <<>>]
<1>0. /\ ready \in Seq(Task) /\ sleepq \in Seq(Task) /\ wq \in [Queue -> Seq(Task)]
      /\ v \in Queue /\ waitIn[v] \in Queue \cup {NULL}
  BY DEF TypeOK, SchedTypeOK, Queue
<1>1. ready \o wq[v] \in Seq(Task) /\ woken \in [Queue -> Seq(Task)]
  BY <1>0, ConcatQueue, EmptySeq
<1>2. CASE status[v] \in Runnable
  <2>1. v \in ToSet(ready)
    BY <1>0, <1>2, ContainsQueue DEF KillTake, Linked, Runnable
  <2>2. v \in ToSet(ready \o wq[v]) BY <2>1, <1>0, ConcatQueue
  <2>3. Unlink(ready \o wq[v], v) \in Seq(Task) BY <2>2, <1>1, UnlinkTyped
  <2>4. ready' = Unlink(ready \o wq[v], v) /\ wq' = woken /\ sleepq' = sleepq
    BY <1>2 DEF KillTake, Runnable
  <2> QED BY <2>3, <2>4, <1>0, <1>1
<1>3. CASE status[v] = "SLEEPING"
  <2>1. v \in ToSet(sleepq)
    BY <1>0, <1>3, ContainsQueue DEF KillTake, Linked, Runnable
  <2>2. Unlink(sleepq, v) \in Seq(Task) BY <2>1, <1>0, UnlinkTyped
  <2>3. sleepq' = Unlink(sleepq, v) /\ wq' = woken /\ ready' = ready \o wq[v]
    BY <1>3 DEF KillTake, Runnable
  <2> QED BY <2>2, <2>3, <1>0, <1>1
<1>4. CASE status[v] = "BLOCKED"
  <2> DEFINE q == waitIn[v]
  <2>1. q # v /\ q \in Queue \cup {NULL} /\ Contains(wq[q], v)
    BY <1>0, <1>4 DEF KillTake, Linked, Runnable
  <2>2. wq' = [woken EXCEPT ![q] = Unlink(@, v)] /\ ready' = ready \o wq[v] /\ sleepq' = sleepq
    BY <1>4 DEF KillTake, Runnable
  <2> HIDE DEF q
  <2>3. CASE q = NULL
    <3>1. q \notin Queue BY <2>3, SchedAssumption DEF Queue
    <3>2. wq' = woken BY <2>2, <3>1, <1>1
    <3> QED BY <3>2, <2>2, <1>0, <1>1
  <2>4. CASE q \in Queue
    <3>1. wq[q] \in Seq(Task) /\ woken[q] = wq[q] BY <2>1, <2>4, <1>0
    <3>2. v \in ToSet(wq[q]) BY <3>1, <2>1, ContainsQueue
    <3>3. Unlink(wq[q], v) \in Seq(Task) BY <3>1, <3>2, UnlinkTyped
    <3>4. wq' \in [Queue -> Seq(Task)] BY <3>1, <3>3, <2>2, <1>1
    <3> QED BY <3>4, <2>2, <1>0, <1>1
  <2> QED BY <2>1, <2>3, <2>4
<1>5. status[v] \in Runnable \/ status[v] = "SLEEPING" \/ status[v] = "BLOCKED"
  BY DEF KillTake, TypeOK, SchedTypeOK, Status
<1> QED BY <1>2, <1>3, <1>4, <1>5

LEMMA InitTyped == Init => TypeOK
<1> SUFFICES ASSUME Init PROVE TypeOK OBVIOUS
<1>1. 0 \in Task BY KernelAssumption
<1>2. <<>> \in Seq(Task) /\ <<>> \in Seq(Lock) BY EmptySeq
<1>3. SchedTypeOK
  BY <1>1, <1>2, StatusNames DEF Init, SchedTypeOK, TaskType, Mode
<1> QED BY <1>2, <1>3 DEF Init, TypeOK

LEMMA CallTyped ==
  ASSUME TypeOK, NEW p \in Task, Call(p)
  PROVE  TypeOK'
<1> USE DEF lockVars, killVars
<1>0. /\ SchedTypeOK /\ status \in [Task -> Status] /\ left \in [Task -> Nat]
      /\ ready \in Seq(Task) /\ sleepq \in Seq(Task) /\ mode \in Mode
      /\ wq \in [Queue -> Seq(Task)]
  BY DEF TypeOK, SchedTypeOK
<1>Q. Task \subseteq Queue /\ Lock \subseteq Queue BY KernelAssumption DEF Queue
<1>1. CASE Yield(p)
  <2>1. Append(ready, p) \in Seq(Task) BY <1>0, AppendQueue
  <2>2. [status EXCEPT ![p] = "READY"] \in [Task -> Status] BY <1>0, StatusNames
  <2>3. Schedule(Append(ready, p), sleepq, left, [status EXCEPT ![p] = "READY"])
    BY <1>1 DEF Yield, DoYield
  <2>4. SchedTypeOK'
    BY <2>1, <2>2, <2>3, <1>0, <1>1, ScheduleTyped DEF Yield, DoYield, SchedTypeOK
  <2> QED BY <2>4, <1>1 DEF Yield, TypeOK
<1>2. ASSUME NEW ms \in SleepArg, Sleep(p, ms) PROVE TypeOK'
  <2> DEFINE ticks == ms \div 1000
  <2>1. ticks \in Nat BY KernelAssumption
  <2> HIDE DEF ticks
  <2>2. CASE /\ Schedule(ready, Append(sleepq, p), [left EXCEPT ![p] = ticks],
                         [status EXCEPT ![p] = "SLEEPING"])
             /\ UNCHANGED <<type, waitIn, wq>>
    <3>1. Append(sleepq, p) \in Seq(Task) BY <1>0, AppendQueue
    <3>2. [status EXCEPT ![p] = "SLEEPING"] \in [Task -> Status] BY <1>0, StatusNames
    <3>3. [left EXCEPT ![p] = ticks] \in [Task -> Nat] BY <1>0, <2>1
    <3>4. SchedTypeOK'
      BY <3>1, <3>2, <3>3, <2>2, <1>0, ScheduleTyped DEF SchedTypeOK
    <3> QED BY <3>4, <1>2 DEF Sleep, TypeOK
  <2>3. CASE /\ left' = [left EXCEPT ![p] = 0]
             /\ UNCHANGED <<status, type, waitIn, ready, sleepq, wq, cur, mode>>
    BY <2>3, <1>0, <1>2 DEF Sleep, TypeOK, SchedTypeOK
  <2> QED BY <1>2, <2>2, <2>3 DEF Sleep, DoSleep, ticks
<1>3. CASE Exit(p)
  <2>1. Unblocked(wq[p]) \in [Task -> Status] /\ ready \o wq[p] \in Seq(Task)
    BY <1>0, <1>Q, UnblockedTyped
  <2>2. [Unblocked(wq[p]) EXCEPT ![p] = "EXITED"] \in [Task -> Status]
    BY <2>1, StatusNames
  <2>3. /\ Schedule(ready \o wq[p], sleepq, left, [Unblocked(wq[p]) EXCEPT ![p] = "EXITED"])
        /\ UNCHANGED <<type, waitIn>> /\ wq' = [wq EXCEPT ![p] = <<>>]
    BY <1>3 DEF Exit, DoExit
  <2>4. wq' \in [Queue -> Seq(Task)] BY <2>3, <1>0, EmptySeq
  <2>5. SchedTypeOK'
    BY <2>1, <2>2, <2>3, <2>4, <1>0, ScheduleTyped DEF SchedTypeOK
  <2>6. holders' \in [Lock -> SUBSET Task] BY <1>3 DEF Exit, TypeOK
  <2> QED BY <2>5, <2>6, <1>3 DEF Exit, TypeOK
<1>4. ASSUME NEW ft \in FileType, Spawn(p, ft) PROVE TypeOK'
  <2>1. ASSUME NEW s \in Task,
               UNCHANGED <<left, sleepq, cur, mode, lockStatus, heldTask, blocking, holders>>,
               InitializePcb(s, ft),
               ready' = Append(ready, s)
        PROVE  TypeOK'
    <3>1. ready' \in Seq(Task) BY <2>1, <1>0, AppendQueue
    <3>2. <<>> \in Seq(Task) /\ <<>> \in Seq(Lock) BY EmptySeq
    <3>3. ft \in TaskType BY KernelAssumption
    <3>4. SchedTypeOK'
      BY <3>1, <3>2, <3>3, <2>1, <1>0, StatusNames DEF SchedTypeOK, InitializePcb
    <3> QED BY <3>2, <3>4, <2>1, <1>4 DEF Spawn, TypeOK, InitializePcb
  <2>2. CASE UNCHANGED <<schedVars, lockVars>>
    BY <2>2, <1>4 DEF Spawn, TypeOK, SchedTypeOK, schedVars
  <2> QED BY <1>4, <2>1, <2>2 DEF Spawn
<1>5. ASSUME NEW t \in Task, Wait(p, t) PROVE TypeOK'
  <2>1. SchedTypeOK' BY <1>5, <1>0, <1>Q, BlockTyped DEF Wait
  <2> QED BY <2>1, <1>5 DEF Wait, TypeOK
<1>6. ASSUME NEW v \in Task, Kill(p, v) PROVE TypeOK'
  <2>1. Unblocked(wq[v]) \in [Task -> Status] /\ ready \o wq[v] \in Seq(Task)
    BY <1>0, <1>Q, UnblockedTyped
  <2>2. [wq EXCEPT ![v] = <<>>] \in [Queue -> Seq(Task)] BY <1>0, EmptySeq
  <2>3. CASE KillDead(p, v)
    BY <2>3, <1>0 DEF KillDead, TypeOK, SchedTypeOK, Mode
  <2>4. CASE KillLost(p, v)
    BY <2>4, <2>1, <2>2, <1>0 DEF KillLost, TypeOK, SchedTypeOK, Mode
  <2>5. CASE KillTake(p, v)
    <3>1. heldLock[v] \in Seq(Lock) BY DEF TypeOK
    <3>2. /\ ready' \in Seq(Task) /\ sleepq' \in Seq(Task) /\ wq' \in [Queue -> Seq(Task)]
      BY <2>5, KillTakeQueues DEF KillTake
    <3>3. status' \in [Task -> Status] BY <2>5, <2>1 DEF KillTake
    <3> QED BY <3>1, <3>2, <3>3, <2>5, <1>0 DEF KillTake, TypeOK, SchedTypeOK
  <2> QED BY <1>6, <2>3, <2>4, <2>5 DEF Kill
<1>7. ASSUME NEW l \in Lock, AcquireFree(p, l) PROVE TypeOK'
  <2>1. heldLock' \in [Task -> Seq(Lock)]
    BY <1>7, RequestTyped DEF AcquireFree
  <2>2. holders' \in [Lock -> SUBSET Task] BY <1>7 DEF AcquireFree, TypeOK
  <2> QED BY <2>1, <2>2, <1>7 DEF AcquireFree, Request, TypeOK, SchedTypeOK, schedVars
<1>8. ASSUME NEW l \in Lock, AcquireTaken(p, l) PROVE TypeOK'
  <2>1. heldLock' \in [Task -> Seq(Lock)] BY <1>8, RequestTyped DEF AcquireTaken
  <2>2. blocking' \in [Task -> Lock \cup {NULL}] /\ acquiring' \in [Task -> Lock \cup {NULL}]
    BY <1>8 DEF AcquireTaken, TypeOK
  <2>3. SchedTypeOK'
    <3>1. CASE UNCHANGED schedVars BY <3>1, <1>0 DEF SchedTypeOK, schedVars
    <3>2. CASE mode' = "hang" /\ UNCHANGED <<status, left, waitIn, ready, sleepq, wq, cur>>
      BY <3>2, <1>0, <1>8 DEF AcquireTaken, Request, SchedTypeOK, Mode
    <3>3. CASE Block(p, l)
      BY <3>3, <1>0, <1>8, <1>Q, BlockTyped DEF AcquireTaken, Request
    <3> QED BY <3>1, <3>2, <3>3, <1>8 DEF AcquireTaken
  <2> QED BY <2>1, <2>2, <2>3, <1>8 DEF AcquireTaken, Request, TypeOK
<1>9. ASSUME NEW l \in Lock, Release(p, l) PROVE TypeOK'
  <2>1. heldLock' \in [Task -> Seq(Lock)]
    <3>1. PICK i \in DOMAIN heldLock[p] : heldLock' = [heldLock EXCEPT ![p] = RemoveAt(@, i)]
      BY <1>9 DEF Release
    <3>2. heldLock[p] \in Seq(Lock) BY DEF TypeOK
    <3>3. i \in 1 .. Len(heldLock[p]) BY <3>2, LenProperties
    <3>4. RemoveAt(heldLock[p], i) \in Seq(Lock) BY <3>2, <3>3, RemoveAtQueue
    <3> QED BY <3>1, <3>4 DEF TypeOK
  <2>2. holders' \in [Lock -> SUBSET Task] BY <1>9 DEF Release, TypeOK
  <2>3. /\ status' \in [Task -> Status] /\ ready' \in Seq(Task) /\ wq' \in [Queue -> Seq(Task)]
        /\ lockStatus' \in [Lock -> {"UNLOCKED", "LOCKED"}]
        /\ heldTask' \in [Lock -> Task \cup {NULL}]
    BY <1>9, ReleaseHelperTyped DEF Release
  <2> QED BY <2>1, <2>2, <2>3, <1>9 DEF Release, TypeOK, SchedTypeOK
<1> QED BY <1>1, <1>2, <1>3, <1>4, <1>5, <1>6, <1>7, <1>8, <1>9 DEF Call

LEMMA KernelStepTyped ==
  ASSUME TypeOK, KernelStep
  PROVE  TypeOK'
<1>1. CASE KillRelease
  <2>1. /\ toRelease \in Seq(Lock) /\ toRelease # <<>> BY <1>1 DEF KillRelease, TypeOK
  <2>2. Head(toRelease) \in Lock /\ Tail(toRelease) \in Seq(Lock) BY <2>1, TailQueue
  <2>3. /\ status' \in [Task -> Status] /\ ready' \in Seq(Task) /\ wq' \in [Queue -> Seq(Task)]
        /\ lockStatus' \in [Lock -> {"UNLOCKED", "LOCKED"}]
        /\ heldTask' \in [Lock -> Task \cup {NULL}]
    BY <1>1, <2>2, ReleaseHelperTyped DEF KillRelease
  <2> QED BY <2>2, <2>3, <1>1 DEF KillRelease, TypeOK, SchedTypeOK
<1>2. CASE KillDone
  BY <1>2, StatusNames DEF KillDone, TypeOK, SchedTypeOK
<1>3. ASSUME NEW p \in Task, AcquireReturn(p) PROVE TypeOK'
  BY <1>3 DEF AcquireReturn, TypeOK, SchedTypeOK, schedVars, killVars
<1> QED BY <1>1, <1>2, <1>3 DEF KernelStep

LEMMA TickTyped ==
  ASSUME TypeOK, Tick
  PROVE  TypeOK'
<1>0. /\ SchedTypeOK /\ status \in [Task -> Status] /\ left \in [Task -> Nat]
      /\ ready \in Seq(Task) /\ sleepq \in Seq(Task) /\ mode \in Mode
      /\ cur \in Task \cup {NULL} /\ Ticked \in [Task -> Nat]
  BY SleepersTyped DEF TypeOK, SchedTypeOK
<1>1. UNCHANGED <<type, waitIn, wq>> /\ UNCHANGED <<lockVars, killVars>>
  BY DEF Tick, TimerIrq
<1>2. CASE left' = Ticked /\ UNCHANGED <<status, ready, sleepq, cur, mode>>
  BY <1>0, <1>1, <1>2 DEF TypeOK, SchedTypeOK, lockVars, killVars
<1>3. CASE cur # NULL /\ Schedule(Append(ready, cur), sleepq, Ticked, [status EXCEPT ![cur] = "READY"])
  <2>1. Append(ready, cur) \in Seq(Task) BY <1>0, <1>3, AppendQueue
  <2>2. [status EXCEPT ![cur] = "READY"] \in [Task -> Status] BY <1>0, <1>3, StatusNames
  <2>3. SchedTypeOK' BY <2>1, <2>2, <1>0, <1>1, <1>3, ScheduleTyped DEF SchedTypeOK
  <2> QED BY <2>3, <1>1 DEF TypeOK, lockVars, killVars
<1>4. CASE Schedule(ready, sleepq, Ticked, status)
  <2>1. SchedTypeOK' BY <1>0, <1>1, <1>4, ScheduleTyped DEF SchedTypeOK
  <2> QED BY <2>1, <1>1 DEF TypeOK, lockVars, killVars
<1> QED BY <1>2, <1>3, <1>4 DEF Tick, TimerIrq

(* Every field keeps its type, whatever the tasks call.                    *)
THEOREM TypeCorrect == Spec => []TypeOK
<1>1. Init => TypeOK BY InitTyped
<1>2. TypeOK /\ [Next]_vars => TypeOK'
  <2> SUFFICES ASSUME TypeOK, [Next]_vars PROVE TypeOK' OBVIOUS
  <2>1. CASE UNCHANGED vars
    BY <2>1 DEF vars, schedVars, lockVars, killVars, TypeOK, SchedTypeOK
  <2>2. CASE Next
    BY <2>1, <2>2, CallTyped, KernelStepTyped, TickTyped DEF Next, Stuck
  <2> QED BY <2>1, <2>2
<1> QED BY <1>1, <1>2, PTL DEF Spec

-----------------------------------------------------------------------------
(* Every task in one place *)

(* What OnePlace says of the queues, for any task t.                       *)
LEMMA QueueFacts ==
  ASSUME TypeOK, OnePlace
  PROVE  /\ ready \in Seq(Task) /\ sleepq \in Seq(Task) /\ wq \in [Queue -> Seq(Task)]
         /\ IsInjective(ready) /\ IsInjective(sleepq)
         /\ ToSet(ready) \subseteq Task /\ ToSet(sleepq) \subseteq Task
         /\ \A t \in ToSet(ready) : status[t] \in Runnable /\ t # cur /\ t # victim
         /\ \A t \in ToSet(sleepq) : status[t] = "SLEEPING" /\ t # victim
         /\ \A q \in Queue : /\ wq[q] \in Seq(Task) /\ IsInjective(wq[q])
                             /\ ToSet(wq[q]) \subseteq Task
                             /\ \A t \in ToSet(wq[q]) : /\ status[t] = "BLOCKED" /\ waitIn[t] = q
                                                       /\ t # victim
         /\ cur # NULL => cur \in Task /\ status[cur] \in Runnable
         /\ victim # NULL => victim # cur /\ cur # NULL /\ status[victim] \notin Dead
         /\ victim = NULL => toRelease = <<>>
<1>1. /\ ready \in Seq(Task) /\ sleepq \in Seq(Task) /\ wq \in [Queue -> Seq(Task)]
      /\ cur \in Task \cup {NULL}
  BY DEF TypeOK, SchedTypeOK
<1>2. ToSet(ready) \subseteq Task /\ ToSet(sleepq) \subseteq Task BY <1>1, SetOfSeq
<1>3. \A q \in Queue : wq[q] \in Seq(Task) /\ ToSet(wq[q]) \subseteq Task BY <1>1, SetOfSeq
<1> QED BY <1>1, <1>2, <1>3 DEF OnePlace, ReadyOK, SleepOK, WaitOK, RunOK

(* A task that could run is in no queue but the ready queue, and the       *)
(* running task is not in that one either; a dead task is in none.         *)
LEMMA InNoQueue ==
  ASSUME TypeOK, OnePlace, NEW p \in Task,
         (p = cur /\ p # NULL) \/ status[p] \in Dead
  PROVE  /\ p \notin ToSet(ready) /\ p \notin ToSet(sleepq)
         /\ \A q \in Queue : p \notin ToSet(wq[q])
BY QueueFacts, StatusNames

(* OnePlace in the terms of SchedProofs.                                   *)
LEMMA OnePlaceParts ==
  ASSUME TypeOK
  PROVE  OnePlace <=> /\ QueuesAgree(ready, sleepq, status) /\ RunsAlone(cur, ready, status)
                      /\ WaitsAgree(wq, waitIn, status) /\ RunOK
                      /\ victim # NULL => /\ victim \notin ToSet(ready) /\ victim \notin ToSet(sleepq)
                                          /\ \A q \in Queue : victim \notin ToSet(wq[q])
<1>1. /\ ready \in Seq(Task) /\ sleepq \in Seq(Task) /\ wq \in [Queue -> Seq(Task)]
      /\ NULL \notin Task
  BY SchedAssumption DEF TypeOK, SchedTypeOK
<1>2. ToSet(ready) \subseteq Task /\ ToSet(sleepq) \subseteq Task BY <1>1, SetOfSeq
<1>3. \A q \in Queue : ToSet(wq[q]) \subseteq Task BY <1>1, SetOfSeq
<1> QED BY <1>1, <1>2, <1>3 DEF OnePlace, ReadyOK, SleepOK, WaitOK, RunOK, QueuesAgree, RunsAlone,
                                 WaitsAgree

(* Whoever enters scheduler() with queues that agree with the statuses     *)
(* leaves every task in one place.                                         *)
LEMMA Reschedule ==
  ASSUME TypeOK, TypeOK', NEW r \in Seq(Task), NEW s \in Seq(Task), NEW lf \in [Task -> Nat],
         NEW st \in [Task -> Status], Schedule(r, s, lf, st),
         QueuesAgree(r, s, st), WaitsAgree(wq', waitIn', st),
         victim' = NULL, toRelease' = <<>>
  PROVE  OnePlace'
<1>1. /\ QueuesAgree(ready', sleepq', status') /\ RunsAlone(cur', ready', status')
      /\ OnlyWakes(st, status')
  BY SchedulePlaces
<1>2. WaitsAgree(wq', waitIn', status')
  <2>1. wq' \in [Queue -> Seq(Task)] BY DEF TypeOK, SchedTypeOK
  <2>2. \A q \in Queue : ToSet(wq'[q]) \subseteq Task BY <2>1, SetOfSeq
  <2> QED BY <2>2, <1>1 DEF WaitsAgree, OnlyWakes
<1>3. RunOK' BY <1>1 DEF RunOK, RunsAlone
<1>4. (OnePlace <=> /\ QueuesAgree(ready, sleepq, status) /\ RunsAlone(cur, ready, status)
                    /\ WaitsAgree(wq, waitIn, status) /\ RunOK
                    /\ victim # NULL => /\ victim \notin ToSet(ready) /\ victim \notin ToSet(sleepq)
                                        /\ \A q \in Queue : victim \notin ToSet(wq[q]))'
  BY OnePlaceParts, PTL
<1> QED BY <1>1, <1>2, <1>3, <1>4

(* The same with the hypotheses of the state spelled out.                  *)
LEMMA PartsOf ==
  ASSUME TypeOK, OnePlace
  PROVE  /\ QueuesAgree(ready, sleepq, status) /\ WaitsAgree(wq, waitIn, status)
         /\ ready \in Seq(Task) /\ sleepq \in Seq(Task) /\ wq \in [Queue -> Seq(Task)]
         /\ status \in [Task -> Status] /\ left \in [Task -> Nat]
         /\ waitIn \in [Task -> Queue \cup {NULL}]
BY OnePlaceParts DEF TypeOK, SchedTypeOK

LEMMA BlockPlaces ==
  ASSUME TypeOK, TypeOK', OnePlace, NEW p \in Task, p = cur, NEW q \in Queue, Block(p, q),
         victim = NULL, UNCHANGED killVars
  PROVE  OnePlace'
<1> DEFINE st == [status EXCEPT ![p] = "BLOCKED"]
<1>0. NULL \notin Task BY SchedAssumption
<1>1. /\ p \notin ToSet(ready) /\ p \notin ToSet(sleepq)
      /\ \A u \in Queue : p \notin ToSet(wq[u])
  BY <1>0, InNoQueue
<1>2. st \in [Task -> Status] BY PartsOf, StatusNames
<1>3. QueuesAgree(ready, sleepq, st) BY <1>1, PartsOf, AgreeExcept
<1>4. WaitsAgree(wq, waitIn, st) BY <1>1, PartsOf, WaitsExcept
<1>5. waitIn' = [waitIn EXCEPT ![p] = q] /\ wq' = [wq EXCEPT ![q] = Append(@, p)]
  BY DEF Block
<1>6. st[p] = "BLOCKED" BY PartsOf
<1>7. ASSUME NEW u \in Queue
      PROVE  IsInjective(wq'[u]) /\ \A t \in ToSet(wq'[u]) : st[t] = "BLOCKED" /\ waitIn'[t] = u
  <2>1. /\ wq[u] \in Seq(Task) /\ IsInjective(wq[u]) /\ ToSet(wq[u]) \subseteq Task
        /\ \A t \in ToSet(wq[u]) : st[t] = "BLOCKED" /\ waitIn[t] = u
    BY <1>4, QueueFacts DEF WaitsAgree
  <2>2. \A t \in ToSet(wq[u]) : st[t] = "BLOCKED" /\ waitIn'[t] = u
    BY <1>1, <1>5, <2>1, PartsOf
  <2>3. CASE u # q BY <1>5, <2>1, <2>2, <2>3, PartsOf
  <2>4. CASE u = q
    <3>1. wq'[u] = Append(wq[u], p) /\ waitIn'[p] = u BY <1>5, <2>4, PartsOf
    <3>2. /\ IsInjective(Append(wq[u], p))
          /\ ToSet(Append(wq[u], p)) = ToSet(wq[u]) \cup {p}
      BY <1>1, <2>1, AppendQueue
    <3> QED BY <3>1, <3>2, <2>2, <1>6
  <2> QED BY <2>3, <2>4
<1>8. WaitsAgree(wq', waitIn', st) BY <1>7 DEF WaitsAgree
<1>9. Schedule(ready, sleepq, left, st) BY DEF Block
<1>10. victim' = NULL /\ toRelease' = <<>> BY QueueFacts DEF killVars
<1> HIDE DEF st
<1> QED BY <1>2, <1>3, <1>8, <1>9, <1>10, PartsOf, Reschedule

(* p goes to the back of the ready queue: do_yield(), and the preemption   *)
(* in timer_irq().                                                         *)
LEMMA RequeuePlaces ==
  ASSUME TypeOK, TypeOK', OnePlace, NEW p \in Task, p = cur, NEW lf \in [Task -> Nat],
         Schedule(Append(ready, p), sleepq, lf, [status EXCEPT ![p] = "READY"]),
         UNCHANGED <<waitIn, wq>>, victim = NULL, UNCHANGED killVars
  PROVE  OnePlace'
<1> DEFINE st == [status EXCEPT ![p] = "READY"]
           r == Append(ready, p)
<1>0. NULL \notin Task BY SchedAssumption
<1>1. /\ p \notin ToSet(ready) /\ p \notin ToSet(sleepq)
      /\ \A u \in Queue : p \notin ToSet(wq[u])
  BY <1>0, InNoQueue
<1>2. st \in [Task -> Status] BY PartsOf, StatusNames
<1>3. r \in Seq(Task) BY PartsOf, AppendQueue
<1>4. QueuesAgree(r, sleepq, st) BY <1>1, PartsOf, StatusNames, AgreeReady
<1>5. WaitsAgree(wq, waitIn, st) BY <1>1, PartsOf, WaitsExcept
<1>6. wq' = wq /\ waitIn' = waitIn OBVIOUS
<1>7. WaitsAgree(wq', waitIn', st) BY <1>5, <1>6
<1>8. victim' = NULL /\ toRelease' = <<>> BY QueueFacts DEF killVars
<1>9. Schedule(r, sleepq, lf, st) OBVIOUS
<1> HIDE DEF st, r
<1> QED BY <1>2, <1>3, <1>4, <1>7, <1>8, <1>9, PartsOf, Reschedule

(* A call that leaves every queue and status alone.                        *)
LEMMA SamePlaces ==
  ASSUME OnePlace, UNCHANGED <<status, waitIn, ready, sleepq, wq, cur>>, UNCHANGED killVars
  PROVE  OnePlace'
BY DEF OnePlace, ReadyOK, SleepOK, WaitOK, RunOK, killVars

LEMMA SleepPlaces ==
  ASSUME TypeOK, TypeOK', OnePlace, NEW p \in Task, NEW ms \in SleepArg, Sleep(p, ms)
  PROVE  OnePlace'
<1> DEFINE ticks == ms \div 1000
           st == [status EXCEPT ![p] = "SLEEPING"]
           s == Append(sleepq, p)
           lf == [left EXCEPT ![p] = ticks]
<1>0. ticks \in Nat /\ NULL \notin Task BY KernelAssumption, SchedAssumption
<1>1. /\ p \notin ToSet(ready) /\ p \notin ToSet(sleepq)
      /\ \A u \in Queue : p \notin ToSet(wq[u])
  BY <1>0, InNoQueue DEF Sleep, User
<1>2. st \in [Task -> Status] BY PartsOf, StatusNames
<1>3. s \in Seq(Task) /\ ToSet(s) = ToSet(sleepq) \cup {p}
      /\ (IsInjective(sleepq) => IsInjective(s))
  BY <1>1, PartsOf, AppendQueue
<1>4. lf \in [Task -> Nat] BY <1>0, PartsOf
<1>5. CASE Schedule(ready, s, lf, st) /\ UNCHANGED <<type, waitIn, wq>>
  <2>2. QueuesAgree(ready, s, st)
    <3>1. \A t \in ToSet(ready) : st[t] \in Runnable BY <1>1, QueueFacts, PartsOf
    <3>2. \A t \in ToSet(s) : st[t] = "SLEEPING" BY <1>3, QueueFacts, PartsOf
    <3> QED BY <3>1, <3>2, <1>3, QueueFacts DEF QueuesAgree
  <2>3. WaitsAgree(wq, waitIn, st) BY <1>1, PartsOf, WaitsExcept
  <2>4. WaitsAgree(wq', waitIn', st) BY <2>3, <1>5
  <2>5. victim' = NULL /\ toRelease' = <<>> BY QueueFacts DEF killVars, Sleep, User
  <2> HIDE DEF st, s, lf
  <2> QED BY <1>2, <1>3, <1>4, <1>5, <2>2, <2>4, <2>5, PartsOf, Reschedule
<1>6. CASE UNCHANGED <<status, type, waitIn, ready, sleepq, wq, cur, mode>>
  BY <1>6, SamePlaces DEF Sleep
<1> QED BY <1>5, <1>6 DEF Sleep, DoSleep

(* Everyone in p's wait queue becomes ready; p itself may then leave.      *)
LEMMA UnblockedPlaces ==
  ASSUME TypeOK, OnePlace, NEW p \in Task
  PROVE  LET st == Unblocked(wq[p])
             w  == [wq EXCEPT ![p] = <<>>]
         IN  /\ st \in [Task -> Status] /\ w \in [Queue -> Seq(Task)]
             /\ ready \o wq[p] \in Seq(Task)
             /\ ToSet(ready \o wq[p]) = ToSet(ready) \cup ToSet(wq[p])
             /\ \A t \in Task : t \notin ToSet(wq[p]) => st[t] = status[t]
             /\ QueuesAgree(ready \o wq[p], sleepq, st)
             /\ WaitsAgree(w, waitIn, st)
<1> DEFINE st == Unblocked(wq[p])
           w  == [wq EXCEPT ![p] = <<>>]
           r  == ready \o wq[p]
<1>0. p \in Queue BY DEF Queue
<1>1. st \in [Task -> Status] /\ w \in [Queue -> Seq(Task)] /\ r \in Seq(Task)
  BY <1>0, PartsOf, UnblockedTyped, EmptySeq DEF TypeOK
<1>2. /\ wq[p] \in Seq(Task) /\ IsInjective(wq[p]) /\ ToSet(wq[p]) \subseteq Task
      /\ \A t \in ToSet(wq[p]) : status[t] = "BLOCKED" /\ waitIn[t] = p
  BY <1>0, QueueFacts
<1>3. ToSet(ready) \cap ToSet(wq[p]) = {} /\ ToSet(sleepq) \cap ToSet(wq[p]) = {}
  <2>1. \A t \in ToSet(ready) : status[t] \in Runnable BY QueueFacts
  <2>2. \A t \in ToSet(sleepq) : status[t] = "SLEEPING" BY QueueFacts
  <2> QED BY <1>2, <2>1, <2>2, StatusNames
<1>4. ToSet(r) = ToSet(ready) \cup ToSet(wq[p]) /\ IsInjective(r)
  <2>1. ready \in Seq(Task) /\ IsInjective(ready) BY QueueFacts
  <2> QED BY <1>2, <1>3, <2>1, ConcatQueue
<1>5. \A t \in Task : st[t] = IF t \in ToSet(wq[p]) THEN "READY" ELSE status[t]
  BY DEF Unblocked
<1>6. QueuesAgree(r, sleepq, st)
  <2>1. \A t \in ToSet(r) : st[t] \in Runnable BY <1>2, <1>4, <1>5, QueueFacts, StatusNames
  <2>2. \A t \in ToSet(sleepq) : st[t] = "SLEEPING" BY <1>3, <1>5, QueueFacts
  <2>3. IsInjective(sleepq) BY QueueFacts
  <2> QED BY <1>4, <2>1, <2>2, <2>3 DEF QueuesAgree
<1>7. ASSUME NEW q \in Queue
      PROVE  IsInjective(w[q]) /\ \A t \in ToSet(w[q]) : st[t] = "BLOCKED" /\ waitIn[t] = q
  <2>1. CASE q = p
    <3>1. w[q] = <<>> BY <2>1, PartsOf
    <3> QED BY <3>1, EmptyQueue
  <2>2. CASE q # p
    <3>1. w[q] = wq[q] BY <2>2, PartsOf
    <3>2. \A t \in ToSet(wq[q]) : t \in Task /\ status[t] = "BLOCKED" /\ waitIn[t] = q
      BY QueueFacts
    <3>3. IsInjective(wq[q]) BY QueueFacts
    <3> QED BY <3>1, <3>2, <3>3, <1>2, <1>5, <2>2
  <2> QED BY <2>1, <2>2
<1>8. WaitsAgree(w, waitIn, st) BY <1>7 DEF WaitsAgree
<1> QED BY <1>1, <1>4, <1>5, <1>6, <1>8

LEMMA ExitPlaces ==
  ASSUME TypeOK, TypeOK', OnePlace, NEW p \in Task, Exit(p)
  PROVE  OnePlace'
<1> DEFINE su == Unblocked(wq[p])
           st == [su EXCEPT ![p] = "EXITED"]
           r  == ready \o wq[p]
           w  == [wq EXCEPT ![p] = <<>>]
<1>0. NULL \notin Task /\ p \in Queue BY SchedAssumption DEF Queue
<1>1. /\ p \notin ToSet(ready) /\ p \notin ToSet(sleepq)
      /\ \A u \in Queue : p \notin ToSet(wq[u])
  BY <1>0, InNoQueue DEF Exit, User
<1>2. /\ su \in [Task -> Status] /\ w \in [Queue -> Seq(Task)] /\ r \in Seq(Task)
      /\ ToSet(r) = ToSet(ready) \cup ToSet(wq[p])
      /\ QueuesAgree(r, sleepq, su) /\ WaitsAgree(w, waitIn, su)
  BY UnblockedPlaces
<1>3. /\ Schedule(r, sleepq, left, st) /\ wq' = w /\ waitIn' = waitIn
      /\ victim' = NULL /\ toRelease' = <<>>
  BY QueueFacts DEF Exit, DoExit, User, killVars
<1>4. \A q \in Queue : p \notin ToSet(w[q])
  BY <1>1, EmptyQueue, PartsOf
<1> HIDE DEF su, r, w
<1>5. st \in [Task -> Status] BY <1>2, StatusNames
<1>6. QueuesAgree(r, sleepq, st)
  BY <1>0, <1>1, <1>2, PartsOf, AgreeExcept
<1>7. WaitsAgree(w, waitIn, st) BY <1>2, <1>4, WaitsExcept
<1>8. WaitsAgree(wq', waitIn', st) BY <1>3, <1>7
<1> HIDE DEF st
<1> QED BY <1>2, <1>3, <1>5, <1>6, <1>8, PartsOf, Reschedule

(* A dead slot, in no queue, becomes the last task of the ready queue.     *)
LEMMA SpawnPlaces ==
  ASSUME TypeOK, TypeOK', OnePlace, NEW p \in Task, NEW ft \in FileType, Spawn(p, ft)
  PROVE  OnePlace'
<1>0. NULL \notin Task BY SchedAssumption
<1>1. CASE UNCHANGED <<schedVars, lockVars>>
  BY <1>1, SamePlaces DEF Spawn, schedVars
<1>2. ASSUME NEW s \in Task, status[s] \in Dead,
             status' = [status EXCEPT ![s] = "FIRST_TIME"],
             waitIn' = [waitIn EXCEPT ![s] = NULL],
             wq'     = [wq EXCEPT ![s] = <<>>],
             ready'  = Append(ready, s),
             UNCHANGED <<sleepq, cur>>
      PROVE  OnePlace'
  <2>1. /\ s \notin ToSet(ready) /\ s \notin ToSet(sleepq)
        /\ \A u \in Queue : s \notin ToSet(wq[u])
    BY <1>2, InNoQueue
  <2>2. s # cur BY <1>2, <1>0, QueueFacts, StatusNames
  <2>3. QueuesAgree(ready', sleepq', status')
    <3>1. QueuesAgree(Append(ready, s), sleepq, [status EXCEPT ![s] = "FIRST_TIME"])
      BY <2>1, PartsOf, StatusNames, AgreeReady
    <3> QED BY <3>1, <1>2
  <2>4. RunsAlone(cur', ready', status')
    <3>1. ToSet(ready') = ToSet(ready) \cup {s} BY <1>2, PartsOf, AppendQueue
    <3>2. cur # NULL => cur \in Task /\ status[cur] \in Runnable BY QueueFacts
    <3>3. cur \notin ToSet(ready) BY QueueFacts
    <3> QED BY <3>1, <3>2, <3>3, <2>2, <1>2, PartsOf DEF RunsAlone
  <2>5. ASSUME NEW q \in Queue
        PROVE  /\ IsInjective(wq'[q])
               /\ \A t \in ToSet(wq'[q]) : status'[t] = "BLOCKED" /\ waitIn'[t] = q
    <3>1. CASE q = s
      <4>1. wq'[q] = <<>> BY <3>1, <1>2, PartsOf
      <4> QED BY <4>1, EmptyQueue
    <3>2. CASE q # s
      <4>1. wq'[q] = wq[q] BY <3>2, <1>2, PartsOf
      <4>2. /\ \A t \in ToSet(wq[q]) : t \in Task /\ t # s /\ status[t] = "BLOCKED" /\ waitIn[t] = q
            /\ IsInjective(wq[q])
        BY <2>1, QueueFacts
      <4> QED BY <4>1, <4>2, <1>2, PartsOf
    <3> QED BY <3>1, <3>2
  <2>6. WaitsAgree(wq', waitIn', status') BY <2>5 DEF WaitsAgree
  <2>7. victim' = NULL /\ toRelease' = <<>>
    BY QueueFacts DEF Spawn, Process, User, killVars
  <2>8. RunOK' BY <2>4, <2>7 DEF RunOK, RunsAlone
  <2>9. (OnePlace <=> /\ QueuesAgree(ready, sleepq, status) /\ RunsAlone(cur, ready, status)
                      /\ WaitsAgree(wq, waitIn, status) /\ RunOK
                      /\ victim # NULL => /\ victim \notin ToSet(ready) /\ victim \notin ToSet(sleepq)
                                          /\ \A q \in Queue : victim \notin ToSet(wq[q]))'
    BY OnePlaceParts, PTL
  <2> QED BY <2>3, <2>4, <2>6, <2>7, <2>8, <2>9
<1>3. CASE \E s \in {t \in Task : status[t] \in Dead} :
             /\ status' = [status EXCEPT ![s] = "FIRST_TIME"]
             /\ waitIn' = [waitIn EXCEPT ![s] = NULL]
             /\ wq'     = [wq EXCEPT ![s] = <<>>]
             /\ ready'  = Append(ready, s)
             /\ UNCHANGED <<sleepq, cur>>
  BY <1>2, <1>3
<1> QED BY <1>1, <1>3 DEF Spawn, InitializePcb

(* The first waiter of l, and nobody else, moves to the ready queue.       *)
LEMMA ReleasePlaces ==
  ASSUME TypeOK, TypeOK', OnePlace, NEW l \in Lock, ReleaseHelper(l),
         UNCHANGED <<waitIn, sleepq, cur, victim>>, victim = NULL => toRelease' = toRelease
  PROVE  OnePlace'
<1>0. l \in Queue /\ NULL \notin Task BY KernelAssumption, SchedAssumption DEF Queue
<1>P. (OnePlace <=> /\ QueuesAgree(ready, sleepq, status) /\ RunsAlone(cur, ready, status)
                    /\ WaitsAgree(wq, waitIn, status) /\ RunOK
                    /\ victim # NULL => /\ victim \notin ToSet(ready) /\ victim \notin ToSet(sleepq)
                                        /\ \A q \in Queue : victim \notin ToSet(wq[q]))'
  BY OnePlaceParts, PTL
<1>1. CASE UNCHANGED <<status, ready, wq>>
  <2>1. victim' = victim /\ cur' = cur /\ status' = status /\ sleepq' = sleepq /\ waitIn' = waitIn
        /\ ready' = ready /\ wq' = wq
    BY <1>1
  <2> QED BY <2>1 DEF OnePlace, ReadyOK, SleepOK, WaitOK, RunOK
<1>2. CASE wq[l] # <<>> /\ UnblockOne(l)
  <2> DEFINE h == Head(wq[l])
  <2>1. wq[l] \in Seq(Task) /\ IsInjective(wq[l]) BY <1>0, QueueFacts
  <2>2. /\ h \in Task /\ h \in ToSet(wq[l]) /\ Tail(wq[l]) \in Seq(Task)
        /\ IsInjective(Tail(wq[l])) /\ ToSet(Tail(wq[l])) = ToSet(wq[l]) \ {h}
    BY <1>2, <2>1, TailQueue
  <2>3. /\ status' = [status EXCEPT ![h] = "READY"] /\ ready' = Append(ready, h)
        /\ wq' = [wq EXCEPT ![l] = Tail(@)]
    BY <1>2 DEF UnblockOne
  <2> HIDE DEF h
  <2>4. status[h] = "BLOCKED" /\ waitIn[h] = l /\ h # victim
    BY <1>0, <2>2, QueueFacts
  <2>5. h \notin ToSet(ready) /\ h \notin ToSet(sleepq) /\ h # cur
    <3>1. \A t \in ToSet(ready) : status[t] \in Runnable BY QueueFacts
    <3>2. \A t \in ToSet(sleepq) : status[t] = "SLEEPING" BY QueueFacts
    <3>3. cur # NULL => status[cur] \in Runnable BY QueueFacts
    <3> QED BY <3>1, <3>2, <3>3, <1>0, <2>2, <2>4, StatusNames
  <2>6. QueuesAgree(ready', sleepq', status')
    <3>1. QueuesAgree(Append(ready, h), sleepq, [status EXCEPT ![h] = "READY"])
      BY <2>2, <2>5, PartsOf, StatusNames, AgreeReady
    <3> QED BY <3>1, <2>3
  <2>7. ToSet(ready') = ToSet(ready) \cup {h} BY <2>2, <2>3, PartsOf, AppendQueue
  <2>8. \A t \in Task : t # h => status'[t] = status[t] BY <2>3, PartsOf
  <2>9. RunsAlone(cur', ready', status')
    <3>1. cur # NULL => cur \in Task /\ status[cur] \in Runnable BY QueueFacts
    <3>2. cur \notin ToSet(ready) BY QueueFacts
    <3> QED BY <3>1, <3>2, <2>5, <2>7, <2>8 DEF RunsAlone
  <2>10. ASSUME NEW q \in Queue
         PROVE  /\ IsInjective(wq'[q]) /\ ToSet(wq'[q]) \subseteq ToSet(wq[q])
                /\ \A t \in ToSet(wq'[q]) : status'[t] = "BLOCKED" /\ waitIn'[t] = q
    <3>1. /\ wq[q] \in Seq(Task) /\ IsInjective(wq[q])
          /\ \A t \in ToSet(wq[q]) : t \in Task /\ status[t] = "BLOCKED" /\ waitIn[t] = q
      BY QueueFacts
    <3>2. CASE q = l
      <4>1. wq'[q] = Tail(wq[l]) BY <3>2, <2>3, PartsOf
      <4> QED BY <4>1, <3>1, <3>2, <2>2, <2>8
    <3>3. CASE q # l
      <4>1. wq'[q] = wq[q] BY <3>3, <2>3, PartsOf
      <4>2. h \notin ToSet(wq[q]) BY <3>1, <3>3, <2>4
      <4> QED BY <4>1, <4>2, <3>1, <2>8
    <3> QED BY <3>2, <3>3
  <2>11. WaitsAgree(wq', waitIn', status') BY <2>10 DEF WaitsAgree
  <2>12. RunOK'
    <3>1. /\ victim # NULL => victim # cur /\ cur # NULL /\ status[victim] \notin Dead
          /\ victim = NULL => toRelease = <<>>
          /\ victim \in Task \cup {NULL}
      BY QueueFacts DEF TypeOK
    <3>2. victim # NULL => status'[victim] = status[victim] BY <3>1, <2>4, <2>8
    <3> QED BY <3>1, <3>2, <2>9 DEF RunOK, RunsAlone
  <2>13. victim' # NULL => /\ victim' \notin ToSet(ready') /\ victim' \notin ToSet(sleepq')
                           /\ \A q \in Queue : victim' \notin ToSet(wq'[q])
    <3>1. victim \notin ToSet(ready) /\ victim \notin ToSet(sleepq)
          /\ \A q \in Queue : victim \notin ToSet(wq[q])
      BY QueueFacts
    <3> QED BY <3>1, <2>4, <2>7, <2>10
  <2> QED BY <1>P, <2>6, <2>9, <2>11, <2>12, <2>13
<1> QED BY <1>1, <1>2 DEF ReleaseHelper

(* do_kill(v), whichever way it goes, leaves the others where they belong. *)
LEMMA KillPlaces ==
  ASSUME TypeOK, TypeOK', OnePlace, NEW p \in Task, NEW v \in Task, Kill(p, v)
  PROVE  OnePlace'
<1> DEFINE su == Unblocked(wq[v])
           r  == ready \o wq[v]
           w  == [wq EXCEPT ![v] = <<>>]
<1>0. NULL \notin Task /\ v \in Queue /\ victim = NULL /\ cur = p
  BY SchedAssumption DEF Queue, Kill, KillDead, KillLost, KillTake, MayKill, Process, User
<1>P. (OnePlace <=> /\ QueuesAgree(ready, sleepq, status) /\ RunsAlone(cur, ready, status)
                    /\ WaitsAgree(wq, waitIn, status) /\ RunOK
                    /\ victim # NULL => /\ victim \notin ToSet(ready) /\ victim \notin ToSet(sleepq)
                                        /\ \A q \in Queue : victim \notin ToSet(wq[q]))'
  BY OnePlaceParts, PTL
<1>1. /\ su \in [Task -> Status] /\ w \in [Queue -> Seq(Task)] /\ r \in Seq(Task)
      /\ ToSet(r) = ToSet(ready) \cup ToSet(wq[v])
      /\ \A t \in Task : t \notin ToSet(wq[v]) => su[t] = status[t]
      /\ QueuesAgree(r, sleepq, su) /\ WaitsAgree(w, waitIn, su)
  BY UnblockedPlaces
<1>2. /\ \A t \in ToSet(wq[v]) : t \in Task /\ status[t] = "BLOCKED" /\ waitIn[t] = v
      /\ wq[v] \in Seq(Task)
  BY <1>0, QueueFacts
<1>3. /\ p \notin ToSet(ready) /\ p \notin ToSet(sleepq) /\ status[p] \in Runnable
      /\ \A u \in Queue : p \notin ToSet(wq[u])
  BY <1>0, InNoQueue, QueueFacts
<1>4. p \notin ToSet(r) /\ su[p] \in Runnable BY <1>0, <1>1, <1>3
<1>5. \A q \in Queue : /\ w[q] \in Seq(Task) /\ IsInjective(w[q]) /\ ToSet(w[q]) \subseteq Task
                      /\ \A t \in ToSet(w[q]) : su[t] = "BLOCKED" /\ waitIn[t] = q
  <2>1. \A q \in Queue : w[q] \in Seq(Task) /\ ToSet(w[q]) \subseteq Task
    BY <1>1, SetOfSeq
  <2> QED BY <1>1, <2>1 DEF WaitsAgree
<1>6. w[v] = <<>> /\ ToSet(w[v]) = {} BY <1>0, PartsOf, EmptyQueue
<1> HIDE DEF su, r, w
<1>7. CASE KillDead(p, v)
  BY <1>7, SamePlaces DEF KillDead
<1>8. CASE KillLost(p, v)
  <2>1. /\ wq' = w /\ status' = su /\ ready' = r
        /\ UNCHANGED <<waitIn, sleepq, cur, victim, toRelease>>
    BY <1>8 DEF KillLost, killVars, w, su, r
  <2>2. QueuesAgree(ready', sleepq', status') /\ WaitsAgree(wq', waitIn', status') BY <2>1, <1>1
  <2>3. RunsAlone(cur', ready', status') BY <2>1, <1>0, <1>4 DEF RunsAlone
  <2>4. victim' = NULL /\ toRelease' = <<>> BY <2>1, <1>0, QueueFacts
  <2>5. RunOK' BY <2>3, <2>4 DEF RunOK, RunsAlone
  <2> QED BY <1>P, <2>2, <2>3, <2>4, <2>5
<1>9. CASE KillTake(p, v)
  <2>1. /\ status' = su /\ UNCHANGED <<waitIn, cur>> /\ victim' = v
        /\ status[v] \notin Dead /\ Linked(v)
        /\ \/ status[v] \in Runnable /\ ready' = Unlink(r, v) /\ wq' = w /\ sleepq' = sleepq
           \/ status[v] = "SLEEPING" /\ sleepq' = Unlink(sleepq, v) /\ ready' = r /\ wq' = w
           \/ /\ status[v] = "BLOCKED" /\ wq' = [w EXCEPT ![waitIn[v]] = Unlink(@, v)]
              /\ ready' = r /\ sleepq' = sleepq
    BY <1>9 DEF KillTake, w, su, r
  <2>2. /\ ready \in Seq(Task) /\ sleepq \in Seq(Task)
        /\ IsInjective(r) /\ IsInjective(sleepq)
        /\ \A t \in ToSet(r) : su[t] \in Runnable
        /\ \A t \in ToSet(sleepq) : su[t] = "SLEEPING"
    BY <1>1, QueueFacts DEF QueuesAgree
  \* in each case v is left in no queue, and is not the caller
  <2>3. /\ QueuesAgree(ready', sleepq', status') /\ WaitsAgree(wq', waitIn', status')
        /\ ToSet(ready') \subseteq ToSet(r)
        /\ v \notin ToSet(ready') /\ v \notin ToSet(sleepq')
        /\ \A q \in Queue : v \notin ToSet(wq'[q])
        /\ v # p /\ su[v] \notin Dead
    <3>1. CASE status[v] \in Runnable
      <4>1. ready' = Unlink(r, v) /\ wq' = w /\ sleepq' = sleepq /\ v \in ToSet(ready)
        BY <2>1, <2>2, <3>1, StatusNames, ContainsQueue DEF Linked
      <4>2. v \in ToSet(r) BY <4>1, <1>1
      <4>3. ToSet(ready') = ToSet(r) \ {v} /\ IsInjective(ready')
        BY <4>1, <4>2, <2>2, <1>1, UnlinkTyped
      <4>4. v \notin ToSet(sleepq) /\ v \notin ToSet(wq[v]) /\ v # p
        BY <3>1, <4>1, <1>2, <1>3, QueueFacts, StatusNames
      <4>5. su[v] = status[v] BY <4>4, <1>1
      <4>6. \A q \in Queue : v \notin ToSet(w[q])
        BY <4>5, <3>1, <1>5, StatusNames
      <4>7. QueuesAgree(ready', sleepq', status') BY <4>1, <4>3, <2>1, <2>2 DEF QueuesAgree
      <4>8. WaitsAgree(wq', waitIn', status') BY <4>1, <2>1, <1>1
      <4> QED BY <4>1, <4>3, <4>4, <4>5, <4>6, <4>7, <4>8, <2>1
    <3>2. CASE status[v] = "SLEEPING"
      <4>1. sleepq' = Unlink(sleepq, v) /\ wq' = w /\ ready' = r /\ v \in ToSet(sleepq)
        BY <2>1, <2>2, <3>2, StatusNames, ContainsQueue DEF Linked
      <4>2. ToSet(sleepq') = ToSet(sleepq) \ {v} /\ IsInjective(sleepq')
        BY <4>1, <2>2, UnlinkTyped
      <4>3. v \notin ToSet(wq[v]) /\ v # p BY <3>2, <1>2, <1>3, StatusNames
      <4>4. su[v] = "SLEEPING" BY <4>3, <3>2, <1>1
      <4>5. v \notin ToSet(r) BY <4>4, <2>2, StatusNames
      <4>6. \A q \in Queue : v \notin ToSet(w[q]) BY <4>4, <1>5
      <4>7. QueuesAgree(ready', sleepq', status') BY <4>1, <4>2, <2>1, <2>2 DEF QueuesAgree
      <4>8. WaitsAgree(wq', waitIn', status') BY <4>1, <2>1, <1>1
      <4>9. ToSet(ready') \subseteq ToSet(r) BY <4>1
      <4> QED BY <4>1, <4>2, <4>3, <4>4, <4>5, <4>6, <4>7, <4>8, <4>9, StatusNames
    <3>3. CASE status[v] = "BLOCKED"
      <4> DEFINE b == waitIn[v]
      <4>1. wq' = [w EXCEPT ![b] = Unlink(@, v)] /\ ready' = r /\ sleepq' = sleepq
            /\ b # v /\ Contains(wq[b], v)
        BY <2>1, <3>3, StatusNames DEF Linked
      <4>2. v \notin ToSet(wq[v]) /\ v # p
        BY <4>1, <3>3, <1>2, <1>3, StatusNames
      <4>3. su[v] = "BLOCKED" BY <4>2, <3>3, <1>1
      <4>4. v \notin ToSet(r) /\ v \notin ToSet(sleepq) BY <4>3, <2>2, StatusNames
      <4>5. QueuesAgree(ready', sleepq', status') BY <4>1, <2>1, <1>1
      <4>6. ASSUME NEW q \in Queue
            PROVE  /\ IsInjective(wq'[q]) /\ v \notin ToSet(wq'[q])
                   /\ \A t \in ToSet(wq'[q]) : su[t] = "BLOCKED" /\ waitIn[t] = q
        <5>1. CASE q # b
          <6>1. wq'[q] = w[q] BY <5>1, <4>1, <1>1
          <6> QED BY <6>1, <5>1, <1>5
        <5>2. CASE q = b
          <6>1. v \in ToSet(wq[q])
            <7>1. wq[q] \in Seq(Task) BY QueueFacts
            <7> QED BY <7>1, <5>2, <4>1, ContainsQueue
          <6>2. w[q] = wq[q] BY <5>2, <4>1, PartsOf DEF w
          <6>3. wq'[q] = Unlink(w[q], v) BY <5>2, <4>1, <1>1
          <6>4. w[q] \in Seq(Task) /\ IsInjective(w[q]) /\ v \in ToSet(w[q]) BY <6>1, <6>2, <1>5
          <6>5. IsInjective(wq'[q]) /\ ToSet(wq'[q]) = ToSet(w[q]) \ {v}
            BY <6>3, <6>4, UnlinkTyped
          <6> QED BY <6>5, <1>5
        <5> QED BY <5>1, <5>2
      <4>7. WaitsAgree(wq', waitIn', status') BY <4>6, <2>1 DEF WaitsAgree
      <4>8. ToSet(ready') \subseteq ToSet(r) BY <4>1
      <4> QED BY <4>1, <4>2, <4>3, <4>4, <4>5, <4>6, <4>7, <4>8, StatusNames
    <3>4. status[v] \in Runnable \/ status[v] = "SLEEPING" \/ status[v] = "BLOCKED"
      BY <2>1 DEF TypeOK, SchedTypeOK, Status
    <3> QED BY <3>1, <3>2, <3>3, <3>4
  <2>4. RunsAlone(cur', ready', status') BY <2>1, <2>3, <1>0, <1>4 DEF RunsAlone
  <2>5. RunOK' BY <2>1, <2>3, <2>4, <1>0 DEF RunOK, RunsAlone
  <2>6. victim' = v /\ v # NULL BY <2>1, <1>0
  <2> QED BY <1>P, <2>3, <2>4, <2>5, <2>6
<1> QED BY <1>7, <1>8, <1>9 DEF Kill

LEMMA KillDonePlaces ==
  ASSUME TypeOK, TypeOK', OnePlace, KillDone
  PROVE  OnePlace'
<1>0. NULL \notin Task /\ victim \in Task BY SchedAssumption DEF KillDone, TypeOK
<1>1. /\ status' = [status EXCEPT ![victim] = "KILLED"] /\ victim' = NULL /\ toRelease' = <<>>
      /\ UNCHANGED <<waitIn, ready, sleepq, wq, cur>>
  BY DEF KillDone
<1>2. /\ victim \notin ToSet(ready) /\ victim \notin ToSet(sleepq)
      /\ \A q \in Queue : victim \notin ToSet(wq[q])
  BY QueueFacts
<1>3. QueuesAgree(ready, sleepq, status') BY <1>0, <1>1, <1>2, PartsOf, AgreeExcept
<1>4. WaitsAgree(wq, waitIn, status') BY <1>0, <1>1, <1>2, PartsOf, WaitsExcept
<1>5. RunsAlone(cur, ready, status')
  <2>1. /\ cur # NULL => cur \in Task /\ status[cur] \in Runnable
        /\ victim # cur /\ cur \notin ToSet(ready)
    BY <1>0, QueueFacts
  <2> QED BY <2>1, <1>0, <1>1, PartsOf DEF RunsAlone
<1>6. RunOK' BY <1>1, <1>5 DEF RunOK, RunsAlone
<1>7. (OnePlace <=> /\ QueuesAgree(ready, sleepq, status) /\ RunsAlone(cur, ready, status)
                    /\ WaitsAgree(wq, waitIn, status) /\ RunOK
                    /\ victim # NULL => /\ victim \notin ToSet(ready) /\ victim \notin ToSet(sleepq)
                                        /\ \A q \in Queue : victim \notin ToSet(wq[q]))'
  BY OnePlaceParts, PTL
<1> QED BY <1>1, <1>3, <1>4, <1>5, <1>6, <1>7

LEMMA TickPlaces ==
  ASSUME TypeOK, TypeOK', OnePlace, Tick
  PROVE  OnePlace'
<1>1. /\ UNCHANGED <<type, waitIn, wq>> /\ UNCHANGED killVars /\ victim = NULL
      /\ Ticked \in [Task -> Nat] /\ cur \in Task \cup {NULL}
  BY SleepersTyped DEF Tick, TimerIrq, TypeOK, SchedTypeOK
<1>2. CASE UNCHANGED <<status, ready, sleepq, cur, mode>>
  BY <1>1, <1>2, SamePlaces
<1>3. CASE cur # NULL /\ Schedule(Append(ready, cur), sleepq, Ticked, [status EXCEPT ![cur] = "READY"])
  BY <1>1, <1>3, RequeuePlaces
<1>4. CASE Schedule(ready, sleepq, Ticked, status)
  <2>1. WaitsAgree(wq', waitIn', status) BY <1>1, PartsOf
  <2>2. victim' = NULL /\ toRelease' = <<>> BY <1>1, QueueFacts DEF killVars
  <2> QED BY <1>1, <1>4, <2>1, <2>2, PartsOf, Reschedule
<1> QED BY <1>2, <1>3, <1>4 DEF Tick, TimerIrq

LEMMA CallPlaces ==
  ASSUME TypeOK, TypeOK', OnePlace, NEW p \in Task, Call(p)
  PROVE  OnePlace'
<1>1. CASE Yield(p)
  <2>1. /\ Schedule(Append(ready, p), sleepq, left, [status EXCEPT ![p] = "READY"])
        /\ UNCHANGED <<waitIn, wq>> /\ victim = NULL /\ UNCHANGED killVars /\ p = cur
    BY <1>1 DEF Yield, DoYield, User
  <2> QED BY <2>1, PartsOf, RequeuePlaces
<1>2. ASSUME NEW ms \in SleepArg, Sleep(p, ms) PROVE OnePlace' BY <1>2, SleepPlaces
<1>3. CASE Exit(p) BY <1>3, ExitPlaces
<1>4. ASSUME NEW ft \in FileType, Spawn(p, ft) PROVE OnePlace' BY <1>4, SpawnPlaces
<1>5. ASSUME NEW t \in Task, Wait(p, t) PROVE OnePlace'
  <2>1. t \in Queue BY DEF Queue
  <2> QED BY <1>5, <2>1, BlockPlaces DEF Wait, Process, User
<1>6. ASSUME NEW v \in Task, Kill(p, v) PROVE OnePlace' BY <1>6, KillPlaces
<1>7. ASSUME NEW l \in Lock, AcquireFree(p, l) PROVE OnePlace'
  BY <1>7, SamePlaces DEF AcquireFree, Request, schedVars
<1>8. ASSUME NEW l \in Lock, AcquireTaken(p, l) PROVE OnePlace'
  <2>1. l \in Queue BY KernelAssumption DEF Queue
  <2>2. /\ UNCHANGED killVars /\ p = cur /\ victim = NULL
        /\ Block(p, l) \/ UNCHANGED <<status, waitIn, ready, sleepq, wq, cur>>
    BY <1>8 DEF AcquireTaken, Request, Process, User, schedVars
  <2> QED BY <2>1, <2>2, BlockPlaces, SamePlaces
<1>9. ASSUME NEW l \in Lock, Release(p, l) PROVE OnePlace'
  BY <1>9, ReleasePlaces DEF Release, killVars
<1> QED BY <1>1, <1>2, <1>3, <1>4, <1>5, <1>6, <1>7, <1>8, <1>9 DEF Call

LEMMA KernelStepPlaces ==
  ASSUME TypeOK, TypeOK', OnePlace, KernelStep
  PROVE  OnePlace'
<1>1. CASE KillRelease
  <2>1. Head(toRelease) \in Lock BY <1>1, TailQueue DEF KillRelease, TypeOK
  <2> QED BY <1>1, <2>1, ReleasePlaces DEF KillRelease
<1>2. CASE KillDone BY <1>2, KillDonePlaces
<1>3. ASSUME NEW p \in Task, AcquireReturn(p) PROVE OnePlace'
  BY <1>3, SamePlaces DEF AcquireReturn, schedVars
<1> QED BY <1>1, <1>2, <1>3 DEF KernelStep

(* No task is in two queues, or twice in one, or in a queue its status     *)
(* does not name, whatever the tasks call: the intrusive lists are never   *)
(* corrupted, do_kill() of any task in any state included.                 *)
THEOREM EveryTaskInOnePlace == Spec => []OnePlace
<1>1. Init => OnePlace
  <2> SUFFICES ASSUME Init PROVE OnePlace OBVIOUS
  <2>1. NULL \notin Task /\ 0 \in Task BY KernelAssumption, SchedAssumption
  <2>2. \A q \in Queue : wq[q] = <<>> BY DEF Init
  <2>3. status[0] = "FIRST_TIME" BY <2>1 DEF Init
  <2> QED BY <2>1, <2>2, <2>3, EmptyQueue, StatusNames
          DEF Init, OnePlace, ReadyOK, SleepOK, WaitOK, RunOK
<1>2. TypeOK /\ TypeOK' /\ OnePlace /\ [Next]_vars => OnePlace'
  <2> SUFFICES ASSUME TypeOK, TypeOK', OnePlace, [Next]_vars PROVE OnePlace' OBVIOUS
  <2>1. CASE UNCHANGED vars BY <2>1, SamePlaces DEF vars, schedVars, killVars
  <2>2. CASE Next
    BY <2>1, <2>2, CallPlaces, KernelStepPlaces, TickPlaces DEF Next, Stuck
  <2> QED BY <2>1, <2>2
<1> QED BY <1>1, <1>2, TypeCorrect, PTL DEF Spec

-----------------------------------------------------------------------------
(* No task is lost *)

(* scheduler() drops nobody from the queues it is given, and changes a     *)
(* status only to wake a sleeper.                                          *)
LEMMA ScheduleKeeps ==
  ASSUME NEW r \in Seq(Task), NEW s \in Seq(Task), NEW lf, NEW st, Schedule(r, s, lf, st)
  PROVE  /\ \A t \in Task : status'[t] = st[t] \/ (t \in ToSet(s) /\ status'[t] = "READY")
         /\ \A t \in ToSet(r) \cup ToSet(s) :
              t = cur' \/ t \in ToSet(ready') \/ t \in ToSet(sleepq')
<1> DEFINE k == Due(s, lf)
           woken == SubSeq(s, 1, k)
           rest == SubSeq(s, k + 1, Len(s))
           q == r \o woken
<1>1. k \in 0 .. Len(s) BY DueBound
<1>2. /\ woken \in Seq(Task) /\ ToSet(woken) \cup ToSet(rest) = ToSet(s)
  BY <1>1, SplitQueue
<1>3. /\ sleepq' = rest
      /\ status' = [t \in Task |-> IF t \in ToSet(woken) THEN "READY" ELSE st[t]]
      /\ \/ q # <<>> /\ cur' = Head(q) /\ ready' = Tail(q)
         \/ q = <<>> /\ cur' = NULL /\ ready' = <<>>
  BY DEF Schedule
<1> HIDE DEF k, woken, rest
<1>4. q \in Seq(Task) /\ ToSet(q) = ToSet(r) \cup ToSet(woken) BY <1>2, ConcatQueue
<1> HIDE DEF q
<1>5. CASE q # <<>> /\ cur' = Head(q) /\ ready' = Tail(q)
  <2>1. ToSet(q) = ToSet(ready') \cup {cur'} BY <1>4, <1>5, TailQueue
  <2> QED BY <1>2, <1>3, <1>4, <2>1
<1>6. CASE q = <<>>
  BY <1>2, <1>3, <1>4, <1>6, EmptyQueue
<1> QED BY <1>3, <1>5, <1>6

(* Where t belongs, when scheduler() is entered with queues r and s and    *)
(* statuses st.                                                            *)
Belongs(t, r, s, st, w, in) ==
  /\ st[t] \in Runnable => t \in ToSet(r)
  /\ st[t] = "SLEEPING" => t \in ToSet(s)
  /\ st[t] = "BLOCKED"  => in[t] \in Task \/ \E l \in Lock : t \in ToSet(w[l])

(* Whoever enters scheduler() with every task where it belongs loses none. *)
LEMMA RescheduleKeeps ==
  ASSUME TypeOK', OnePlace', NEW r \in Seq(Task), NEW s \in Seq(Task), NEW lf, NEW st,
         Schedule(r, s, lf, st), \A t \in Task : Belongs(t, r, s, st, wq', waitIn')
  PROVE  NoTaskLost'
<1> SUFFICES ASSUME NEW t \in Task PROVE Placed(t)' BY DEF NoTaskLost
<1>1. /\ status'[t] = st[t] \/ (t \in ToSet(s) /\ status'[t] = "READY")
      /\ t \in ToSet(r) \cup ToSet(s) => t = cur' \/ t \in ToSet(ready') \/ t \in ToSet(sleepq')
  BY ScheduleKeeps
<1>2. /\ t \in ToSet(ready') => status'[t] \in Runnable
      /\ t \in ToSet(sleepq') => status'[t] = "SLEEPING"
      /\ t = cur' => status'[t] \in Runnable
      /\ status'[t] \in Status
  BY SchedAssumption DEF OnePlace, ReadyOK, SleepOK, RunOK, TypeOK, SchedTypeOK
<1>3. CASE status'[t] = st[t]
  BY <1>1, <1>2, <1>3, StatusNames DEF Belongs, Placed, Status
<1>4. CASE t \in ToSet(s) /\ status'[t] = "READY"
  BY <1>1, <1>2, <1>4, StatusNames DEF Placed
<1> QED BY <1>1, <1>3, <1>4

(* What NoTaskLost says when no kill is in progress.                       *)
LEMMA BelongsNow ==
  ASSUME TypeOK, NoTaskLost, victim = NULL, NEW t \in Task
  PROVE  /\ status[t] \in Runnable => t = cur \/ t \in ToSet(ready)
         /\ status[t] = "SLEEPING" => t \in ToSet(sleepq)
         /\ status[t] = "BLOCKED"  => waitIn[t] \in Task \/ \E l \in Lock : t \in ToSet(wq[l])
BY StatusNames, SchedAssumption DEF NoTaskLost, Placed

(* Whoever was blocked on a mutex still is.                                *)
StillBlocked == \A l \in Lock : ToSet(wq[l]) \subseteq ToSet(wq'[l])

LEMMA BlockKeeps ==
  ASSUME TypeOK, TypeOK', OnePlace', NoTaskLost, victim = NULL,
         NEW p \in Task, p = cur, NEW q \in Queue, Block(p, q)
  PROVE  NoTaskLost'
<1> DEFINE st == [status EXCEPT ![p] = "BLOCKED"]
<1>1. /\ ready \in Seq(Task) /\ sleepq \in Seq(Task) /\ status \in [Task -> Status]
      /\ waitIn \in [Task -> Queue \cup {NULL}] /\ wq \in [Queue -> Seq(Task)]
      /\ Queue = Task \cup Lock
  BY KernelAssumption DEF TypeOK, SchedTypeOK, Queue
<1>2. /\ Schedule(ready, sleepq, left, st) /\ waitIn' = [waitIn EXCEPT ![p] = q]
      /\ wq' = [wq EXCEPT ![q] = Append(@, p)]
  BY DEF Block
<1>3. ToSet(Append(wq[q], p)) = ToSet(wq[q]) \cup {p} BY <1>1, AppendQueue
<1>4. StillBlocked BY <1>1, <1>2, <1>3 DEF StillBlocked
<1>5. ASSUME NEW t \in Task PROVE Belongs(t, ready, sleepq, st, wq', waitIn')
  <2>1. CASE t = p
    <3>1. st[t] = "BLOCKED" /\ waitIn'[t] = q BY <2>1, <1>1, <1>2
    <3>2. q \in Lock => t \in ToSet(wq'[q]) BY <2>1, <1>1, <1>2, <1>3
    <3> QED BY <3>1, <3>2, <1>1, StatusNames DEF Belongs
  <2>2. CASE t # p
    <3>1. st[t] = status[t] /\ waitIn'[t] = waitIn[t] BY <2>2, <1>1, <1>2
    <3> QED BY <2>2, <3>1, <1>4, BelongsNow DEF Belongs, StillBlocked
  <2> QED BY <2>1, <2>2
<1> HIDE DEF st
<1> QED BY <1>1, <1>2, <1>5, RescheduleKeeps

(* A yield, or the timer, puts the running task p back in the ready queue. *)
LEMMA RequeueKeeps ==
  ASSUME TypeOK, TypeOK', OnePlace', NoTaskLost, victim = NULL,
         NEW p \in Task, p = cur, NEW lf,
         Schedule(Append(ready, p), sleepq, lf, [status EXCEPT ![p] = "READY"]),
         UNCHANGED <<waitIn, wq>>
  PROVE  NoTaskLost'
<1> DEFINE st == [status EXCEPT ![p] = "READY"]
           r == Append(ready, p)
<1>1. ready \in Seq(Task) /\ sleepq \in Seq(Task) /\ status \in [Task -> Status]
  BY DEF TypeOK, SchedTypeOK
<1>2. r \in Seq(Task) /\ ToSet(r) = ToSet(ready) \cup {p} BY <1>1, AppendQueue
<1>3. ASSUME NEW t \in Task PROVE Belongs(t, r, sleepq, st, wq', waitIn')
  <2>1. st[t] = IF t = p THEN "READY" ELSE status[t] BY <1>1
  <2> QED BY <1>2, <2>1, BelongsNow, StatusNames DEF Belongs
<1> HIDE DEF st, r
<1>4. Schedule(r, sleepq, lf, st) BY DEF st, r
<1> QED BY <1>1, <1>2, <1>3, <1>4, RescheduleKeeps

(* A step that leaves every queue alone, and every status.                 *)
LEMMA SameKeeps ==
  ASSUME NoTaskLost, UNCHANGED <<status, waitIn, ready, sleepq, wq, cur, victim>>
  PROVE  NoTaskLost'
BY DEF NoTaskLost, Placed

LEMMA SleepKeeps ==
  ASSUME TypeOK, TypeOK', OnePlace', NoTaskLost, NEW p \in Task, NEW ms \in SleepArg, Sleep(p, ms)
  PROVE  NoTaskLost'
<1> DEFINE lf == [left EXCEPT ![p] = ms \div 1000]
           st == [status EXCEPT ![p] = "SLEEPING"]
           s  == Append(sleepq, p)
<1>1. /\ ready \in Seq(Task) /\ sleepq \in Seq(Task) /\ status \in [Task -> Status]
      /\ victim = NULL /\ cur = p
  BY DEF TypeOK, SchedTypeOK, Sleep, User
<1>2. s \in Seq(Task) /\ ToSet(s) = ToSet(sleepq) \cup {p} BY <1>1, AppendQueue
<1>3. CASE Schedule(ready, s, lf, st) /\ UNCHANGED <<type, waitIn, wq>>
  <2>1. ASSUME NEW t \in Task PROVE Belongs(t, ready, s, st, wq', waitIn')
    <3>1. st[t] = IF t = p THEN "SLEEPING" ELSE status[t] BY <1>1
    <3> QED BY <1>1, <1>2, <1>3, <3>1, BelongsNow, StatusNames DEF Belongs
  <2> HIDE DEF st, s, lf
  <2> QED BY <1>1, <1>2, <1>3, <2>1, RescheduleKeeps
<1>4. CASE UNCHANGED <<status, type, waitIn, ready, sleepq, wq, cur, mode>>
  BY <1>4, SameKeeps DEF Sleep, killVars
<1> QED BY <1>3, <1>4 DEF Sleep, DoSleep

LEMMA ExitKeeps ==
  ASSUME TypeOK, TypeOK', OnePlace', NoTaskLost, NEW p \in Task, Exit(p)
  PROVE  NoTaskLost'
<1> DEFINE su == Unblocked(wq[p])
           st == [su EXCEPT ![p] = "EXITED"]
           r  == ready \o wq[p]
<1>1. /\ ready \in Seq(Task) /\ sleepq \in Seq(Task) /\ wq \in [Queue -> Seq(Task)]
      /\ p \in Queue /\ p \notin Lock /\ victim = NULL /\ cur = p /\ Lock \subseteq Queue
  BY SchedAssumption, KernelAssumption DEF TypeOK, SchedTypeOK, Queue, Exit, User
<1>2. r \in Seq(Task) /\ ToSet(r) = ToSet(ready) \cup ToSet(wq[p]) BY <1>1, ConcatQueue
<1>3. /\ Schedule(r, sleepq, left, st) /\ waitIn' = waitIn /\ wq' = [wq EXCEPT ![p] = <<>>]
  BY DEF Exit, DoExit
<1>4. StillBlocked BY <1>1, <1>3 DEF StillBlocked
<1>5. ASSUME NEW t \in Task PROVE Belongs(t, r, sleepq, st, wq', waitIn')
  <2>1. st[t] = IF t = p THEN "EXITED" ELSE IF t \in ToSet(wq[p]) THEN "READY" ELSE status[t]
    BY DEF Unblocked
  <2> HIDE DEF st, r
  <2>2. CASE t = p BY <2>1, <2>2, StatusNames DEF Belongs, Dead
  <2>3. CASE t # p /\ t \in ToSet(wq[p]) BY <1>2, <2>1, <2>3, StatusNames DEF Belongs
  <2>4. CASE t # p /\ t \notin ToSet(wq[p])
    BY <1>1, <1>2, <1>3, <1>4, <2>1, <2>4, BelongsNow DEF Belongs, StillBlocked
  <2> QED BY <2>2, <2>3, <2>4
<1> HIDE DEF su, st, r
<1> QED BY <1>1, <1>2, <1>3, <1>5, RescheduleKeeps

(* do_spawn() takes a dead slot, whose wait queue had only waiters for it. *)
LEMMA SpawnKeeps ==
  ASSUME TypeOK, NoTaskLost, NEW p \in Task, NEW ft \in FileType, Spawn(p, ft)
  PROVE  NoTaskLost'
<1>1. CASE UNCHANGED <<schedVars, lockVars>>
  BY <1>1, SameKeeps DEF Spawn, schedVars, killVars
<1>2. ASSUME NEW s \in Task, status[s] \in Dead, InitializePcb(s, ft), ready' = Append(ready, s),
             UNCHANGED <<sleepq, cur, victim>>
      PROVE  NoTaskLost'
  <2>1. /\ ready \in Seq(Task) /\ status \in [Task -> Status] /\ wq \in [Queue -> Seq(Task)]
        /\ waitIn \in [Task -> Queue \cup {NULL}] /\ s \notin Lock /\ Lock \subseteq Queue
    BY SchedAssumption, KernelAssumption DEF TypeOK, SchedTypeOK, Queue
  <2>2. ToSet(ready') = ToSet(ready) \cup {s} BY <1>2, <2>1, AppendQueue
  <2>3. \A l \in Lock : wq'[l] = wq[l] BY <1>2, <2>1 DEF InitializePcb
  <2>4. SUFFICES ASSUME NEW t \in Task PROVE Placed(t)' BY DEF NoTaskLost
  <2>5. CASE t = s
    <3>1. status'[t] = "FIRST_TIME" BY <1>2, <2>1, <2>5 DEF InitializePcb
    <3> QED BY <2>2, <2>5, <3>1, StatusNames DEF Placed
  <2>6. CASE t # s
    <3>1. status'[t] = status[t] /\ waitIn'[t] = waitIn[t]
      BY <1>2, <2>1, <2>6 DEF InitializePcb
    <3>2. Placed(t) BY DEF NoTaskLost
    <3> QED BY <1>2, <2>2, <2>3, <3>1, <3>2 DEF Placed
  <2> QED BY <2>5, <2>6
<1>3. victim' = victim BY DEF Spawn, killVars
<1> QED BY <1>1, <1>2, <1>3 DEF Spawn

(* lock_release_helper() moves the first waiter to the ready queue.        *)
LEMMA ReleaseKeeps ==
  ASSUME TypeOK, OnePlace, NoTaskLost, NEW l \in Lock, ReleaseHelper(l),
         UNCHANGED <<waitIn, sleepq, cur, victim>>
  PROVE  NoTaskLost'
<1>0. l \in Queue /\ Lock \subseteq Queue BY KernelAssumption DEF Queue
<1>1. CASE UNCHANGED <<status, ready, wq>> BY <1>1, SameKeeps
<1>2. CASE wq[l] # <<>> /\ UnblockOne(l)
  <2> DEFINE h == Head(wq[l])
  <2>1. /\ ready \in Seq(Task) /\ status \in [Task -> Status] /\ wq \in [Queue -> Seq(Task)]
        /\ wq[l] \in Seq(Task)
    BY <1>0 DEF TypeOK, SchedTypeOK
  <2>2. h \in Task /\ ToSet(wq[l]) = ToSet(Tail(wq[l])) \cup {h} BY <1>2, <2>1, TailQueue
  <2>3. /\ status' = [status EXCEPT ![h] = "READY"] /\ ready' = Append(ready, h)
        /\ wq' = [wq EXCEPT ![l] = Tail(@)]
    BY <1>2 DEF UnblockOne
  <2> HIDE DEF h
  <2>4. ToSet(ready') = ToSet(ready) \cup {h} BY <2>1, <2>2, <2>3, AppendQueue
  <2>5. \A k \in Lock : ToSet(wq[k]) \subseteq ToSet(wq'[k]) \cup {h}
    BY <1>0, <2>1, <2>2, <2>3
  <2>6. SUFFICES ASSUME NEW t \in Task PROVE Placed(t)' BY DEF NoTaskLost
  <2>7. CASE t = h
    <3>1. status'[t] = "READY" BY <2>1, <2>3, <2>7
    <3> QED BY <2>4, <2>7, <3>1, StatusNames DEF Placed
  <2>8. CASE t # h
    <3>1. status'[t] = status[t] BY <2>1, <2>3, <2>8
    <3>2. Placed(t) BY DEF NoTaskLost
    <3> QED BY <2>4, <2>5, <2>8, <3>1, <3>2 DEF Placed
  <2> QED BY <2>7, <2>8
<1> QED BY <1>1, <1>2 DEF ReleaseHelper

(* do_kill(v) wakes those that wait for v, all of whom it puts in the      *)
(* ready queue, and takes nobody but v out of a queue.                     *)
LEMMA KillKeeps ==
  ASSUME TypeOK, OnePlace, NoTaskLost, NEW p \in Task, NEW v \in Task, Kill(p, v)
  PROVE  NoTaskLost'
<1> DEFINE r == ready \o wq[v]
           w == [wq EXCEPT ![v] = <<>>]
<1>0. /\ ready \in Seq(Task) /\ sleepq \in Seq(Task) /\ wq \in [Queue -> Seq(Task)]
      /\ v \in Queue /\ v \notin Lock /\ Lock \subseteq Queue /\ victim = NULL
      /\ status \in [Task -> Status] /\ NULL \notin Task
  BY SchedAssumption, KernelAssumption
     DEF TypeOK, SchedTypeOK, Queue, Kill, KillDead, KillLost, KillTake, MayKill, Process, User
<1>1. r \in Seq(Task) /\ ToSet(r) = ToSet(ready) \cup ToSet(wq[v]) BY <1>0, ConcatQueue
<1>2. \A l \in Lock : w[l] = wq[l] BY <1>0
<1>3. \A q \in Queue : w[q] \in Seq(Task) /\ ToSet(w[q]) \subseteq ToSet(wq[q])
  BY <1>0, EmptyQueue, EmptySeq
<1>4. /\ IsInjective(r) /\ IsInjective(sleepq)
      /\ \A q \in Queue : IsInjective(w[q])
  <2>1. QueuesAgree(r, sleepq, Unblocked(wq[v])) /\ WaitsAgree(w, waitIn, Unblocked(wq[v]))
    BY UnblockedPlaces
  <2> QED BY <2>1 DEF QueuesAgree, WaitsAgree
<1>5. \A t \in Task : Unblocked(wq[v])[t] = IF t \in ToSet(wq[v]) THEN "READY" ELSE status[t]
  BY DEF Unblocked
<1> HIDE DEF r, w
<1>6. CASE KillDead(p, v)
  BY <1>6, SameKeeps DEF KillDead, killVars
<1>7. ASSUME status' = Unblocked(wq[v]), ToSet(r) \subseteq ToSet(ready') \cup {v},
             ToSet(sleepq) \subseteq ToSet(sleepq') \cup {v},
             \A l \in Lock : ToSet(wq[l]) \subseteq ToSet(wq'[l]) \cup {v},
             waitIn' = waitIn, cur' = cur,
             victim' = v \/ (sleepq' = sleepq /\ ready' = r /\ wq' = w)
      PROVE  NoTaskLost'
  <2>1. SUFFICES ASSUME NEW t \in Task PROVE Placed(t)' BY DEF NoTaskLost
  <2>2. CASE t \in ToSet(wq[v])
    BY <1>1, <1>5, <1>7, <2>2, StatusNames DEF Placed
  <2>3. CASE t \notin ToSet(wq[v])
    <3>1. status'[t] = status[t] BY <1>5, <1>7, <2>3
    <3>2. /\ status[t] \in Runnable => t = cur \/ t \in ToSet(r)
          /\ status[t] = "SLEEPING" => t \in ToSet(sleepq)
          /\ status[t] = "BLOCKED"  => waitIn[t] \in Task \/ \E l \in Lock : t \in ToSet(wq[l])
          /\ status[t] \in Dead \cup Runnable \cup {"SLEEPING", "BLOCKED"}
      BY <1>0, <1>1, BelongsNow DEF Status
    <3>3. CASE victim' = v
      <4>1. CASE t = v BY <3>3, <4>1 DEF Placed
      <4>2. CASE t # v BY <1>7, <3>1, <3>2, <4>2 DEF Placed
      <4> QED BY <4>1, <4>2
    <3>4. CASE sleepq' = sleepq /\ ready' = r /\ wq' = w
      BY <1>2, <1>7, <3>1, <3>2, <3>4 DEF Placed
    <3> QED BY <1>7, <3>3, <3>4
  <2> QED BY <2>2, <2>3
<1>8. CASE KillLost(p, v)
  <2>1. /\ status' = Unblocked(wq[v]) /\ ready' = r /\ wq' = w /\ victim' = NULL
        /\ waitIn' = waitIn /\ sleepq' = sleepq /\ cur' = cur
    BY <1>0, <1>8 DEF KillLost, killVars, r, w
  <2> QED BY <1>2, <1>7, <2>1
<1>9. CASE KillTake(p, v)
  <2>1. status' = Unblocked(wq[v]) /\ waitIn' = waitIn /\ cur' = cur /\ victim' = v
    BY <1>9 DEF KillTake
  <2>2. CASE status[v] \in Runnable /\ ready' = Unlink(r, v) /\ wq' = w /\ UNCHANGED sleepq
    <3>1. v \in ToSet(r)
      BY <1>0, <1>1, <1>9, <2>2, StatusNames, ContainsQueue DEF KillTake, Linked
    <3>2. ToSet(ready') = ToSet(r) \ {v} BY <1>1, <1>4, <2>2, <3>1, UnlinkTyped
    <3>3. ToSet(sleepq) \subseteq ToSet(sleepq') \cup {v} BY <2>2
    <3>4. \A l \in Lock : ToSet(wq[l]) \subseteq ToSet(wq'[l]) \cup {v} BY <1>2, <2>2
    <3>5. ToSet(r) \subseteq ToSet(ready') \cup {v} BY <3>2
    <3> QED BY <1>7, <2>1, <3>3, <3>4, <3>5
  <2>3. CASE status[v] = "SLEEPING" /\ sleepq' = Unlink(sleepq, v) /\ ready' = r /\ wq' = w
    <3>1. v \in ToSet(sleepq)
      BY <1>0, <1>9, <2>3, StatusNames, ContainsQueue DEF KillTake, Linked
    <3>2. ToSet(sleepq') = ToSet(sleepq) \ {v} BY <1>0, <1>4, <2>3, <3>1, UnlinkTyped
    <3> QED BY <1>2, <1>7, <2>1, <2>3, <3>2
  <2>4. CASE status[v] = "BLOCKED" /\ wq' = [w EXCEPT ![waitIn[v]] = Unlink(@, v)]
             /\ ready' = r /\ UNCHANGED sleepq
    <3> DEFINE q == waitIn[v]
    <3>1. q # v /\ Contains(wq[q], v)
      BY <1>9, <2>4, StatusNames DEF KillTake, Linked
    <3>2. ASSUME NEW l \in Lock PROVE ToSet(wq[l]) \subseteq ToSet(wq'[l]) \cup {v}
      <4>1. wq'[l] = IF l = q THEN Unlink(w[l], v) ELSE w[l]
        BY <1>0, <2>4 DEF w
      <4>2. CASE l = q
        <5>1. v \in ToSet(w[l]) BY <1>0, <1>2, <3>1, <4>2, ContainsQueue
        <5>2. ToSet(Unlink(w[l], v)) = ToSet(w[l]) \ {v} BY <1>0, <1>3, <1>4, <5>1, UnlinkTyped
        <5> QED BY <1>2, <4>1, <4>2, <5>2
      <4>3. CASE l # q BY <1>2, <4>1, <4>3
      <4> QED BY <4>2, <4>3
    <3>3. ToSet(sleepq) \subseteq ToSet(sleepq') \cup {v} /\ ToSet(r) \subseteq ToSet(ready') \cup {v}
      BY <2>4
    <3> QED BY <1>7, <2>1, <3>2, <3>3
  <2> QED BY <1>9, <2>2, <2>3, <2>4 DEF KillTake, r, w
<1> QED BY <1>6, <1>8, <1>9 DEF Kill

LEMMA KillDoneKeeps ==
  ASSUME TypeOK, NoTaskLost, KillDone
  PROVE  NoTaskLost'
<1>1. SUFFICES ASSUME NEW t \in Task PROVE Placed(t)' BY DEF NoTaskLost
<1>2. /\ status' = [status EXCEPT ![victim] = "KILLED"] /\ status \in [Task -> Status]
      /\ UNCHANGED <<waitIn, ready, sleepq, wq, cur>>
  BY DEF KillDone, TypeOK, SchedTypeOK
<1>3. CASE t = victim
  <2>1. status'[t] = "KILLED" BY <1>2, <1>3
  <2> QED BY <2>1 DEF Placed, Dead
<1>4. CASE t # victim
  <2>1. Placed(t) BY DEF NoTaskLost
  <2> QED BY <1>2, <1>4, <2>1 DEF Placed
<1> QED BY <1>3, <1>4

LEMMA TickKeeps ==
  ASSUME TypeOK, TypeOK', OnePlace', NoTaskLost, Tick
  PROVE  NoTaskLost'
<1>1. /\ UNCHANGED <<type, waitIn, wq>> /\ victim = NULL /\ victim' = victim
      /\ cur \in Task \cup {NULL}
  BY DEF Tick, TimerIrq, TypeOK, SchedTypeOK, killVars
<1>2. CASE UNCHANGED <<status, ready, sleepq, cur, mode>>
  BY <1>1, <1>2, SameKeeps
<1>3. CASE cur # NULL /\ Schedule(Append(ready, cur), sleepq, Ticked, [status EXCEPT ![cur] = "READY"])
  BY <1>1, <1>3, RequeueKeeps
<1>4. CASE cur = NULL /\ Schedule(ready, sleepq, Ticked, status)
  <2>1. ASSUME NEW t \in Task PROVE Belongs(t, ready, sleepq, status, wq', waitIn')
    BY <1>1, <1>4, BelongsNow, SchedAssumption DEF Belongs
  <2>2. ready \in Seq(Task) /\ sleepq \in Seq(Task) BY DEF TypeOK, SchedTypeOK
  <2> QED BY <1>4, <2>1, <2>2, RescheduleKeeps
<1> QED BY <1>2, <1>3, <1>4 DEF Tick, TimerIrq

LEMMA CallKeeps ==
  ASSUME TypeOK, TypeOK', OnePlace, OnePlace', NoTaskLost, NEW p \in Task, Call(p)
  PROVE  NoTaskLost'
<1>1. CASE Yield(p)
  <2>1. /\ Schedule(Append(ready, p), sleepq, left, [status EXCEPT ![p] = "READY"])
        /\ UNCHANGED <<waitIn, wq>> /\ victim = NULL /\ p = cur
    BY <1>1 DEF Yield, DoYield, User
  <2> QED BY <2>1, RequeueKeeps
<1>2. ASSUME NEW ms \in SleepArg, Sleep(p, ms) PROVE NoTaskLost' BY <1>2, SleepKeeps
<1>3. CASE Exit(p) BY <1>3, ExitKeeps
<1>4. ASSUME NEW ft \in FileType, Spawn(p, ft) PROVE NoTaskLost' BY <1>4, SpawnKeeps
<1>5. ASSUME NEW t \in Task, Wait(p, t) PROVE NoTaskLost'
  <2>1. t \in Queue BY DEF Queue
  <2> QED BY <1>5, <2>1, BlockKeeps DEF Wait, Process, User
<1>6. ASSUME NEW v \in Task, Kill(p, v) PROVE NoTaskLost' BY <1>6, KillKeeps
<1>7. ASSUME NEW l \in Lock, AcquireFree(p, l) PROVE NoTaskLost'
  BY <1>7, SameKeeps DEF AcquireFree, Request, schedVars, killVars
<1>8. ASSUME NEW l \in Lock, AcquireTaken(p, l) PROVE NoTaskLost'
  <2>1. l \in Queue BY KernelAssumption DEF Queue
  <2>2. /\ p = cur /\ victim = NULL /\ victim' = victim
        /\ Block(p, l) \/ UNCHANGED <<status, waitIn, ready, sleepq, wq, cur>>
    BY <1>8 DEF AcquireTaken, Request, Process, User, schedVars, killVars
  <2> QED BY <2>1, <2>2, BlockKeeps, SameKeeps
<1>9. ASSUME NEW l \in Lock, Release(p, l) PROVE NoTaskLost'
  BY <1>9, ReleaseKeeps DEF Release, killVars
<1> QED BY <1>1, <1>2, <1>3, <1>4, <1>5, <1>6, <1>7, <1>8, <1>9 DEF Call

LEMMA KernelStepKeeps ==
  ASSUME TypeOK, OnePlace, NoTaskLost, KernelStep
  PROVE  NoTaskLost'
<1>1. CASE KillRelease
  <2>1. Head(toRelease) \in Lock BY <1>1, TailQueue DEF KillRelease, TypeOK
  <2> QED BY <1>1, <2>1, ReleaseKeeps DEF KillRelease
<1>2. CASE KillDone BY <1>2, KillDoneKeeps
<1>3. ASSUME NEW p \in Task, AcquireReturn(p) PROVE NoTaskLost'
  BY <1>3, SameKeeps DEF AcquireReturn, schedVars, killVars
<1> QED BY <1>1, <1>2, <1>3 DEF KernelStep

(* No task drops out: every live one runs, or is in the queue that its     *)
(* status names, through every block, wake-up, kill and reuse of a slot.   *)
(* (The waiters for a task are excepted: see Placed.)                      *)
THEOREM NobodyLost == Spec => []NoTaskLost
<1>1. Init => NoTaskLost
  BY KernelAssumption, StatusNames DEF Init, NoTaskLost, Placed, Dead
<1>2. TypeOK /\ TypeOK' /\ OnePlace /\ OnePlace' /\ NoTaskLost /\ [Next]_vars => NoTaskLost'
  <2> SUFFICES ASSUME TypeOK, TypeOK', OnePlace, OnePlace', NoTaskLost, [Next]_vars
               PROVE  NoTaskLost'
    OBVIOUS
  <2>1. CASE UNCHANGED vars BY <2>1, SameKeeps DEF vars, schedVars, killVars
  <2>2. CASE Next
    BY <2>1, <2>2, CallKeeps, KernelStepKeeps, TickKeeps DEF Next, Stuck
  <2> QED BY <2>1, <2>2
<1> QED BY <1>1, <1>2, TypeCorrect, EveryTaskInOnePlace, PTL DEF Spec

-----------------------------------------------------------------------------
(* Mutual exclusion, where a kill spares whoever holds a mutex or waits    *)
(* for one. MutualExclusion is not inductive: it does not say why the task *)
(* that a release wakes is the next owner. LockInv adds that a task in the *)
(* queue of a mutex is inside its lock_acquire() (Waiting), that owners    *)
(* and waiters are alive and noted in their held_lock[] (Backed), so that  *)
(* no kill or respawn touches them (Spared), and what a free mutex and a   *)
(* set held_task mean (Open, Named).                                       *)
Waiting == \A l \in Lock : \A t \in ToSet(wq[l]) : acquiring[t] = l
Backed  == \A t \in Task, l \in Lock :
             t \in holders[l] \/ acquiring[t] = l =>
               status[t] \notin Dead /\ l \in ToSet(heldLock[t])
Spared  == victim # NULL => heldLock[victim] = <<>> /\ toRelease = <<>>
Single  == \A l \in Lock : \A t, u \in Owners(l) : t = u
Open    == \A l \in Lock : lockStatus[l] = "UNLOCKED" =>
             Owners(l) = {} /\ wq[l] = <<>> /\ heldTask[l] = NULL
Named   == \A l \in Lock : heldTask[l] # NULL => Owners(l) \subseteq {heldTask[l]}
LockInv == Waiting /\ Backed /\ Spared /\ Single /\ Open /\ Named

(* A step after which every mutex has the owners it had, or fewer.         *)
LEMMA OwnersShrink ==
  ASSUME LockInv, UNCHANGED <<lockStatus, heldTask>>,
         \A l \in Lock : Owners(l)' \subseteq Owners(l),
         \A l \in Lock : lockStatus[l] = "UNLOCKED" => wq'[l] = wq[l],
         Waiting', Backed', Spared'
  PROVE  LockInv'
<1>1. Single' BY DEF LockInv, Single
<1>2. Open' BY DEF LockInv, Open
<1>3. Named' BY DEF LockInv, Named
<1> QED BY <1>1, <1>2, <1>3 DEF LockInv

(* A step that is none of the mutexes' business and brings nobody live to  *)
(* death but those who own no mutex and wait for none.                     *)
LEMMA LocksKept ==
  ASSUME LockInv, UNCHANGED <<lockStatus, heldTask, acquiring, heldLock>>,
         \A l \in Lock : wq'[l] = wq[l] /\ holders'[l] \subseteq holders[l],
         \A t \in Task, l \in Lock :
           (t \in holders'[l] \/ acquiring[t] = l) /\ status[t] \notin Dead => status'[t] \notin Dead,
         Spared'
  PROVE  LockInv'
<1>1. Backed' BY DEF LockInv, Backed
<1>2. Waiting' BY DEF LockInv, Waiting
<1>3. \A l \in Lock : Owners(l)' \subseteq Owners(l)
  <2> SUFFICES ASSUME NEW l \in Lock, NEW t, t \in Owners(l)' PROVE t \in Owners(l)
    OBVIOUS
  <2>1. CASE t \in holders'[l] BY <2>1 DEF Owners
  <2>2. CASE t \in Granted(l)'
    <3>1. t \in Task /\ acquiring[t] = l /\ t \notin ToSet(wq[l]) BY <2>2 DEF Granted
    <3>2. status[t] # "KILLED" BY <3>1 DEF LockInv, Backed, Dead
    <3> QED BY <3>1, <3>2 DEF Owners, Granted
  <2> QED BY <2>1, <2>2 DEF Owners
<1> QED BY <1>1, <1>2, <1>3, OwnersShrink

(* scheduler() kills nobody.                                               *)
LEMMA ScheduleSpares ==
  ASSUME NEW r \in Seq(Task), NEW s \in Seq(Task), NEW lf, NEW st, Schedule(r, s, lf, st)
  PROVE  \A t \in Task : st[t] \notin Dead => status'[t] \notin Dead
BY ScheduleKeeps, StatusNames

(* The calls and the interrupt that only reschedule.                       *)
LEMMA RescheduleLocks ==
  ASSUME TypeOK, LockInv, NEW r \in Seq(Task), NEW s \in Seq(Task), NEW lf, NEW st,
         Schedule(r, s, lf, st), \A t \in Task : status[t] \notin Dead => st[t] \notin Dead,
         \A l \in Lock : wq'[l] = wq[l], UNCHANGED <<lockVars, killVars>>
  PROVE  LockInv'
<1>1. \A t \in Task : status[t] \notin Dead => status'[t] \notin Dead BY ScheduleSpares
<1>2. /\ UNCHANGED <<lockStatus, heldTask, acquiring, heldLock, holders, victim, toRelease>>
  BY DEF lockVars, killVars
<1>3. Spared' BY <1>2 DEF LockInv, Spared
<1> QED BY <1>1, <1>2, <1>3, LocksKept

(* What LockInv says does not depend on the scheduler's other variables.   *)
LEMMA SameLocks ==
  ASSUME LockInv, UNCHANGED <<status, wq, lockVars, killVars>>
  PROVE  LockInv'
BY DEF LockInv, Waiting, Backed, Spared, Single, Open, Named, Owners, Granted, lockVars, killVars

LEMMA ReschedulingCallLocks ==
  ASSUME TypeOK, LockInv, NEW p \in Task,
         Yield(p) \/ (\E ms \in SleepArg : Sleep(p, ms)) \/ (\E t \in Task : Wait(p, t))
  PROVE  LockInv'
<1>0. /\ ready \in Seq(Task) /\ sleepq \in Seq(Task) /\ status \in [Task -> Status]
      /\ wq \in [Queue -> Seq(Task)] /\ Task \cap Lock = {} /\ Lock \subseteq Queue
  BY SchedAssumption, KernelAssumption DEF TypeOK, SchedTypeOK, Queue
<1>1. /\ Append(ready, p) \in Seq(Task) /\ Append(sleepq, p) \in Seq(Task) BY <1>0, AppendQueue
<1>2. CASE Yield(p)
  <2>1. \A t \in Task : status[t] \notin Dead => [status EXCEPT ![p] = "READY"][t] \notin Dead
    BY <1>0, StatusNames
  <2>2. /\ Schedule(Append(ready, p), sleepq, left, [status EXCEPT ![p] = "READY"])
        /\ UNCHANGED <<lockVars, killVars>> /\ wq' = wq
    BY <1>2 DEF Yield, DoYield
  <2> QED BY <1>0, <1>1, <2>1, <2>2, RescheduleLocks
<1>3. ASSUME NEW ms \in SleepArg, Sleep(p, ms) PROVE LockInv'
  <2>1. \A t \in Task : status[t] \notin Dead => [status EXCEPT ![p] = "SLEEPING"][t] \notin Dead
    BY <1>0, StatusNames
  <2>2. UNCHANGED <<lockVars, killVars>> /\ wq' = wq BY <1>3 DEF Sleep, DoSleep
  <2>3. CASE Schedule(ready, Append(sleepq, p), [left EXCEPT ![p] = ms \div 1000],
                      [status EXCEPT ![p] = "SLEEPING"])
    <3> DEFINE s == Append(sleepq, p)
               lf == [left EXCEPT ![p] = ms \div 1000]
               st == [status EXCEPT ![p] = "SLEEPING"]
    <3>1. /\ Schedule(ready, s, lf, st) /\ ready \in Seq(Task) /\ s \in Seq(Task)
          /\ \A t \in Task : status[t] \notin Dead => st[t] \notin Dead
      BY <1>0, <1>1, <2>1, <2>3
    <3> HIDE DEF s, lf, st
    <3>2. \A l \in Lock : wq'[l] = wq[l] BY <2>2
    <3> QED BY <2>2, <3>1, <3>2, RescheduleLocks
  <2>4. CASE status' = status BY <2>2, <2>4, SameLocks
  <2> QED BY <1>3, <2>3, <2>4 DEF Sleep, DoSleep
<1>4. ASSUME NEW q \in Task, Wait(p, q) PROVE LockInv'
  <2>1. \A t \in Task : status[t] \notin Dead => [status EXCEPT ![p] = "BLOCKED"][t] \notin Dead
    BY <1>0, StatusNames
  <2>2. /\ Schedule(ready, sleepq, left, [status EXCEPT ![p] = "BLOCKED"])
        /\ UNCHANGED <<lockVars, killVars>> /\ wq' = [wq EXCEPT ![q] = Append(@, p)]
    BY <1>4 DEF Wait, Block
  <2>3. \A l \in Lock : wq'[l] = wq[l] BY <1>0, <2>2
  <2> QED BY <1>0, <2>1, <2>2, <2>3, RescheduleLocks
<1> QED BY <1>2, <1>3, <1>4

LEMMA TickLocks ==
  ASSUME TypeOK, LockInv, Tick
  PROVE  LockInv'
<1>0. /\ ready \in Seq(Task) /\ sleepq \in Seq(Task) /\ status \in [Task -> Status]
      /\ cur \in Task \cup {NULL} /\ wq' = wq /\ UNCHANGED <<lockVars, killVars>>
  BY DEF TypeOK, SchedTypeOK, Tick, TimerIrq
<1>1. CASE status' = status BY <1>0, <1>1, SameLocks
<1>2. CASE cur # NULL /\ Schedule(Append(ready, cur), sleepq, Ticked, [status EXCEPT ![cur] = "READY"])
  <2>1. Append(ready, cur) \in Seq(Task) BY <1>0, <1>2, AppendQueue
  <2>2. \A t \in Task : status[t] \notin Dead => [status EXCEPT ![cur] = "READY"][t] \notin Dead
    BY <1>0, StatusNames
  <2> QED BY <1>0, <1>2, <2>1, <2>2, RescheduleLocks
<1>3. CASE Schedule(ready, sleepq, Ticked, status)
  BY <1>0, <1>3, RescheduleLocks
<1> QED BY <1>1, <1>2, <1>3 DEF Tick, TimerIrq

LEMMA ExitLocks ==
  ASSUME TypeOK, LockInv, NEW p \in Task, Exit(p)
  PROVE  LockInv'
<1> DEFINE st == [Unblocked(wq[p]) EXCEPT ![p] = "EXITED"]
           r  == ready \o wq[p]
<1>0. /\ ready \in Seq(Task) /\ sleepq \in Seq(Task) /\ wq \in [Queue -> Seq(Task)]
      /\ p \in Queue /\ p \notin Lock /\ Lock \subseteq Queue /\ NULL \notin Lock
  BY SchedAssumption, KernelAssumption DEF TypeOK, SchedTypeOK, Queue
<1>1. /\ Schedule(r, sleepq, left, st) /\ wq' = [wq EXCEPT ![p] = <<>>]
      /\ holders' = [l \in Lock |-> holders[l] \ {p}] /\ acquiring[p] = NULL
      /\ UNCHANGED <<lockStatus, heldTask, heldLock, acquiring, victim, toRelease>>
  BY DEF Exit, DoExit, User, killVars
<1>2. r \in Seq(Task) BY <1>0, ConcatQueue
<1>3. \A t \in Task : st[t] = IF t = p THEN "EXITED" ELSE IF t \in ToSet(wq[p]) THEN "READY" ELSE status[t]
  BY DEF Unblocked
<1> HIDE DEF st, r
<1>4. \A t \in Task : t # p /\ status[t] \notin Dead => status'[t] \notin Dead
  BY <1>0, <1>1, <1>2, <1>3, ScheduleSpares, StatusNames
<1>5. \A l \in Lock : wq'[l] = wq[l] /\ holders'[l] = holders[l] \ {p} BY <1>0, <1>1
<1>6. Spared' BY <1>1 DEF LockInv, Spared
<1> QED BY <1>0, <1>1, <1>4, <1>5, <1>6, LocksKept

(* A dead slot owns nothing and waits for nothing.                         *)
LEMMA SpawnLocks ==
  ASSUME TypeOK, LockInv, NEW p \in Task, NEW ft \in FileType, Spawn(p, ft)
  PROVE  LockInv'
<1>0. /\ status \in [Task -> Status] /\ wq \in [Queue -> Seq(Task)] /\ NULL \notin Lock
      /\ acquiring \in [Task -> Lock \cup {NULL}] /\ heldLock \in [Task -> Seq(Lock)]
      /\ Task \cap Lock = {} /\ Lock \subseteq Queue /\ victim \in Task \cup {NULL}
  BY SchedAssumption, KernelAssumption DEF TypeOK, SchedTypeOK, Queue
<1>1. CASE UNCHANGED <<schedVars, lockVars>>
  BY <1>1, SameLocks DEF Spawn, schedVars
<1>2. ASSUME NEW s \in Task, status[s] \in Dead, InitializePcb(s, ft),
             UNCHANGED <<lockStatus, heldTask, holders, victim, toRelease>>
      PROVE  LockInv'
  <2>1. /\ \A t \in Task : t # s => /\ status'[t] = status[t] /\ acquiring'[t] = acquiring[t]
                                    /\ heldLock'[t] = heldLock[t]
        /\ acquiring'[s] = NULL /\ heldLock'[s] = <<>>
        /\ \A l \in Lock : wq'[l] = wq[l]
    BY <1>0, <1>2 DEF InitializePcb
  <2>2. \A l \in Lock : s \notin holders[l] /\ acquiring[s] # l
    BY <1>2 DEF LockInv, Backed
  <2>3. Backed' BY <1>0, <1>2, <2>1, <2>2 DEF LockInv, Backed
  <2>4. Waiting'
    <3>1. \A l \in Lock : ToSet(wq[l]) \subseteq Task BY <1>0, SetOfSeq
    <3> QED BY <2>1, <2>2, <3>1 DEF LockInv, Waiting
  <2>5. Spared' BY <1>0, <1>2, <2>1 DEF LockInv, Spared
  <2>6. \A l \in Lock : Owners(l)' \subseteq Owners(l)
    <3> SUFFICES ASSUME NEW l \in Lock, NEW t, t \in Owners(l)' PROVE t \in Owners(l)
      OBVIOUS
    <3>1. CASE t \in holders'[l] BY <1>2, <3>1 DEF Owners
    <3>2. CASE t \in Granted(l)'
      <4>1. /\ t \in Task /\ acquiring'[t] = l /\ t \notin ToSet(wq'[l]) /\ status'[t] # "KILLED"
        BY <3>2 DEF Granted
      <4>2. t # s BY <1>0, <2>1, <4>1
      <4> QED BY <2>1, <4>1, <4>2 DEF Owners, Granted
    <3> QED BY <3>1, <3>2 DEF Owners
  <2> QED BY <1>2, <2>1, <2>3, <2>4, <2>5, <2>6, OwnersShrink
<1>3. UNCHANGED <<victim, toRelease>> BY DEF Spawn, killVars
<1> QED BY <1>1, <1>2, <1>3 DEF Spawn

(* A victim that is spared mutexes is in the queue of none.                *)
LEMMA KillLocks ==
  ASSUME TypeOK, LockInv, ~KillLockUsers, NEW p \in Task, NEW v \in Task, Kill(p, v)
  PROVE  LockInv'
<1>0. /\ wq \in [Queue -> Seq(Task)] /\ v \in Queue /\ v \notin Lock /\ Lock \subseteq Queue
      /\ waitIn \in [Task -> Queue \cup {NULL}] /\ heldLock[v] = <<>> /\ victim = NULL
      /\ v # NULL
  BY SchedAssumption, KernelAssumption
     DEF TypeOK, SchedTypeOK, Queue, Kill, KillDead, KillLost, KillTake, MayKill, Process, User
<1>1. \A l \in Lock : v \notin ToSet(wq[l])
  BY <1>0, EmptyQueue DEF LockInv, Waiting, Backed
<1>2. \A t \in Task : Unblocked(wq[v])[t] = IF t \in ToSet(wq[v]) THEN "READY" ELSE status[t]
  BY DEF Unblocked
<1>3. UNCHANGED <<lockStatus, heldTask, heldLock, acquiring, holders>>
  BY DEF Kill, KillDead, KillLost, KillTake, lockVars
<1>4. CASE KillDead(p, v)
  BY <1>3, <1>4, SameLocks DEF KillDead, lockVars
<1>5. CASE KillLost(p, v)
  <2>1. /\ status' = Unblocked(wq[v]) /\ wq' = [wq EXCEPT ![v] = <<>>] /\ UNCHANGED killVars
    BY <1>5 DEF KillLost
  <2>2. \A l \in Lock : wq'[l] = wq[l] BY <1>0, <2>1
  <2>3. Spared' BY <1>0, <2>1 DEF Spared, killVars
  <2>4. \A t \in Task : status[t] \notin Dead => status'[t] \notin Dead
    BY <1>2, <2>1, StatusNames
  <2> QED BY <1>3, <2>2, <2>3, <2>4, LocksKept
<1>6. CASE KillTake(p, v)
  <2>1. /\ status' = Unblocked(wq[v]) /\ victim' = v /\ toRelease' = <<>>
        /\ \/ wq' = [wq EXCEPT ![v] = <<>>]
           \/ /\ status[v] = "BLOCKED"
              /\ wq' = [[wq EXCEPT ![v] = <<>>] EXCEPT ![waitIn[v]] = Unlink(@, v)]
    BY <1>0, <1>6 DEF KillTake
  <2>2. ASSUME NEW l \in Lock PROVE wq'[l] = wq[l]
    <3>1. CASE wq' = [wq EXCEPT ![v] = <<>>] BY <1>0, <3>1
    <3>2. CASE status[v] = "BLOCKED" /\ wq' = [[wq EXCEPT ![v] = <<>>] EXCEPT ![waitIn[v]] = Unlink(@, v)]
      <4>1. waitIn[v] # v /\ Contains(wq[waitIn[v]], v)
        BY <1>6, <3>2, StatusNames DEF KillTake, Linked
      <4>2. waitIn[v] # l BY <1>0, <1>1, <4>1, ContainsQueue
      <4> QED BY <1>0, <3>2, <4>2
    <3> QED BY <2>1, <3>1, <3>2
  <2>3. Spared' BY <1>0, <1>3, <2>1 DEF Spared
  <2>4. \A t \in Task : status[t] \notin Dead => status'[t] \notin Dead
    BY <1>2, <2>1, StatusNames
  <2> QED BY <1>3, <2>2, <2>3, <2>4, LocksKept
<1> QED BY <1>4, <1>5, <1>6 DEF Kill

LEMMA KillDoneLocks ==
  ASSUME TypeOK, LockInv, KillDone
  PROVE  LockInv'
<1>1. /\ victim \in Task /\ status' = [status EXCEPT ![victim] = "KILLED"]
      /\ holders' = [l \in Lock |-> holders[l] \ {victim}] /\ victim' = NULL
      /\ UNCHANGED <<lockStatus, heldTask, heldLock, acquiring, wq>>
      /\ status \in [Task -> Status]
  BY DEF KillDone, TypeOK, SchedTypeOK
<1>2. \A l \in Lock : acquiring[victim] # l
  BY <1>1, EmptyQueue, SchedAssumption DEF LockInv, Backed, Spared
<1>3. \A t \in Task : t # victim /\ status[t] \notin Dead => status'[t] \notin Dead BY <1>1
<1>4. \A l \in Lock : holders'[l] = holders[l] \ {victim} BY <1>1
<1>5. Spared' BY <1>1 DEF Spared
<1> QED BY <1>1, <1>2, <1>3, <1>4, <1>5, LocksKept

(* The note that every acquire makes first.                                *)
LEMMA RequestNotes ==
  ASSUME TypeOK, NEW p \in Task, NEW l \in Lock, Request(p, l)
  PROVE  /\ \A t \in Task : ToSet(heldLock[t]) \subseteq ToSet(heldLock'[t])
         /\ l \in ToSet(heldLock'[p])
         /\ p = cur /\ acquiring[p] = NULL /\ victim = NULL /\ NULL \notin Lock
         /\ UNCHANGED <<heldTask, victim, toRelease>>
<1>1. heldLock \in [Task -> Seq(Lock)] BY DEF TypeOK
<1>2. heldLock' = [heldLock EXCEPT ![p] = Append(@, l)] BY DEF Request
<1>3. ToSet(Append(heldLock[p], l)) = ToSet(heldLock[p]) \cup {l} BY <1>1, AppendQueue
<1> QED BY <1>1, <1>2, <1>3, SchedAssumption, KernelAssumption DEF Request, Process, User, killVars

LEMMA AcquireFreeLocks ==
  ASSUME TypeOK, OnePlace, LockInv, NEW p \in Task, NEW l \in Lock, AcquireFree(p, l)
  PROVE  LockInv'
<1>1. /\ \A t \in Task : ToSet(heldLock[t]) \subseteq ToSet(heldLock'[t])
      /\ l \in ToSet(heldLock'[p]) /\ p = cur /\ acquiring[p] = NULL /\ NULL \notin Lock
      /\ UNCHANGED <<heldTask, victim, toRelease>> /\ victim = NULL
  BY RequestNotes DEF AcquireFree
<1>2. /\ lockStatus[l] = "UNLOCKED" /\ lockStatus' = [lockStatus EXCEPT ![l] = "LOCKED"]
      /\ holders' = [holders EXCEPT ![l] = @ \cup {p}]
      /\ UNCHANGED <<status, wq, acquiring>>
  BY DEF AcquireFree, schedVars
<1>3. /\ lockStatus \in [Lock -> {"UNLOCKED", "LOCKED"}] /\ holders \in [Lock -> SUBSET Task]
      /\ status[p] \notin Dead
  BY <1>1, QueueFacts, StatusNames, SchedAssumption DEF TypeOK
<1>4. \A k \in Lock : /\ holders'[k] = IF k = l THEN holders[l] \cup {p} ELSE holders[k]
                      /\ Owners(k)' = IF k = l THEN Owners(l) \cup {p} ELSE Owners(k)
                      /\ lockStatus'[k] = IF k = l THEN "LOCKED" ELSE lockStatus[k]
  BY <1>2, <1>3 DEF Owners, Granted
<1>5. Owners(l) = {} /\ heldTask[l] = NULL BY <1>2 DEF LockInv, Open
<1>6. Waiting' BY <1>2 DEF LockInv, Waiting
<1>7. Backed' BY <1>1, <1>2, <1>3, <1>4 DEF LockInv, Backed
<1>8. Spared' BY <1>1 DEF Spared
<1>9. Single' BY <1>4, <1>5 DEF LockInv, Single
<1>10. Open' BY <1>1, <1>2, <1>4 DEF LockInv, Open
<1>11. Named' BY <1>1, <1>4, <1>5 DEF LockInv, Named
<1> QED BY <1>6, <1>7, <1>8, <1>9, <1>10, <1>11 DEF LockInv

LEMMA AcquireTakenLocks ==
  ASSUME TypeOK, OnePlace, LockInv, NEW p \in Task, NEW l \in Lock, AcquireTaken(p, l)
  PROVE  LockInv'
<1>1. /\ \A t \in Task : ToSet(heldLock[t]) \subseteq ToSet(heldLock'[t])
      /\ l \in ToSet(heldLock'[p]) /\ p = cur /\ acquiring[p] = NULL /\ NULL \notin Lock
      /\ UNCHANGED <<heldTask, victim, toRelease>> /\ victim = NULL
  BY RequestNotes DEF AcquireTaken
<1>2. lockStatus[l] = "LOCKED" /\ UNCHANGED <<lockStatus, holders>> BY DEF AcquireTaken
<1>3. /\ status \in [Task -> Status] /\ wq \in [Queue -> Seq(Task)] /\ l \in Queue /\ Lock \subseteq Queue
      /\ acquiring \in [Task -> Lock \cup {NULL}] /\ status[p] \notin Dead
      /\ ready \in Seq(Task) /\ sleepq \in Seq(Task)
  <2>1. status[p] \in Runnable BY <1>1, QueueFacts, SchedAssumption
  <2>2. Lock \subseteq Queue BY KernelAssumption DEF Queue
  <2> QED BY <2>1, <2>2, StatusNames DEF TypeOK, SchedTypeOK
<1>4. Spared' BY <1>1 DEF Spared
<1>5. CASE UNCHANGED <<status, wq, acquiring>>
  <2>1. Backed' BY <1>1, <1>2, <1>5 DEF LockInv, Backed
  <2>2. Waiting' BY <1>5 DEF LockInv, Waiting
  <2>3. \A k \in Lock : Owners(k)' = Owners(k) BY <1>2, <1>5 DEF Owners, Granted
  <2> QED BY <1>1, <1>2, <1>4, <1>5, <2>1, <2>2, <2>3, OwnersShrink
<1>6. CASE acquiring' = [acquiring EXCEPT ![p] = l] /\ Block(p, l)
  <2> DEFINE st == [status EXCEPT ![p] = "BLOCKED"]
  <2>1. /\ Schedule(ready, sleepq, left, st) /\ wq' = [wq EXCEPT ![l] = Append(@, p)]
    BY <1>6 DEF Block
  <2>2. \A t \in Task : status[t] \notin Dead => status'[t] \notin Dead
    <3>1. \A t \in Task : status[t] \notin Dead => st[t] \notin Dead BY <1>3, StatusNames
    <3> HIDE DEF st
    <3> QED BY <1>3, <2>1, <3>1, ScheduleSpares
  <2>3. /\ \A k \in Lock : ToSet(wq'[k]) = IF k = l THEN ToSet(wq[l]) \cup {p} ELSE ToSet(wq[k])
        /\ \A k \in Lock : k # l => wq'[k] = wq[k]
        /\ \A t \in Task : acquiring'[t] = IF t = p THEN l ELSE acquiring[t]
        /\ \A k \in Lock : ToSet(wq[k]) \subseteq Task
    <3>1. ToSet(Append(wq[l], p)) = ToSet(wq[l]) \cup {p} BY <1>3, AppendQueue
    <3>2. \A k \in Lock : ToSet(wq[k]) \subseteq Task BY <1>3, SetOfSeq
    <3>3. \A k \in Lock : wq'[k] = IF k = l THEN Append(wq[l], p) ELSE wq[k] BY <1>3, <2>1
    <3>4. \A t \in Task : acquiring'[t] = IF t = p THEN l ELSE acquiring[t] BY <1>3, <1>6
    <3>5. \A k \in Lock : ToSet(wq'[k]) = IF k = l THEN ToSet(wq[l]) \cup {p} ELSE ToSet(wq[k])
      BY <3>1, <3>3
    <3> QED BY <3>2, <3>3, <3>4, <3>5
  <2>4. Backed'
    <3> SUFFICES ASSUME NEW t \in Task, NEW k \in Lock, t \in holders'[k] \/ acquiring'[t] = k
                 PROVE  status'[t] \notin Dead /\ k \in ToSet(heldLock'[t])
      BY DEF Backed
    <3>1. CASE t = p /\ k = l BY <1>1, <1>3, <2>2, <3>1
    <3>2. CASE t # p \/ k # l
      <4>1. t \in holders[k] \/ acquiring[t] = k BY <1>2, <2>3, <3>2
      <4>2. status[t] \notin Dead /\ k \in ToSet(heldLock[t]) BY <4>1 DEF LockInv, Backed
      <4> QED BY <1>1, <2>2, <4>2
    <3> QED BY <3>1, <3>2
  <2>5. Waiting' BY <1>1, <2>3 DEF LockInv, Waiting
  <2>6. \A k \in Lock : Owners(k)' \subseteq Owners(k)
    <3> SUFFICES ASSUME NEW k \in Lock, NEW t, t \in Owners(k)' PROVE t \in Owners(k)
      OBVIOUS
    <3>1. CASE t \in holders'[k] BY <1>2, <3>1 DEF Owners
    <3>2. CASE t \in Granted(k)'
      <4>1. t \in Task /\ acquiring'[t] = k /\ t \notin ToSet(wq'[k]) BY <3>2 DEF Granted
      <4>2. t # p BY <2>3, <4>1
      <4>3. acquiring[t] = k /\ t \notin ToSet(wq[k]) BY <2>3, <4>1, <4>2
      <4>4. status[t] # "KILLED" BY <4>1, <4>3 DEF LockInv, Backed, Dead
      <4> QED BY <4>1, <4>3, <4>4 DEF Owners, Granted
    <3> QED BY <3>1, <3>2 DEF Owners
  <2>7. \A k \in Lock : lockStatus[k] = "UNLOCKED" => wq'[k] = wq[k] BY <1>2, <2>3
  <2> QED BY <1>1, <1>2, <1>4, <2>4, <2>5, <2>6, <2>7, OwnersShrink
<1> QED BY <1>5, <1>6 DEF AcquireTaken, schedVars

(* Whoever returns from lock_acquire() was already the owner.              *)
LEMMA AcquireReturnLocks ==
  ASSUME TypeOK, OnePlace, LockInv, NEW p \in Task, AcquireReturn(p)
  PROVE  LockInv'
<1> DEFINE l == acquiring[p]
<1>1. /\ p = cur /\ l \in Lock /\ acquiring' = [acquiring EXCEPT ![p] = NULL]
      /\ holders' = [holders EXCEPT ![l] = @ \cup {p}] /\ NULL \notin Lock /\ Lock \subseteq Queue
      /\ UNCHANGED <<status, wq, lockStatus, heldTask, heldLock, victim, toRelease>>
      /\ acquiring \in [Task -> Lock \cup {NULL}] /\ holders \in [Lock -> SUBSET Task]
  BY SchedAssumption, KernelAssumption DEF AcquireReturn, TypeOK, schedVars, killVars, Queue
<1>2. \A q \in Queue : p \notin ToSet(wq[q]) BY <1>1, SchedAssumption, InNoQueue
<1>3. /\ \A t \in Task : acquiring'[t] = IF t = p THEN NULL ELSE acquiring[t]
      /\ \A k \in Lock : holders'[k] = IF k = l THEN holders[k] \cup {p} ELSE holders[k]
  BY <1>1
<1>4. p \in Owners(l)
  <2>1. status[p] # "KILLED" BY <1>1 DEF LockInv, Backed, Dead
  <2> QED BY <1>1, <1>2, <2>1 DEF Owners, Granted
<1> HIDE DEF l
<1>5. \A k \in Lock : Owners(k)' \subseteq Owners(k)
  <2> SUFFICES ASSUME NEW k \in Lock, NEW t, t \in Owners(k)' PROVE t \in Owners(k)
    OBVIOUS
  <2>1. CASE t \in holders'[k] BY <1>3, <1>4, <2>1 DEF Owners
  <2>2. CASE t \in Granted(k)' BY <1>1, <1>3, <2>2 DEF Owners, Granted
  <2> QED BY <2>1, <2>2 DEF Owners
<1>6. Waiting'
  <2>1. \A k \in Lock : ToSet(wq[k]) \subseteq Task BY QueueFacts, <1>1
  <2> QED BY <1>1, <1>2, <1>3, <2>1 DEF LockInv, Waiting
<1>7. Backed' BY <1>1, <1>3 DEF LockInv, Backed, l
<1>8. Spared' BY <1>1 DEF LockInv, Spared
<1> QED BY <1>1, <1>5, <1>6, <1>7, <1>8, OwnersShrink

(* What is removed from a list is one occurrence of one element.           *)
LEMMA RemovesOne ==
  ASSUME NEW T, NEW s \in Seq(T), NEW i \in 1 .. Len(s)
  PROVE  ToSet(s) \ {s[i]} \subseteq ToSet(RemoveAt(s, i))
<1> DEFINE a == SubSeq(s, 1, i - 1)
           b == SubSeq(s, i, Len(s))
           c == SubSeq(s, i + 1, Len(s))
<1>0. Len(s) \in Nat /\ i - 1 \in 0 .. Len(s) /\ (i - 1) + 1 = i
  BY LenProperties
<1>1. a \in Seq(T) /\ b \in Seq(T) /\ ToSet(a) \cup ToSet(b) = ToSet(s)
  BY <1>0, SplitQueue
<1>2. b # <<>> /\ Head(b) = s[i] /\ Tail(b) = c
  <2>1. Head(b) = s[i] /\ Tail(b) = c
    <3>1. Len(s) \in i .. Len(s) BY <1>0
    <3> QED BY <3>1, HeadTailOfSubSeq
  <2>2. Len(b) = Len(s) - i + 1
    <3>1. \A j \in i .. Len(s) : s[j] \in T BY <1>0, ElementOfSeq
    <3> HIDE DEF b
    <3> QED BY <3>1, <1>0, SubSeqProperties DEF b
  <2>3. Len(b) # 0 BY <2>2, <1>0
  <2>4. b # <<>> BY <2>3, EmptySeq
  <2> QED BY <2>1, <2>4
<1> HIDE DEF a, b, c
<1>3. c \in Seq(T) /\ ToSet(b) = ToSet(c) \cup {s[i]} BY <1>1, <1>2, TailQueue
<1>4. ToSet(a \o c) = ToSet(a) \cup ToSet(c) BY <1>1, <1>3, ConcatQueue
<1>5. RemoveAt(s, i) = a \o c BY DEF RemoveAt, a, c
<1> QED BY <1>1, <1>3, <1>4, <1>5

(* The mutex passes to its first waiter, or becomes free.                  *)
LEMMA ReleaseLocks ==
  ASSUME TypeOK, OnePlace, LockInv, NEW p \in Task, NEW l \in Lock, Release(p, l)
  PROVE  LockInv'
<1>1. /\ p = cur /\ acquiring[p] = NULL /\ victim = NULL /\ p \in holders[l]
      /\ holders' = [holders EXCEPT ![l] = @ \ {p}] /\ ReleaseHelper(l)
      /\ UNCHANGED <<acquiring, victim, toRelease>>
  BY DEF Release, Process, User, killVars
<1>2. /\ NULL \notin Lock /\ NULL \notin Task /\ l \in Queue /\ Lock \subseteq Queue
      /\ wq \in [Queue -> Seq(Task)]
      /\ status \in [Task -> Status] /\ holders \in [Lock -> SUBSET Task]
      /\ lockStatus \in [Lock -> {"UNLOCKED", "LOCKED"}] /\ heldLock \in [Task -> Seq(Lock)]
      /\ heldTask \in [Lock -> Task \cup {NULL}] /\ ready \in Seq(Task)
  BY SchedAssumption, KernelAssumption DEF TypeOK, SchedTypeOK, Queue
<1>3. /\ \A k \in Lock : holders'[k] = IF k = l THEN holders[l] \ {p} ELSE holders[k]
  BY <1>1, <1>2
<1>4. p \in Owners(l) /\ Owners(l) \subseteq {p} BY <1>1 DEF LockInv, Single, Owners
<1>5. lockStatus[l] = "LOCKED" BY <1>2, <1>4 DEF LockInv, Open
<1>6. /\ \A t \in Task : t # p => heldLock'[t] = heldLock[t]
      /\ ToSet(heldLock[p]) \ {l} \subseteq ToSet(heldLock'[p])
  <2>1. PICK i \in DOMAIN heldLock[p] :
          heldLock[p][i] = l /\ heldLock' = [heldLock EXCEPT ![p] = RemoveAt(@, i)]
    BY DEF Release
  <2>2. i \in 1 .. Len(heldLock[p]) /\ heldLock[p] \in Seq(Lock) BY <1>2, <2>1, LenProperties
  <2>3. ToSet(heldLock[p]) \ {heldLock[p][i]} \subseteq ToSet(RemoveAt(heldLock[p], i))
    BY <2>2, RemovesOne
  <2> QED BY <1>2, <2>1, <2>3
<1>7. \A t \in Task : status[t] \notin Dead => status'[t] \notin Dead
  <2>1. status' = status \/ (wq[l] # <<>> /\ status' = [status EXCEPT ![Head(wq[l])] = "READY"])
    BY <1>1 DEF ReleaseHelper, UnblockOne
  <2> QED BY <1>2, <2>1, StatusNames
<1>8. Backed' BY <1>1, <1>2, <1>3, <1>6, <1>7 DEF LockInv, Backed
<1>9. Spared' BY <1>1 DEF Spared
<1>10. /\ \A k \in Lock : k # l => /\ wq'[k] = wq[k] /\ heldTask'[k] = heldTask[k]
                                   /\ lockStatus'[k] = lockStatus[k]
       /\ ToSet(wq'[l]) \subseteq ToSet(wq[l])
  <2>1. \/ wq' = wq
        \/ wq[l] # <<>> /\ wq' = [wq EXCEPT ![l] = Tail(@)]
    BY <1>1 DEF ReleaseHelper, UnblockOne
  <2>2. wq[l] # <<>> => ToSet(wq[l]) = ToSet(Tail(wq[l])) \cup {Head(wq[l])} BY <1>2, TailQueue
  <2>3. \A k \in Lock : k # l => heldTask'[k] = heldTask[k] /\ lockStatus'[k] = lockStatus[k]
    BY <1>1, <1>2 DEF ReleaseHelper
  <2> QED BY <1>2, <2>1, <2>2, <2>3
<1>11. Waiting' BY <1>1, <1>10 DEF LockInv, Waiting
<1>12. ASSUME NEW k \in Lock, k # l PROVE Owners(k)' \subseteq Owners(k)
  <2> SUFFICES ASSUME NEW t, t \in Owners(k)' PROVE t \in Owners(k)
    OBVIOUS
  <2>1. CASE t \in holders'[k] BY <1>3, <1>12, <2>1 DEF Owners
  <2>2. CASE t \in Granted(k)'
    <3>1. t \in Task /\ acquiring[t] = k /\ t \notin ToSet(wq[k])
      BY <1>1, <1>10, <1>12, <2>2 DEF Granted
    <3>2. status[t] # "KILLED" BY <3>1 DEF LockInv, Backed, Dead
    <3> QED BY <3>1, <3>2 DEF Owners, Granted
  <2> QED BY <2>1, <2>2 DEF Owners
<1>13. /\ \A t, u \in Owners(l)' : t = u
       /\ lockStatus'[l] = "UNLOCKED" => Owners(l)' = {} /\ wq'[l] = <<>> /\ heldTask'[l] = NULL
       /\ heldTask'[l] # NULL => Owners(l)' \subseteq {heldTask'[l]}
  <2>1. ASSUME NEW t, t \in Owners(l)'
        PROVE  t \in Task /\ acquiring[t] = l /\ t \in ToSet(wq[l]) /\ t \notin ToSet(wq'[l])
    <3>1. t \notin holders'[l] BY <1>3, <1>4 DEF Owners
    <3>2. t \in Task /\ acquiring[t] = l /\ t \notin ToSet(wq'[l])
      BY <1>1, <2>1, <3>1 DEF Owners, Granted
    <3>3. status[t] # "KILLED" BY <3>2 DEF LockInv, Backed, Dead
    <3>4. t # p BY <1>1, <1>2, <3>2
    <3> QED BY <1>4, <3>2, <3>3, <3>4 DEF Owners, Granted
  <2>2. CASE wq[l] # <<>> /\ UnblockOne(l) /\ UNCHANGED lockStatus
             /\ heldTask' = [heldTask EXCEPT ![l] = Last(ready')]
    <3> DEFINE h == Head(wq[l])
    <3>1. h \in Task /\ Tail(wq[l]) \in Seq(Task) /\ ToSet(wq[l]) = ToSet(Tail(wq[l])) \cup {h}
      BY <1>2, <2>2, TailQueue
    <3>2. wq'[l] = Tail(wq[l]) /\ ready' = Append(ready, h) BY <1>2, <2>2 DEF UnblockOne
    <3> HIDE DEF h
    <3>3. Last(ready') = h
      <4>1. Len(ready') = Len(ready) + 1 /\ ready'[Len(ready) + 1] = h
        BY <1>2, <3>1, <3>2, AppendProperties
      <4> QED BY <4>1 DEF Last
    <3>4. heldTask'[l] = h BY <1>2, <2>2, <3>3
    <3>5. \A t \in Owners(l)' : t = h BY <2>1, <3>1, <3>2
    <3> QED BY <1>5, <2>2, <3>4, <3>5
  <2>3. CASE wq[l] = <<>> /\ heldTask' = [heldTask EXCEPT ![l] = NULL] /\ UNCHANGED wq
    <3>1. Owners(l)' = {} BY <2>1, <2>3
    <3> QED BY <1>2, <2>3, <3>1
  <2> QED BY <1>1, <2>2, <2>3 DEF ReleaseHelper
<1>14. Single' BY <1>12, <1>13 DEF LockInv, Single
<1>15. Open'
  <2> SUFFICES ASSUME NEW k \in Lock, lockStatus'[k] = "UNLOCKED"
               PROVE  Owners(k)' = {} /\ wq'[k] = <<>> /\ heldTask'[k] = NULL
    BY DEF Open
  <2> QED BY <1>10, <1>12, <1>13 DEF LockInv, Open
<1>16. Named' BY <1>10, <1>12, <1>13 DEF LockInv, Named
<1> QED BY <1>8, <1>9, <1>11, <1>14, <1>15, <1>16 DEF LockInv

LEMMA StepLocks ==
  ASSUME TypeOK, OnePlace, LockInv, ~KillLockUsers, [Next]_vars
  PROVE  LockInv'
<1>1. CASE UNCHANGED vars BY <1>1, SameLocks DEF vars, schedVars
<1>2. ASSUME NEW p \in Task, Call(p) PROVE LockInv'
  <2>1. CASE Yield(p) \/ (\E ms \in SleepArg : Sleep(p, ms)) \/ (\E t \in Task : Wait(p, t))
    BY <2>1, ReschedulingCallLocks
  <2>2. CASE Exit(p) BY <2>2, ExitLocks
  <2>3. ASSUME NEW ft \in FileType, Spawn(p, ft) PROVE LockInv' BY <2>3, SpawnLocks
  <2>4. ASSUME NEW v \in Task, Kill(p, v) PROVE LockInv' BY <2>4, KillLocks
  <2>5. ASSUME NEW l \in Lock, AcquireFree(p, l) \/ AcquireTaken(p, l) \/ Release(p, l)
        PROVE  LockInv'
    BY <2>5, AcquireFreeLocks, AcquireTakenLocks, ReleaseLocks
  <2> QED BY <1>2, <2>1, <2>2, <2>3, <2>4, <2>5 DEF Call
<1>3. CASE KernelStep
  <2>1. CASE KillRelease BY <2>1 DEF KillRelease, LockInv, Spared
  <2>2. CASE KillDone BY <2>2, KillDoneLocks
  <2>3. ASSUME NEW p \in Task, AcquireReturn(p) PROVE LockInv' BY <2>3, AcquireReturnLocks
  <2> QED BY <1>3, <2>1, <2>2, <2>3 DEF KernelStep
<1>4. CASE Tick BY <1>4, TickLocks
<1>5. CASE Stuck BY <1>1, <1>5 DEF Stuck
<1> QED BY <1>1, <1>2, <1>3, <1>4, <1>5 DEF Next

(* LockInv is inductive: what the theorems below take of it.             *)
THEOREM LockInvHolds ==
  ASSUME ~KillLockUsers
  PROVE  Spec => []LockInv
<1>1. Init => LockInv
  <2> SUFFICES ASSUME Init PROVE LockInv OBVIOUS
  <2>1. NULL \notin Lock /\ Lock \subseteq Queue
    BY SchedAssumption, KernelAssumption DEF Queue
  <2>2. \A l \in Lock : Owners(l) = {} /\ wq[l] = <<>> /\ heldTask[l] = NULL /\ holders[l] = {}
    BY <2>1 DEF Init, Owners, Granted
  <2>3. \A t \in Task : acquiring[t] = NULL BY DEF Init
  <2>4. victim = NULL BY DEF Init
  <2> QED BY <2>1, <2>2, <2>3, <2>4, EmptyQueue
          DEF LockInv, Waiting, Backed, Spared, Single, Open, Named
<1>2. TypeOK /\ OnePlace /\ LockInv /\ [Next]_vars => LockInv' BY StepLocks
<1> QED BY <1>1, <1>2, TypeCorrect, EveryTaskInOnePlace, PTL DEF Spec

(* Mutual exclusion: never two owners, and a free mutex has neither owner  *)
(* nor waiters, whatever the tasks call and whenever the timer switches    *)
(* them, as long as a kill spares the users of mutexes.                    *)
THEOREM MutexesExclude ==
  ASSUME ~KillLockUsers
  PROVE  Spec => []MutualExclusion
<1>1. LockInv => MutualExclusion BY DEF LockInv, Single, Open, MutualExclusion
<1> QED BY <1>1, LockInvHolds, PTL

(* The detector's note names nobody but the owner, and do_kill()'s notes   *)
(* have every mutex a live task holds or waits for.                        *)
THEOREM NotesHold ==
  ASSUME ~KillLockUsers
  PROVE  Spec => []NotesTrue
<1>1. LockInv => NotesTrue BY DEF LockInv, Named, Backed, NotesTrue
<1> QED BY <1>1, LockInvHolds, PTL
-----------------------------------------------------------------------------
(* What no step may do. First, the dead: each action leaves the status of  *)
(* a task that is EXITED or KILLED alone, but for do_spawn() of its slot.  *)
StaysDead(t) == status'[t] = status[t] \/ (status'[t] = "FIRST_TIME" /\ Last(ready') = t)

(* scheduler() leaves it alone, since the sleep queue has sleepers only.   *)
LEMMA RescheduleSparesDead ==
  ASSUME NEW r \in Seq(Task), NEW s \in Seq(Task), NEW lf, NEW st, Schedule(r, s, lf, st),
         NEW t \in Task, st[t] = status[t], t \notin ToSet(s)
  PROVE  StaysDead(t)
BY ScheduleKeeps DEF StaysDead

(* A task that becomes READY was blocked, so that it was not dead.         *)
LEMMA ReleaseSparesDead ==
  ASSUME TypeOK, OnePlace, NEW l \in Lock, ReleaseHelper(l), NEW t \in Task, status[t] \in Dead
  PROVE  StaysDead(t)
<1>1. l \in Queue /\ wq[l] \in Seq(Task) /\ status \in [Task -> Status]
  BY KernelAssumption DEF Queue, TypeOK, SchedTypeOK
<1>2. CASE wq[l] # <<>> /\ UnblockOne(l)
  <2>1. Head(wq[l]) \in ToSet(wq[l]) BY <1>1, <1>2, TailQueue
  <2>2. status[Head(wq[l])] = "BLOCKED" BY <1>1, <2>1, QueueFacts
  <2>3. t # Head(wq[l]) BY <2>2, StatusNames
  <2> QED BY <1>1, <1>2, <2>3 DEF UnblockOne, StaysDead
<1>3. CASE UNCHANGED status BY <1>3 DEF StaysDead
<1> QED BY <1>2, <1>3 DEF ReleaseHelper

LEMMA CallSparesDead ==
  ASSUME TypeOK, OnePlace, NEW p \in Task, Call(p), NEW t \in Task, status[t] \in Dead
  PROVE  StaysDead(t)
<1>0. /\ ready \in Seq(Task) /\ sleepq \in Seq(Task) /\ status \in [Task -> Status]
      /\ wq \in [Queue -> Seq(Task)] /\ Task \subseteq Queue /\ Lock \subseteq Queue
      /\ NULL \notin Task
  BY SchedAssumption, KernelAssumption DEF TypeOK, SchedTypeOK, Queue
<1>1. /\ t \notin ToSet(ready) /\ t \notin ToSet(sleepq)
      /\ \A q \in Queue : t \notin ToSet(wq[q])
  BY InNoQueue
<1>2. p = cur => t # p BY <1>0, QueueFacts, StatusNames
<1>3. CASE Yield(p)
  <2>1. Append(ready, p) \in Seq(Task) BY <1>0, AppendQueue
  <2>2. /\ Schedule(Append(ready, p), sleepq, left, [status EXCEPT ![p] = "READY"]) /\ p = cur
    BY <1>3 DEF Yield, DoYield, User
  <2>3. [status EXCEPT ![p] = "READY"][t] = status[t] BY <1>0, <1>2, <2>2
  <2> QED BY <1>0, <1>1, <2>1, <2>2, <2>3, RescheduleSparesDead
<1>4. ASSUME NEW ms \in SleepArg, Sleep(p, ms) PROVE StaysDead(t)
  <2> DEFINE st == [status EXCEPT ![p] = "SLEEPING"]
             s  == Append(sleepq, p)
             lf == [left EXCEPT ![p] = ms \div 1000]
  <2>1. s \in Seq(Task) /\ ToSet(s) = ToSet(sleepq) \cup {p} /\ p = cur
    BY <1>0, <1>4, AppendQueue DEF Sleep, User
  <2>2. t # p /\ st[t] = status[t] BY <1>0, <1>2, <2>1
  <2>3. status' = status \/ Schedule(ready, s, lf, st) BY <1>4 DEF Sleep, DoSleep
  <2> HIDE DEF st, s, lf
  <2>4. CASE status' = status BY <2>4 DEF StaysDead
  <2>5. CASE Schedule(ready, s, lf, st)
    <3>1. t \notin ToSet(s) BY <1>1, <2>1, <2>2
    <3> QED BY <1>0, <2>1, <2>2, <2>5, <3>1, RescheduleSparesDead
  <2> QED BY <2>3, <2>4, <2>5
<1>5. CASE Exit(p)
  <2> DEFINE st == [Unblocked(wq[p]) EXCEPT ![p] = "EXITED"]
  <2>1. ready \o wq[p] \in Seq(Task) /\ p = cur BY <1>0, <1>5, ConcatQueue DEF Exit, User
  <2>2. st[t] = status[t] BY <1>0, <1>1, <1>2, <2>1 DEF Unblocked
  <2>3. Schedule(ready \o wq[p], sleepq, left, st) BY <1>5 DEF Exit, DoExit
  <2> HIDE DEF st
  <2> QED BY <1>0, <1>1, <2>1, <2>2, <2>3, RescheduleSparesDead
<1>6. ASSUME NEW ft \in FileType, Spawn(p, ft) PROVE StaysDead(t)
  <2>1. ASSUME NEW s \in Task, InitializePcb(s, ft), ready' = Append(ready, s) PROVE StaysDead(t)
    <3>1. status' = [status EXCEPT ![s] = "FIRST_TIME"] BY <2>1 DEF InitializePcb
    <3>2. Last(ready') = s
      <4>1. Len(ready') = Len(ready) + 1 /\ ready'[Len(ready) + 1] = s
        BY <1>0, <2>1, AppendProperties
      <4> QED BY <4>1 DEF Last
    <3> QED BY <1>0, <3>1, <3>2 DEF StaysDead
  <2>2. CASE UNCHANGED <<schedVars, lockVars>> BY <2>2 DEF StaysDead, schedVars
  <2> QED BY <1>6, <2>1, <2>2 DEF Spawn
<1>7. ASSUME NEW q \in Queue, Block(p, q), p = cur PROVE StaysDead(t)
  <2>1. Schedule(ready, sleepq, left, [status EXCEPT ![p] = "BLOCKED"]) BY <1>7 DEF Block
  <2>2. [status EXCEPT ![p] = "BLOCKED"][t] = status[t] BY <1>0, <1>2, <1>7
  <2> QED BY <1>0, <1>1, <2>1, <2>2, RescheduleSparesDead
<1>8. ASSUME NEW q \in Task, Wait(p, q) PROVE StaysDead(t)
  BY <1>0, <1>7, <1>8 DEF Wait, Process, User
<1>9. ASSUME NEW v \in Task, Kill(p, v) PROVE StaysDead(t)
  <2>1. status' = status \/ status' = Unblocked(wq[v])
    BY <1>9 DEF Kill, KillDead, KillLost, KillTake
  <2> QED BY <1>0, <1>1, <2>1 DEF Unblocked, StaysDead
<1>10. ASSUME NEW l \in Lock, AcquireFree(p, l) PROVE StaysDead(t)
  BY <1>10 DEF AcquireFree, schedVars, StaysDead
<1>11. ASSUME NEW l \in Lock, AcquireTaken(p, l) PROVE StaysDead(t)
  <2>1. status' = status \/ (Block(p, l) /\ p = cur)
    BY <1>11 DEF AcquireTaken, schedVars, Request, Process, User
  <2> QED BY <1>0, <1>7, <2>1 DEF StaysDead
<1>12. ASSUME NEW l \in Lock, Release(p, l) PROVE StaysDead(t)
  BY <1>12, ReleaseSparesDead DEF Release
<1> QED BY <1>3, <1>4, <1>5, <1>6, <1>8, <1>9, <1>10, <1>11, <1>12 DEF Call

LEMMA StepSparesDead ==
  ASSUME TypeOK, OnePlace, [Next]_vars, NEW t \in Task, status[t] \in Dead
  PROVE  StaysDead(t)
<1>0. /\ ready \in Seq(Task) /\ sleepq \in Seq(Task) /\ status \in [Task -> Status]
      /\ cur \in Task \cup {NULL} /\ victim \in Task \cup {NULL} /\ NULL \notin Task
  BY SchedAssumption DEF TypeOK, SchedTypeOK
<1>1. t \notin ToSet(ready) /\ t \notin ToSet(sleepq) BY InNoQueue
<1>2. cur # t BY <1>0, QueueFacts, StatusNames
<1>3. ASSUME NEW p \in Task, Call(p) PROVE StaysDead(t) BY <1>3, CallSparesDead
<1>4. CASE KillRelease
  <2>1. Head(toRelease) \in Lock BY <1>4, TailQueue DEF KillRelease, TypeOK
  <2> QED BY <1>4, <2>1, ReleaseSparesDead DEF KillRelease
<1>5. CASE KillDone
  <2>1. victim # t BY <1>0, <1>5, QueueFacts DEF KillDone
  <2> QED BY <1>0, <1>5, <2>1 DEF KillDone, StaysDead
<1>6. ASSUME NEW p \in Task, AcquireReturn(p) PROVE StaysDead(t)
  BY <1>6 DEF AcquireReturn, schedVars, StaysDead
<1>7. CASE Tick
  <2>1. CASE UNCHANGED status BY <2>1 DEF StaysDead
  <2>2. CASE cur # NULL /\ Schedule(Append(ready, cur), sleepq, Ticked, [status EXCEPT ![cur] = "READY"])
    <3>1. Append(ready, cur) \in Seq(Task) BY <1>0, <2>2, AppendQueue
    <3>2. [status EXCEPT ![cur] = "READY"][t] = status[t] BY <1>0, <1>2, <2>2
    <3> QED BY <1>0, <1>1, <2>2, <3>1, <3>2, RescheduleSparesDead
  <2>3. CASE Schedule(ready, sleepq, Ticked, status)
    BY <1>0, <1>1, <2>3, RescheduleSparesDead
  <2> QED BY <1>7, <2>1, <2>2, <2>3 DEF Tick, TimerIrq
<1>8. CASE UNCHANGED vars BY <1>8 DEF vars, schedVars, StaysDead
<1> QED BY <1>3, <1>4, <1>5, <1>6, <1>7, <1>8 DEF Next, KernelStep, Stuck

(* A killed or exited task never runs again, except as the new task that   *)
(* do_spawn() makes of its slot and puts last in the ready queue, whatever *)
(* wakes, kills, releases and interrupts happen in between.                *)
THEOREM TheDeadStayDead == Spec => DeadStayDead
<1> DEFINE A == \A t \in Task : status[t] \in Dead =>
                  status'[t] = status[t] \/ (status'[t] = "FIRST_TIME" /\ Last(ready') = t)
<1>1. TypeOK /\ OnePlace /\ [Next]_vars => [A]_vars BY StepSparesDead DEF StaysDead
<1>2. DeadStayDead <=> [][A]_vars BY DEF DeadStayDead
<1> HIDE DEF A
<1> QED BY <1>1, <1>2, TypeCorrect, EveryTaskInOnePlace, PTL DEF Spec
-----------------------------------------------------------------------------
(* Second, the waits: who is taken out of the queue of those that wait for *)
(* pid, and when.                                                          *)
WaitEnds(pid, t) ==
  \/ status'[pid] \in Dead \/ victim' \in {pid, t} \/ mode' = "hang"
  \/ status[pid] \in Dead /\ status'[pid] = "FIRST_TIME"

(* Who yields or sleeps takes nobody out of the queue of a task or mutex.  *)
LEMMA QueuesStay ==
  ASSUME NEW p \in Task, Yield(p) \/ \E ms \in SleepArg : Sleep(p, ms)
  PROVE  wq' = wq
<1>1. CASE Yield(p) BY <1>1 DEF Yield, DoYield
<1>2. ASSUME NEW ms \in SleepArg, Sleep(p, ms) PROVE wq' = wq BY <1>2 DEF Sleep, DoSleep
<1> QED BY <1>1, <1>2

(* A release takes the queue of a mutex, a block only adds to one.         *)
LEMMA ReleaseEndsNoWait ==
  ASSUME TypeOK, NEW l \in Lock, ReleaseHelper(l), NEW pid \in Task
  PROVE  wq'[pid] = wq[pid]
<1>1. wq \in [Queue -> Seq(Task)] /\ pid # l
  <2>1. pid \notin Lock BY SchedAssumption, KernelAssumption
  <2> QED BY <2>1 DEF TypeOK, SchedTypeOK
<1>2. wq' = wq \/ wq' = [wq EXCEPT ![l] = Tail(@)] BY DEF ReleaseHelper, UnblockOne
<1>3. pid \in Queue BY DEF Queue
<1> QED BY <1>1, <1>2, <1>3

LEMMA BlockEndsNoWait ==
  ASSUME TypeOK, NEW p \in Task, NEW q \in Queue, Block(p, q), NEW pid \in Task
  PROVE  ToSet(wq[pid]) \subseteq ToSet(wq'[pid])
<1>1. wq \in [Queue -> Seq(Task)] /\ pid \in Queue BY DEF TypeOK, SchedTypeOK, Queue
<1>2. wq' = [wq EXCEPT ![q] = Append(@, p)] BY DEF Block
<1>3. ToSet(Append(wq[q], p)) = ToSet(wq[q]) \cup {p} BY <1>1, AppendQueue
<1> QED BY <1>1, <1>2, <1>3

(* do_exit() empties the queue of the task that ends.                      *)
LEMMA ExitEndsWaits ==
  ASSUME TypeOK, OnePlace, NEW p \in Task, Exit(p), NEW pid \in Task,
         NEW t \in ToSet(wq[pid]) \ ToSet(wq'[pid])
  PROVE  status'[pid] \in Dead
<1> DEFINE st == [Unblocked(wq[p]) EXCEPT ![p] = "EXITED"]
<1>1. /\ ready \in Seq(Task) /\ sleepq \in Seq(Task) /\ wq \in [Queue -> Seq(Task)]
      /\ p \in Queue /\ pid \in Queue /\ p = cur /\ p # NULL
  BY SchedAssumption DEF TypeOK, SchedTypeOK, Queue, Exit, User
<1>2. Schedule(ready \o wq[p], sleepq, left, st) /\ wq' = [wq EXCEPT ![p] = <<>>]
  BY DEF Exit, DoExit
<1>3. pid = p BY <1>1, <1>2
<1>4. st[p] = "EXITED" BY DEF Unblocked
<1>5. p \notin ToSet(sleepq) BY <1>1, InNoQueue
<1>6. ready \o wq[p] \in Seq(Task) BY <1>1, ConcatQueue
<1> HIDE DEF st
<1>7. status'[p] = "EXITED"
  <2> DEFINE r == ready \o wq[p]
  <2>1. r \in Seq(Task) /\ sleepq \in Seq(Task) /\ Schedule(r, sleepq, left, st) BY <1>1, <1>2, <1>6
  <2> HIDE DEF r
  <2>2. \A u \in Task : status'[u] = st[u] \/ u \in ToSet(sleepq) BY <2>1, ScheduleKeeps
  <2> QED BY <1>4, <1>5, <2>2
<1> QED BY <1>3, <1>7 DEF Dead

(* do_kill(v) empties the queue of v and takes v out of the one it is in.  *)
LEMMA KillEndsWaits ==
  ASSUME TypeOK, OnePlace, NEW p \in Task, NEW v \in Task, Kill(p, v), NEW pid \in Task,
         NEW t \in ToSet(wq[pid]) \ ToSet(wq'[pid])
  PROVE  victim' \in {pid, t} \/ mode' = "hang"
<1> DEFINE w == [wq EXCEPT ![v] = <<>>]
           b == waitIn[v]
<1>1. /\ wq \in [Queue -> Seq(Task)] /\ v \in Queue /\ pid \in Queue
      /\ \A q \in Queue : wq[q] \in Seq(Task) /\ IsInjective(wq[q])
  BY QueueFacts DEF TypeOK, SchedTypeOK, Queue
<1>2. CASE KillDead(p, v) BY <1>2 DEF KillDead
<1>3. CASE KillLost(p, v) BY <1>3 DEF KillLost
<1>4. CASE KillTake(p, v)
  <2>1. victim' = v BY <1>4 DEF KillTake
  <2>2. CASE pid = v BY <2>1, <2>2
  <2>3. CASE pid # v
    <3>1. w[pid] = wq[pid] BY <1>1, <2>3
    <3>2. wq' # w BY <3>1
    <3>3. status[v] = "BLOCKED" /\ wq' = [w EXCEPT ![b] = Unlink(@, v)]
      BY <1>4, <3>2 DEF KillTake
    <3>4. b = pid BY <1>1, <3>1, <3>3
    <3>5. v \in ToSet(wq[pid])
      BY <1>1, <1>4, <3>3, <3>4, StatusNames, ContainsQueue DEF KillTake, Linked
    <3>6. wq'[pid] = Unlink(wq[pid], v) BY <1>1, <3>1, <3>3, <3>4
    <3>7. ToSet(wq'[pid]) = ToSet(wq[pid]) \ {v} BY <1>1, <3>5, <3>6, UnlinkTyped
    <3> QED BY <2>1, <3>7
  <2> QED BY <2>2, <2>3
<1> QED BY <1>2, <1>3, <1>4 DEF Kill

LEMMA StepEndsWaits ==
  ASSUME TypeOK, OnePlace, [Next]_vars, NEW pid \in Task, NEW t \in ToSet(wq[pid]) \ ToSet(wq'[pid])
  PROVE  WaitEnds(pid, t)
<1>0. /\ wq \in [Queue -> Seq(Task)] /\ status \in [Task -> Status] /\ pid \in Queue
      /\ Task \subseteq Queue /\ Lock \subseteq Queue
  BY KernelAssumption DEF TypeOK, SchedTypeOK, Queue
<1>1. wq'[pid] # wq[pid] OBVIOUS
<1>2. CASE wq' = wq BY <1>1, <1>2
<1>3. ASSUME NEW p \in Task, Call(p) PROVE WaitEnds(pid, t)
  <2>1. CASE Yield(p) \/ \E ms \in SleepArg : Sleep(p, ms)
    BY <1>2, <2>1, QueuesStay
  <2>2. CASE Exit(p) BY <2>2, ExitEndsWaits DEF WaitEnds
  <2>3. ASSUME NEW ft \in FileType, Spawn(p, ft) PROVE WaitEnds(pid, t)
    <3>1. CASE UNCHANGED <<schedVars, lockVars>> BY <1>2, <3>1 DEF schedVars
    <3>2. ASSUME NEW s \in Task, status[s] \in Dead, InitializePcb(s, ft) PROVE WaitEnds(pid, t)
      <4>1. status' = [status EXCEPT ![s] = "FIRST_TIME"] /\ wq' = [wq EXCEPT ![s] = <<>>]
        BY <3>2 DEF InitializePcb
      <4>2. pid = s BY <1>0, <1>1, <4>1
      <4> QED BY <1>0, <3>2, <4>1, <4>2 DEF WaitEnds
    <3> QED BY <2>3, <3>1, <3>2 DEF Spawn
  <2>4. ASSUME NEW q \in Queue, Block(p, q) PROVE WaitEnds(pid, t) BY <2>4, BlockEndsNoWait
  <2>5. ASSUME NEW q \in Task, Wait(p, q) PROVE WaitEnds(pid, t) BY <1>0, <2>4, <2>5 DEF Wait
  <2>6. ASSUME NEW v \in Task, Kill(p, v) PROVE WaitEnds(pid, t)
    BY <2>6, KillEndsWaits DEF WaitEnds
  <2>7. ASSUME NEW l \in Lock, AcquireFree(p, l) PROVE WaitEnds(pid, t)
    BY <1>2, <2>7 DEF AcquireFree, schedVars
  <2>8. ASSUME NEW l \in Lock, AcquireTaken(p, l) PROVE WaitEnds(pid, t)
    <3>1. wq' = wq \/ Block(p, l) BY <2>8 DEF AcquireTaken, schedVars
    <3> QED BY <1>0, <1>2, <2>4, <3>1
  <2>9. ASSUME NEW l \in Lock, Release(p, l) PROVE WaitEnds(pid, t)
    BY <1>1, <2>9, ReleaseEndsNoWait DEF Release
  <2> QED BY <1>3, <2>1, <2>2, <2>3, <2>5, <2>6, <2>7, <2>8, <2>9 DEF Call
<1>4. CASE KillRelease
  <2>1. Head(toRelease) \in Lock BY <1>4, TailQueue DEF KillRelease, TypeOK
  <2> QED BY <1>1, <1>4, <2>1, ReleaseEndsNoWait DEF KillRelease
<1>5. CASE KillDone BY <1>2, <1>5 DEF KillDone
<1>6. ASSUME NEW p \in Task, AcquireReturn(p) PROVE WaitEnds(pid, t)
  BY <1>2, <1>6 DEF AcquireReturn, schedVars
<1>7. CASE Tick BY <1>2, <1>7 DEF Tick, TimerIrq
<1>8. CASE UNCHANGED vars BY <1>2, <1>8 DEF vars, schedVars
<1> QED BY <1>3, <1>4, <1>5, <1>6, <1>7, <1>8 DEF Next, KernelStep, Stuck

(* do_wait() returns only when its target exits or is killed, or the       *)
(* waiter is killed, or do_spawn() takes the target's slot (it empties the *)
(* queue of a dead slot): no release, wake-up or timer ends a wait.        *)
THEOREM WaitsEndInTime == Spec => WaitEndsWithTarget
<1> DEFINE A == \A pid \in Task : \A t \in ToSet(wq[pid]) \ ToSet(wq'[pid]) : WaitEnds(pid, t)
<1>1. TypeOK /\ OnePlace /\ [Next]_vars => [A]_vars BY StepEndsWaits
<1>2. WaitEndsWithTarget <=> [][A]_vars BY DEF WaitEndsWithTarget, WaitEnds
<1> HIDE DEF A
<1> QED BY <1>1, <1>2, TypeCorrect, EveryTaskInOnePlace, PTL DEF Spec

-----------------------------------------------------------------------------
(* Third, the grants.                                                      *)

(* The queue of a mutex changes only when somebody joins it, or by its     *)
(* release, which takes the first.                                         *)
QueueMoves(l) ==
  \/ ToSet(wq[l]) \subseteq ToSet(wq'[l])
  \/ wq[l] # <<>> /\ wq'[l] = Tail(wq[l])

LEMMA KillSparesLockQueues ==
  ASSUME TypeOK, LockInv, ~KillLockUsers, NEW p \in Task, NEW v \in Task, Kill(p, v), NEW l \in Lock
  PROVE  wq'[l] = wq[l]
<1>0. /\ wq \in [Queue -> Seq(Task)] /\ v \in Queue /\ v # l /\ l \in Queue /\ heldLock[v] = <<>>
  <2>1. v \notin Lock /\ l \in Obj BY SchedAssumption, KernelAssumption
  <2>2. heldLock[v] = <<>> BY DEF Kill, KillDead, KillLost, KillTake, MayKill
  <2> QED BY <2>1, <2>2 DEF TypeOK, SchedTypeOK, Queue
<1>1. v \notin ToSet(wq[l]) BY <1>0, EmptyQueue DEF LockInv, Waiting, Backed
<1>2. CASE wq' = wq \/ wq' = [wq EXCEPT ![v] = <<>>] BY <1>0, <1>2
<1>3. CASE /\ KillTake(p, v) /\ status[v] = "BLOCKED"
           /\ wq' = [[wq EXCEPT ![v] = <<>>] EXCEPT ![waitIn[v]] = Unlink(@, v)]
  <2>1. waitIn[v] # v /\ Contains(wq[waitIn[v]], v)
    BY <1>3, StatusNames DEF KillTake, Linked
  <2>2. waitIn[v] # l BY <1>0, <1>1, <2>1, ContainsQueue
  <2> QED BY <1>0, <1>3, <2>2
<1> QED BY <1>2, <1>3 DEF Kill, KillDead, KillLost, KillTake

LEMMA StepMovesQueue ==
  ASSUME TypeOK, LockInv, ~KillLockUsers, [Next]_vars, NEW l \in Lock
  PROVE  QueueMoves(l)
<1>0. /\ wq \in [Queue -> Seq(Task)] /\ l \in Queue /\ l \notin Task /\ Task \subseteq Queue
      /\ Lock \subseteq Queue
  BY SchedAssumption, KernelAssumption DEF TypeOK, SchedTypeOK, Queue
<1>1. CASE wq'[l] = wq[l] BY <1>1 DEF QueueMoves
<1>2. ASSUME NEW p \in Task, Call(p) PROVE QueueMoves(l)
  <2>1. CASE Yield(p) \/ \E ms \in SleepArg : Sleep(p, ms)
    BY <1>1, <2>1, QueuesStay
  <2>2. CASE Exit(p) BY <1>0, <1>1, <2>2 DEF Exit, DoExit
  <2>3. ASSUME NEW ft \in FileType, Spawn(p, ft) PROVE QueueMoves(l)
    BY <1>0, <1>1, <2>3 DEF Spawn, InitializePcb, schedVars
  <2>4. ASSUME NEW q \in Queue, Block(p, q) PROVE QueueMoves(l)
    <3>1. ToSet(Append(wq[q], p)) = ToSet(wq[q]) \cup {p} BY <1>0, AppendQueue
    <3> QED BY <1>0, <2>4, <3>1 DEF Block, QueueMoves
  <2>5. ASSUME NEW q \in Task, Wait(p, q) PROVE QueueMoves(l) BY <1>0, <2>4, <2>5 DEF Wait
  <2>6. ASSUME NEW v \in Task, Kill(p, v) PROVE QueueMoves(l)
    BY <1>1, <2>6, KillSparesLockQueues
  <2>7. ASSUME NEW k \in Lock, AcquireFree(p, k) PROVE QueueMoves(l)
    BY <1>1, <2>7 DEF AcquireFree, schedVars
  <2>8. ASSUME NEW k \in Lock, AcquireTaken(p, k) PROVE QueueMoves(l)
    <3>1. wq' = wq \/ Block(p, k) BY <2>8 DEF AcquireTaken, schedVars
    <3> QED BY <1>0, <1>1, <2>4, <3>1
  <2>9. ASSUME NEW k \in Lock, Release(p, k) PROVE QueueMoves(l)
    <3>1. wq' = wq \/ (wq[k] # <<>> /\ wq' = [wq EXCEPT ![k] = Tail(@)])
      BY <2>9 DEF Release, ReleaseHelper, UnblockOne
    <3> QED BY <1>0, <3>1 DEF QueueMoves
  <2> QED BY <1>2, <2>1, <2>2, <2>3, <2>5, <2>6, <2>7, <2>8, <2>9 DEF Call
<1>3. CASE KillRelease BY <1>3 DEF KillRelease, LockInv, Spared
<1>4. CASE KillDone BY <1>1, <1>4 DEF KillDone
<1>5. ASSUME NEW p \in Task, AcquireReturn(p) PROVE QueueMoves(l)
  BY <1>1, <1>5 DEF AcquireReturn, schedVars
<1>6. CASE Tick BY <1>1, <1>6 DEF Tick, TimerIrq
<1>7. CASE UNCHANGED vars BY <1>1, <1>7 DEF vars, schedVars
<1> QED BY <1>2, <1>3, <1>4, <1>5, <1>6, <1>7 DEF Next, KernelStep, Stuck

(* Whoever is inside lock_acquire() of l after a step was before it, or    *)
(* joins the queue of l in it; whoever holds l after a step owned it, or   *)
(* found it free.                                                          *)
LEMMA StepGrants ==
  ASSUME TypeOK, OnePlace, LockInv, [Next]_vars, NEW l \in Lock, NEW t \in Task
  PROVE  /\ acquiring'[t] = l => acquiring[t] = l \/ t \in ToSet(wq'[l])
         /\ t \in holders'[l] => t \in Owners(l) \/ wq[l] = <<>>
<1>0. /\ acquiring \in [Task -> Lock \cup {NULL}] /\ holders \in [Lock -> SUBSET Task]
      /\ wq \in [Queue -> Seq(Task)] /\ NULL \notin Task \cup Lock /\ l \in Queue /\ Lock \subseteq Queue
  BY SchedAssumption, KernelAssumption DEF TypeOK, SchedTypeOK, Queue
<1>1. CASE acquiring' = acquiring /\ holders'[l] \subseteq holders[l] BY <1>1 DEF Owners
<1> DEFINE G == /\ acquiring'[t] = l => acquiring[t] = l \/ t \in ToSet(wq'[l])
                /\ t \in holders'[l] => t \in Owners(l) \/ wq[l] = <<>>
<1>2. ASSUME NEW p \in Task, Call(p) PROVE G
  <2>1. CASE Yield(p) \/ (\E ms \in SleepArg : Sleep(p, ms)) \/ (\E q \in Task : Wait(p, q))
             \/ (\E v \in Task : Kill(p, v))
    BY <1>1, <2>1 DEF Yield, Sleep, Wait, Kill, KillDead, KillLost, KillTake, lockVars
  <2>2. CASE Exit(p) BY <1>1, <2>2 DEF Exit
  <2>3. ASSUME NEW ft \in FileType, Spawn(p, ft) PROVE G
    <3>1. holders' = holders BY <2>3 DEF Spawn, lockVars
    <3>2. acquiring' = acquiring \/ \E s \in Task : acquiring' = [acquiring EXCEPT ![s] = NULL]
      BY <2>3 DEF Spawn, InitializePcb, lockVars
    <3>3. acquiring'[t] = l => acquiring[t] = l BY <1>0, <3>2
    <3> QED BY <3>1, <3>3 DEF Owners
  <2>4. ASSUME NEW k \in Lock, AcquireFree(p, k) PROVE G
    <3>1. acquiring' = acquiring /\ holders' = [holders EXCEPT ![k] = @ \cup {p}] /\ lockStatus[k] = "UNLOCKED"
      BY <2>4 DEF AcquireFree
    <3>2. wq[k] = <<>> BY <3>1 DEF LockInv, Open
    <3>3. t \in holders'[l] => t \in holders[l] \/ l = k BY <1>0, <3>1
    <3> QED BY <3>1, <3>2, <3>3 DEF Owners
  <2>5. ASSUME NEW k \in Lock, AcquireTaken(p, k) PROVE G
    <3>1. holders' = holders BY <2>5 DEF AcquireTaken
    <3>2. CASE acquiring' = acquiring BY <1>1, <3>1, <3>2
    <3>3. CASE acquiring' = [acquiring EXCEPT ![p] = k] /\ Block(p, k)
      <4>1. p \in ToSet(wq'[k])
        <5>1. ToSet(Append(wq[k], p)) = ToSet(wq[k]) \cup {p} BY <1>0, AppendQueue
        <5> QED BY <1>0, <3>3, <5>1 DEF Block
      <4> QED BY <1>0, <3>1, <3>3, <4>1 DEF Owners
    <3> QED BY <2>5, <3>2, <3>3 DEF AcquireTaken
  <2>6. ASSUME NEW k \in Lock, Release(p, k) PROVE G
    <3>1. acquiring' = acquiring /\ holders' = [holders EXCEPT ![k] = @ \ {p}] BY <2>6 DEF Release
    <3>2. holders'[l] \subseteq holders[l] BY <1>0, <3>1
    <3> QED BY <1>1, <3>1, <3>2
  <2> QED BY <1>2, <2>1, <2>2, <2>3, <2>4, <2>5, <2>6 DEF Call
<1>3. CASE KillRelease BY <1>1, <1>3 DEF KillRelease
<1>4. CASE KillDone BY <1>1, <1>4 DEF KillDone
<1>5. ASSUME NEW p \in Task, AcquireReturn(p) PROVE G
  <2> DEFINE k == acquiring[p]
  <2>1. /\ k \in Lock /\ acquiring' = [acquiring EXCEPT ![p] = NULL] /\ p = cur /\ p # NULL
        /\ holders' = [holders EXCEPT ![k] = @ \cup {p}]
    BY <1>0, <1>5 DEF AcquireReturn
  <2>2. p \in Owners(k)
    <3>1. p \notin ToSet(wq[k]) BY <1>0, <2>1, InNoQueue
    <3>2. status[p] # "KILLED" BY <2>1 DEF LockInv, Backed, Dead
    <3> QED BY <3>1, <3>2 DEF Owners, Granted
  <2>3. acquiring'[t] = l => acquiring[t] = l BY <1>0, <2>1
  <2>4. t \in holders'[l] => t \in holders[l] \/ (l = k /\ t = p) BY <1>0, <2>1
  <2> HIDE DEF k
  <2> QED BY <2>2, <2>3, <2>4 DEF Owners
<1>6. CASE Tick BY <1>1, <1>6 DEF Tick, lockVars
<1>7. CASE UNCHANGED vars BY <1>1, <1>7 DEF vars, lockVars
<1> QED BY <1>2, <1>3, <1>4, <1>5, <1>6, <1>7 DEF Next, KernelStep, Stuck

LEMMA StepFifo ==
  ASSUME TypeOK, TypeOK', OnePlace, LockInv, ~KillLockUsers, [Next]_vars, NEW l \in Lock
  PROVE  /\ \A t \in Granted(l)' \ Owners(l) : wq[l] # <<>> /\ t = Head(wq[l])
         /\ \A t \in holders'[l] \ Owners(l) : wq[l] = <<>>
<1>0. holders \in [Lock -> SUBSET Task] /\ wq \in [Queue -> Seq(Task)] /\ l \in Queue
  BY KernelAssumption DEF TypeOK, SchedTypeOK, Queue
<1>1. ASSUME NEW t \in Granted(l)' \ Owners(l) PROVE wq[l] # <<>> /\ t = Head(wq[l])
  <2>1. t \in Task /\ acquiring'[t] = l /\ t \notin ToSet(wq'[l]) BY <1>1 DEF Granted
  <2>2. acquiring[t] = l BY <2>1, StepGrants
  <2>3. status[t] # "KILLED" BY <2>1, <2>2 DEF LockInv, Backed, Dead
  <2>4. t \in ToSet(wq[l]) BY <1>1, <2>1, <2>2, <2>3 DEF Owners, Granted
  <2>5. wq[l] # <<>> /\ wq'[l] = Tail(wq[l]) BY <2>1, <2>4, StepMovesQueue DEF QueueMoves
  <2>6. ToSet(wq[l]) = ToSet(Tail(wq[l])) \cup {Head(wq[l])} BY <1>0, <2>5, TailQueue
  <2> QED BY <2>1, <2>4, <2>5, <2>6
<1>2. ASSUME NEW t \in holders'[l] \ Owners(l) PROVE wq[l] = <<>>
  <2>1. t \in Task BY <1>2 DEF TypeOK
  <2> QED BY <1>2, <2>1, StepGrants
<1> QED BY <1>1, <1>2

(* A mutex passes to its first waiter, and nobody who did not wait gets it *)
(* while somebody waits: no task barges in, whenever the timer fires       *)
(* between a release and the return of the acquire it grants.              *)
THEOREM GrantedInOrder ==
  ASSUME ~KillLockUsers
  PROVE  Spec => FifoGrant
<1> DEFINE A == \A l \in Lock :
                  /\ \A t \in Granted(l)' \ Owners(l) : wq[l] # <<>> /\ t = Head(wq[l])
                  /\ \A t \in holders'[l] \ Owners(l) : wq[l] = <<>>
<1>1. TypeOK /\ OnePlace /\ LockInv /\ TypeOK' /\ [Next]_vars => [A]_vars BY StepFifo
<1>2. FifoGrant <=> [][A]_vars BY DEF FifoGrant
<1> HIDE DEF A
<1> QED BY <1>1, <1>2, TypeCorrect, EveryTaskInOnePlace, LockInvHolds, PTL DEF Spec

-----------------------------------------------------------------------------
(* The detector *)

(* Every set of natural numbers has a least one. With a set in the place   *)
(* of a predicate, this is how the proofs below go by induction.           *)
LEMMA LeastNumber ==
  ASSUME NEW T \in SUBSET Nat, T # {}
  PROVE  \E n \in T : \A m \in T : n <= m
<1>1. \E n \in T : \A m \in T : ~ (<<m, n>> \in OpToRel(<, Nat))
  BY NatLessThanWellFounded, WFMin
<1>2. \A m, n \in T : <<m, n>> \in OpToRel(<, Nat) <=> m < n
  BY DEF OpToRel
<1>3. PICK n \in T : \A m \in T : ~ (<<m, n>> \in OpToRel(<, Nat)) BY <1>1
<1>4. \A m \in T : ~ (m < n) BY <1>2, <1>3
<1>5. n \in Nat /\ \A m \in T : m \in Nat OBVIOUS
<1>6. \A m \in T : n <= m BY <1>4, <1>5
<1> QED BY <1>6

(* The walk is what the recursion in it says.                              *)
LEMMA WalkFrom ==
  ASSUME NEW p, NEW b, NumPcbs \in Nat
  PROVE  \E w : /\ w[0] = p
                /\ \A n \in 1 .. NumPcbs : /\ w[n] = NextHolder(w[n - 1], b)
                                           /\ Walk(p, b)[n] = w[n]
<1> DEFINE W(k, w) == w = [n \in 0 .. k |-> IF n = 0 THEN p ELSE NextHolder(w[n - 1], b)]
           T == {k \in Nat : ~ \E w : W(k, w)}
<1>1. T = {}
  <2> SUFFICES ASSUME T # {} PROVE FALSE OBVIOUS
  <2>1. PICK k \in T : \A m \in T : k <= m BY LeastNumber
  <2>2. k \in Nat /\ ~ \E w : W(k, w) OBVIOUS
  <2>3. k # 0
    <3>1. SUFFICES ASSUME k = 0 PROVE FALSE OBVIOUS
    <3> DEFINE w == [n \in 0 .. 0 |-> p]
    <3>2. W(0, w) OBVIOUS
    <3> QED BY <2>2, <3>1, <3>2
  <2>4. k - 1 \in Nat /\ ~(k <= k - 1) BY <2>2, <2>3
  <2>5. k - 1 \notin T BY <2>1, <2>4
  <2>6. PICK v : W(k - 1, v) BY <2>4, <2>5
  <2> DEFINE w == [n \in 0 .. k |-> IF n = k THEN NextHolder(v[k - 1], b) ELSE v[n]]
  <2>7. W(k, w)
    <3> SUFFICES ASSUME NEW n \in 0 .. k
                 PROVE  w[n] = IF n = 0 THEN p ELSE NextHolder(w[n - 1], b)
      OBVIOUS
    <3>1. \A i \in 0 .. k - 1 : w[i] = v[i] BY <2>2
    <3>2. CASE n = k BY <2>3, <2>4, <3>1, <3>2
    <3>3. CASE n # k
      <4>1. n \in 0 .. k - 1 /\ (n # 0 => n - 1 \in 0 .. k - 1) BY <2>2, <3>3
      <4>2. v[n] = IF n = 0 THEN p ELSE NextHolder(v[n - 1], b) BY <2>6, <4>1
      <4> QED BY <3>1, <4>1, <4>2
    <3> QED BY <3>2, <3>3
  <2> QED BY <2>2, <2>7
<1>2. \E w : W(NumPcbs, w) BY <1>1
<1> DEFINE w0 == CHOOSE w : W(NumPcbs, w)
<1>3. W(NumPcbs, w0) BY <1>2
<1>4. Walk(p, b) = [n \in 1 .. NumPcbs |-> w0[n]] BY DEF Walk
<1> HIDE DEF w0
<1>5. w0[0] = p BY <1>3
<1>6. \A n \in 1 .. NumPcbs : w0[n] = NextHolder(w0[n - 1], b)
  <2> SUFFICES ASSUME NEW n \in 1 .. NumPcbs PROVE w0[n] = NextHolder(w0[n - 1], b)
    OBVIOUS
  <2>1. n \in 0 .. NumPcbs /\ n # 0 OBVIOUS
  <2> QED BY <1>3, <2>1
<1> QED BY <1>4, <1>5, <1>6

LEMMA HolderTyped ==
  ASSUME TypeOK, NEW b \in [Task -> Lock \cup {NULL}], NEW t \in Task
  PROVE  NextHolder(t, b) \in Task \cup {NULL} /\ NextHolder(NULL, b) = NULL
BY SchedAssumption DEF NextHolder, TypeOK

(* The walk from inside a set that the notes do not lead out of stays in   *)
(* it.                                                                     *)
LEMMA WalkStays ==
  ASSUME NEW b, NEW S, \A t \in S : NextHolder(t, b) \in S, NEW p \in S
  PROVE  \A n \in 1 .. NumPcbs : Walk(p, b)[n] \in S
<1>0. NumPcbs \in Nat BY KernelAssumption
<1>1. PICK w : /\ w[0] = p
               /\ \A n \in 1 .. NumPcbs : /\ w[n] = NextHolder(w[n - 1], b)
                                          /\ Walk(p, b)[n] = w[n]
  <2>1. \E w : /\ w[0] = p
                /\ \A n \in 1 .. NumPcbs : /\ w[n] = NextHolder(w[n - 1], b)
                                           /\ Walk(p, b)[n] = w[n]
    BY <1>0, WalkFrom
  <2> QED BY <2>1
<1> DEFINE T == {n \in 0 .. NumPcbs : w[n] \notin S}
<1>2. T = {}
  <2> SUFFICES ASSUME T # {} PROVE FALSE OBVIOUS
  <2>1. PICK k \in T : \A m \in T : k <= m
    <3>1. T \in SUBSET Nat BY <1>0
    <3> HIDE DEF T
    <3> QED BY <3>1, LeastNumber
  <2>2. k \in 0 .. NumPcbs /\ w[k] \notin S OBVIOUS
  <2>3. k # 0 => w[k] = NextHolder(w[k - 1], b) BY <1>0, <1>1, <2>2
  <2>4. k # 0 BY <1>1, <2>2
  <2>5. k - 1 \in 0 .. NumPcbs /\ ~(k <= k - 1) BY <1>0, <2>2, <2>4
  <2>6. w[k - 1] \in S BY <2>1, <2>5
  <2> QED BY <2>2, <2>3, <2>4, <2>6
<1> QED BY <1>0, <1>1, <1>2

(* A walk that does not end and does not come back to p goes round in a    *)
(* circle that p is not on: there are more steps than tasks.               *)
LEMMA WalkCircles ==
  ASSUME TypeOK, NEW p \in Task, NEW b \in [Task -> Lock \cup {NULL}], Diverges(p, b)
  PROVE  \E S \in SUBSET (Task \ {p}) :
           /\ S # {} /\ \A t \in S : NextHolder(t, b) \in S
           /\ \A t \in S : \E n \in 1 .. NumPcbs : t = Walk(p, b)[n]
<1> DEFINE N == NumPcbs
<1>0. /\ N \in Nat \ {0} /\ IsFiniteSet(Task) /\ Cardinality(Task) = N /\ NULL \notin Task
  <2>1. N \in Nat \ {0} /\ Task = 0 .. N - 1 BY KernelAssumption
  <2> HIDE DEF N
  <2>2. IsFiniteSet(0 .. N - 1) BY <2>1, FS_Interval
  <2> QED BY <2>1, <2>2, SchedAssumption DEF N, NumPcbs
<1>1. PICK w : /\ w[0] = p
               /\ \A n \in 1 .. N : w[n] = NextHolder(w[n - 1], b) /\ Walk(p, b)[n] = w[n]
  BY <1>0, WalkFrom
<1>2. /\ w[0] = p /\ w[N] # NULL
      /\ \A n \in 1 .. N : /\ w[n] # p /\ w[n] = NextHolder(w[n - 1], b)
                           /\ w[n] = Walk(p, b)[n]
  <2>1. N \in 1 .. N BY <1>0
  <2>2. Walk(p, b)[N] # NULL /\ \A n \in 1 .. N : Walk(p, b)[n] # p
    BY DEF Diverges, FindsDeadlock
  <2> QED BY <1>1, <2>1, <2>2
<1> HIDE DEF N
<1>3. \A n \in 0 .. N : w[n] \in Task
  <2> DEFINE B == {n \in 0 .. N : w[n] \notin Task}
  <2> SUFFICES ASSUME B # {} PROVE FALSE OBVIOUS
  <2>1. PICK k \in B : \A m \in B : k <= m
    <3>1. B \in SUBSET Nat BY <1>0
    <3> HIDE DEF B
    <3> QED BY <3>1, LeastNumber
  <2>2. k \in 1 .. N /\ w[k] \notin Task BY <1>0, <1>2
  <2>3. k - 1 \in 0 .. N /\ ~(k <= k - 1) BY <1>0, <2>2
  <2>4. w[k - 1] \in Task BY <2>1, <2>3
  <2>5. w[k] = NULL BY <1>2, <2>2, <2>4, HolderTyped
  <2> DEFINE C == {n \in k .. N : w[n] # NULL}
  <2>6. C # {} /\ C \in SUBSET Nat
    <3>1. N \in k .. N BY <1>0, <2>2
    <3> QED BY <1>0, <1>2, <2>2, <3>1
  <2>7. PICK c \in C : \A m \in C : c <= m
    <3> HIDE DEF C
    <3> QED BY <2>6, LeastNumber
  <2>8. c \in k .. N /\ w[c] # NULL OBVIOUS
  <2>9. c # k BY <2>5, <2>8
  <2>10. c \in 1 .. N /\ c - 1 \in k .. N /\ ~(c <= c - 1) BY <1>0, <2>2, <2>8, <2>9
  <2>11. w[c - 1] = NULL BY <2>7, <2>10
  <2>12. w[c] = NULL BY <1>2, <2>10, <2>11, <2>4, HolderTyped
  <2> QED BY <2>8, <2>12
<1>4. PICK i, j \in 0 .. N : i < j /\ w[i] = w[j]
  <2>1. IsFiniteSet(0 .. N) /\ Cardinality(0 .. N) = N + 1
    <3>1. IsFiniteSet(0 .. N) /\ Cardinality(0 .. N) = IF 0 > N THEN 0 ELSE N - 0 + 1
      BY <1>0, FS_Interval
    <3> QED BY <1>0, <3>1
  <2>2. Cardinality(Task) < Cardinality(0 .. N) BY <1>0, <2>1
  <2> DEFINE f == [n \in 0 .. N |-> w[n]]
  <2>3. f \in [0 .. N -> Task] BY <1>3
  <2> HIDE DEF f
  <2>4. PICK x, y \in 0 .. N : x # y /\ f[x] = f[y]
    BY <1>0, <2>1, <2>2, <2>3, FS_PigeonHole
  <2>5. w[x] = w[y] BY <2>4 DEF f
  <2>6. x < y \/ y < x BY <1>0, <2>4
  <2> QED BY <2>5, <2>6
<1>5. i \in 1 .. N
  <2>1. j \in 1 .. N BY <1>0, <1>4
  <2> QED BY <1>0, <1>2, <1>4, <2>1
<1> DEFINE S == {w[k] : k \in i .. j - 1}
<1>6. /\ S # {} /\ S \in SUBSET (Task \ {p})
      /\ \A t \in S : \E n \in 1 .. N : t = Walk(p, b)[n]
  <2>1. i \in i .. j - 1 /\ \A k \in i .. j - 1 : k \in 1 .. N BY <1>0, <1>4, <1>5
  <2>2. w[i] \in S BY <2>1
  <2>3. \A k \in i .. j - 1 : w[k] \in Task \ {p}
    BY <1>0, <1>2, <1>3, <2>1
  <2>4. \A k \in i .. j - 1 : w[k] = Walk(p, b)[k] /\ k \in 1 .. N BY <1>2, <2>1
  <2> QED BY <2>2, <2>3, <2>4
<1>7. ASSUME NEW k \in i .. j - 1 PROVE NextHolder(w[k], b) \in S
  <2>1. k + 1 \in 1 .. N /\ (k + 1) - 1 = k /\ (k + 1 = j \/ k + 1 \in i .. j - 1)
    BY <1>0, <1>4, <1>5
  <2>2. w[k + 1] = NextHolder(w[k], b) BY <1>2, <2>1
  <2>3. i \in i .. j - 1 BY <1>0, <1>4
  <2> QED BY <1>4, <2>1, <2>2, <2>3
<1>8. \A t \in S : NextHolder(t, b) \in S BY <1>7
<1> HIDE DEF S
<1> QED BY <1>6, <1>8 DEF N

(* Who waits for a mutex is noted as blocked on it, and where the notes    *)
(* lead round in a circle, somebody on it is noted as holding what he is   *)
(* blocked on: he was handed it. Kills make no other circle either.        *)
WaitsNoted == \A l \in Lock : \A t \in ToSet(wq[l]) : blocking[t] = l

OnlySelfLoops ==
  \A S \in SUBSET Task :
    S # {} /\ (\A t \in S : NextHolder(t, blocking) \in S) =>
      \E t \in S : NextHolder(t, blocking) = t

Circles == WaitsNoted /\ OnlySelfLoops

(* Fewer waiters, fewer notes.                                             *)
LEMMA CirclesKept ==
  ASSUME TypeOK, Circles, \A l \in Lock : ToSet(wq'[l]) \subseteq ToSet(wq[l]),
         UNCHANGED <<blocking, heldTask>>
  PROVE  Circles'
BY DEF Circles, WaitsNoted, OnlySelfLoops, NextHolder

(* Another note for p, or none, where p is on no circle with it.           *)
LEMMA NoteOnNoCircle ==
  ASSUME TypeOK, Circles, NEW p \in Task, NEW x \in Lock \cup {NULL},
         heldTask' = heldTask, blocking' = [blocking EXCEPT ![p] = x],
         \A S \in SUBSET Task :
           p \in S /\ (\A t \in S : NextHolder(t, blocking') \in S) =>
             \E t \in S : NextHolder(t, blocking') = t
  PROVE  OnlySelfLoops'
<1>1. \A t \in Task \ {p} : NextHolder(t, blocking)' = NextHolder(t, blocking)
  BY DEF TypeOK, NextHolder
<1>2. \A t : NextHolder(t, blocking)' = NextHolder(t, blocking')
  BY DEF NextHolder
<1>3. ASSUME NEW S \in SUBSET Task, S # {}, \A t \in S : NextHolder(t, blocking)' \in S
      PROVE  \E t \in S : NextHolder(t, blocking)' = t
  <2>1. CASE p \in S BY <1>2, <1>3, <2>1
  <2>2. CASE p \notin S
    <3>1. \A t \in S : NextHolder(t, blocking)' = NextHolder(t, blocking) BY <1>1, <2>2
    <3> QED BY <1>3, <3>1 DEF Circles, OnlySelfLoops
  <2> QED BY <2>1, <2>2
<1> QED BY <1>3 DEF OnlySelfLoops

(* The mutex is passed to its first waiter, who is then noted as its       *)
(* holder, and still as blocked on it; or to nobody.                       *)
LEMMA ReleaseCircles ==
  ASSUME TypeOK, OnePlace, Circles, NEW l \in Lock, ReleaseHelper(l), blocking' = blocking
  PROVE  Circles'
<1>0. /\ wq \in [Queue -> Seq(Task)] /\ l \in Queue /\ Lock \subseteq Queue /\ NULL \notin Task
      /\ ready \in Seq(Task) /\ NULL \notin Lock
  BY SchedAssumption, KernelAssumption DEF TypeOK, SchedTypeOK, Queue
<1>1. /\ \A k \in Lock : ToSet(wq'[k]) \subseteq ToSet(wq[k])
      /\ \/ \E h \in ToSet(wq[l]) : heldTask' = [heldTask EXCEPT ![l] = h]
         \/ heldTask' = [heldTask EXCEPT ![l] = NULL]
  <2>1. CASE wq[l] # <<>> /\ UnblockOne(l) /\ heldTask' = [heldTask EXCEPT ![l] = Last(ready')]
    <3> DEFINE h == Head(wq[l])
    <3>1. /\ h \in Task /\ h \in ToSet(wq[l]) /\ ToSet(Tail(wq[l])) \subseteq ToSet(wq[l])
      BY <1>0, <2>1, TailQueue
    <3>2. wq' = [wq EXCEPT ![l] = Tail(@)] /\ ready' = Append(ready, h) BY <2>1 DEF UnblockOne
    <3> HIDE DEF h
    <3>3. Last(ready') = h BY <1>0, <3>1, <3>2, AppendProperties DEF Last
    <3>4. \A k \in Lock : ToSet(wq'[k]) \subseteq ToSet(wq[k]) BY <1>0, <3>1, <3>2
    <3> QED BY <2>1, <3>1, <3>3, <3>4
  <2>2. CASE wq' = wq /\ heldTask' = [heldTask EXCEPT ![l] = NULL] BY <2>2
  <2> QED BY <2>1, <2>2 DEF ReleaseHelper
<1>2. WaitsNoted' BY <1>1 DEF Circles, WaitsNoted
<1>3. OnlySelfLoops'
  <2> SUFFICES ASSUME NEW S \in SUBSET Task, S # {},
                      \A t \in S : NextHolder(t, blocking)' \in S,
                      \A t \in S : NextHolder(t, blocking)' # t
               PROVE  FALSE
    BY DEF OnlySelfLoops
  <2>1. heldTask \in [Lock -> Task \cup {NULL}] /\ blocking \in [Task -> Lock \cup {NULL}]
    BY DEF TypeOK
  <2>2. \A t \in S : NextHolder(t, blocking)' = IF blocking[t] = NULL THEN NULL
                                                ELSE heldTask'[blocking[t]]
    BY <1>0 DEF NextHolder
  <2>3. \A t \in S : blocking[t] # l
    <3> SUFFICES ASSUME NEW u \in S, blocking[u] = l PROVE FALSE OBVIOUS
    <3>1. NextHolder(u, blocking)' = heldTask'[l] BY <1>0, <2>2
    <3>2. CASE heldTask' = [heldTask EXCEPT ![l] = NULL]
      BY <1>0, <2>1, <3>1, <3>2
    <3>3. ASSUME NEW h \in ToSet(wq[l]), heldTask' = [heldTask EXCEPT ![l] = h] PROVE FALSE
      <4>1. heldTask'[l] = h /\ blocking[h] = l
        BY <2>1, <3>3 DEF Circles, WaitsNoted
      <4>2. h \in S BY <3>1, <4>1
      <4>3. NextHolder(h, blocking)' = h BY <1>0, <2>2, <4>1, <4>2
      <4> QED BY <4>2, <4>3
    <3> QED BY <1>1, <3>2, <3>3
  <2>4. \A t \in S : NextHolder(t, blocking)' = NextHolder(t, blocking)
    BY <1>0, <1>1, <2>1, <2>2, <2>3 DEF NextHolder
  <2> QED BY <2>4 DEF Circles, OnlySelfLoops
<1> QED BY <1>2, <1>3 DEF Circles

(* A note is made where the walk ends, taken back where it came to p, and  *)
(* stays where the walk goes round for ever, on a circle without p.        *)
LEMMA AcquireTakenCircles ==
  ASSUME TypeOK, OnePlace, Circles, NEW p \in Task, NEW l \in Lock, AcquireTaken(p, l)
  PROVE  /\ Circles'
         /\ mode' = "hang" => \E k \in Lock : heldTask'[k] # NULL /\ blocking'[heldTask'[k]] = k
<1> DEFINE noted == [blocking EXCEPT ![p] = l]
<1>0. /\ wq \in [Queue -> Seq(Task)] /\ l \in Queue /\ Lock \subseteq Queue /\ NULL \notin Task
      /\ heldTask' = heldTask /\ cur = p /\ mode = "run" /\ NULL \notin Lock
      /\ heldTask \in [Lock -> Task \cup {NULL}] /\ blocking \in [Task -> Lock \cup {NULL}]
      /\ NumPcbs \in Nat \ {0}
  BY SchedAssumption, KernelAssumption
  DEF TypeOK, SchedTypeOK, Queue, AcquireTaken, Request, Process, User
<1>1. \A q \in Queue : p \notin ToSet(wq[q]) BY <1>0, InNoQueue
<1>2. noted \in [Task -> Lock \cup {NULL}] BY <1>0
<1>3. CASE FindsDeadlock(p, noted) /\ blocking' = [blocking EXCEPT ![p] = NULL] /\ UNCHANGED schedVars
  <2>1. wq' = wq /\ mode' = mode BY <1>3 DEF schedVars
  <2>2. \A S \in SUBSET Task : p \in S => \E t \in S : NextHolder(t, blocking') \notin S
    BY <1>0, <1>3 DEF NextHolder
  <2>3. OnlySelfLoops' BY <1>0, <1>3, <2>2, NoteOnNoCircle
  <2>4. WaitsNoted' BY <1>0, <1>1, <1>3, <2>1 DEF Circles, WaitsNoted
  <2> QED BY <1>0, <2>1, <2>3, <2>4 DEF Circles
<1>4. CASE Diverges(p, noted) /\ blocking' = noted /\ wq' = wq
  <2> HIDE DEF noted
  <2>1. PICK S \in SUBSET (Task \ {p}) :
               /\ S # {} /\ \A t \in S : NextHolder(t, noted) \in S
               /\ \A t \in S : \E n \in 1 .. NumPcbs : t = Walk(p, noted)[n]
    BY <1>2, <1>4, WalkCircles
  <2>2. \A t \in S : NextHolder(t, noted) = NextHolder(t, blocking)
    BY <1>0 DEF noted, NextHolder
  <2>3. PICK u \in S : NextHolder(u, noted) = u BY <2>1, <2>2 DEF Circles, OnlySelfLoops
  <2>4. OnlySelfLoops'
    <3>1. ASSUME NEW R \in SUBSET Task, p \in R, \A t \in R : NextHolder(t, noted) \in R
          PROVE  \E t \in R : NextHolder(t, noted) = t
      <4>1. \A n \in 1 .. NumPcbs : Walk(p, noted)[n] \in R BY <3>1, WalkStays
      <4>2. u \in R BY <2>1, <4>1
      <4> QED BY <2>3, <4>2
    <3>2. blocking' = [blocking EXCEPT ![p] = l] BY <1>4 DEF noted
    <3> QED BY <1>0, <1>4, <3>1, <3>2, NoteOnNoCircle
  <2>5. WaitsNoted' BY <1>0, <1>1, <1>4 DEF Circles, WaitsNoted, noted
  <2>6. /\ noted[u] \in Lock /\ heldTask'[noted[u]] = u /\ u \in Task
    BY <1>0, <1>2, <2>3 DEF NextHolder
  <2>7. heldTask'[noted[u]] # NULL /\ blocking'[heldTask'[noted[u]]] = noted[u]
    BY <1>0, <1>4, <2>6
  <2> QED BY <2>4, <2>5, <2>6, <2>7 DEF Circles
<1>5. CASE ~FindsDeadlock(p, noted) /\ ~Diverges(p, noted) /\ blocking' = noted /\ Block(p, l)
  <2>1. mode' # "hang"
    <3>1. mode' \in {mode, "masked"} BY <1>5 DEF Block, Schedule
    <3> QED BY <1>0, <3>1
  <2>2. WaitsNoted'
    <3>1. wq' = [wq EXCEPT ![l] = Append(@, p)] BY <1>5 DEF Block
    <3>2. ToSet(Append(wq[l], p)) = ToSet(wq[l]) \cup {p} BY <1>0, AppendQueue
    <3> QED BY <1>0, <1>1, <1>5, <3>1, <3>2 DEF Circles, WaitsNoted
  <2> HIDE DEF noted
  <2>3. OnlySelfLoops'
    <3>1. ASSUME NEW S \in SUBSET Task, p \in S, \A t \in S : NextHolder(t, noted) \in S
          PROVE  FALSE
      <4>1. Walk(p, noted)[NumPcbs] \in S
        <5>1. \A n \in 1 .. NumPcbs : Walk(p, noted)[n] \in S BY <3>1, WalkStays
        <5>2. NumPcbs \in 1 .. NumPcbs BY <1>0
        <5> QED BY <5>1, <5>2
      <4>2. Walk(p, noted)[NumPcbs] = NULL BY <1>5 DEF Diverges
      <4> QED BY <1>0, <4>1, <4>2
    <3>2. blocking' = [blocking EXCEPT ![p] = l] BY <1>5 DEF noted
    <3> QED BY <1>0, <1>5, <3>1, <3>2, NoteOnNoCircle
  <2> QED BY <2>1, <2>2, <2>3 DEF Circles
<1> QED BY <1>3, <1>4, <1>5 DEF AcquireTaken, schedVars

LEMMA AcquireReturnCircles ==
  ASSUME TypeOK, OnePlace, Circles, NEW p \in Task, AcquireReturn(p)
  PROVE  Circles'
<1>0. /\ wq' = wq /\ heldTask' = heldTask /\ cur = p /\ blocking' = [blocking EXCEPT ![p] = NULL]
      /\ NULL \notin Task /\ Lock \subseteq Queue /\ blocking \in [Task -> Lock \cup {NULL}]
      /\ p # NULL
  BY SchedAssumption, KernelAssumption DEF AcquireReturn, schedVars, TypeOK, Queue
<1>1. \A q \in Queue : p \notin ToSet(wq[q]) BY <1>0, InNoQueue
<1>2. WaitsNoted' BY <1>0, <1>1 DEF Circles, WaitsNoted
<1>3. \A S \in SUBSET Task : p \in S => \E t \in S : NextHolder(t, blocking') \notin S
  BY <1>0 DEF NextHolder
<1>4. OnlySelfLoops' BY <1>0, <1>3, NoteOnNoCircle
<1> QED BY <1>2, <1>4 DEF Circles

(* The steps that note nothing add nobody to the queue of a mutex.         *)
LEMMA OtherStepCircles ==
  ASSUME TypeOK, OnePlace, Circles, NEW p \in Task,
         \/ Yield(p) \/ (\E ms \in SleepArg : Sleep(p, ms)) \/ Exit(p)
         \/ (\E ft \in FileType : Spawn(p, ft)) \/ (\E t \in Task : Wait(p, t))
         \/ (\E t \in Task : Kill(p, t)) \/ (\E k \in Lock : AcquireFree(p, k))
  PROVE  Circles'
<1>0. /\ wq \in [Queue -> Seq(Task)] /\ Task \subseteq Queue /\ Lock \subseteq Queue
      /\ Task \cap Lock = {} /\ waitIn \in [Task -> Queue \cup {NULL}]
  BY SchedAssumption, KernelAssumption DEF TypeOK, SchedTypeOK, Queue
<1>1. UNCHANGED <<blocking, heldTask>>
  BY DEF Yield, Sleep, Exit, Spawn, InitializePcb, Wait, Kill, KillDead, KillLost, KillTake,
         AcquireFree, Request, lockVars
<1>2. CASE wq' = wq BY <1>1, <1>2, CirclesKept
<1>3. ASSUME NEW v \in Task, NEW s, wq' = [wq EXCEPT ![v] = s] PROVE Circles'
  <2>1. \A l \in Lock : wq'[l] = wq[l] BY <1>0, <1>3
  <2> QED BY <1>1, <2>1, CirclesKept
<1>4. CASE Yield(p) \/ (\E ms \in SleepArg : Sleep(p, ms)) \/ (\E k \in Lock : AcquireFree(p, k))
  <2>1. CASE \E k \in Lock : AcquireFree(p, k) BY <1>2, <2>1 DEF AcquireFree, schedVars
  <2> QED BY <1>2, <1>4, <2>1, QueuesStay
<1>5. CASE Exit(p) BY <1>3, <1>5 DEF Exit, DoExit
<1>6. ASSUME NEW ft \in FileType, Spawn(p, ft) PROVE Circles'
  BY <1>2, <1>3, <1>6 DEF Spawn, InitializePcb, schedVars
<1>7. ASSUME NEW t \in Task, Wait(p, t) PROVE Circles'
  BY <1>3, <1>7 DEF Wait, Block
<1>8. ASSUME NEW v \in Task, Kill(p, v) PROVE Circles'
  <2>1. CASE KillDead(p, v) BY <1>2, <2>1 DEF KillDead
  <2>2. CASE KillLost(p, v) BY <1>3, <2>2 DEF KillLost
  <2>3. CASE KillTake(p, v) /\ wq' = [wq EXCEPT ![v] = <<>>] BY <1>3, <2>3
  <2>4. CASE /\ KillTake(p, v) /\ status[v] = "BLOCKED"
             /\ wq' = [[wq EXCEPT ![v] = <<>>] EXCEPT ![waitIn[v]] = Unlink(@, v)]
    <3>1. ASSUME NEW l \in Lock PROVE ToSet(wq'[l]) \subseteq ToSet(wq[l])
      <4>1. CASE waitIn[v] # l BY <1>0, <2>4, <4>1
      <4>2. CASE waitIn[v] = l
        <5>1. l # v /\ l \in Queue /\ wq[l] \in Seq(Task) BY <1>0
        <5>2. v \in ToSet(wq[l])
          BY <2>4, <4>2, <5>1, StatusNames, ContainsQueue DEF KillTake, Linked
        <5>3. wq'[l] = Unlink(wq[l], v) BY <1>0, <2>4, <4>2, <5>1
        <5>4. /\ IsInjective(wq[l]) => ToSet(Unlink(wq[l], v)) = ToSet(wq[l]) \ {v}
              /\ IsInjective(wq[l])
          BY <5>1, <5>2, UnlinkTyped, QueueFacts
        <5> QED BY <5>3, <5>4
      <4> QED BY <4>1, <4>2
    <3> QED BY <1>1, <3>1, CirclesKept
  <2> QED BY <1>8, <2>1, <2>2, <2>3, <2>4 DEF Kill, KillTake
<1> QED BY <1>4, <1>5, <1>6, <1>7, <1>8

LEMMA StepCircles ==
  ASSUME TypeOK, OnePlace, Circles, [Next]_vars
  PROVE  Circles'
<1>1. ASSUME NEW p \in Task, Call(p) PROVE Circles'
  <2>1. ASSUME NEW l \in Lock, AcquireTaken(p, l) PROVE Circles' BY <2>1, AcquireTakenCircles
  <2>2. ASSUME NEW l \in Lock, Release(p, l) PROVE Circles'
    BY <2>2, ReleaseCircles DEF Release
  <2>3. \/ Yield(p) \/ (\E ms \in SleepArg : Sleep(p, ms)) \/ Exit(p)
        \/ (\E ft \in FileType : Spawn(p, ft)) \/ (\E t \in Task : Wait(p, t))
        \/ (\E t \in Task : Kill(p, t)) \/ (\E l \in Lock : AcquireFree(p, l))
        \/ (\E l \in Lock : AcquireTaken(p, l)) \/ (\E l \in Lock : Release(p, l))
    BY <1>1 DEF Call
  <2> QED BY <2>1, <2>2, <2>3, OtherStepCircles
<1>2. CASE KillRelease
  <2>1. Head(toRelease) \in Lock BY <1>2, TailQueue DEF KillRelease, TypeOK
  <2> QED BY <1>2, <2>1, ReleaseCircles DEF KillRelease
<1>3. CASE KillDone BY <1>3, CirclesKept DEF KillDone
<1>4. ASSUME NEW p \in Task, AcquireReturn(p) PROVE Circles' BY <1>4, AcquireReturnCircles
<1>5. CASE Tick BY <1>5, CirclesKept DEF Tick, TimerIrq, lockVars
<1>6. CASE UNCHANGED vars BY <1>6, CirclesKept DEF vars, schedVars, lockVars
<1> QED BY <1>1, <1>2, <1>3, <1>4, <1>5, <1>6 DEF Next, KernelStep, Stuck

LEMMA CirclesAlways == Spec => []Circles
<1>1. Init => Circles
  <2> SUFFICES ASSUME Init PROVE Circles OBVIOUS
  <2>1. NULL \notin Task /\ Lock \subseteq Queue BY SchedAssumption, KernelAssumption DEF Queue
  <2>2. WaitsNoted BY <2>1, EmptyQueue DEF Init, WaitsNoted
  <2>3. \A t \in Task : NextHolder(t, blocking) = NULL BY DEF Init, NextHolder
  <2> QED BY <2>1, <2>2, <2>3 DEF Circles, OnlySelfLoops
<1>2. TypeOK /\ OnePlace /\ Circles /\ [Next]_vars => Circles' BY StepCircles
<1> QED BY <1>1, <1>2, TypeCorrect, EveryTaskInOnePlace, PTL DEF Spec

(* The notes that lock_acquire() follows lead round in no circle but that  *)
(* of a task which was handed the mutex it is noted as blocked on: through *)
(* every acquire, refusal, hand-over, exit, spawn and kill, whoever uses   *)
(* the mutexes and whoever is killed.                                      *)
THEOREM NoOtherCircle == Spec => []OnlySelfLoops
<1>1. Circles => OnlySelfLoops BY DEF Circles
<1> QED BY <1>1, CirclesAlways, PTL

(* So lock_acquire() ends, unless its walk comes to such a task. With      *)
(* kill() among the calls, mode does not tell this loop from the one in    *)
(* do_kill(); the next theorem is about every call.                        *)
THEOREM WalksEnd == ASSUME "kill" \notin Calls PROVE Spec => []DetectorEnds
<1>1. Init => DetectorEnds BY DEF Init, DetectorEnds
<1>2. ASSUME TypeOK, OnePlace, Circles, DetectorEnds, [Next]_vars PROVE DetectorEnds'
  <2>1. CASE UNCHANGED vars
    BY <1>2, <2>1 DEF vars, schedVars, lockVars, DetectorEnds
  <2>2. ASSUME mode' # "hang" PROVE DetectorEnds' BY <2>2 DEF DetectorEnds
  <2>3. ASSUME NEW p \in Task, Call(p) PROVE DetectorEnds'
    <3>1. mode = "run" BY <2>3
      DEF Call, Yield, Sleep, Exit, Spawn, Wait, AcquireFree, AcquireTaken, Request, Release,
          Kill, KillDead, KillLost, KillTake, MayKill, Process, User
    <3>2. ASSUME NEW l \in Lock, AcquireTaken(p, l) PROVE DetectorEnds'
      BY <1>2, <3>2, AcquireTakenCircles DEF DetectorEnds
    <3>3. ASSUME ~ \E l \in Lock : AcquireTaken(p, l) PROVE mode' \in {mode, "masked"}
      <4>1. \A r, s, lf, st : Schedule(r, s, lf, st) => mode' \in {mode, "masked"} BY DEF Schedule
      <4>2. \/ Yield(p) \/ (\E ms \in SleepArg : Sleep(p, ms)) \/ Exit(p)
            \/ (\E ft \in FileType : Spawn(p, ft)) \/ (\E t \in Task : Wait(p, t))
            \/ (\E l \in Lock : AcquireFree(p, l)) \/ (\E l \in Lock : Release(p, l))
        BY <2>3, <3>3 DEF Call
      <4>3. CASE Yield(p) BY <4>1, <4>3 DEF Yield, DoYield
      <4>4. ASSUME NEW ms \in SleepArg, Sleep(p, ms) PROVE mode' \in {mode, "masked"}
        BY <4>1, <4>4 DEF Sleep, DoSleep
      <4>5. CASE Exit(p) BY <4>1, <4>5 DEF Exit, DoExit
      <4>6. ASSUME NEW ft \in FileType, Spawn(p, ft) PROVE mode' \in {mode, "masked"}
        <5>1. CASE UNCHANGED schedVars BY <5>1 DEF schedVars
        <5>2. CASE UNCHANGED mode BY <5>2
        <5> QED BY <4>6, <5>1, <5>2 DEF Spawn
      <4>7. ASSUME NEW t \in Task, Wait(p, t) PROVE mode' \in {mode, "masked"}
        BY <4>1, <4>7 DEF Wait, Block, schedVars
      <4>8. ASSUME NEW l \in Lock, AcquireFree(p, l) PROVE mode' \in {mode, "masked"}
        BY <4>8 DEF AcquireFree, schedVars
      <4>9. ASSUME NEW l \in Lock, Release(p, l) PROVE mode' \in {mode, "masked"}
        BY <4>9 DEF Release, schedVars
      <4> QED BY <4>2, <4>3, <4>4, <4>5, <4>6, <4>7, <4>8, <4>9
    <3> QED BY <2>2, <3>1, <3>2, <3>3
  <2>4. CASE KernelStep
    <3>1. mode = "run" /\ mode' = mode
      BY <2>4 DEF KernelStep, KillRelease, KillDone, AcquireReturn, schedVars
    <3> QED BY <2>2, <3>1
  <2>5. CASE Tick
    <3>1. mode = "run" /\ mode' \in {mode, "masked"} BY <2>5 DEF Tick, TimerIrq, Schedule
    <3> QED BY <2>2, <3>1
  <2> QED BY <1>2, <2>1, <2>3, <2>4, <2>5 DEF Next, Stuck
<1> QED BY <1>1, <1>2, CirclesAlways, TypeCorrect, EveryTaskInOnePlace, PTL DEF Spec

(* Whatever is killed: a lock_acquire() that loops for ever has come to a  *)
(* task that is noted both as blocked on a mutex and as holding it.        *)
LoopsOnlyThere ==
  [][\A p \in Task, l \in Lock : AcquireTaken(p, l) /\ mode' = "hang" =>
       \E k \in Lock : heldTask'[k] # NULL /\ blocking'[heldTask'[k]] = k]_vars

THEOREM WalksEndUnlessHanded == Spec => LoopsOnlyThere
<1> DEFINE A == \A p \in Task, l \in Lock : AcquireTaken(p, l) /\ mode' = "hang" =>
                  \E k \in Lock : heldTask'[k] # NULL /\ blocking'[heldTask'[k]] = k
<1>1. TypeOK /\ OnePlace /\ Circles /\ [Next]_vars => [A]_vars BY AcquireTakenCircles
<1>2. LoopsOnlyThere <=> [][A]_vars BY DEF LoopsOnlyThere
<1> HIDE DEF A
<1> QED BY <1>1, <1>2, CirclesAlways, TypeCorrect, EveryTaskInOnePlace, PTL DEF Spec
=============================================================================
