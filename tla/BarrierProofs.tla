---------------------------- MODULE BarrierProofs ---------------------------
(***************************************************************************)
(* Theorems about Barrier, for any number of threads, turns and sleeps:    *)
(* its ASSERTs hold, and the barrier implements the rendezvous.            *)
(***************************************************************************)
EXTENDS Barrier, SchedProofs

LEMMA BarrierFacts ==
  /\ Queue = Task \cup {barrier} /\ barrier \notin Task /\ NULL \notin Queue
  /\ Task = 0 .. NumThreads - 1 /\ NumThreads \in Nat /\ NumThreads # 0
BY SchedAssumption, BarrierAssumption DEF Queue

-----------------------------------------------------------------------------
(* The queues agree with the statuses, and the barrier has the only queue  *)
(* of blocked threads.                                                     *)
Blocked(w, st) ==
  /\ IsInjective(w[barrier]) /\ \A t \in ToSet(w[barrier]) : st[t] = "BLOCKED"
  /\ \A t \in Task : w[t] = <<>>

Queues ==
  /\ SchedTypeOK
  /\ QueuesAgree(ready, sleepq, status)
  /\ RunsAlone(cur, ready, status)
  /\ Blocked(wq, status)

LEMMA QueueTypes ==
  ASSUME Queues
  PROVE  /\ ready \in Seq(Task) /\ sleepq \in Seq(Task) /\ wq[barrier] \in Seq(Task)
         /\ ToSet(ready) \subseteq Task /\ ToSet(sleepq) \subseteq Task
         /\ ToSet(wq[barrier]) \subseteq Task
         /\ status \in [Task -> Status] /\ left \in [Task -> Nat] /\ wq \in [Queue -> Seq(Task)]
         /\ mode \in Mode
BY BarrierFacts, SetOfSeq DEF Queues, SchedTypeOK

(* The running thread is in no queue.                                      *)
LEMMA RunsOutside ==
  ASSUME Queues, NEW p \in Task, cur = p
  PROVE  p \notin ToSet(ready) /\ p \notin ToSet(sleepq) /\ p \notin ToSet(wq[barrier])
BY BarrierFacts, StatusNames DEF Queues, RunsAlone, QueuesAgree, Blocked

LEMMA Rescheduled ==
  ASSUME Queues, NEW r \in Seq(Task), NEW s \in Seq(Task), NEW lf \in [Task -> Nat],
         NEW st \in [Task -> Status], Schedule(r, s, lf, st), QueuesAgree(r, s, st),
         Blocked(wq', st), wq' \in [Queue -> Seq(Task)],
         waitIn' \in [Task -> Queue \cup {NULL}], type' = type
  PROVE  Queues'
<1>1. SchedTypeOK'
  <2>1. mode \in Mode /\ type \in [Task -> TaskType] BY DEF Queues, SchedTypeOK
  <2> QED BY <2>1, ScheduleTyped DEF SchedTypeOK
<1>2. /\ QueuesAgree(ready', sleepq', status') /\ RunsAlone(cur', ready', status')
      /\ OnlyWakes(st, status')
  BY SchedulePlaces
<1>3. ToSet(wq'[barrier]) \subseteq Task BY BarrierFacts, SetOfSeq
<1>4. Blocked(wq', status') BY <1>2, <1>3 DEF Blocked, OnlyWakes
<1> QED BY <1>1, <1>2, <1>4 DEF Queues

LEMMA YieldQueues ==
  ASSUME Queues, NEW p \in Task, cur = p, DoYield(p)
  PROVE  Queues'
<1> DEFINE r == Append(ready, p)
           st == [status EXCEPT ![p] = "READY"]
<1>1. r \in Seq(Task) /\ ToSet(r) = ToSet(ready) \cup {p} /\ IsInjective(r)
  BY QueueTypes, RunsOutside, AppendQueue DEF Queues, QueuesAgree
<1>2. st \in [Task -> Status] /\ \A t \in Task : st[t] = IF t = p THEN "READY" ELSE status[t]
  BY QueueTypes, StatusNames
<1>3. Schedule(r, sleepq, left, st) /\ UNCHANGED <<type, waitIn, wq>> BY DEF DoYield
<1> HIDE DEF r, st
<1>4. QueuesAgree(r, sleepq, st)
  BY <1>1, <1>2, QueueTypes, RunsOutside, StatusNames DEF Queues, QueuesAgree
<1>5. Blocked(wq', st) BY <1>2, <1>3, QueueTypes, RunsOutside DEF Queues, Blocked
<1>6. wq' \in [Queue -> Seq(Task)] /\ waitIn' \in [Task -> Queue \cup {NULL}]
  BY <1>3 DEF Queues, SchedTypeOK
<1> QED BY <1>1, <1>2, <1>3, <1>4, <1>5, <1>6, QueueTypes, Rescheduled

LEMMA SleepQueues ==
  ASSUME Queues, NEW p \in Task, cur = p, NEW ms \in SleepArg, DoSleep(p, ms)
  PROVE  Queues' /\ wq' = wq
<1> DEFINE ticks == ms \div 1000
           s == Append(sleepq, p)
           st == [status EXCEPT ![p] = "SLEEPING"]
           lf == [left EXCEPT ![p] = ticks]
<1>0. ticks \in Nat BY BarrierAssumption
<1>1. s \in Seq(Task) /\ ToSet(s) = ToSet(sleepq) \cup {p} /\ IsInjective(s)
  BY QueueTypes, RunsOutside, AppendQueue DEF Queues, QueuesAgree
<1>2. st \in [Task -> Status] /\ \A t \in Task : st[t] = IF t = p THEN "SLEEPING" ELSE status[t]
  BY QueueTypes, StatusNames
<1>3. lf \in [Task -> Nat] BY <1>0, QueueTypes
<1>4. CASE Schedule(ready, s, lf, st) /\ UNCHANGED <<type, waitIn, wq>>
  <2> HIDE DEF s, st, lf
  <2>1. QueuesAgree(ready, s, st)
    BY <1>1, <1>2, QueueTypes, RunsOutside DEF Queues, QueuesAgree
  <2>2. Blocked(wq', st) BY <1>2, <1>4, QueueTypes, RunsOutside DEF Queues, Blocked
  <2>3. wq' \in [Queue -> Seq(Task)] /\ waitIn' \in [Task -> Queue \cup {NULL}]
    BY <1>4 DEF Queues, SchedTypeOK
  <2> QED BY <1>1, <1>2, <1>3, <1>4, <2>1, <2>2, <2>3, QueueTypes, Rescheduled
<1>5. CASE /\ left' = [left EXCEPT ![p] = 0]
           /\ UNCHANGED <<status, type, waitIn, ready, sleepq, wq, cur, mode>>
  <2>1. left' \in [Task -> Nat] BY <1>5, QueueTypes
  <2> QED BY <1>5, <2>1 DEF Queues, SchedTypeOK
<1> QED BY <1>4, <1>5 DEF DoSleep

(* Nobody waits for a thread that exits.                                   *)
LEMMA ExitQueues ==
  ASSUME Queues, NEW p \in Task, cur = p, DoExit(p)
  PROVE  Queues' /\ wq'[barrier] = wq[barrier]
<1> DEFINE st == [Unblocked(wq[p]) EXCEPT ![p] = "EXITED"]
           r == ready \o wq[p]
<1>1. wq[p] = <<>> /\ p # barrier /\ p \in Queue BY BarrierFacts DEF Queues, Blocked
<1>2. r \in Seq(Task) /\ ToSet(r) = ToSet(ready) /\ IsInjective(r)
  <2>1. ToSet(<<>>) = {} /\ IsInjective(<<>>) /\ <<>> \in Seq(Task) BY EmptyQueue
  <2>2. /\ ready \o <<>> \in Seq(Task) /\ ToSet(ready \o <<>>) = ToSet(ready) \cup ToSet(<<>>)
        /\ IsInjective(ready \o <<>>)
    BY <2>1, QueueTypes, ConcatQueue DEF Queues, QueuesAgree
  <2> QED BY <1>1, <2>1, <2>2
<1>3. st \in [Task -> Status] /\ \A t \in Task : st[t] = IF t = p THEN "EXITED" ELSE status[t]
  BY <1>1, QueueTypes, StatusNames, EmptyQueue DEF Unblocked
<1>4. /\ Schedule(r, sleepq, left, st) /\ UNCHANGED <<type, waitIn>>
      /\ wq' = [wq EXCEPT ![p] = <<>>]
  BY DEF DoExit
<1> HIDE DEF r, st
<1>5. QueuesAgree(r, sleepq, st)
  BY <1>2, <1>3, QueueTypes, RunsOutside DEF Queues, QueuesAgree
<1>6. wq' = wq
  BY <1>1, <1>4, QueueTypes
<1>7. Blocked(wq', st) BY <1>3, <1>6, QueueTypes, RunsOutside DEF Queues, Blocked
<1>8. wq' \in [Queue -> Seq(Task)] /\ waitIn' \in [Task -> Queue \cup {NULL}]
  BY <1>4, <1>6 DEF Queues, SchedTypeOK
<1> QED BY <1>2, <1>3, <1>4, <1>5, <1>6, <1>7, <1>8, QueueTypes, Rescheduled

LEMMA BlockQueues ==
  ASSUME Queues, NEW p \in Task, cur = p, Block(p, barrier), type' = type
  PROVE  /\ Queues'
         /\ ToSet(wq'[barrier]) = ToSet(wq[barrier]) \cup {p}
         /\ Len(wq'[barrier]) = Len(wq[barrier]) + 1
<1> DEFINE st == [status EXCEPT ![p] = "BLOCKED"]
<1>1. st \in [Task -> Status] /\ \A t \in Task : st[t] = IF t = p THEN "BLOCKED" ELSE status[t]
  BY QueueTypes, StatusNames
<1>2. /\ Schedule(ready, sleepq, left, st)
      /\ wq' = [wq EXCEPT ![barrier] = Append(@, p)] /\ waitIn' = [waitIn EXCEPT ![p] = barrier]
  BY DEF Block
<1> HIDE DEF st
<1>3. /\ Append(wq[barrier], p) \in Seq(Task) /\ IsInjective(Append(wq[barrier], p))
      /\ ToSet(Append(wq[barrier], p)) = ToSet(wq[barrier]) \cup {p}
  BY QueueTypes, RunsOutside, AppendQueue DEF Queues, Blocked
<1>4. /\ wq' \in [Queue -> Seq(Task)] /\ waitIn' \in [Task -> Queue \cup {NULL}]
      /\ wq'[barrier] = Append(wq[barrier], p) /\ \A t \in Task : wq'[t] = wq[t]
  BY <1>2, <1>3, QueueTypes, BarrierFacts DEF Queues, SchedTypeOK
<1>5. QueuesAgree(ready, sleepq, st)
  BY <1>1, QueueTypes, RunsOutside DEF Queues, QueuesAgree
<1>6. Blocked(wq', st) BY <1>1, <1>3, <1>4, QueueTypes DEF Queues, Blocked
<1>7. Queues' BY <1>1, <1>2, <1>4, <1>5, <1>6, QueueTypes, Rescheduled
<1> QED BY <1>3, <1>4, <1>7, QueueTypes, AppendProperties

(* The last thread to arrive makes the others ready and goes on.           *)
LEMMA FreeQueues ==
  ASSUME Queues, NEW p \in Task, cur = p, type' = type,
         wq' = [wq EXCEPT ![barrier] = <<>>], status' = Unblocked(wq[barrier]),
         ready' = ready \o wq[barrier], UNCHANGED <<left, waitIn, sleepq, cur, mode>>
  PROVE  Queues' /\ ToSet(wq'[barrier]) = {} /\ Len(wq'[barrier]) = 0
<1> DEFINE W == ToSet(wq[barrier])
<1>1. /\ wq'[barrier] = <<>> /\ \A t \in Task : wq'[t] = <<>>
      /\ wq' \in [Queue -> Seq(Task)]
  BY QueueTypes, BarrierFacts DEF Queues, Blocked
<1>2. /\ W \cap ToSet(ready) = {} /\ W \cap ToSet(sleepq) = {} /\ W \subseteq Task
      /\ p \notin W /\ p \notin ToSet(ready)
  BY QueueTypes, RunsOutside, StatusNames DEF Queues, Blocked, QueuesAgree
<1>3. /\ ready' \in Seq(Task) /\ ToSet(ready') = ToSet(ready) \cup W /\ IsInjective(ready')
  BY <1>2, QueueTypes, ConcatQueue DEF Queues, Blocked, QueuesAgree
<1>4. /\ status' \in [Task -> Status]
      /\ \A t \in Task : status'[t] = IF t \in W THEN "READY" ELSE status[t]
  BY QueueTypes, StatusNames DEF Unblocked
<1>5. p \in Task /\ cur' = p /\ p # NULL /\ status[p] \in Runnable
  BY BarrierFacts DEF Queues, RunsAlone
<1> HIDE DEF W
<1>6. QueuesAgree(ready', sleepq', status')
  <2>1. \A t \in ToSet(ready') : status'[t] \in Runnable
    BY <1>2, <1>3, <1>4, QueueTypes, StatusNames DEF Queues, QueuesAgree
  <2>2. sleepq' = sleepq /\ IsInjective(sleepq) BY DEF Queues, QueuesAgree
  <2>3. \A t \in ToSet(sleepq) : status'[t] = "SLEEPING"
    BY <1>2, <1>4, QueueTypes DEF Queues, QueuesAgree
  <2> QED BY <1>3, <2>1, <2>2, <2>3 DEF QueuesAgree
<1>7. RunsAlone(cur', ready', status') BY <1>2, <1>3, <1>4, <1>5 DEF RunsAlone
<1>8. Blocked(wq', status') BY <1>1, EmptyQueue DEF Blocked
<1>9. SchedTypeOK' BY <1>1, <1>3, <1>4 DEF Queues, SchedTypeOK
<1> QED BY <1>1, <1>6, <1>7, <1>8, <1>9, EmptyQueue DEF Queues

LEMMA TickQueues ==
  ASSUME Queues, TimerIrq(TRUE)
  PROVE  Queues' /\ wq' = wq
<1>1. Ticked \in [Task -> Nat] BY QueueTypes DEF Ticked
<1>2. UNCHANGED <<type, waitIn, wq>> BY DEF TimerIrq
<1>3. CASE left' = Ticked /\ UNCHANGED <<status, ready, sleepq, cur, mode>>
  BY <1>1, <1>2, <1>3 DEF Queues, SchedTypeOK
<1>4. CASE Schedule(ready, sleepq, Ticked, status)
  <2>1. Blocked(wq', status) /\ QueuesAgree(ready, sleepq, status) BY <1>2 DEF Queues
  <2>2. wq' \in [Queue -> Seq(Task)] /\ waitIn' \in [Task -> Queue \cup {NULL}]
    BY <1>2 DEF Queues, SchedTypeOK
  <2> QED BY <1>1, <1>2, <1>4, <2>1, <2>2, QueueTypes, Rescheduled
<1> QED BY <1>3, <1>4 DEF TimerIrq

-----------------------------------------------------------------------------
(* All threads are in the same round, but for the ones in the barrier's    *)
(* queue, which have arrived at the next one and which curNum counts.      *)
InRound(r) ==
  \A id \in Task :
    IF id \in ToSet(wq[barrier]) THEN Arrived(id) = r + 1 /\ pc[id] \in {"in1", "in2"}
                                 ELSE Arrived(id) = r

Turns ==
  /\ pc \in [Task -> Step] /\ value \in [Task -> 0 .. NumIterations] /\ initialized \in BOOLEAN
  /\ \A id \in Task : /\ pc[id] \in {"start", "count"} => value[id] < NumIterations
                      /\ pc[id] \in {"passed", "exited"} => value[id] = NumIterations
  /\ curNum = Len(wq[barrier]) /\ curNum < NumThreads
  /\ \E r \in Int : InRound(r)

(* A full barrier has all the other threads in its queue: there are no     *)
(* more.                                                                   *)
LEMMA AllHere ==
  ASSUME Queues, NEW p \in Task, cur = p, Len(wq[barrier]) + 1 = NumThreads
  PROVE  ToSet(wq[barrier]) = Task \ {p}
<1> DEFINE w == wq[barrier]
           T == Task \ {p}
<1>1. /\ w \in Seq(Task) /\ IsInjective(w) /\ p \notin ToSet(w) /\ Len(w) \in Nat
      /\ w \in [1 .. Len(w) -> Task]
  BY QueueTypes, RunsOutside, LenProperties DEF Queues, Blocked
<1>2. IsFiniteSet(Task) /\ Cardinality(Task) = NumThreads
  <2>1. 0 \in Int /\ NumThreads - 1 \in Int /\ ~(0 > NumThreads - 1) BY BarrierFacts
  <2>2. /\ IsFiniteSet(0 .. NumThreads - 1)
        /\ Cardinality(0 .. NumThreads - 1)
             = IF 0 > NumThreads - 1 THEN 0 ELSE (NumThreads - 1) - 0 + 1
    BY <2>1, FS_Interval
  <2> QED BY <2>1, <2>2, BarrierFacts
<1>3. IsFiniteSet(T) /\ Cardinality(T) = NumThreads - 1 BY <1>2, FS_RemoveElement
<1>4. Cardinality(1 .. Len(w)) = Len(w)
  <2>1. 1 \in Int /\ Len(w) \in Int BY <1>1
  <2>2. Cardinality(1 .. Len(w)) = IF 1 > Len(w) THEN 0 ELSE Len(w) - 1 + 1
    BY <2>1, FS_Interval
  <2> QED BY <1>1, <2>2
<1>5. w \in Injection(1 .. Len(w), T)
  <2>1. \A i \in 1 .. Len(w) : w[i] \in T BY <1>1 DEF ToSet
  <2>2. w \in [1 .. Len(w) -> T] BY <1>1, <2>1
  <2> QED BY <1>1, <2>2 DEF Injection
<1>10. Len(w) = NumThreads - 1 BY <1>1, BarrierFacts
<1> HIDE DEF w, T
<1>6. Cardinality(1 .. Len(w)) = Cardinality(T) BY <1>3, <1>4, <1>10
<1>7. w \in Surjection(1 .. Len(w), T) BY <1>3, <1>5, <1>6, FS_Injection
<1>8. \A t \in T : \E i \in DOMAIN w : w[i] = t BY <1>1, <1>7 DEF Surjection
<1>9. ToSet(w) \subseteq T
  <2>1. ToSet(w) \subseteq Task BY <1>1, SetOfSeq
  <2> QED BY <1>1, <2>1 DEF T
<1> QED BY <1>8, <1>9 DEF ToSet, w, T

(* What one barrier_wait() by p does to the rounds of all the others, and  *)
(* where p stands after it.                                                *)
LEMMA WaitRounds ==
  ASSUME Queues, Turns, NEW p \in Task, cur = p, BarrierWait(p), type' = type,
         NEW r \in Int, InRound(r), NEW s \in {"in1", "in2"},
         pc' = [pc EXCEPT ![p] = s], Arrived(p)' = r + 1,
         \A t \in Task : t # p => value'[t] = value[t]
  PROVE  /\ Queues'
         /\ curNum' = Len(wq'[barrier]) /\ curNum' < NumThreads
         /\ \E q \in Int : InRound(q)'
<1>1. /\ curNum \in Nat /\ curNum = Len(wq[barrier]) /\ curNum < NumThreads
      /\ NumThreads \in Nat /\ NumThreads # 0
      /\ pc \in [Task -> Step] /\ p \notin ToSet(wq[barrier])
  BY QueueTypes, RunsOutside, LenProperties, BarrierFacts DEF Turns
<1>2. \A t \in Task : t # p => pc'[t] = pc[t] /\ Arrived(t)' = Arrived(t)
  BY <1>1 DEF Arrived
<1>3. pc'[p] = s BY <1>1
<1>4. CASE curNum + 1 = NumThreads
  <2>1. Queues' /\ ToSet(wq'[barrier]) = {} /\ Len(wq'[barrier]) = 0 /\ curNum' = 0
    BY <1>4, FreeQueues DEF BarrierWait
  <2>2. ToSet(wq[barrier]) = Task \ {p} BY <1>1, <1>4, AllHere
  <2>3. InRound(r + 1)' BY <1>2, <2>1, <2>2 DEF InRound
  <2> QED BY <1>1, <2>1, <2>3
<1>5. CASE curNum + 1 # NumThreads
  <2>1. /\ Queues' /\ ToSet(wq'[barrier]) = ToSet(wq[barrier]) \cup {p}
        /\ Len(wq'[barrier]) = Len(wq[barrier]) + 1 /\ curNum' = curNum + 1
    BY <1>5, BlockQueues DEF BarrierWait
  <2>2. InRound(r)' BY <1>1, <1>2, <1>3, <2>1 DEF InRound
  <2> QED BY <1>1, <1>5, <2>1, <2>2
<1> QED BY <1>4, <1>5

(* What the mapping to Rendezvous makes of a step of p.                    *)
A == [id \in Task |-> Arrived(id)]
P == [id \in Task |-> Passed(id)]

LEMMA SameRounds ==
  ASSUME \A id \in Task : Arrived(id)' = Arrived(id) /\ Passed(id)' = Passed(id)
  PROVE  [R!Next]_(R!vars)
<1>1. A' = A /\ P' = P BY DEF A, P
<1> QED BY <1>1 DEF A, P, R!vars

LEMMA OneArrives ==
  ASSUME NEW p \in Task, Passed(p) = Arrived(p),
         \A id \in Task : /\ Arrived(id)' = IF id = p THEN Arrived(id) + 1 ELSE Arrived(id)
                          /\ Passed(id)' = Passed(id)
  PROVE  [R!Next]_(R!vars)
<1>1. P[p] = A[p] /\ A' = [A EXCEPT ![p] = @ + 1] /\ P' = P BY DEF A, P
<1>2. R!Arrive(p) BY <1>1 DEF A, P, R!Arrive
<1> QED BY <1>2 DEF R!Next

LEMMA OneLeaves ==
  ASSUME NEW p \in Task, Passed(p) < Arrived(p), \A u \in Task : Arrived(p) <= Arrived(u),
         \A id \in Task : /\ Passed(id)' = IF id = p THEN Passed(id) + 1 ELSE Passed(id)
                          /\ Arrived(id)' = Arrived(id)
  PROVE  [R!Next]_(R!vars)
<1>1. P[p] < A[p] /\ (\A u \in Task : A[p] <= A[u]) /\ P' = [P EXCEPT ![p] = @ + 1] /\ A' = A
  BY DEF A, P
<1>2. R!Leave(p) BY <1>1 DEF A, P, R!Leave
<1> QED BY <1>2 DEF R!Next

(* A step that leaves the barrier and its counter alone, and everybody in  *)
(* the round where he was, keeps the rounds.                               *)
LEMMA SameTurns ==
  ASSUME Turns, wq'[barrier] = wq[barrier], curNum' = curNum,
         \A id \in Task : Arrived(id)' = Arrived(id),
         \A id \in ToSet(wq[barrier]) : pc'[id] = pc[id]
  PROVE  /\ curNum' = Len(wq'[barrier]) /\ curNum' < NumThreads
         /\ \E r \in Int : InRound(r)'
<1>1. PICK r \in Int : InRound(r) BY DEF Turns
<1>2. InRound(r)' BY <1>1 DEF InRound
<1> QED BY <1>2 DEF Turns

Good == Queues /\ Turns

LEMMA StartGood ==
  ASSUME Good, NEW p \in Task, Start(p)
  PROVE  Good' /\ [R!Next]_(R!vars)
<1>1. /\ p = cur /\ pc[p] = "start" /\ UNCHANGED <<curNum, value>>
      /\ pc \in [Task -> Step] /\ value \in [Task -> 0 .. NumIterations]
  BY DEF Start, At, Good, Turns
<1>2. Queues' /\ wq' = wq
  <2>1. CASE DoYield(p) BY <1>1, <2>1, YieldQueues DEF Good, DoYield
  <2>2. CASE UNCHANGED schedVars
    BY <2>2 DEF Good, schedVars, Queues, SchedTypeOK
  <2> QED BY <2>1, <2>2 DEF Start
<1>3. (pc' = pc /\ initialized' = initialized) \/ (pc' = [pc EXCEPT ![p] = "count"] /\ initialized')
  BY DEF Start, GoTo
<1>4. \A id \in Task : /\ pc'[id] = pc[id] \/ (id = p /\ pc'[id] = "count")
                       /\ Arrived(id)' = Arrived(id) /\ Passed(id)' = Passed(id)
  BY <1>1, <1>3 DEF Arrived, Passed
<1>5. p \notin ToSet(wq[barrier]) /\ ToSet(wq[barrier]) \subseteq Task
  BY <1>1, RunsOutside, QueueTypes DEF Good
<1>6. Turns'
  <2>1. pc' \in [Task -> Step] /\ initialized' \in BOOLEAN
    BY <1>1, <1>3 DEF Good, Turns, Step, Start
  <2>2. /\ curNum' = Len(wq'[barrier]) /\ curNum' < NumThreads
        /\ \E r \in Int : InRound(r)'
    BY <1>1, <1>2, <1>4, <1>5, SameTurns DEF Good
  <2> QED BY <1>1, <1>4, <2>1, <2>2 DEF Good, Turns
<1> QED BY <1>2, <1>4, <1>6, SameRounds DEF Good

LEMMA CountGood ==
  ASSUME Good, NEW p \in Task, Count(p)
  PROVE  Good' /\ [R!Next]_(R!vars)
<1>1. /\ p = cur /\ pc[p] = "count" /\ BarrierWait(p) /\ UNCHANGED <<type, initialized>>
      /\ value' = [value EXCEPT ![p] = @ + 1] /\ pc' = [pc EXCEPT ![p] = "in1"]
      /\ pc \in [Task -> Step] /\ value \in [Task -> 0 .. NumIterations]
      /\ value[p] < NumIterations /\ NumIterations \in Nat
  BY BarrierAssumption DEF Count, At, GoTo, Good, Turns
<1>2. /\ \A t \in Task : /\ pc'[t] = IF t = p THEN "in1" ELSE pc[t]
                         /\ value'[t] = IF t = p THEN value[p] + 1 ELSE value[t]
      /\ pc' \in [Task -> Step] /\ value' \in [Task -> 0 .. NumIterations]
  BY <1>1 DEF Step
<1>3. /\ Passed(p) = Arrived(p)
      /\ \A t \in Task : /\ Arrived(t)' = IF t = p THEN Arrived(t) + 1 ELSE Arrived(t)
                         /\ Passed(t)' = Passed(t)
  BY <1>1, <1>2 DEF Arrived, Passed
<1>4. PICK r \in Int : InRound(r) BY DEF Good, Turns
<1>5. Arrived(p) = r BY <1>1, <1>4, RunsOutside DEF Good, InRound
<1>6. /\ Queues' /\ curNum' = Len(wq'[barrier]) /\ curNum' < NumThreads
      /\ \E q \in Int : InRound(q)'
  BY <1>1, <1>2, <1>3, <1>4, <1>5, WaitRounds DEF Good
<1>7. Turns' BY <1>1, <1>2, <1>6 DEF Good, Turns
<1> QED BY <1>3, <1>6, <1>7, OneArrives DEF Good

LEMMA CheckGood ==
  ASSUME Good, NEW p \in Task, Check(p)
  PROVE  Good' /\ [R!Next]_(R!vars)
<1>1. /\ p = cur /\ pc[p] = "check" /\ BarrierWait(p) /\ UNCHANGED <<type, value, initialized>>
      /\ pc' = [pc EXCEPT ![p] = "in2"]
      /\ pc \in [Task -> Step] /\ value \in [Task -> 0 .. NumIterations]
      /\ NumIterations \in Nat
  BY BarrierAssumption DEF Check, At, GoTo, Good, Turns
<1>2. /\ \A t \in Task : pc'[t] = IF t = p THEN "in2" ELSE pc[t]
      /\ pc' \in [Task -> Step]
  BY <1>1 DEF Step
<1>3. /\ Passed(p) = Arrived(p)
      /\ \A t \in Task : /\ Arrived(t)' = IF t = p THEN Arrived(t) + 1 ELSE Arrived(t)
                         /\ Passed(t)' = Passed(t)
  BY <1>1, <1>2 DEF Arrived, Passed
<1>4. PICK r \in Int : InRound(r) BY DEF Good, Turns
<1>5. Arrived(p) = r BY <1>1, <1>4, RunsOutside DEF Good, InRound
<1>6. /\ Queues' /\ curNum' = Len(wq'[barrier]) /\ curNum' < NumThreads
      /\ \E q \in Int : InRound(q)'
  BY <1>1, <1>2, <1>3, <1>4, <1>5, WaitRounds DEF Good
<1>7. Turns' BY <1>1, <1>2, <1>6 DEF Good, Turns
<1> QED BY <1>3, <1>6, <1>7, OneArrives DEF Good

(* Who returns from barrier_wait() is not in its queue, so nobody is a     *)
(* round behind.                                                           *)
LEMMA ReturnGood ==
  ASSUME Good, NEW p \in Task, Return(p)
  PROVE  Good' /\ [R!Next]_(R!vars)
<1>1. /\ p = cur /\ UNCHANGED <<schedVars, curNum, value, initialized>>
      /\ pc[p] \in {"in1", "in2"}
      /\ \E s \in Step : /\ pc' = [pc EXCEPT ![p] = s]
                         /\ pc[p] = "in1" => s = "sleep"
                         /\ pc[p] = "in2" => s = IF value[p] < NumIterations THEN "count" ELSE "passed"
      /\ pc \in [Task -> Step] /\ value \in [Task -> 0 .. NumIterations]
      /\ NumIterations \in Nat
  BY BarrierAssumption DEF Return, At, GoTo, Good, Turns, Step
<1>2. PICK s \in Step : /\ pc' = [pc EXCEPT ![p] = s]
                        /\ pc[p] = "in1" => s = "sleep"
                        /\ pc[p] = "in2" => s = IF value[p] < NumIterations THEN "count" ELSE "passed"
  BY <1>1
<1>3. /\ \A t \in Task : pc'[t] = IF t = p THEN s ELSE pc[t]
      /\ pc' \in [Task -> Step] /\ wq' = wq /\ curNum' = curNum /\ value' = value
      /\ s \in {"sleep", "count", "passed"}
  BY <1>1, <1>2 DEF schedVars
<1>4. \A t \in Task : Arrived(t)' = Arrived(t)
  BY <1>1, <1>2, <1>3 DEF Arrived
<1>5. /\ Passed(p) < Arrived(p)
      /\ \A t \in Task : Passed(t)' = IF t = p THEN Passed(t) + 1 ELSE Passed(t)
  BY <1>1, <1>3, <1>4 DEF Arrived, Passed
<1>6. PICK r \in Int : InRound(r) BY DEF Good, Turns
<1>7. p \notin ToSet(wq[barrier]) /\ ToSet(wq[barrier]) \subseteq Task
  BY <1>1, RunsOutside, QueueTypes DEF Good
<1>8. \A u \in Task : Arrived(p) <= Arrived(u) BY <1>6, <1>7 DEF InRound
<1>9. Queues' BY <1>1 DEF Good, schedVars, Queues, SchedTypeOK
<1>10. /\ curNum' = Len(wq'[barrier]) /\ curNum' < NumThreads
       /\ \E q \in Int : InRound(q)'
  BY <1>3, <1>4, <1>7, SameTurns DEF Good
<1>11. Turns' BY <1>1, <1>2, <1>3, <1>10 DEF Good, Turns
<1> QED BY <1>4, <1>5, <1>8, <1>9, <1>11, OneLeaves DEF Good

(* Sleeping, exiting and time do not move anybody to another round.        *)
LEMMA OtherGood ==
  ASSUME Good, (\E p \in Task : Pause(p) \/ Exit(p)) \/ Tick
  PROVE  Good' /\ [R!Next]_(R!vars)
<1>1. /\ pc \in [Task -> Step] /\ value \in [Task -> 0 .. NumIterations]
      /\ NumIterations \in Nat /\ initialized \in BOOLEAN
  BY BarrierAssumption DEF Good, Turns
<1>2. ASSUME NEW p \in Task, NEW s \in {"check", "exited"}, p = cur, pc' = [pc EXCEPT ![p] = s],
             pc[p] = IF s = "check" THEN "sleep" ELSE "passed", Queues', wq'[barrier] = wq[barrier],
             UNCHANGED <<curNum, value, initialized>>
      PROVE  Good' /\ [R!Next]_(R!vars)
  <2>1. \A t \in Task : /\ pc'[t] = IF t = p THEN s ELSE pc[t]
                        /\ Arrived(t)' = Arrived(t) /\ Passed(t)' = Passed(t)
    BY <1>1, <1>2 DEF Arrived, Passed
  <2>2. pc' \in [Task -> Step] BY <1>1, <1>2 DEF Step
  <2>3. p \notin ToSet(wq[barrier]) /\ ToSet(wq[barrier]) \subseteq Task
    BY <1>2, RunsOutside, QueueTypes DEF Good
  <2>4. /\ curNum' = Len(wq'[barrier]) /\ curNum' < NumThreads
        /\ \E q \in Int : InRound(q)'
    BY <1>2, <2>1, <2>3, SameTurns DEF Good
  <2>5. Turns' BY <1>1, <1>2, <2>1, <2>2, <2>4 DEF Good, Turns
  <2> QED BY <1>2, <2>1, <2>5, SameRounds DEF Good
<1>3. ASSUME NEW p \in Task, Pause(p) PROVE Good' /\ [R!Next]_(R!vars)
  <2>1. /\ p = cur /\ pc[p] = "sleep" /\ pc' = [pc EXCEPT ![p] = "check"]
        /\ UNCHANGED <<curNum, value, initialized>> /\ \E ms \in SleepArg : DoSleep(p, ms)
    BY <1>3 DEF Pause, At, GoTo
  <2>2. Queues' /\ wq' = wq BY <2>1, SleepQueues DEF Good
  <2> QED BY <1>2, <2>1, <2>2
<1>4. ASSUME NEW p \in Task, Exit(p) PROVE Good' /\ [R!Next]_(R!vars)
  <2>1. /\ p = cur /\ pc[p] = "passed" /\ pc' = [pc EXCEPT ![p] = "exited"]
        /\ UNCHANGED <<curNum, value, initialized>> /\ DoExit(p)
    BY <1>4 DEF Exit, At, GoTo
  <2>2. Queues' /\ wq'[barrier] = wq[barrier] BY <2>1, ExitQueues DEF Good
  <2> QED BY <1>2, <2>1, <2>2
<1>5. CASE Tick
  <2>1. Queues' /\ wq' = wq /\ UNCHANGED <<curNum, pc, value, initialized>>
    BY <1>5, TickQueues DEF Good, Tick
  <2>2. \A t \in Task : Arrived(t)' = Arrived(t) /\ Passed(t)' = Passed(t)
    BY <2>1 DEF Arrived, Passed
  <2>3. Turns' BY <2>1, <2>2, SameTurns DEF Good, Turns
  <2> QED BY <2>1, <2>2, <2>3, SameRounds DEF Good
<1> QED BY <1>3, <1>4, <1>5

LEMMA InitGood == Init => Good /\ R!Init
<1> SUFFICES ASSUME Init PROVE Good /\ R!Init
  OBVIOUS
<1>1. PICK order \in [1 .. NumThreads -> Task] :
        IsInjective(order) /\ cur = Head(order) /\ ready = Tail(order)
  BY DEF Init
<1>2. order \in Seq(Task) /\ order # <<>>
  <2>1. order \in Seq(Task) BY BarrierFacts, SeqDef
  <2>2. Len(order) = NumThreads BY <2>1, BarrierFacts, LenProperties
  <2> QED BY <2>1, <2>2, BarrierFacts, EmptySeq
<1>3. /\ cur \in Task /\ ready \in Seq(Task) /\ IsInjective(ready) /\ cur \notin ToSet(ready)
      /\ ToSet(ready) \subseteq Task
  <2>1. /\ Head(order) \in Task /\ Tail(order) \in Seq(Task) /\ IsInjective(Tail(order))
        /\ ToSet(Tail(order)) = ToSet(order) \ {Head(order)}
    BY <1>1, <1>2, TailQueue
  <2>2. cur = Head(order) /\ ready = Tail(order) BY <1>1
  <2>3. ToSet(ready) \subseteq Task BY <2>1, <2>2, SetOfSeq
  <2> QED BY <2>1, <2>2, <2>3
<1>4. /\ status = [t \in Task |-> "FIRST_TIME"] /\ type = [t \in Task |-> "KERNEL_THREAD"]
      /\ left = [t \in Task |-> 0] /\ waitIn = [t \in Task |-> NULL]
      /\ sleepq = <<>> /\ wq = [q \in Queue |-> <<>>] /\ mode = "run" /\ curNum = 0
      /\ pc = [t \in Task |-> "start"] /\ value = [t \in Task |-> 0] /\ initialized = FALSE
  BY DEF Init
<1>5. <<>> \in Seq(Task) /\ ToSet(<<>>) = {} /\ IsInjective(<<>>) /\ Len(<<>>) = 0
  BY EmptyQueue, EmptySeq
<1>6. SchedTypeOK BY <1>3, <1>4, <1>5, StatusNames DEF SchedTypeOK, TaskType, Mode
<1>7. QueuesAgree(ready, sleepq, status) /\ RunsAlone(cur, ready, status)
  BY <1>3, <1>4, <1>5, StatusNames DEF QueuesAgree, RunsAlone
<1>8. Blocked(wq, status) BY <1>4, <1>5, BarrierFacts DEF Blocked
<1>9. \A t \in Task : Arrived(t) = 0 /\ Passed(t) = 0 BY <1>4 DEF Arrived, Passed
<1>10. InRound(0) BY <1>4, <1>5, <1>9, BarrierFacts DEF InRound
<1>11. Turns
  <2>1. NumIterations \in Nat /\ 0 < NumIterations BY BarrierAssumption
  <2>2. pc \in [Task -> Step] /\ \A t \in Task : pc[t] = "start" BY <1>4 DEF Step
  <2>3. value \in [Task -> 0 .. NumIterations] /\ \A t \in Task : value[t] = 0 BY <1>4, <2>1
  <2>4. wq[barrier] = <<>> BY <1>4, BarrierFacts
  <2>5. curNum = Len(wq[barrier]) /\ curNum < NumThreads BY <1>4, <1>5, <2>4, BarrierFacts
  <2>6. initialized \in BOOLEAN /\ ~initialized BY <1>4
  <2>7. \E q \in Int : InRound(q) BY <1>10
  <2> QED BY <2>1, <2>2, <2>3, <2>5, <2>6, <2>7 DEF Turns
<1>12. R!Init
  <2>1. A = [t \in Task |-> 0] /\ P = [t \in Task |-> 0] BY <1>9 DEF A, P
  <2> QED BY <2>1 DEF R!Init, A, P
<1> QED BY <1>6, <1>7, <1>8, <1>11, <1>12 DEF Good, Queues

LEMMA StepGood == Good /\ [Next]_vars => Good' /\ [R!Next]_(R!vars)
<1> SUFFICES ASSUME Good, [Next]_vars PROVE Good' /\ [R!Next]_(R!vars)
  OBVIOUS
<1>1. ASSUME NEW p \in Task, Start(p) \/ Count(p) \/ Check(p) \/ Return(p)
      PROVE  Good' /\ [R!Next]_(R!vars)
  BY <1>1, StartGood, CountGood, CheckGood, ReturnGood
<1>2. CASE (\E p \in Task : Pause(p) \/ Exit(p)) \/ Tick BY <1>2, OtherGood
<1>3. CASE UNCHANGED vars
  <2>1. Good'
    BY <1>3 DEF vars, schedVars, Good, Queues, SchedTypeOK, Turns, InRound, Arrived
  <2>2. \A t \in Task : Arrived(t)' = Arrived(t) /\ Passed(t)' = Passed(t)
    BY <1>3 DEF vars, Arrived, Passed
  <2> QED BY <2>1, <2>2, SameRounds
<1> QED BY <1>1, <1>2, <1>3 DEF Next, CpuStep

-----------------------------------------------------------------------------
(* The barrier implements the safety part of the rendezvous: nobody comes  *)
(* back from a barrier_wait() that somebody has not reached (sync.c:185).  *)
THEOREM ImplementsSafely == Spec => R!SafeSpec
<1> QED BY InitGood, StepGood, PTL DEF Spec, R!SafeSpec

(* What makes R!Together inductive: a thread that has arrived and not      *)
(* passed is one round ahead of its own passes.                            *)
RoundsOK ==
  /\ A \in [Task -> Nat] /\ P \in [Task -> Nat]
  /\ \A t \in Task : P[t] <= A[t] /\ A[t] <= P[t] + 1
  /\ \A t, u \in Task : P[t] <= A[u]

LEMMA StepRounds == RoundsOK /\ [R!Next]_(R!vars) => RoundsOK'
<1> SUFFICES ASSUME RoundsOK, [R!Next]_(R!vars) PROVE RoundsOK'
  OBVIOUS
<1>1. ASSUME NEW t \in Task, R!Arrive(t) PROVE RoundsOK'
  <2>1. A' = [A EXCEPT ![t] = @ + 1] /\ P' = P /\ P[t] = A[t] BY <1>1 DEF R!Arrive, A, P
  <2> HIDE DEF A, P
  <2> QED BY <2>1 DEF RoundsOK
<1>2. ASSUME NEW t \in Task, R!Leave(t) PROVE RoundsOK'
  <2>1. /\ P' = [P EXCEPT ![t] = @ + 1] /\ A' = A /\ P[t] < A[t]
        /\ \A u \in Task : A[t] <= A[u]
    BY <1>2 DEF R!Leave, A, P
  <2> HIDE DEF A, P
  <2> QED BY <2>1 DEF RoundsOK
<1>3. CASE UNCHANGED R!vars
  <2>1. A' = A /\ P' = P BY <1>3 DEF R!vars, A, P
  <2> QED BY <2>1 DEF RoundsOK
<1> QED BY <1>1, <1>2, <1>3 DEF R!Next

(* barrier_wait(): "Block until all n threads have called barrier_wait"    *)
(* (sync.c:185): in every round, and for any number of threads, nobody has *)
(* passed a round that another one has not reached.                        *)
THEOREM StaysTogether == Spec => []R!Together
<1>1. R!Init => RoundsOK
  <2> SUFFICES ASSUME R!Init PROVE RoundsOK
    OBVIOUS
  <2>1. A = [t \in Task |-> 0] /\ P = [t \in Task |-> 0] BY DEF R!Init, A, P
  <2> QED BY <2>1 DEF RoundsOK
<1>2. RoundsOK /\ [R!Next]_(R!vars) => RoundsOK' BY StepRounds
<1>3. RoundsOK => R!Together BY DEF RoundsOK, R!Together, A, P
<1> QED BY <1>1, <1>2, <1>3, ImplementsSafely, PTL DEF R!SafeSpec

(* The ASSERTs of barrier_thread() hold.                                   *)
THEOREM ValuesStayEqual == Spec => []ValuesEqual
<1>1. Good => ValuesEqual
  <2> SUFFICES ASSUME Good PROVE ValuesEqual
    OBVIOUS
  <2>1. PICK r \in Int : InRound(r) BY DEF Good, Turns
  <2>2. pc \in [Task -> Step] /\ value \in [Task -> 0 .. NumIterations]
        /\ NumIterations \in Nat
    BY BarrierAssumption DEF Good, Turns
  <2>3. TypeOK
    <3>1. curNum \in 0 .. NumThreads - 1
      BY QueueTypes, LenProperties, BarrierFacts DEF Good, Turns
    <3> QED BY <3>1 DEF TypeOK, Good, Turns, Queues
  <2>4. ASSUME NEW id \in Task, At(id, "check"), NEW j \in Task PROVE value[j] = value[id]
    <3>1. Arrived(id) = r /\ Arrived(id) = 2 * value[id] - 1
      BY <2>1, <2>4, RunsOutside DEF Good, At, InRound, Arrived
    <3>2. CASE j \in ToSet(wq[barrier])
      BY <2>1, <2>2, <2>4, <3>1, <3>2 DEF InRound, Arrived
    <3>3. CASE j \notin ToSet(wq[barrier])
      BY <2>1, <2>2, <2>4, <3>1, <3>3 DEF InRound, Arrived
    <3> QED BY <3>2, <3>3
  <2> QED BY <2>3, <2>4 DEF ValuesEqual, Good, Turns
<1> QED BY <1>1, InitGood, StepGood, PTL DEF Spec
=============================================================================
