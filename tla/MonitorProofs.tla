---------------------------- MODULE MonitorProofs ---------------------------
(***************************************************************************)
(* Theorems about Monitor, for any number of turns, however often the      *)
(* threads yield in them.                                                  *)
(***************************************************************************)
EXTENDS Monitor, SchedProofs

(* Where a thread has the mutex, and where it may be while another runs.   *)
Inside == {"test", "use", "trace", "leave"}
Parked == {"start", "use", "leave", "rejoin", "exited"}

(* The mutex is taken while somebody is inside, who is there alone: the    *)
(* other has not begun, or has asked to come back, or has left for good.   *)
OneInside ==
  /\ \A th \in Thread : pc[th] \in Inside =>
       ~free /\ pc[Other(th)] \in {"start", "rejoin", "exited"}
  /\ ~free => \E th \in Thread : pc[th] \in Inside

(* thread3 does not begin before thread2 has, which then finds 0 and waits *)
(* for thread3.                                                            *)
Beginning ==
  /\ pc[thread2] = "start" => ~init /\ pc[thread3] = "start"
  /\ pc[thread3] = "start" =>
       shared_var = 0 /\ pc[thread2] \in {"start", "enter", "test", "join", "rejoin"}

(* A condition's queue is for the thread that waits for the condition. It  *)
(* is there while the condition does not hold, and only then.              *)
Waiting ==
  \A th \in Thread :
    /\ ToSet(wq[Condition(th)]) \subseteq {th}
    /\ th \in ToSet(wq[Condition(th)]) => pc[th] = "rejoin"
    /\ pc[th] = "join" => ~MayCount(th, shared_var)
    /\ pc[th] = "rejoin" =>
         (th \in ToSet(wq[Condition(th)]) <=> ~MayCount(th, shared_var))

(* Between its read and its write of shared_var, a thread has what it read.*)
Reading ==
  \A th \in Thread : pc[th] = "use" => tmp[th] = shared_var /\ MayCount(th, shared_var)

Turned == shared_var = Counted(thread2) + Counted(thread3)

(* Nobody waits for a thread to exit.                                      *)
NobodyJoins == \A t \in Task : wq[t] = <<>>

Monitored ==
  /\ TypeOK
  /\ InPlace
  /\ NobodyJoins
  /\ \A th \in Thread : cur # th => pc[th] \in Parked
  /\ OneInside
  /\ Beginning
  /\ Waiting
  /\ Reading
  /\ Turned

-----------------------------------------------------------------------------
LEMMA ThreadFacts ==
  /\ Thread \subseteq Task /\ thread2 \in Thread /\ thread3 \in Thread /\ thread2 # thread3
  /\ Obj \subseteq Queue /\ Task \subseteq Queue /\ Task \cap Obj = {} /\ Clock \in Task
  /\ \A o \in Obj : \E th \in Thread : o = Condition(th)
  /\ \A th \in Thread : /\ Condition(th) \in Obj /\ Condition(th) \in Queue
                        /\ Other(th) \in Thread /\ Other(th) # th /\ Other(Other(th)) = th
                        /\ Condition(Other(th)) # Condition(th)
                        /\ \A u \in Thread : u = th \/ u = Other(th)
  /\ Other(thread2) = thread3 /\ Other(thread3) = thread2
BY MonitorAssumption, SchedAssumption DEF Thread, Condition, Other, Queue

LEMMA TasksFinite == IsFiniteSet(Task) /\ Task # {}
<1>1. /\ IsFiniteSet({thread2}) /\ IsFiniteSet({thread2} \cup {thread3})
      /\ IsFiniteSet(({thread2} \cup {thread3}) \cup {Clock})
  BY FS_EmptySet, FS_AddElement
<1>2. Task = ({thread2} \cup {thread3}) \cup {Clock} BY MonitorAssumption DEF Thread
<1> QED BY <1>1, <1>2

(* The conditions exclude each other, and one of them holds.               *)
LEMMA OneMayCount ==
  ASSUME NEW th \in Thread, NEW v \in Nat
  PROVE  MayCount(Other(th), v) <=> ~MayCount(th, v)
BY MonitorAssumption DEF MayCount, Other, Thread

LEMMA CountFromZero == ~MayCount(thread2, 0) /\ MayCount(thread3, 0)
BY MonitorAssumption DEF MayCount

-----------------------------------------------------------------------------
LEMMA Begins == Init => Monitored
<1> SUFFICES ASSUME Init PROVE Monitored OBVIOUS
<1>1. PICK order \in SetToSeqs(Task) : cur = Head(order) /\ ready = Tail(order) BY DEF Init
<1>2. status \in [Task -> Runnable] BY StatusNames DEF Init
<1>3. /\ cur \in Task /\ ready \in Seq(Task)
      /\ QueuesAgree(ready, <<>>, status) /\ RunsAlone(cur, ready, status)
  BY <1>1, <1>2, TasksFinite, OrderPlaces
<1>4. QueuesAgree(ready, sleepq, status) BY <1>3 DEF Init
<1>5. SchedTypeOK
  <2>1. status \in [Task -> Status] /\ type \in [Task -> TaskType]
    BY StatusNames DEF Init, TaskType
  <2>2. left \in [Task -> Nat] /\ waitIn \in [Task -> Queue \cup {NULL}] /\ mode \in Mode
    BY DEF Init, Mode
  <2>3. wq \in [Queue -> Seq(Task)] /\ sleepq \in Seq(Task)
    <3>1. <<>> \in Seq(Task) BY EmptySeq
    <3> QED BY <3>1 DEF Init
  <2> QED BY <1>3, <2>1, <2>2, <2>3 DEF SchedTypeOK
<1>6. \A q \in Queue : wq[q] = <<>> /\ ToSet(wq[q]) = {} /\ IsInjective(wq[q])
  BY EmptyQueue DEF Init
<1>7. InPlace BY <1>3, <1>4, <1>5, <1>6 DEF InPlace, WaitsAgree
<1>8. TypeOK BY <1>5, ThreadFacts DEF TypeOK, Init, Step
<1>9. NobodyJoins BY <1>6, ThreadFacts DEF NobodyJoins
<1>10. /\ \A th \in Thread : pc[th] = "start" /\ turn[th] = 0
       /\ free = TRUE /\ init = FALSE /\ shared_var = 0
  BY DEF Init
<1>11. Turned BY <1>10, ThreadFacts DEF Turned, Counted
<1>12. OneInside BY <1>10 DEF OneInside, Inside
<1>13. Beginning BY <1>10, ThreadFacts DEF Beginning
<1>14. Waiting BY <1>6, <1>10, ThreadFacts DEF Waiting
<1>15. Reading BY <1>10 DEF Reading
<1> QED BY <1>7, <1>8, <1>9, <1>10, <1>11, <1>12, <1>13, <1>14, <1>15 DEF Monitored, Parked

-----------------------------------------------------------------------------
(* Where the other thread is while th runs.                                *)
LEMMA WhileRunning ==
  ASSUME Monitored, NEW th \in Thread, cur = th
  PROVE  /\ pc[Other(th)] \in Parked /\ wq[th] = <<>>
         /\ th \notin ToSet(wq[Condition(th)])
         /\ pc[th] \in Inside => ~free /\ pc[Other(th)] \in {"start", "rejoin", "exited"}
         /\ free => pc[Other(th)] \notin Inside
<1>1. cur # Other(th) BY ThreadFacts
<1>2. Monitored /\ InPlace /\ th \in Task /\ Condition(th) \in Queue /\ Other(th) \in Thread
  BY ThreadFacts DEF Monitored
<1>3. th \notin ToSet(wq[Condition(th)]) BY <1>2, PlaceOutside
<1> QED BY <1>1, <1>2, <1>3 DEF Monitored, NobodyJoins, OneInside

(* What a step does to pc.                                                 *)
LEMMA Goes ==
  ASSUME Monitored, NEW th \in Thread, NEW s \in Step, GoTo(th, s)
  PROVE  /\ pc' \in [Thread -> Step] /\ pc'[th] = s /\ pc'[Other(th)] = pc[Other(th)]
         /\ \A u \in Thread : u = th \/ u = Other(th)
BY ThreadFacts DEF Monitored, TypeOK, GoTo

LEMMA SamePlace ==
  ASSUME Monitored, UNCHANGED schedVars
  PROVE  InPlace' /\ NobodyJoins' /\ SchedTypeOK' /\ wq' = wq /\ cur' = cur
BY DEF Monitored, schedVars, InPlace, SchedTypeOK, QueuesAgree, RunsAlone, WaitsAgree, NobodyJoins

LEMMA Yields ==
  ASSUME Monitored, NEW p \in Task, cur = p, DoYield(p)
  PROVE  InPlace' /\ NobodyJoins' /\ SchedTypeOK' /\ wq' = wq
<1>1. InPlace' BY YieldInPlace DEF Monitored
<1> QED BY <1>1 DEF Monitored, DoYield, NobodyJoins, InPlace

(* Only the queue of the condition is touched by a signal, and is empty    *)
(* then.                                                                   *)
LEMMA Signals ==
  ASSUME Monitored, NEW th \in Thread, Signal(Condition(th)),
         UNCHANGED <<type, left, waitIn, sleepq, cur, mode>>
  PROVE  /\ InPlace' /\ NobodyJoins' /\ SchedTypeOK'
         /\ ToSet(wq'[Condition(th)]) = {}
         /\ wq'[Condition(Other(th))] = wq[Condition(Other(th))]
<1> DEFINE c == Condition(th)
<1>1. c \in Queue /\ c \notin Task /\ Condition(Other(th)) \in Queue /\ c # Condition(Other(th))
  BY ThreadFacts
<1>2. wq \in [Queue -> Seq(Task)] /\ ToSet(wq[c]) \subseteq {th} /\ InPlace /\ NobodyJoins
  BY PlaceFacts DEF Monitored, Waiting
<1>3. CASE wq[c] # <<>> /\ UnblockOne(c)
  <2>1. /\ InPlace' /\ wq' = [wq EXCEPT ![c] = Tail(@)] /\ Head(wq[c]) \in ToSet(wq[c])
        /\ ToSet(wq'[c]) = ToSet(wq[c]) \ {Head(wq[c])}
    BY <1>1, <1>2, <1>3, UnblockOneInPlace
  <2> HIDE DEF c
  <2>2. \A q \in Queue : q # c => wq'[q] = wq[q] BY <1>2, <2>1
  <2>3. NobodyJoins' BY <1>1, <1>2, <2>2, ThreadFacts DEF NobodyJoins
  <2> QED BY <1>1, <1>2, <2>1, <2>2, <2>3 DEF c, InPlace
<1>4. CASE wq[c] = <<>> /\ UNCHANGED <<status, ready, wq>>
  <2>1. InPlace' /\ NobodyJoins' /\ SchedTypeOK' /\ wq' = wq
    BY <1>4, SamePlace DEF schedVars
  <2> QED BY <1>4, <2>1, EmptyQueue
<1> QED BY <1>3, <1>4 DEF Signal

(* A trace that sleeps puts the thread in the sleep queue.                 *)
LEMMA Sleeps ==
  ASSUME Monitored, NEW p \in Task, cur = p, NEW ms \in Nat, DoSleep(p, ms)
  PROVE  /\ InPlace' /\ NobodyJoins' /\ SchedTypeOK' /\ wq' = wq
         /\ ms < 1000 => cur' = cur
<1>1. InPlace' /\ wq' = wq /\ (ms < 1000 => cur' = cur) BY SleepInPlace DEF Monitored
<1> QED BY <1>1 DEF Monitored, NobodyJoins, InPlace

(* Nobody waits for a thread that exits.                                   *)
LEMMA Exits ==
  ASSUME Monitored, NEW p \in Task, cur = p, DoExit(p)
  PROVE  InPlace' /\ NobodyJoins' /\ SchedTypeOK' /\ wq' = wq
<1> DEFINE st == [status EXCEPT ![p] = "EXITED"]
<1>1. /\ InPlace /\ NobodyJoins /\ wq[p] = <<>> /\ p \in Queue
      /\ status \in [Task -> Status] /\ left \in [Task -> Nat] /\ sleepq \in Seq(Task)
      /\ ready \in Seq(Task) /\ wq \in [Queue -> Seq(Task)]
  BY PlaceFacts, ThreadFacts DEF Monitored, NobodyJoins
<1>2. /\ p \notin ToSet(ready) /\ p \notin ToSet(sleepq)
      /\ \A q \in Queue : p \notin ToSet(wq[q])
  BY <1>1, PlaceOutside
<1>3. Unblocked(<<>>) = status /\ ready \o <<>> = ready
  <2>1. ToSet(<<>>) = {} BY EmptyQueue
  <2> QED BY <1>1, <2>1, ConcatProperties DEF Unblocked
<1>4. wq' = wq BY <1>1 DEF DoExit
<1>5. st \in [Task -> Status] BY <1>1, StatusNames
<1>6. QueuesAgree(ready, sleepq, st) BY <1>1, <1>2, AgreeExcept DEF InPlace
<1>7. WaitsAgree(wq, waitIn, st) BY <1>1, <1>2, WaitsExcept DEF InPlace
<1>8. /\ WaitsAgree(wq', waitIn', st) /\ wq' \in [Queue -> Seq(Task)]
      /\ waitIn' \in [Task -> Queue \cup {NULL}] /\ type' = type
  BY <1>1, <1>4, <1>7, PlaceFacts DEF DoExit
<1>9. Schedule(ready, sleepq, left, st) BY <1>1, <1>3 DEF DoExit
<1> HIDE DEF st
<1>10. InPlace' BY <1>1, <1>5, <1>6, <1>8, <1>9, PlaceScheduled
<1> QED BY <1>1, <1>4, <1>10 DEF NobodyJoins, InPlace

-----------------------------------------------------------------------------
(* Every action keeps it *)

LEMMA StartKeeps ==
  ASSUME Monitored, NEW th \in Thread, Start(th)
  PROVE  Monitored'
<1> DEFINE o == Other(th)
<1>1. cur = th /\ pc[th] = "start" /\ UNCHANGED <<shared_var, tmp, turn, free>>
  BY DEF Start, At
<1>2. CASE th = thread3 /\ ~init /\ DoYield(th) /\ UNCHANGED <<init, pc>>
  <2>1. InPlace' /\ NobodyJoins' /\ SchedTypeOK' /\ wq' = wq
    BY <1>1, <1>2, Yields, ThreadFacts
  <2>2. pc[th] \in Parked /\ pc[o] \in Parked BY <1>1, WhileRunning DEF Parked
  <2>3. \A u \in Thread : pc'[u] \in Parked BY <1>2, <2>2, ThreadFacts
  <2>4. TypeOK' BY <1>1, <1>2, <2>1 DEF Monitored, TypeOK
  <2>5. OneInside' /\ Beginning' BY <1>1, <1>2 DEF Monitored, OneInside, Beginning
  <2>6. Waiting' /\ Reading' /\ Turned'
    BY <1>1, <1>2, <2>1 DEF Monitored, Waiting, Reading, Turned, Counted
  <2> QED BY <2>1, <2>3, <2>4, <2>5, <2>6 DEF Monitored
<1>3. CASE (th = thread2 \/ init) /\ init' = TRUE /\ GoTo(th, "enter") /\ UNCHANGED schedVars
  <2>1. /\ pc' \in [Thread -> Step] /\ pc'[th] = "enter" /\ pc'[o] = pc[o]
        /\ \A u \in Thread : u = th \/ u = o
    BY <1>3, Goes DEF Step
  <2>2. InPlace' /\ NobodyJoins' /\ SchedTypeOK' /\ wq' = wq /\ cur' = cur BY <1>3, SamePlace
  <2>3. \A u \in Thread : cur' # u => pc'[u] \in Parked
    BY <1>1, <2>1, <2>2, WhileRunning
  <2>4. TypeOK' BY <1>1, <1>3, <2>1, <2>2 DEF Monitored, TypeOK
  <2>5. OneInside'
    <3>1. pc[o] \notin Inside
      <4>1. CASE th = thread2 BY <1>1, <4>1, ThreadFacts DEF Monitored, Beginning, Inside
      <4>2. CASE th = thread3
        BY <1>1, <4>2, WhileRunning, ThreadFacts, CountFromZero
        DEF Monitored, Beginning, Inside, Parked, Reading
      <4> QED BY <4>1, <4>2 DEF Thread
    <3>2. free BY <1>1, <2>1, <3>1 DEF Monitored, OneInside, Inside
    <3> QED BY <1>1, <2>1, <3>1, <3>2 DEF OneInside, Inside
  <2>6. Beginning'
    <3>1. CASE th = thread2
      BY <1>1, <2>1, <3>1, ThreadFacts DEF Monitored, Beginning
    <3>2. CASE th = thread3
      BY <1>1, <1>3, <2>1, <3>2, ThreadFacts DEF Monitored, Beginning
    <3> QED BY <3>1, <3>2 DEF Thread
  <2>7. Waiting' /\ Reading'
    BY <1>1, <2>1, <2>2 DEF Monitored, Waiting, Reading
  <2>8. Turned' BY <1>1, <2>1, ThreadFacts DEF Monitored, Turned, Counted
  <2> QED BY <2>2, <2>3, <2>4, <2>5, <2>6, <2>7, <2>8 DEF Monitored
<1> QED BY <1>2, <1>3 DEF Start

LEMMA EnterKeeps ==
  ASSUME Monitored, NEW th \in Thread, Enter(th)
  PROVE  Monitored'
<1> DEFINE o == Other(th)
<1>1. /\ cur = th /\ pc[th] \in {"enter", "rejoin"} /\ free /\ free' = FALSE
      /\ GoTo(th, "test") /\ UNCHANGED <<schedVars, shared_var, tmp, turn, init>>
  BY DEF Enter, At
<1>2. /\ pc' \in [Thread -> Step] /\ pc'[th] = "test" /\ pc'[o] = pc[o]
      /\ \A u \in Thread : u = th \/ u = o
  BY <1>1, Goes DEF Step
<1>3. InPlace' /\ NobodyJoins' /\ SchedTypeOK' /\ wq' = wq /\ cur' = cur BY <1>1, SamePlace
<1>4. \A u \in Thread : cur' # u => pc'[u] \in Parked
  BY <1>1, <1>2, <1>3, WhileRunning
<1>5. TypeOK' BY <1>1, <1>2, <1>3 DEF Monitored, TypeOK
<1>6. OneInside'
  <2>1. pc[o] \in {"start", "rejoin", "exited"}
    BY <1>1, WhileRunning DEF Parked, Inside
  <2> QED BY <1>1, <1>2, <2>1, ThreadFacts DEF OneInside, Inside
<1>7. Beginning' BY <1>1, <1>2, ThreadFacts DEF Monitored, Beginning, Thread
<1>8. Waiting'
  <2>1. th \notin ToSet(wq[Condition(th)]) BY <1>1, WhileRunning
  <2> QED BY <1>1, <1>2, <1>3, <2>1 DEF Monitored, Waiting
<1>9. Reading' BY <1>1, <1>2 DEF Monitored, Reading
<1>10. Turned' BY <1>1, <1>2, ThreadFacts DEF Monitored, Turned, Counted
<1> QED BY <1>3, <1>4, <1>5, <1>6, <1>7, <1>8, <1>9, <1>10 DEF Monitored

(* condition_wait() releases the mutex when what it waits for is not yet   *)
(* there, ...                                                              *)
LEMMA WaitKeeps ==
  ASSUME Monitored, NEW th \in Thread, Wait(th)
  PROVE  Monitored'
<1> DEFINE o == Other(th)
<1>1. /\ cur = th /\ pc[th] = "test" /\ ~MayCount(th, shared_var) /\ free' = TRUE
      /\ GoTo(th, "join") /\ UNCHANGED <<schedVars, shared_var, tmp, turn, init>>
  BY DEF Wait, At
<1>2. /\ pc' \in [Thread -> Step] /\ pc'[th] = "join" /\ pc'[o] = pc[o]
      /\ \A u \in Thread : u = th \/ u = o
  BY <1>1, Goes DEF Step
<1>3. InPlace' /\ NobodyJoins' /\ SchedTypeOK' /\ wq' = wq /\ cur' = cur BY <1>1, SamePlace
<1>4. \A u \in Thread : cur' # u => pc'[u] \in Parked
  BY <1>1, <1>2, <1>3, WhileRunning
<1>5. TypeOK' BY <1>1, <1>2, <1>3 DEF Monitored, TypeOK
<1>6. OneInside'
  <2>1. pc[o] \in {"start", "rejoin", "exited"} BY <1>1, WhileRunning DEF Inside
  <2> QED BY <1>1, <1>2, <2>1 DEF OneInside, Inside
<1>7. Beginning' BY <1>1, <1>2, ThreadFacts DEF Monitored, Beginning, Thread
<1>8. Waiting'
  <2>1. th \notin ToSet(wq[Condition(th)]) BY <1>1, WhileRunning
  <2> QED BY <1>1, <1>2, <1>3, <2>1 DEF Monitored, Waiting
<1>9. Reading' BY <1>1, <1>2 DEF Monitored, Reading
<1>10. Turned' BY <1>1, <1>2, ThreadFacts DEF Monitored, Turned, Counted
<1> QED BY <1>3, <1>4, <1>5, <1>6, <1>7, <1>8, <1>9, <1>10 DEF Monitored

(* ... and joins the queue when it still is not.                           *)
LEMMA JoinKeeps ==
  ASSUME Monitored, NEW th \in Thread, Join(th)
  PROVE  Monitored'
<1> DEFINE o == Other(th)
           c == Condition(th)
<1>1. /\ cur = th /\ pc[th] = "join" /\ Block(th, c)
      /\ GoTo(th, "rejoin") /\ UNCHANGED <<type, shared_var, tmp, turn, free, init>>
  BY DEF Join, At
<1>2. /\ pc' \in [Thread -> Step] /\ pc'[th] = "rejoin" /\ pc'[o] = pc[o]
      /\ \A u \in Thread : u = th \/ u = o
  BY <1>1, Goes DEF Step
<1>3. /\ InPlace' /\ wq' = [wq EXCEPT ![c] = Append(@, th)]
      /\ ToSet(wq'[c]) = ToSet(wq[c]) \cup {th}
  <2>1. InPlace /\ th \in Task /\ c \in Queue BY ThreadFacts DEF Monitored
  <2> QED BY <1>1, <2>1, BlockInPlace
<1>4. /\ NobodyJoins' /\ SchedTypeOK' /\ wq'[Condition(o)] = wq[Condition(o)]
  <2>1. wq \in [Queue -> Seq(Task)] /\ NobodyJoins BY PlaceFacts DEF Monitored
  <2>2. c \in Queue /\ c \notin Task /\ Condition(o) \in Queue /\ c # Condition(o) /\ Task \subseteq Queue
    BY ThreadFacts
  <2> QED BY <1>3, <2>1, <2>2 DEF NobodyJoins, InPlace
<1>5. \A u \in Thread : pc'[u] \in Parked BY <1>1, <1>2, WhileRunning DEF Parked
<1>6. TypeOK' BY <1>1, <1>2, <1>4 DEF Monitored, TypeOK
<1>7. OneInside' BY <1>1, <1>2, ThreadFacts DEF Monitored, OneInside, Inside
<1>8. Beginning' BY <1>1, <1>2, ThreadFacts DEF Monitored, Beginning, Thread
<1>9. Waiting' BY <1>1, <1>2, <1>3, <1>4 DEF Monitored, Waiting
<1>10. Reading' BY <1>1, <1>2 DEF Monitored, Reading
<1>11. Turned' BY <1>1, <1>2, ThreadFacts DEF Monitored, Turned, Counted
<1> QED BY <1>3, <1>4, <1>5, <1>6, <1>7, <1>8, <1>9, <1>10, <1>11 DEF Monitored

(* A thread that reads may write: whether it yields in between or not, the *)
(* other one is not let in.                                                *)
LEMMA ReadKeeps ==
  ASSUME Monitored, NEW th \in Thread, Read(th)
  PROVE  Monitored'
<1> DEFINE o == Other(th)
<1>1. /\ cur = th /\ pc[th] = "test" /\ MayCount(th, shared_var)
      /\ tmp' = [tmp EXCEPT ![th] = shared_var]
      /\ DoYield(th) \/ UNCHANGED schedVars
      /\ GoTo(th, "use") /\ UNCHANGED <<shared_var, turn, free, init>>
  BY DEF Read, At
<1>2. /\ pc' \in [Thread -> Step] /\ pc'[th] = "use" /\ pc'[o] = pc[o]
      /\ \A u \in Thread : u = th \/ u = o
  BY <1>1, Goes DEF Step
<1>3. InPlace' /\ NobodyJoins' /\ SchedTypeOK' /\ wq' = wq
  BY <1>1, SamePlace, Yields, ThreadFacts
<1>4. \A u \in Thread : pc'[u] \in Parked BY <1>1, <1>2, WhileRunning DEF Parked
<1>5. shared_var \in Nat /\ tmp \in [Thread -> Nat] BY DEF Monitored, TypeOK
<1>6. tmp' \in [Thread -> Nat] /\ tmp'[th] = shared_var BY <1>1, <1>5
<1>7. TypeOK' BY <1>1, <1>2, <1>3, <1>6 DEF Monitored, TypeOK
<1>8. ~free /\ pc[o] \in {"start", "rejoin", "exited"}
  BY <1>1, WhileRunning DEF Inside
<1>9. OneInside' BY <1>1, <1>2, <1>8, ThreadFacts DEF OneInside, Inside
<1>10. Beginning'
  <2>1. th = thread2 => pc[thread3] # "start"
    BY <1>1, CountFromZero DEF Monitored, Beginning
  <2> QED BY <1>1, <1>2, <2>1, ThreadFacts DEF Monitored, Beginning, Thread
<1>11. Waiting'
  <2>1. th \notin ToSet(wq[Condition(th)]) BY <1>1, WhileRunning
  <2> QED BY <1>1, <1>2, <1>3, <2>1 DEF Monitored, Waiting
<1>12. Reading' BY <1>1, <1>2, <1>6, <1>8 DEF Reading
<1>13. Turned' BY <1>1, <1>2, ThreadFacts DEF Monitored, Turned, Counted
<1> QED BY <1>3, <1>4, <1>7, <1>9, <1>10, <1>11, <1>12, <1>13 DEF Monitored

(* The write is the only step that makes true what the other one waits     *)
(* for, and the signal is in it.                                           *)
LEMMA UseKeeps ==
  ASSUME Monitored, NEW th \in Thread, Use(th)
  PROVE  Monitored'
<1> DEFINE o == Other(th)
<1>1. /\ cur = th /\ pc[th] = "use" /\ shared_var' = tmp[th] + 1
      /\ \/ MayCount(o, shared_var') /\ Signal(Condition(o))
         \/ ~MayCount(o, shared_var') /\ UNCHANGED <<status, ready, wq>>
      /\ GoTo(th, "trace")
      /\ UNCHANGED <<type, left, waitIn, sleepq, cur, mode, tmp, turn, free, init>>
  BY DEF Use, At
<1>2. /\ pc' \in [Thread -> Step] /\ pc'[th] = "trace" /\ pc'[o] = pc[o] /\ o \in Thread
      /\ \A u \in Thread : u = th \/ u = o
  BY <1>1, Goes, ThreadFacts DEF Step
<1>3. /\ shared_var \in Nat /\ shared_var' = shared_var + 1 /\ shared_var' \in Nat
      /\ MayCount(th, shared_var)
  BY <1>1 DEF Monitored, TypeOK, Reading
<1>4. ~MayCount(o, shared_var) BY <1>3, OneMayCount
<1>5. ~free /\ pc[o] \in {"start", "rejoin", "exited"} BY <1>1, WhileRunning DEF Inside
<1>6. th \notin ToSet(wq[Condition(th)]) BY <1>1, WhileRunning
<1>7. /\ InPlace' /\ NobodyJoins' /\ SchedTypeOK' /\ wq'[Condition(th)] = wq[Condition(th)]
      /\ IF MayCount(o, shared_var') THEN ToSet(wq'[Condition(o)]) = {}
                                     ELSE wq'[Condition(o)] = wq[Condition(o)]
  <2>1. CASE MayCount(o, shared_var') /\ Signal(Condition(o))
    <3>1. UNCHANGED <<type, left, waitIn, sleepq, cur, mode>> BY <1>1
    <3>2. Other(o) = th BY ThreadFacts
    <3> HIDE DEF o
    <3> QED BY <1>2, <2>1, <3>1, <3>2, Signals
  <2>2. CASE ~MayCount(o, shared_var') /\ UNCHANGED <<status, ready, wq>>
    <3>1. UNCHANGED schedVars BY <1>1, <2>2 DEF schedVars
    <3> QED BY <2>2, <3>1, SamePlace
  <2> QED BY <1>1, <2>1, <2>2
<1>8. \A u \in Thread : cur' # u => pc'[u] \in Parked BY <1>1, <1>2, WhileRunning
<1>9. TypeOK' BY <1>1, <1>2, <1>3, <1>7 DEF Monitored, TypeOK
<1>10. OneInside' BY <1>1, <1>2, <1>5, ThreadFacts DEF OneInside, Inside
<1>11. Beginning'
  <2>1. pc[thread3] # "start" BY <1>1, CountFromZero, ThreadFacts DEF Monitored, Beginning
  <2>2. pc[thread2] # "start" BY <2>1 DEF Monitored, Beginning
  <2> QED BY <1>2, <2>1, <2>2, ThreadFacts DEF Beginning, Thread
<1>12. Waiting'
  <2>1. ToSet(wq[Condition(th)]) \subseteq {th} /\ ToSet(wq[Condition(o)]) \subseteq {o}
    BY <1>2 DEF Monitored, Waiting
  <2>2. /\ o \in ToSet(wq[Condition(o)]) => pc[o] = "rejoin"
        /\ pc[o] = "rejoin" => o \in ToSet(wq[Condition(o)])
    BY <1>2, <1>4 DEF Monitored, Waiting
  <2> QED BY <1>2, <1>5, <1>6, <1>7, <2>1, <2>2 DEF Waiting
<1>13. Reading' BY <1>2, <1>5 DEF Reading
<1>14. Turned'
  <2>1. turn \in [Thread -> Nat] /\ shared_var = Counted(th) + Counted(o)
    <3> turn \in [Thread -> Nat] BY DEF Monitored, TypeOK
    <3>1. Counted(thread2) \in Nat /\ Counted(thread3) \in Nat
      BY ThreadFacts DEF Counted
    <3> QED BY <3>1, ThreadFacts DEF Monitored, Turned, Thread
  <2>2. Counted(th) = turn[th] /\ Counted(o) = turn[o] BY <1>1, <1>2, <1>5, <2>1 DEF Counted
  <2>3. Counted(th)' = turn[th] + 1 /\ Counted(o)' = turn[o]
    BY <1>1, <1>2, <1>5, <2>1 DEF Counted
  <2>4. turn[th] \in Nat /\ turn[o] \in Nat BY <1>2, <2>1
  <2>5. CASE th = thread2 BY <1>3, <2>1, <2>2, <2>3, <2>4, <2>5, ThreadFacts DEF Turned
  <2>6. CASE th = thread3 BY <1>3, <2>1, <2>2, <2>3, <2>4, <2>6, ThreadFacts DEF Turned
  <2> QED BY <2>5, <2>6 DEF Thread
<1> QED BY <1>7, <1>8, <1>9, <1>10, <1>11, <1>12, <1>13, <1>14 DEF Monitored

LEMMA TraceKeeps ==
  ASSUME Monitored, NEW th \in Thread, Trace(th)
  PROVE  Monitored'
<1> DEFINE o == Other(th)
<1>1. /\ cur = th /\ pc[th] = "trace" /\ DoSleep(th, SleepArg)
      /\ GoTo(th, "leave") /\ UNCHANGED <<shared_var, tmp, turn, free, init>>
  BY DEF Trace, At
<1>2. /\ pc' \in [Thread -> Step] /\ pc'[th] = "leave" /\ pc'[o] = pc[o]
      /\ \A u \in Thread : u = th \/ u = o
  BY <1>1, Goes DEF Step
<1>3. InPlace' /\ NobodyJoins' /\ SchedTypeOK' /\ wq' = wq
  <2>1. th \in Task /\ SleepArg \in Nat BY MonitorAssumption, ThreadFacts
  <2> QED BY <1>1, <2>1, Sleeps
<1>4. \A u \in Thread : pc'[u] \in Parked BY <1>1, <1>2, WhileRunning DEF Parked
<1>5. TypeOK' BY <1>1, <1>2, <1>3 DEF Monitored, TypeOK
<1>6. ~free /\ pc[o] \in {"start", "rejoin", "exited"} BY <1>1, WhileRunning DEF Inside
<1>7. OneInside' BY <1>1, <1>2, <1>6, ThreadFacts DEF OneInside, Inside
<1>8. Beginning' BY <1>1, <1>2, ThreadFacts DEF Monitored, Beginning, Thread
<1>9. Waiting'
  <2>1. th \notin ToSet(wq[Condition(th)]) BY <1>1, WhileRunning
  <2> QED BY <1>1, <1>2, <1>3, <2>1 DEF Monitored, Waiting
<1>10. Reading' BY <1>2, <1>6 DEF Reading
<1>11. Turned'
  <2>1. \A u \in Thread : Counted(u)' = Counted(u) BY <1>1, <1>2 DEF Counted
  <2> QED BY <1>1, <2>1, ThreadFacts DEF Monitored, Turned
<1> QED BY <1>3, <1>4, <1>5, <1>7, <1>8, <1>9, <1>10, <1>11 DEF Monitored

LEMMA LeaveKeeps ==
  ASSUME Monitored, NEW th \in Thread, Leave(th)
  PROVE  Monitored'
<1> DEFINE o == Other(th)
           s == IF turn[th] + 1 < Turns[th] THEN "enter" ELSE "last"
<1>1. /\ cur = th /\ pc[th] = "leave" /\ free' = TRUE
      /\ turn' = [turn EXCEPT ![th] = @ + 1]
      /\ GoTo(th, s) /\ UNCHANGED <<schedVars, shared_var, tmp, init>>
  BY DEF Leave, At
<1>2. s \in {"enter", "last"} OBVIOUS
<1> HIDE DEF s
<1>3. /\ pc' \in [Thread -> Step] /\ pc'[th] = s /\ pc'[o] = pc[o] /\ o \in Thread
      /\ \A u \in Thread : u = th \/ u = o
  BY <1>1, <1>2, Goes, ThreadFacts DEF Step
<1>4. InPlace' /\ NobodyJoins' /\ SchedTypeOK' /\ wq' = wq /\ cur' = cur BY <1>1, SamePlace
<1>5. \A u \in Thread : cur' # u => pc'[u] \in Parked
  BY <1>1, <1>3, <1>4, WhileRunning
<1>6. turn \in [Thread -> Nat] /\ turn' \in [Thread -> Nat]
  <2>1. turn \in [Thread -> Nat] BY DEF Monitored, TypeOK
  <2> QED BY <1>1, <2>1
<1>7. TypeOK' BY <1>1, <1>3, <1>4, <1>6 DEF Monitored, TypeOK
<1>8. pc[o] \in {"start", "rejoin", "exited"} BY <1>1, WhileRunning DEF Inside
<1>9. OneInside' BY <1>1, <1>2, <1>3, <1>8 DEF OneInside, Inside
<1>10. Beginning' BY <1>1, <1>2, <1>3, ThreadFacts DEF Monitored, Beginning, Thread
<1>11. Waiting'
  <2>1. th \notin ToSet(wq[Condition(th)]) BY <1>1, WhileRunning
  <2> QED BY <1>1, <1>2, <1>3, <1>4, <2>1 DEF Monitored, Waiting
<1>12. Reading' BY <1>2, <1>3, <1>8 DEF Reading
<1>13. Turned'
  <2>1. turn'[th] = turn[th] + 1 /\ turn'[o] = turn[o] /\ turn[th] \in Nat /\ turn[o] \in Nat
    BY <1>1, <1>3, <1>6, ThreadFacts
  <2>2. Counted(th) = turn[th] + 1 /\ Counted(th)' = turn'[th] + 0
    BY <1>1, <1>2, <1>3 DEF Counted
  <2>3. Counted(o)' = Counted(o) BY <1>3, <2>1 DEF Counted
  <2>4. Counted(th)' = Counted(th) BY <2>1, <2>2
  <2> QED BY <1>1, <1>3, <2>3, <2>4, ThreadFacts DEF Monitored, Turned, Thread
<1> QED BY <1>4, <1>5, <1>7, <1>9, <1>10, <1>11, <1>12, <1>13 DEF Monitored

LEMMA FinishKeeps ==
  ASSUME Monitored, NEW th \in Thread, Finish(th)
  PROVE  Monitored'
<1> DEFINE o == Other(th)
<1>1. /\ cur = th /\ pc[th] = "last" /\ DoExit(th)
      /\ GoTo(th, "exited") /\ UNCHANGED <<shared_var, tmp, turn, free, init>>
  BY DEF Finish, At
<1>2. /\ pc' \in [Thread -> Step] /\ pc'[th] = "exited" /\ pc'[o] = pc[o]
      /\ \A u \in Thread : u = th \/ u = o
  BY <1>1, Goes DEF Step
<1>3. InPlace' /\ NobodyJoins' /\ SchedTypeOK' /\ wq' = wq BY <1>1, Exits, ThreadFacts
<1>4. \A u \in Thread : pc'[u] \in Parked BY <1>1, <1>2, WhileRunning DEF Parked
<1>5. TypeOK' BY <1>1, <1>2, <1>3 DEF Monitored, TypeOK
<1>6. OneInside' BY <1>1, <1>2, ThreadFacts DEF Monitored, OneInside, Inside
<1>7. Beginning'
  <2>1. pc[thread3] = "start" => pc[thread2] # "last" BY DEF Monitored, Beginning
  <2> QED BY <1>1, <1>2, <2>1, ThreadFacts DEF Monitored, Beginning, Thread
<1>8. Waiting'
  <2>1. th \notin ToSet(wq[Condition(th)]) BY <1>1, WhileRunning
  <2> QED BY <1>1, <1>2, <1>3, <2>1 DEF Monitored, Waiting
<1>9. Reading' BY <1>1, <1>2 DEF Monitored, Reading
<1>10. Turned' BY <1>1, <1>2, ThreadFacts DEF Monitored, Turned, Counted
<1> QED BY <1>3, <1>4, <1>5, <1>6, <1>7, <1>8, <1>9, <1>10 DEF Monitored

(* A step of the clock, or of the thread that only yields, changes nothing *)
(* but the place of the threads.                                           *)
LEMMA PlacesOnly ==
  ASSUME Monitored, InPlace', wq' = wq, UNCHANGED <<shared_var, tmp, turn, free, init, pc>>,
         \A th \in Thread : pc[th] \in Parked \/ cur' = cur
  PROVE  Monitored'
<1>1. \A th \in Thread : cur' # th => pc'[th] \in Parked BY DEF Monitored
<1>2. SchedTypeOK' /\ TypeOK' BY DEF Monitored, TypeOK, InPlace
<1>3. NobodyJoins' /\ OneInside' /\ Beginning'
  BY DEF Monitored, NobodyJoins, OneInside, Beginning
<1>4. Waiting' /\ Reading' /\ Turned'
  BY DEF Monitored, Waiting, Reading, Turned, Counted
<1> QED BY <1>1, <1>2, <1>3, <1>4 DEF Monitored

LEMMA ClockKeeps ==
  ASSUME Monitored, ClockYield
  PROVE  Monitored'
<1>1. cur = Clock /\ DoYield(Clock) /\ UNCHANGED <<shared_var, tmp, turn, free, init, pc>>
  BY DEF ClockYield
<1>2. InPlace' /\ wq' = wq BY <1>1, Yields, ThreadFacts
<1>3. Clock \notin Thread BY MonitorAssumption
<1>4. \A th \in Thread : pc[th] \in Parked BY <1>1, <1>3 DEF Monitored
<1> QED BY <1>1, <1>2, <1>4, PlacesOnly

(* Nobody is preempted; with nobody to run, the scheduler looks for one.   *)
LEMMA TickKeeps ==
  ASSUME Monitored, Tick
  PROVE  Monitored'
<1>1. TimerIrq(TRUE) /\ UNCHANGED <<shared_var, tmp, turn, free, init, pc>> BY DEF Tick
<1>2. InPlace BY DEF Monitored
<1>3. InPlace' /\ wq' = wq BY <1>1, <1>2, TimerInPlace
<1>4. cur' = cur \/ cur = NULL BY <1>1 DEF TimerIrq
<1>5. NULL \notin Thread BY ThreadFacts, SchedAssumption
<1>6. \A th \in Thread : pc[th] \in Parked \/ cur' = cur BY <1>4, <1>5 DEF Monitored
<1> QED BY <1>1, <1>3, <1>6, PlacesOnly

LEMMA StutterKeeps ==
  ASSUME Monitored, UNCHANGED vars
  PROVE  Monitored'
<1>1. UNCHANGED schedVars /\ UNCHANGED <<shared_var, tmp, turn, free, init, pc>> BY DEF vars
<1>2. InPlace' /\ wq' = wq /\ cur' = cur BY <1>1, SamePlace
<1> QED BY <1>1, <1>2, PlacesOnly

LEMMA StepKeeps == Monitored /\ [Next]_vars => Monitored'
<1> SUFFICES ASSUME Monitored, [Next]_vars PROVE Monitored' OBVIOUS
<1>1. ASSUME NEW th \in Thread,
             Start(th) \/ Enter(th) \/ Wait(th) \/ Join(th) \/ Read(th) \/ Use(th)
               \/ Trace(th) \/ Leave(th) \/ Finish(th)
      PROVE  Monitored'
  BY <1>1, StartKeeps, EnterKeeps, WaitKeeps, JoinKeeps, ReadKeeps, UseKeeps, TraceKeeps,
     LeaveKeeps, FinishKeeps
<1> QED BY <1>1, ClockKeeps, TickKeeps, StutterKeeps DEF Next, CpuStep

LEMMA AlwaysMonitored == Spec => []Monitored
BY Begins, StepKeeps, PTL DEF Spec

-----------------------------------------------------------------------------
(* Whoever is about to write shared_var may, with what he read still in    *)
(* it, and no increment is lost: the ASSERTs of th2.c hold however many    *)
(* turns the threads take, however often they yield in the monitor and     *)
(* however long they sleep in it.                                          *)
THEOREM CountsRight == Spec => []Asserts
<1>1. Monitored => Asserts BY DEF Monitored, Asserts, Reading, Turned
<1> QED BY <1>1, AlwaysMonitored, PTL

(* No signal gets lost between the release of the mutex and the block in   *)
(* condition_wait(): nobody is in the queue of a condition that holds.     *)
THEOREM SignalsReach == Spec => []NoSignalLost
<1>1. Monitored => NoSignalLost BY DEF Monitored, Waiting, NoSignalLost
<1> QED BY <1>1, AlwaysMonitored, PTL

(* A trace of less than a tick returns at once.                            *)
TracesAtOnce == \A th \in Thread : pc[th] = "leave" => cur = th

LEMMA StepTraces ==
  ASSUME SleepArg < 1000, Monitored, TracesAtOnce, [Next]_vars
  PROVE  TracesAtOnce'
<1>1. ASSUME NEW th \in Thread, cur = th, NEW s \in Step \ {"leave"}, GoTo(th, s)
      PROVE  TracesAtOnce'
  <2>1. /\ pc'[th] = s /\ pc'[Other(th)] = pc[Other(th)] /\ Other(th) \in Thread
        /\ \A u \in Thread : u = th \/ u = Other(th)
    BY <1>1, Goes, ThreadFacts
  <2>2. pc[Other(th)] # "leave" BY <1>1, <2>1, ThreadFacts DEF TracesAtOnce
  <2> QED BY <1>1, <2>1, <2>2 DEF TracesAtOnce
<1>2. ASSUME pc' = pc, cur' = cur \/ cur \notin Thread
      PROVE  TracesAtOnce'
  BY <1>2 DEF TracesAtOnce
<1>3. ASSUME NEW th \in Thread, Start(th) PROVE TracesAtOnce'
  <2>1. CASE GoTo(th, "enter") BY <1>1, <1>3, <2>1 DEF Start, At, Step
  <2>2. CASE pc' = pc
    <3>1. cur = th /\ pc[th] = "start" BY <1>3 DEF Start, At
    <3>2. \A u \in Thread : pc[u] # "leave" BY <3>1 DEF TracesAtOnce
    <3> QED BY <2>2, <3>2 DEF TracesAtOnce
  <2> QED BY <1>3, <2>1, <2>2 DEF Start
<1>4. ASSUME NEW th \in Thread,
             Enter(th) \/ Wait(th) \/ Join(th) \/ Read(th) \/ Use(th) \/ Finish(th)
      PROVE  TracesAtOnce'
  <2>1. cur = th /\ \E s \in Step \ {"leave"} : GoTo(th, s)
    BY <1>4 DEF Enter, Wait, Join, Read, Use, Finish, At, Step
  <2> QED BY <1>1, <2>1
<1>5. ASSUME NEW th \in Thread, Leave(th) PROVE TracesAtOnce'
  <2>1. cur = th /\ \E s \in Step \ {"leave"} : GoTo(th, s) BY <1>5 DEF Leave, At, Step
  <2> QED BY <1>1, <2>1
<1>6. ASSUME NEW th \in Thread, Trace(th) PROVE TracesAtOnce'
  <2>1. cur = th /\ DoSleep(th, SleepArg) /\ GoTo(th, "leave") BY <1>6 DEF Trace, At
  <2>2. th \in Task /\ SleepArg \in Nat BY MonitorAssumption, ThreadFacts
  <2>3. cur' = th BY <2>1, <2>2, Sleeps
  <2>4. /\ pc'[Other(th)] = pc[Other(th)] /\ Other(th) \in Thread
        /\ \A u \in Thread : u = th \/ u = Other(th)
    BY <2>1, Goes, ThreadFacts DEF Step
  <2>5. pc[Other(th)] # "leave" BY <2>1, <2>4, ThreadFacts DEF TracesAtOnce
  <2> QED BY <2>3, <2>4, <2>5 DEF TracesAtOnce
<1>7. CASE ClockYield
  BY <1>2, <1>7, MonitorAssumption DEF ClockYield
<1>8. CASE Tick
  <2>1. pc' = pc /\ (cur' = cur \/ cur = NULL) BY <1>8 DEF Tick, TimerIrq
  <2> QED BY <1>2, <2>1, ThreadFacts, SchedAssumption
<1>9. CASE UNCHANGED vars BY <1>2, <1>9 DEF vars, schedVars
<1> QED BY <1>3, <1>4, <1>5, <1>6, <1>7, <1>8, <1>9 DEF Next, CpuStep

(* The mutex is free whenever a thread asks for it, as long as the trace   *)
(* in the monitor returns at once: print_trace() passes 100 to do_sleep(), *)
(* which counts a thousand to a tick.                                      *)
THEOREM NobodyContends == ASSUME SleepArg < 1000 PROVE Spec => []Uncontended
<1>1. Init => TracesAtOnce BY DEF Init, TracesAtOnce
<1>2. Monitored /\ TracesAtOnce /\ [Next]_vars => TracesAtOnce' BY StepTraces
<1>3. Monitored /\ TracesAtOnce => Uncontended
  <2> SUFFICES ASSUME Monitored, TracesAtOnce, NEW th \in Thread, cur = th,
                      pc[th] \in {"enter", "rejoin", "last"}, ~free
               PROVE  FALSE
    BY DEF Uncontended, Monitored, TypeOK
  <2> DEFINE o == Other(th)
  <2>1. o \in Thread /\ o # th /\ Other(o) = th /\ \A u \in Thread : u = th \/ u = o
    BY ThreadFacts
  <2>2. pc[th] \notin Inside BY DEF Inside
  <2>3. pc[o] \in Inside BY <2>1, <2>2 DEF Monitored, OneInside
  <2>4. pc[th] \in {"start", "rejoin", "exited"} BY <2>1, <2>3 DEF Monitored, OneInside
  <2>5. pc[o] = "use" BY <2>1, <2>3, WhileRunning DEF Inside, Parked, TracesAtOnce
  <2>6. MayCount(o, shared_var) /\ shared_var \in Nat
    BY <2>1, <2>5 DEF Monitored, Reading, TypeOK
  <2>7. ~MayCount(th, shared_var) BY <2>6, OneMayCount
  <2>8. th \in ToSet(wq[Condition(th)]) BY <2>4, <2>7 DEF Monitored, Waiting
  <2> QED BY <2>8, WhileRunning
<1> QED BY <1>1, <1>2, <1>3, AlwaysMonitored, PTL DEF Spec
=============================================================================
