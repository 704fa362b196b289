-------------------------- MODULE CoopFileSysProofs -------------------------
(***************************************************************************)
(* Theorems about two programs that share nothing, neither a constant nor  *)
(* a variable: first the cooperative kernel of Project 2 (Coop), for any   *)
(* number of tasks and locks, then the file system of Project 6 (FileSys), *)
(* for any names, hashes and sizes.                                        *)
(***************************************************************************)
EXTENDS Coop, FileSys, SequenceTheorems, FiniteSetTheorems, WellFoundedInduction, TLAPS

(* The lemmas about queues, which are about no kernel in particular.       *)
Queues == INSTANCE SchedProofs WITH
  Task <- {}, Obj <- {}, NULL <- 0, status <- 0, type <- 0, left <- 0, waitIn <- 0,
  ready <- 0, sleepq <- 0, wq <- 0, cur <- 0, mode <- 0

(* queue_init()                                                            *)
LEMMA EmptyQueue == ToSet(<<>>) = {} /\ IsInjective(<<>>)
BY Queues!EmptyQueue DEF Queues!ToSet, ToSet, Queues!IsInjective, IsInjective

(* Only elements of T are in a queue over T.                               *)
LEMMA SetOfSeq ==
  ASSUME NEW T, NEW s \in Seq(T)
  PROVE  ToSet(s) \subseteq T
BY Queues!SetOfSeq DEF Queues!ToSet, ToSet

(* enqueue()                                                               *)
LEMMA AppendQueue ==
  ASSUME NEW T, NEW s \in Seq(T), NEW x \in T
  PROVE  /\ Append(s, x) \in Seq(T)
         /\ ToSet(Append(s, x)) = ToSet(s) \cup {x}
         /\ IsInjective(s) /\ x \notin ToSet(s) => IsInjective(Append(s, x))
BY Queues!AppendQueue DEF Queues!ToSet, ToSet, Queues!IsInjective, IsInjective

(* dequeue()                                                               *)
LEMMA TailQueue ==
  ASSUME NEW T, NEW s \in Seq(T), s # <<>>
  PROVE  /\ Head(s) \in T /\ Tail(s) \in Seq(T)
         /\ Head(s) \in ToSet(s)
         /\ ToSet(s) = ToSet(Tail(s)) \cup {Head(s)}
         /\ IsInjective(s) => /\ IsInjective(Tail(s))
                              /\ ToSet(Tail(s)) = ToSet(s) \ {Head(s)}
BY Queues!TailQueue DEF Queues!ToSet, ToSet, Queues!IsInjective, IsInjective

(* Every element of one queue after those of another.                      *)
LEMMA ConcatQueue ==
  ASSUME NEW T, NEW r \in Seq(T), NEW s \in Seq(T)
  PROVE  /\ r \o s \in Seq(T)
         /\ ToSet(r \o s) = ToSet(r) \cup ToSet(s)
         /\ IsInjective(r) /\ IsInjective(s) /\ ToSet(r) \cap ToSet(s) = {} => IsInjective(r \o s)
BY Queues!ConcatQueue DEF Queues!ToSet, ToSet, Queues!IsInjective, IsInjective

(* Queues without repetition that miss a task never fill up: the pushes    *)
(* whose results nobody looks at succeed.                                  *)
LEMMA RoomLeft ==
  ASSUME NEW q \in Seq(Task), IsInjective(q), NEW x \in Task, x \notin ToSet(q)
  PROVE  /\ Push(q, x) = Append(q, x)
         /\ Append(q, x) \in Seq(Task)
         /\ ToSet(Append(q, x)) = ToSet(q) \cup {x}
         /\ IsInjective(Append(q, x))
<1> DEFINE T == Task \ {x}
<1>1. IsFiniteSet(T) /\ Cardinality(T) = Capacity - 1 /\ Capacity \in Nat
  BY FS_RemoveElement, FS_CardinalityType, CoopAssumption DEF Capacity
<1>2. q \in Injection(1 .. Len(q), T) /\ Len(q) \in Nat
  <2>1. q \in [1 .. Len(q) -> Task] /\ Len(q) \in Nat BY LenProperties
  <2>2. \A i \in 1 .. Len(q) : q[i] # x BY <2>1 DEF ToSet
  <2>3. q \in [1 .. Len(q) -> T] BY <2>1, <2>2
  <2> QED BY <2>1, <2>3 DEF Injection
<1> HIDE DEF T
<1>3. Cardinality(1 .. Len(q)) <= Capacity - 1 BY <1>1, <1>2, FS_Injection
<1>4. Cardinality(1 .. Len(q)) = Len(q)
  <2>1. 1 \in Int /\ Len(q) \in Int BY <1>2
  <2>2. Cardinality(1 .. Len(q)) = IF 1 > Len(q) THEN 0 ELSE Len(q) - 1 + 1
    BY <2>1, FS_Interval
  <2> QED BY <1>2, <2>2
<1>5. Len(q) # Capacity BY <1>1, <1>2, <1>3, <1>4
<1> QED BY <1>5, AppendQueue DEF Push

LEMMA PushTyped ==
  ASSUME NEW q \in Seq(Task), NEW x \in Task
  PROVE  Push(q, x) \in Seq(Task)
BY AppendQueue DEF Push

LEMMA SchedulerTyped ==
  ASSUME NEW r \in Seq(Task), Scheduler(r), cur \in Task
  PROVE  cur' \in Task /\ ready' \in Seq(Task)
BY TailQueue DEF Scheduler

LEMMA StepTyped == TypeOK /\ [Next]_vars => TypeOK'
<1> SUFFICES ASSUME TypeOK, [Next]_vars PROVE TypeOK'
  OBVIOUS
<1>1. ASSUME NEW p \in Task, Yield(p) PROVE TypeOK'
  BY <1>1, PushTyped, SchedulerTyped DEF Yield, TypeOK
<1>2. ASSUME NEW p \in Task, Exit(p) PROVE TypeOK'
  BY <1>2, SchedulerTyped DEF Exit, TypeOK
<1>3. ASSUME NEW p \in Task, NEW l \in Lock, AcquireFree(p, l) PROVE TypeOK'
  BY <1>3 DEF AcquireFree, TypeOK
<1>4. ASSUME NEW p \in Task, NEW l \in Lock, AcquireTaken(p, l) PROVE TypeOK'
  BY <1>4, PushTyped, SchedulerTyped DEF AcquireTaken, TypeOK
<1>5. ASSUME NEW p \in Task, NEW l \in Lock, Release(p, l) PROVE TypeOK'
  <2>1. blocked # <<>> => Head(blocked) \in Task /\ Tail(blocked) \in Seq(Task)
    BY TailQueue DEF TypeOK
  <2>2. blocked # <<>> => Push(ready, Head(blocked)) \in Seq(Task)
    BY <2>1, PushTyped DEF TypeOK
  <2> QED BY <1>5, <2>1, <2>2 DEF Release, TypeOK
<1>6. CASE UNCHANGED vars BY <1>6 DEF vars, TypeOK
<1> QED BY <1>1, <1>2, <1>3, <1>4, <1>5, <1>6 DEF Next

-----------------------------------------------------------------------------
(* The task that runs and the two rings have every task that has not       *)
(* exited, each once.                                                      *)
Once ==
  /\ IsInjective(ready) /\ IsInjective(blocked)
  /\ ToSet(ready) \cap ToSet(blocked) = {}
  /\ ToSet(ready) \cup ToSet(blocked) = Task \ (exited \cup {cur})

Single == \A l \in Lock, p, q \in Task : Holds(p, l) /\ Holds(q, l) => p = q

Shut == \A l \in Lock, p \in Task \ exited : has[p] = l => locked[l]

Held == \A l \in Lock : locked[l] => \E p \in Task : Holds(p, l)

(* An exited task is out of the way, unless it is the last one and runs on.*)
Gone == \A p \in exited : IF p = cur THEN ready = <<>> /\ blocked = <<>> ELSE has[p] = NULL

Asked == \A p \in ToSet(blocked) : has[p] # NULL

Sound == Once /\ Single /\ Shut /\ Held /\ Gone /\ Asked

(* Whoever waits or holds has asked, and so has whoever returns to a       *)
(* context that was saved while he did.                                    *)
Used ==
  /\ IsFiniteSet(used)
  /\ \A p \in Task : has[p] \in used \cup {NULL} /\ frame[p] \in used \cup {NULL}

LEMMA QueueFacts ==
  ASSUME TypeOK, Once
  PROVE  /\ ToSet(ready) \subseteq Task /\ ToSet(blocked) \subseteq Task
         /\ cur \in Task /\ cur \notin ToSet(ready) \cup ToSet(blocked)
         /\ ready = <<>> <=> ToSet(ready) = {}
         /\ blocked = <<>> <=> ToSet(blocked) = {}
<1>1. ready \in Seq(Task) /\ blocked \in Seq(Task) /\ cur \in Task BY DEF TypeOK
<1>2. ToSet(ready) \subseteq Task /\ ToSet(blocked) \subseteq Task BY <1>1, SetOfSeq
<1> QED BY <1>1, <1>2, TailQueue, EmptyQueue DEF Once

(* The scheduler takes the head of r, or leaves current_running what it is.*)
LEMMA SchedulerTakes ==
  ASSUME NEW r \in Seq(Task), IsInjective(r), Scheduler(r)
  PROVE  /\ IsInjective(ready')
         /\ r # <<>> => cur' \in ToSet(r) /\ ToSet(ready') = ToSet(r) \ {cur'}
         /\ r = <<>> => cur' = cur /\ ready' = <<>> /\ ToSet(r) = {} /\ ToSet(ready') = {}
<1>1. CASE r # <<>>
  <2>1. cur' = Head(r) /\ ready' = Tail(r) BY <1>1 DEF Scheduler
  <2>2. Head(r) \in ToSet(r) /\ IsInjective(Tail(r)) /\ ToSet(Tail(r)) = ToSet(r) \ {Head(r)}
    BY <1>1, TailQueue
  <2> QED BY <1>1, <2>1, <2>2
<1>2. CASE r = <<>>
  <2>1. cur' = cur /\ ready' = <<>> BY <1>2 DEF Scheduler
  <2> QED BY <1>2, <2>1, EmptyQueue
<1> QED BY <1>1, <1>2

(* A task that asks for a lock that is taken finds somebody ready, who has *)
(* it: one lock at a time, so the holder does not wait itself.             *)
LEMMA HolderIsReady ==
  ASSUME TypeOK, Sound, NEW l \in Lock, locked[l], has[cur] = NULL
  PROVE  \E h \in ToSet(ready) : Holds(h, l) /\ cur \notin exited
<1>1. PICK h \in Task : Holds(h, l) BY DEF Sound, Held
<1>2. h # cur /\ h \notin ToSet(blocked) BY <1>1, CoopAssumption DEF Holds
<1>3. h \notin exited BY <1>1, <1>2, CoopAssumption DEF Sound, Gone, Holds
<1>4. h \in ToSet(ready) BY <1>1, <1>2, <1>3 DEF Sound, Once
<1>5. ready # <<>> BY <1>4, QueueFacts DEF Sound
<1>6. cur \notin exited BY <1>5 DEF Sound, Gone
<1> QED BY <1>1, <1>4, <1>6

-----------------------------------------------------------------------------
(* Each call keeps the queues, the owners and the lock states in step.     *)
LEMMA YieldSound ==
  ASSUME TypeOK, Sound, NEW p \in Task, Yield(p)
  PROVE  Sound'
<1> DEFINE q == Append(ready, p)
<1>1. /\ p = cur /\ Scheduler(Push(ready, p))
      /\ UNCHANGED <<blocked, locked, has, exited>>
      /\ ready \in Seq(Task) /\ p \notin ToSet(ready) /\ p \notin ToSet(blocked)
      /\ IsInjective(ready) /\ IsInjective(blocked)
  BY QueueFacts DEF Yield, TypeOK, Sound, Once
<1>2. q \in Seq(Task) /\ IsInjective(q) /\ ToSet(q) = ToSet(ready) \cup {p} /\ Scheduler(q)
  BY <1>1, RoomLeft
<1>3. q # <<>> BY <1>2, EmptyQueue
<1> HIDE DEF q
<1>4. /\ IsInjective(ready') /\ cur' \in ToSet(ready) \cup {p}
      /\ ToSet(ready') = (ToSet(ready) \cup {p}) \ {cur'}
  BY <1>2, <1>3, SchedulerTakes
<1>5. p \in exited => cur' = p /\ ToSet(ready) = {} BY <1>1, <1>4, EmptyQueue DEF Sound, Gone
<1>6. Once' BY <1>1, <1>4, <1>5, QueueFacts DEF Sound, Once
<1>7. Gone'
  <2>1. ASSUME NEW t \in exited, t = cur' PROVE ready' = <<>> /\ blocked' = <<>>
    <3>1. t = p BY <1>1, <1>4, <2>1 DEF Sound, Once
    <3>2. ToSet(ready') = {} /\ ready' \in Seq(Task) BY <1>1, <1>2, <1>4, <1>5, <2>1, <3>1, SchedulerTyped DEF TypeOK
    <3>3. ready' = <<>> BY <3>2, TailQueue
    <3> QED BY <1>1, <2>1, <3>1, <3>3 DEF Sound, Gone
  <2>2. ASSUME NEW t \in exited, t # cur' PROVE has'[t] = NULL
    BY <1>1, <1>5, <2>2 DEF Sound, Gone
  <2> QED BY <1>1, <2>1, <2>2 DEF Gone
<1> QED BY <1>1, <1>6, <1>7 DEF Sound, Single, Shut, Held, Asked, Holds

LEMMA ExitSound ==
  ASSUME TypeOK, Sound, NEW p \in Task, Exit(p)
  PROVE  Sound'
<1>1. /\ p = cur /\ has[p] = NULL /\ exited' = exited \cup {p} /\ Scheduler(ready)
      /\ UNCHANGED <<blocked, locked>> /\ ready \in Seq(Task) /\ IsInjective(ready)
      /\ has \in [Task -> Lock \cup {NULL}] /\ NULL \notin Lock
  BY CoopAssumption DEF Exit, TypeOK, Sound, Once
<1>2. CASE ready # <<>>
  <2>1. has' = has BY <1>2 DEF Exit
  <2>2. IsInjective(ready') /\ cur' \in ToSet(ready) /\ ToSet(ready') = ToSet(ready) \ {cur'}
    BY <1>1, <1>2, SchedulerTakes
  <2>3. Once' BY <1>1, <2>2 DEF Sound, Once
  <2>4. Gone' BY <1>1, <1>2, <2>1, <2>2 DEF Sound, Once, Gone
  <2> QED BY <1>1, <2>1, <2>3, <2>4 DEF Sound, Single, Shut, Held, Asked, Holds
<1>3. CASE ready = <<>>
  <2>1. has' = [has EXCEPT ![p] = frame[p]] BY <1>3 DEF Exit
  <2>2. \A l \in Lock : ~locked[l] BY <1>1, <1>3, EmptyQueue, HolderIsReady
  <2>3. blocked = <<>>
    <3> SUFFICES ASSUME blocked # <<>> PROVE FALSE OBVIOUS
    <3>1. Head(blocked) \in ToSet(blocked) /\ Head(blocked) \in Task
      BY TailQueue DEF TypeOK
    <3> QED BY <1>1, <2>2, <3>1 DEF Sound, Asked, Shut, Once
  <2>4. ready' = <<>> /\ cur' = p BY <1>1, <1>3 DEF Scheduler
  <2>5. \A t \in Task : t # p => t \in exited /\ has'[t] = NULL
    BY <1>1, <1>3, <2>1, <2>3, EmptyQueue DEF Sound, Once, Gone
  <2>6. Once' BY <1>1, <1>3, <2>3, <2>4 DEF Sound, Once
  <2>7. Single' BY <1>1, <2>5 DEF Single, Holds
  <2>8. Gone' BY <1>1, <2>3, <2>4, <2>5 DEF Gone, Sound, TypeOK
  <2> QED BY <1>1, <2>2, <2>3, <2>5, <2>6, <2>7, <2>8, EmptyQueue DEF Sound, Shut, Held, Asked
<1> QED BY <1>2, <1>3

LEMMA AcquireFreeSound ==
  ASSUME TypeOK, Sound, NEW p \in Task, NEW l \in Lock, AcquireFree(p, l)
  PROVE  Sound'
<1>1. /\ p = cur /\ has[p] = NULL /\ ~locked[l] /\ UNCHANGED <<ready, blocked, cur, exited>>
      /\ \A k \in Lock : locked'[k] = (k = l \/ locked[k])
      /\ \A t \in Task : has'[t] = IF t = p THEN l ELSE has[t]
      /\ NULL \notin Lock /\ p \notin ToSet(blocked)
  BY CoopAssumption, QueueFacts DEF AcquireFree, TypeOK, Sound
<1>2. \A t \in Task : ~Holds(t, l)
  BY <1>1 DEF Sound, Shut, Gone, Holds
<1>3. \A t \in Task, k \in Lock : Holds(t, k)' <=> (t = p /\ k = l) \/ Holds(t, k)
  BY <1>1 DEF Holds
<1>4. Single' BY <1>1, <1>2, <1>3 DEF Sound, Single, Holds
<1>5. Held' BY <1>1, <1>3 DEF Sound, Held
<1>6. Gone' BY <1>1 DEF Sound, Gone, TypeOK
<1>7. Asked' BY <1>1, QueueFacts DEF Sound, Asked
<1>8. Once' BY <1>1 DEF Sound, Once
<1>9. Shut'
  <2> SUFFICES ASSUME NEW k \in Lock, NEW t \in Task \ exited', has'[t] = k PROVE locked'[k]
    BY DEF Shut
  <2>1. CASE t = p BY <1>1, <2>1
  <2>2. CASE t # p
    <3>1. has[t] = k /\ t \notin exited BY <1>1, <2>2
    <3>2. locked[k] BY <3>1 DEF Sound, Shut
    <3> QED BY <1>1, <3>2
  <2> QED BY <2>1, <2>2
<1> QED BY <1>4, <1>5, <1>6, <1>7, <1>8, <1>9 DEF Sound

LEMMA AcquireTakenSound ==
  ASSUME TypeOK, Sound, NEW p \in Task, NEW l \in Lock, AcquireTaken(p, l)
  PROVE  Sound' /\ stray' = stray /\ \A t \in Task, k \in Lock : Holds(t, k)' <=> Holds(t, k)
<1>1. /\ p = cur /\ has[p] = NULL /\ locked[l] /\ Scheduler(ready) /\ blocked' = Push(blocked, p)
      /\ UNCHANGED <<locked, exited>> /\ stray' = (stray \/ (ready = <<>>))
      /\ \A t \in Task : has'[t] = IF t = p THEN l ELSE has[t]
      /\ NULL \notin Lock /\ p \notin ToSet(blocked) /\ p \notin ToSet(ready)
      /\ blocked \in Seq(Task) /\ IsInjective(blocked) /\ ready \in Seq(Task) /\ IsInjective(ready)
  BY CoopAssumption, QueueFacts DEF AcquireTaken, TypeOK, Sound, Once
<1>2. p \notin exited /\ ready # <<>> BY <1>1, HolderIsReady, EmptyQueue
<1>3. ToSet(blocked') = ToSet(blocked) \cup {p} /\ IsInjective(blocked') BY <1>1, RoomLeft
<1>4. IsInjective(ready') /\ cur' \in ToSet(ready) /\ ToSet(ready') = ToSet(ready) \ {cur'}
  BY <1>1, <1>2, SchedulerTakes
<1>5. Once' BY <1>1, <1>2, <1>3, <1>4 DEF Sound, Once
<1>6. \A t \in Task, k \in Lock : Holds(t, k)' <=> Holds(t, k) BY <1>1, <1>3 DEF Holds
<1>7. Shut' BY <1>1 DEF Sound, Shut
<1>8. Gone'
  <2>1. \A t \in exited : t # cur' /\ t # cur /\ t # p BY <1>1, <1>2, <1>4 DEF Sound, Once
  <2>2. exited \subseteq Task BY DEF TypeOK
  <2> QED BY <1>1, <2>1, <2>2 DEF Sound, Gone
<1>9. Asked' BY <1>1, <1>3, QueueFacts DEF Sound, Asked
<1>10. Single' /\ Held' BY <1>1, <1>6 DEF Sound, Single, Held
<1>11. stray' = stray BY <1>1, <1>2 DEF TypeOK
<1> QED BY <1>5, <1>6, <1>7, <1>8, <1>9, <1>10, <1>11 DEF Sound

LEMMA ReleaseSound ==
  ASSUME TypeOK, Sound, NEW p \in Task, NEW l \in Lock, Release(p, l), ~stray'
  PROVE  Sound'
<1>1. /\ p = cur /\ has[p] = l /\ UNCHANGED <<cur, exited>>
      /\ \A t \in Task : has'[t] = IF t = p THEN NULL ELSE has[t]
      /\ NULL \notin Lock /\ p \notin ToSet(blocked) /\ p \notin ToSet(ready)
      /\ blocked \in Seq(Task) /\ IsInjective(blocked) /\ ready \in Seq(Task) /\ IsInjective(ready)
      /\ ToSet(blocked) \subseteq Task /\ exited \subseteq Task
      /\ locked \in [Lock -> BOOLEAN]
  BY CoopAssumption, QueueFacts DEF Release, TypeOK, Sound, Once
<1>2. \A t \in Task : Holds(t, l) => t = p BY <1>1 DEF Sound, Single, Holds
<1>3. (Gone' /\ Asked' /\ ready' = ready) \/ blocked # <<>>
  <2> SUFFICES ASSUME blocked = <<>> PROVE Gone' /\ Asked' /\ ready' = ready OBVIOUS
  <2>1. UNCHANGED <<ready, blocked>> BY DEF Release
  <2> QED BY <1>1, <2>1 DEF Sound, Gone, Asked
<1>4. CASE blocked = <<>>
  <2>1. UNCHANGED <<ready, blocked>> /\ \A k \in Lock : locked'[k] = (k # l /\ locked[k])
    BY <1>1, <1>4 DEF Release
  <2>2. \A t \in Task, k \in Lock : Holds(t, k)' <=> Holds(t, k) /\ t # p
    BY <1>1, <2>1 DEF Holds
  <2>3. Shut'
    <3> SUFFICES ASSUME NEW k \in Lock, NEW t \in Task \ exited, has'[t] = k PROVE locked'[k]
      BY <1>1 DEF Shut
    <3>1. t # p /\ has[t] = k BY <1>1
    <3>2. Holds(t, k) BY <1>4, <3>1, EmptyQueue DEF Holds
    <3> QED BY <1>2, <2>1, <3>1, <3>2 DEF Sound, Shut
  <2>4. Held'
    <3> SUFFICES ASSUME NEW k \in Lock, locked'[k] PROVE \E t \in Task : Holds(t, k)'
      BY DEF Held
    <3>1. k # l /\ locked[k] BY <2>1
    <3>2. PICK t \in Task : Holds(t, k) BY <3>1 DEF Sound, Held
    <3> QED BY <1>1, <2>2, <3>1, <3>2 DEF Holds
  <2>5. Single' BY <2>2 DEF Sound, Single
  <2> QED BY <1>1, <1>3, <1>4, <2>1, <2>3, <2>4, <2>5 DEF Sound, Once
<1>5. CASE blocked # <<>>
  <2> DEFINE h == Head(blocked)
  <2>0. /\ blocked' = Tail(blocked) /\ locked' = locked /\ ready' = Push(ready, h)
        /\ stray' = (stray \/ has[h] # l)
    BY <1>5 DEF Release
  <2>1. /\ h \in ToSet(blocked) /\ h \in Task /\ locked' = locked
        /\ ToSet(blocked') = ToSet(blocked) \ {h} /\ IsInjective(blocked')
        /\ ready' = Push(ready, h)
    BY <1>1, <1>5, <2>0, TailQueue
  <2>2. has[h] = l /\ h # p /\ h \notin ToSet(ready)
    <3>1. has[h] = l BY <2>0
    <3> QED BY <1>1, <2>1, <3>1 DEF Sound, Once
  <2> HIDE DEF h
  <2>3. ToSet(ready') = ToSet(ready) \cup {h} /\ IsInjective(ready')
    <3>1. /\ Push(ready, h) = Append(ready, h)
          /\ ToSet(Append(ready, h)) = ToSet(ready) \cup {h} /\ IsInjective(Append(ready, h))
      BY <1>1, <2>1, <2>2, RoomLeft
    <3> QED BY <2>1, <3>1
  <2>4. Once' BY <1>1, <2>1, <2>3 DEF Sound, Once
  <2>5. \A t \in Task, k \in Lock : Holds(t, k)' <=> (Holds(t, k) /\ t # p) \/ (t = h /\ k = l)
    BY <1>1, <2>1, <2>2 DEF Holds
  <2>6. Single' BY <1>2, <2>1, <2>2, <2>5 DEF Sound, Single, Holds
  <2>7. Shut' BY <1>1, <2>1 DEF Sound, Shut
  <2>8. Held' BY <1>1, <2>1, <2>5 DEF Sound, Held, Holds
  <2>9. Gone' /\ Asked'
    <3>1. p \notin exited BY <1>1, <1>5 DEF Sound, Gone
    <3> QED BY <1>1, <2>1, <3>1 DEF Sound, Gone, Asked
  <2> QED BY <2>4, <2>6, <2>7, <2>8, <2>9 DEF Sound
<1> QED BY <1>4, <1>5

LEMMA StepSound == TypeOK /\ (~stray => Sound) /\ [Next]_vars => (~stray' => Sound')
<1> SUFFICES ASSUME TypeOK, ~stray => Sound, [Next]_vars, ~stray' PROVE Sound'
  OBVIOUS
<1>1. Sound
  <2>1. stray => stray' BY DEF Next, vars, Yield, Exit, AcquireFree, AcquireTaken, Release
  <2> QED BY <2>1
<1>2. ASSUME NEW p \in Task, Yield(p) \/ Exit(p) PROVE Sound'
  BY <1>1, <1>2, YieldSound, ExitSound
<1>3. ASSUME NEW p \in Task, NEW l \in Lock,
             AcquireFree(p, l) \/ AcquireTaken(p, l) \/ Release(p, l)
      PROVE  Sound'
  BY <1>1, <1>3, AcquireFreeSound, AcquireTakenSound, ReleaseSound
<1>4. CASE UNCHANGED vars
  BY <1>1, <1>4 DEF vars, Sound, Once, Single, Shut, Held, Gone, Asked, Holds
<1> QED BY <1>2, <1>3, <1>4 DEF Next

(* The first task runs, and the others fill the ready queue but for one.   *)
LEMMA InitSound == Init => TypeOK /\ Sound /\ Used
<1> SUFFICES ASSUME Init PROVE TypeOK /\ Sound /\ Used
  OBVIOUS
<1>1. PICK order \in [1 .. Capacity -> Task] :
        ToSet(order) = Task /\ cur = Head(order) /\ ready = Tail(order)
  BY DEF Init
<1>2. Capacity \in Nat /\ IsFiniteSet(Task) BY CoopAssumption, FS_CardinalityType DEF Capacity
<1>3. order \in Seq(Task) BY <1>2, SeqDef
<1>4. IsInjective(order)
  <2>1. order \in Surjection(1 .. Capacity, Task) BY <1>1 DEF ToSet, Surjection
  <2>2. IsFiniteSet(1 .. Capacity) /\ Cardinality(1 .. Capacity) = Cardinality(Task)
    <3>1. 1 \in Int /\ Capacity \in Int BY <1>2
    <3>2. /\ IsFiniteSet(1 .. Capacity)
          /\ Cardinality(1 .. Capacity) = IF 1 > Capacity THEN 0 ELSE Capacity - 1 + 1
      BY <3>1, FS_Interval
    <3> QED BY <1>2, <3>2 DEF Capacity
  <2>3. order \in Injection(1 .. Capacity, Task)
    BY <2>1, <2>2, FS_SurjSameCardinalityImpliesInj
  <2> QED BY <2>3 DEF Injection
<1>5. order # <<>> BY <1>1, CoopAssumption, EmptyQueue
<1>6. /\ cur \in Task /\ ready \in Seq(Task) /\ IsInjective(ready) /\ ToSet(ready) = Task \ {cur}
  BY <1>1, <1>3, <1>4, <1>5, TailQueue
<1>7. TypeOK
  <2>1. <<>> \in Seq(Task) OBVIOUS
  <2>2. cur \in Task /\ ready \in Seq(Task) BY <1>6
  <2>3. /\ blocked = <<>> /\ locked = [l \in Lock |-> FALSE] /\ has = [p \in Task |-> NULL]
        /\ frame = [p \in Task |-> NULL] /\ exited = {} /\ used = {} /\ stray = FALSE
    BY DEF Init
  <2> QED BY <2>1, <2>2, <2>3 DEF TypeOK
<1>8. Once BY <1>6, EmptyQueue DEF Init, Once
<1>9. Single /\ Shut /\ Held /\ Gone /\ Asked
  BY CoopAssumption, EmptyQueue DEF Init, Single, Shut, Held, Gone, Asked, Holds
<1>10. Used BY FS_EmptySet DEF Init, Used
<1> QED BY <1>7, <1>8, <1>9, <1>10 DEF Sound

-----------------------------------------------------------------------------
(* While no task has gone on without its lock (lock.c:27), lock, queue and *)
(* statuses agree.                                                         *)
THEOREM AlwaysSound == Spec => [](TypeOK /\ (~stray => Sound))
<1>1. TypeOK /\ (~stray => Sound) /\ [Next]_vars => TypeOK' /\ (~stray' => Sound')
  BY StepTyped, StepSound
<1> QED BY <1>1, InitSound, PTL DEF Spec

(* The locks of lock.c exclude, until a task has gone on without its lock. *)
THEOREM LocksExclude == Spec => []MutualExclusion
<1>1. (~stray => Sound) => MutualExclusion BY DEF Sound, Single, Shut, MutualExclusion
<1> QED BY <1>1, AlwaysSound, PTL

(* No push of the scheduler finds its ring full (queue.c:10), and no task  *)
(* is in it twice.                                                         *)
THEOREM NobodyDropped == Spec => []OnePlace
<1>1. TypeOK /\ (~stray => Sound) => OnePlace
  <2> DEFINE places == ready \o blocked
             at(p) == {i \in DOMAIN places : places[i] = p}
  <2> SUFFICES ASSUME TypeOK, Sound, NEW p \in Task
               PROVE  Cardinality(at(p)) = IF p = cur \/ p \in exited THEN 0 ELSE 1
    BY DEF OnePlace
  <2>1. IsInjective(places) /\ ToSet(places) = Task \ (exited \cup {cur})
    BY ConcatQueue DEF TypeOK, Sound, Once
  <2> HIDE DEF places
  <2>2. CASE p = cur \/ p \in exited
    <3>1. at(p) = {} BY <2>1, <2>2 DEF ToSet
    <3> QED BY <2>2, <3>1, FS_EmptySet
  <2>3. CASE ~(p = cur \/ p \in exited)
    <3>1. PICK i \in DOMAIN places : places[i] = p BY <2>1, <2>3 DEF ToSet
    <3>2. at(p) = {i} BY <2>1, <3>1 DEF IsInjective
    <3> QED BY <2>3, <3>2, FS_Singleton
  <2> QED BY <2>2, <2>3
<1> QED BY <1>1, AlwaysSound, PTL

(* Programs of one lock never meet the fault of the shared queue.          *)
THEOREM OneLockIsSafe == Spec => []OneLockNeverStrays
<1>1. TypeOK /\ Used /\ [Next]_vars => Used'
  <2> SUFFICES ASSUME TypeOK, Used, [Next]_vars PROVE Used'
    OBVIOUS
  <2>1. used' = used \/ \E l \in Lock : used' = used \cup {l}
    BY DEF Next, vars, Yield, Exit, AcquireFree, AcquireTaken, Release
  <2>2. IsFiniteSet(used') BY <2>1, FS_AddElement DEF Used
  <2>3. ASSUME NEW p \in Task, Yield(p) PROVE Used' BY <2>2, <2>3 DEF Used, Yield, TypeOK
  <2>4. ASSUME NEW p \in Task, Exit(p) PROVE Used' BY <2>2, <2>4 DEF Used, Exit, TypeOK
  <2>5. ASSUME NEW p \in Task, NEW l \in Lock, AcquireFree(p, l) PROVE Used'
    BY <2>2, <2>5 DEF Used, AcquireFree, TypeOK
  <2>6. ASSUME NEW p \in Task, NEW l \in Lock, AcquireTaken(p, l) PROVE Used'
    BY <2>2, <2>6 DEF Used, AcquireTaken, TypeOK
  <2>7. ASSUME NEW p \in Task, NEW l \in Lock, Release(p, l) PROVE Used'
    BY <2>2, <2>7 DEF Used, Release, TypeOK
  <2>8. CASE UNCHANGED vars BY <2>2, <2>8 DEF Used, vars
  <2> QED BY <2>3, <2>4, <2>5, <2>6, <2>7, <2>8 DEF Next
<1>2. /\ TypeOK /\ (~stray => Sound) /\ Used /\ OneLockNeverStrays
      /\ TypeOK' /\ Used' /\ [Next]_vars
      => OneLockNeverStrays'
  <2> SUFFICES ASSUME TypeOK, ~stray => Sound, Used, OneLockNeverStrays, Used', [Next]_vars,
                      Cardinality(used') <= 1
               PROVE  stray' = FALSE
    BY DEF OneLockNeverStrays
  <2>1. used \subseteq used'
    BY DEF Next, vars, Yield, Exit, AcquireFree, AcquireTaken, Release
  <2>2. /\ Cardinality(used) <= Cardinality(used')
        /\ Cardinality(used) \in Nat /\ Cardinality(used') \in Nat
    BY <2>1, FS_Subset, FS_CardinalityType DEF Used
  <2>3. ~stray /\ Sound BY <2>2 DEF OneLockNeverStrays
  <2>4. \A k, l \in used : k = l
    <3> SUFFICES ASSUME NEW k \in used, NEW l \in used, k # l PROVE FALSE
      OBVIOUS
    <3>1. IsFiniteSet({l}) /\ Cardinality({l}) = 1 BY FS_Singleton
    <3>2. Cardinality({l} \cup {k}) = 2 BY <3>1, FS_AddElement
    <3>3. Cardinality({l} \cup {k}) <= Cardinality(used) BY FS_Subset DEF Used
    <3> QED BY <2>2, <3>2, <3>3
  <2>5. ASSUME NEW p \in Task, Yield(p) \/ Exit(p) \/ \E l \in Lock : AcquireFree(p, l)
        PROVE  stray' = FALSE
    BY <2>3, <2>5 DEF Yield, Exit, AcquireFree, TypeOK
  <2>6. ASSUME NEW p \in Task, NEW l \in Lock, AcquireTaken(p, l) PROVE stray' = FALSE
    BY <2>3, <2>6, AcquireTakenSound DEF TypeOK
  <2>7. ASSUME NEW p \in Task, NEW l \in Lock, Release(p, l) PROVE stray' = FALSE
    <3>1. CASE blocked = <<>> BY <2>3, <2>7, <3>1 DEF Release, TypeOK
    <3>2. CASE blocked # <<>>
      <4>1. Head(blocked) \in ToSet(blocked) /\ Head(blocked) \in Task
        BY <3>2, TailQueue DEF TypeOK
      <4>2. has[Head(blocked)] \in used BY <2>3, <4>1 DEF Used, Sound, Asked
      <4>3. l \in used /\ has[p] = l BY <2>7, CoopAssumption DEF Used, Release
      <4>4. has[Head(blocked)] = l BY <2>4, <4>2, <4>3
      <4>5. stray' = (stray \/ has[Head(blocked)] # l) BY <2>7, <3>2 DEF Release
      <4> QED BY <2>3, <4>4, <4>5
    <3> QED BY <3>1, <3>2
  <2>8. CASE UNCHANGED vars BY <2>3, <2>8 DEF vars, TypeOK
  <2> QED BY <2>5, <2>6, <2>7, <2>8 DEF Next
<1>3. Init => OneLockNeverStrays BY DEF Init, OneLockNeverStrays
<1> QED BY <1>1, <1>2, <1>3, InitSound, AlwaysSound, PTL DEF Spec

(* FIFO fairness (lock.c:3), until a task has gone on without its lock:    *)
(* the only step that gives a lock to a task while another waits for it is *)
(* a release, and it gives it to the head of the queue.                    *)
FifoStep ==
  ~stray' => \A l \in Lock, p, q \in Task :
    Waits(p, l) /\ Waits(p, l)' /\ Holds(q, l)' /\ ~Holds(q, l) =>
      \E i, j \in 1 .. Len(blocked) : i < j /\ blocked[i] = q /\ blocked[j] = p

(* The locks of lock.c are granted in the order in which tasks asked.      *)
THEOREM FirstComeFirstServed == Spec => Fifo
<1>1. TypeOK /\ (~stray => Sound) /\ [Next]_vars => [FifoStep]_vars
  <2> SUFFICES ASSUME TypeOK, ~stray => Sound, Next, ~stray',
                      NEW l \in Lock, NEW p \in Task, NEW q \in Task,
                      Waits(p, l), Waits(p, l)', Holds(q, l)', ~Holds(q, l)
               PROVE  \E i, j \in 1 .. Len(blocked) : i < j /\ blocked[i] = q /\ blocked[j] = p
    BY DEF FifoStep
  <2>1. Sound
    <3>1. stray => stray' BY DEF Next, Yield, Exit, AcquireFree, AcquireTaken, Release
    <3> QED BY <3>1
  <2>2. /\ p \in ToSet(blocked) /\ has[p] = l /\ locked[l] /\ blocked # <<>>
        /\ blocked \in Seq(Task) /\ NULL \notin Lock
    <3>1. p \in ToSet(blocked) /\ has[p] = l BY DEF Waits
    <3>2. p \notin exited BY <2>1, <3>1 DEF Sound, Once
    <3>3. blocked # <<>> BY <3>1, EmptyQueue
    <3> QED BY <2>1, <3>1, <3>2, <3>3, CoopAssumption DEF Sound, Shut, TypeOK
  <2>3. ASSUME NEW t \in Task, Yield(t) PROVE FALSE BY <2>3 DEF Yield, Holds
  <2>4. ASSUME NEW t \in Task, Exit(t) PROVE FALSE
    <3>1. t = cur /\ has[t] = NULL BY <2>4 DEF Exit
    <3>2. ready # <<>> BY <2>1, <2>2, <3>1, HolderIsReady, EmptyQueue
    <3> QED BY <2>4, <3>2 DEF Exit, Holds
  <2>5. ASSUME NEW t \in Task, NEW k \in Lock, AcquireFree(t, k) PROVE FALSE
    BY <2>2, <2>5 DEF AcquireFree, Holds, TypeOK
  <2>6. ASSUME NEW t \in Task, NEW k \in Lock, AcquireTaken(t, k) PROVE FALSE
    BY <2>1, <2>6, AcquireTakenSound
  <2>7. ASSUME NEW t \in Task, NEW k \in Lock, Release(t, k)
        PROVE  \E i, j \in 1 .. Len(blocked) : i < j /\ blocked[i] = q /\ blocked[j] = p
    <3>1. blocked' = Tail(blocked) /\ has' = [has EXCEPT ![t] = NULL]
      BY <2>2, <2>7 DEF Release
    <3>2. has[q] = l /\ q \in ToSet(blocked) /\ q \notin ToSet(Tail(blocked))
      BY <2>2, <3>1 DEF Holds, TypeOK
    <3>3. ToSet(blocked) = ToSet(Tail(blocked)) \cup {Head(blocked)} BY <2>2, TailQueue
    <3>4. q = Head(blocked) /\ p # q BY <3>1, <3>2, <3>3 DEF Waits
    <3>5. Len(blocked) \in Nat /\ Len(blocked) > 0 /\ Head(blocked) = blocked[1]
      BY <2>2, HeadTailProperties, LenProperties, EmptySeq
    <3>6. PICK j \in 1 .. Len(blocked) : blocked[j] = p
      BY <2>2, LenProperties DEF ToSet
    <3>7. 1 < j BY <3>4, <3>5, <3>6
    <3> QED BY <3>4, <3>5, <3>6, <3>7
  <2> QED BY <2>3, <2>4, <2>5, <2>6, <2>7 DEF Next
<1>2. Fifo <=> [][FifoStep]_vars BY DEF Fifo, FifoStep
<1> QED BY <1>1, <1>2, AlwaysSound, PTL DEF Spec

-----------------------------------------------------------------------------
(***************************************************************************)
(* The ring buffer of queue.c is the bounded sequence that Coop takes it   *)
(* for, for any capacity and any number of wraps.                          *)
(***************************************************************************)
Q == INSTANCE Ring WITH Pcb <- Task

(* An index that a step moves on wraps at most once.                       *)
LEMMA WrapsOnce ==
  ASSUME NEW n \in Nat \ {0}, NEW i \in Int, 0 <= i, i < 2 * n
  PROVE  Q!Wrap(i, n) = IF i < n THEN i ELSE i - n
  <1>1. i % n = IF i < n THEN i ELSE i - n
    BY SMTT(30)
  <1> QED BY <1>1 DEF Q!Wrap

(* What the type of a ring says of its fields.                             *)
LEMMA Fields ==
  ASSUME NEW n \in Nat \ {0}, NEW q \in Q!Rings(n)
  PROVE  /\ q.head \in 0 .. n - 1 /\ q.tail \in 0 .. n - 1
         /\ q.isEmpty \in BOOLEAN /\ q.capacity = n
         /\ q.isEmpty => q.head = q.tail
         /\ q.pcbs \in [0 .. n - 1 -> Task \cup {NULL}]
  BY DEF Q!Rings

(* What the bounds of head and tail say of the number of entries: it is at *)
(* most n, zero when the ring is marked empty and only then, and the entry *)
(* after the last is the one at tail.                                      *)
LEMMA Size ==
  ASSUME NEW n \in Nat \ {0}, NEW q \in Q!Rings(n)
  PROVE  /\ Q!QueueSize(q) \in 0 .. n
         /\ Q!QueueSize(q) = 0 <=> q.isEmpty
         /\ Q!QueueSize(q) = n <=> Q!Full(q)
         /\ ~Q!Full(q) => Q!Wrap(q.head + Q!QueueSize(q), n) = q.tail
  <1>1. Q!QueueSize(q) \in 0 .. n /\ (Q!QueueSize(q) = 0 <=> q.isEmpty)
    BY Fields DEF Q!QueueSize
  <1>2. Q!QueueSize(q) = n <=> Q!Full(q)
    BY Fields DEF Q!QueueSize, Q!Full
  <1>3. ASSUME ~Q!Full(q) PROVE Q!Wrap(q.head + Q!QueueSize(q), n) = q.tail
    <2>1. q.head + Q!QueueSize(q) = IF q.head <= q.tail THEN q.tail ELSE q.tail + n
      BY <1>3, Fields DEF Q!QueueSize, Q!Full
    <2>2. q.head + Q!QueueSize(q) \in 0 .. 2 * n - 1
      BY <2>1, Fields
    <2>3. Q!Wrap(q.head + Q!QueueSize(q), n) =
            IF q.head + Q!QueueSize(q) < n THEN q.head + Q!QueueSize(q)
            ELSE q.head + Q!QueueSize(q) - n
      BY <1>1, <2>2, WrapsOnce, Fields
    <2> QED BY <1>1, <2>1, <2>3, Fields
  <1> QED BY <1>1, <1>2, <1>3

(* The index of the i-th task in the ring, and that no task that waits is  *)
(* at tail unless the ring is full.                                        *)
LEMMA Index ==
  ASSUME NEW n \in Nat \ {0}, NEW q \in Q!Rings(n), NEW i \in 1 .. Q!QueueSize(q)
  PROVE  /\ Q!Wrap(q.head + i - 1, n) = IF q.head + i - 1 < n THEN q.head + i - 1 ELSE q.head + i - 1 - n
         /\ Q!Wrap(q.head + i - 1, n) \in 0 .. n - 1
         /\ ~Q!Full(q) => Q!Wrap(q.head + i - 1, n) # q.tail
  <1>1. Q!QueueSize(q) \in 0 .. n
    BY Size
  <1>2. q.head + i - 1 \in 0 .. 2 * n - 1
    BY <1>1, Fields
  <1>3. Q!Wrap(q.head + i - 1, n) = IF q.head + i - 1 < n THEN q.head + i - 1 ELSE q.head + i - 1 - n
    BY <1>2, WrapsOnce, Fields
  <1>4. Q!Wrap(q.head + i - 1, n) \in 0 .. n - 1
    BY <1>1, <1>3, Fields
  <1>5. ASSUME ~Q!Full(q) PROVE Q!Wrap(q.head + i - 1, n) # q.tail
    <2>1. i \in Int /\ 1 <= i /\ i <= Q!QueueSize(q) /\ q.head \in Int /\ q.tail \in Int
      BY <1>1, Fields
    <2>2. Q!QueueSize(q) = IF q.head <= q.tail THEN q.tail - q.head ELSE q.tail + n - q.head
      BY <1>5, Fields DEF Q!QueueSize, Q!Full
    <2> QED BY <1>3, <2>1, <2>2, Fields
  <1> QED BY <1>3, <1>4, <1>5

(* The ring's contents are a sequence of that many pcbs.                   *)
LEMMA ContentsType ==
  ASSUME NEW n \in Nat \ {0}, NEW q \in Q!Rings(n)
  PROVE  /\ Q!Contents(q) \in Seq(Task \cup {NULL})
         /\ Len(Q!Contents(q)) = Q!QueueSize(q)
         /\ \A i \in 1 .. Q!QueueSize(q) : Q!Contents(q)[i] = q.pcbs[Q!Wrap(q.head + i - 1, n)]
  <1>1. Q!QueueSize(q) \in Nat
    BY Size
  <1>2. \A i \in 1 .. Q!QueueSize(q) : q.pcbs[Q!Wrap(q.head + i - 1, n)] \in Task \cup {NULL}
    BY Index, Fields
  <1>3. Q!Contents(q) = [i \in 1 .. Q!QueueSize(q) |-> q.pcbs[Q!Wrap(q.head + i - 1, n)]]
    BY Fields DEF Q!Contents
  <1> QED BY <1>1, <1>2, <1>3

-----------------------------------------------------------------------------
(* queue_init() leaves an empty ring.                                      *)
THEOREM InitEmpties ==
  ASSUME NEW n \in Nat \ {0}, NEW q \in Q!Rings(n)
  PROVE  Q!QueueInit(q) \in Q!Rings(n) /\ Q!Contents(Q!QueueInit(q)) = <<>>
  <1>1. Q!QueueInit(q) \in Q!Rings(n) /\ Q!QueueInit(q).isEmpty
    BY DEF Q!QueueInit, Q!Rings
  <1> QED BY <1>1, Size, ContentsType

(* queue_push() appends, until n tasks wait; then it changes nothing.      *)
THEOREM PushAppends ==
  ASSUME NEW n \in Nat \ {0}, NEW q \in Q!Rings(n), NEW pcb \in Task
  PROVE  /\ Q!QueuePush(q, pcb) \in Q!Rings(n)
         /\ Q!Contents(Q!QueuePush(q, pcb)) =
              IF Len(Q!Contents(q)) < n THEN Append(Q!Contents(q), pcb) ELSE Q!Contents(q)
  <1> DEFINE r == Q!QueuePush(q, pcb)
  <1>1. Len(Q!Contents(q)) < n <=> ~Q!Full(q)
    BY Size, ContentsType
  <1>2. CASE Q!Full(q)
    BY <1>1, <1>2 DEF Q!QueuePush
  <1>3. CASE ~Q!Full(q)
    <2>1. Q!Wrap(q.tail + 1, n) = IF q.tail + 1 < n THEN q.tail + 1 ELSE 0
      <3>1. q.tail + 1 \in 0 .. 2 * n - 1
        BY Fields
      <3>2. Q!Wrap(q.tail + 1, n) = IF q.tail + 1 < n THEN q.tail + 1 ELSE q.tail + 1 - n
        BY <3>1, WrapsOnce, Fields
      <3> QED BY <3>2, Fields
    <2>2. r = [head |-> q.head, tail |-> Q!Wrap(q.tail + 1, n), isEmpty |-> FALSE,
               capacity |-> n, pcbs |-> [q.pcbs EXCEPT ![q.tail] = pcb]]
      BY <1>3, Fields DEF Q!QueuePush
    <2>3. r \in Q!Rings(n)
      <3>1. Q!Wrap(q.tail + 1, n) \in 0 .. n - 1
        BY <2>1, Fields
      <3>2. [q.pcbs EXCEPT ![q.tail] = pcb] \in [0 .. n - 1 -> Task \cup {NULL}]
        BY Fields
      <3> QED BY <2>2, <3>1, <3>2, Fields DEF Q!Rings
    <2>4. /\ r.head = q.head /\ r.tail = Q!Wrap(q.tail + 1, n) /\ ~r.isEmpty
          /\ r.capacity = n /\ r.pcbs = [q.pcbs EXCEPT ![q.tail] = pcb]
      BY <2>2
    <2> HIDE DEF r
    <2>5. Q!QueueSize(r) = Q!QueueSize(q) + 1
      <3>1. Q!QueueSize(r) = IF q.head < r.tail THEN r.tail - q.head ELSE r.tail + n - q.head
        BY <2>4 DEF Q!QueueSize
      <3>2. CASE q.tail + 1 < n
        <4>1. r.tail = q.tail + 1
          BY <2>1, <2>4, <3>2
        <4> QED BY <1>3, <3>1, <3>2, <4>1, Fields DEF Q!QueueSize, Q!Full
      <3>3. CASE q.tail = n - 1
        <4>1. r.tail = 0
          BY <2>1, <2>4, <3>3, Fields
        <4>2. Q!QueueSize(r) = n - q.head
          BY <3>1, <4>1, Fields
        <4>3. q.isEmpty => q.head = n - 1 /\ Q!QueueSize(q) = 0
          BY <3>3, Fields DEF Q!QueueSize
        <4>4. ~q.isEmpty => q.head < q.tail /\ Q!QueueSize(q) = q.tail - q.head
          BY <1>3, <3>3, Fields DEF Q!QueueSize, Q!Full
        <4> QED BY <3>3, <4>2, <4>3, <4>4, Fields
      <3> QED BY <3>2, <3>3, Fields
    <2>6. Q!QueueSize(q) \in Nat
      BY Size
    <2>7. ASSUME NEW i \in 1 .. Q!QueueSize(q) PROVE Q!Contents(r)[i] = Q!Contents(q)[i]
      <3>1. Q!Wrap(q.head + i - 1, n) \in 0 .. n - 1 /\ Q!Wrap(q.head + i - 1, n) # q.tail
        BY <1>3, Index
      <3>2. Q!Contents(r)[i] = r.pcbs[Q!Wrap(r.head + i - 1, n)]
        BY <2>3, <2>5, <2>6, ContentsType
      <3>3. Q!Contents(q)[i] = q.pcbs[Q!Wrap(q.head + i - 1, n)]
        BY ContentsType
      <3> QED BY <2>4, <3>1, <3>2, <3>3, Fields
    <2>8. Q!Contents(r)[Q!QueueSize(q) + 1] = pcb
      <3>1. Q!Wrap(q.head + Q!QueueSize(q), n) = q.tail
        BY <1>3, Size
      <3>2. Q!Contents(r)[Q!QueueSize(r)] = r.pcbs[Q!Wrap(r.head + Q!QueueSize(r) - 1, n)]
        <4>1. Q!QueueSize(r) \in 1 .. Q!QueueSize(r)
          BY <2>5, <2>6
        <4> QED BY <2>3, <4>1, ContentsType
      <3>3. r.head + Q!QueueSize(r) - 1 = q.head + Q!QueueSize(q)
        BY <2>4, <2>5, <2>6, Fields
      <3> QED BY <2>4, <2>5, <3>1, <3>2, <3>3, Fields
    <2>9. Q!Contents(r) = Append(Q!Contents(q), pcb)
      <3>1. /\ Q!Contents(r) \in Seq(Task \cup {NULL}) /\ Len(Q!Contents(r)) = Q!QueueSize(q) + 1
            /\ Q!Contents(q) \in Seq(Task \cup {NULL}) /\ Len(Q!Contents(q)) = Q!QueueSize(q)
        BY <2>3, <2>5, ContentsType
      <3> QED BY <2>6, <2>7, <2>8, <3>1
    <2> QED BY <1>1, <1>3, <2>3, <2>9 DEF r
  <1> QED BY <1>2, <1>3

(* queue_pop() returns the task that has waited longest and leaves the     *)
(* others in their order; on an empty ring it returns NULL and changes     *)
(* nothing.                                                                *)
THEOREM PopTakesFirst ==
  ASSUME NEW n \in Nat \ {0}, NEW q \in Q!Rings(n)
  PROVE  /\ Q!QueuePop(q) \in Q!Rings(n)
         /\ Q!Contents(q) = <<>> => Q!Popped(q) = NULL /\ Q!QueuePop(q) = q
         /\ Q!Contents(q) # <<>> => /\ Q!Popped(q) = Head(Q!Contents(q))
                                 /\ Q!Contents(Q!QueuePop(q)) = Tail(Q!Contents(q))
  <1> DEFINE r == Q!QueuePop(q)
  <1>1. Q!Contents(q) = <<>> <=> q.isEmpty
    BY Size, ContentsType
  <1>2. CASE q.isEmpty
    BY <1>1, <1>2 DEF Q!QueuePop, Q!Popped
  <1>3. CASE ~q.isEmpty
    <2>1. Q!Wrap(q.head + 1, n) = IF q.head + 1 < n THEN q.head + 1 ELSE 0
      <3>1. q.head + 1 \in 0 .. 2 * n - 1
        BY Fields
      <3>2. Q!Wrap(q.head + 1, n) = IF q.head + 1 < n THEN q.head + 1 ELSE q.head + 1 - n
        BY <3>1, WrapsOnce, Fields
      <3> QED BY <3>2, Fields
    <2> DEFINE e == Q!Wrap(q.head + 1, n) = q.tail
    <2>2. r = [head |-> Q!Wrap(q.head + 1, n), tail |-> q.tail, isEmpty |-> e,
               capacity |-> n, pcbs |-> q.pcbs]
      BY <1>3, Fields DEF Q!QueuePop
    <2>3. e \in BOOLEAN
      OBVIOUS
    <2>4. r \in Q!Rings(n)
      <3>1. Q!Wrap(q.head + 1, n) \in 0 .. n - 1
        BY <2>1, Fields
      <3>2. e => Q!Wrap(q.head + 1, n) = q.tail
        OBVIOUS
      <3> HIDE DEF r, e
      <3> QED BY <2>2, <2>3, <3>1, <3>2, Fields DEF Q!Rings
    <2>5. /\ r.head = Q!Wrap(q.head + 1, n) /\ r.tail = q.tail /\ r.isEmpty = e
          /\ r.capacity = n /\ r.pcbs = q.pcbs
      <3> HIDE DEF r, e
      <3> QED BY <2>2
    <2> HIDE DEF r, e
    <2>6. Q!QueueSize(r) = Q!QueueSize(q) - 1
      <3>1. Q!QueueSize(r) = IF r.head = q.tail THEN 0
                           ELSE IF r.head < q.tail THEN q.tail - r.head ELSE q.tail + n - r.head
        BY <2>5 DEF Q!QueueSize, e
      <3>2. CASE q.head + 1 < n
        <4>1. r.head = q.head + 1
          BY <2>1, <2>5, <3>2
        <4> QED BY <1>3, <3>1, <3>2, <4>1, Fields DEF Q!QueueSize
      <3>3. CASE q.head = n - 1
        <4>1. r.head = 0
          BY <2>1, <2>5, <3>3, Fields
        <4> QED BY <1>3, <3>1, <3>3, <4>1, Fields DEF Q!QueueSize
      <3> QED BY <3>2, <3>3, Fields
    <2>7. Q!QueueSize(q) \in 1 .. n
      BY <1>3, Size
    <2>8. ASSUME NEW i \in 1 .. Q!QueueSize(r) PROVE Q!Contents(r)[i] = Q!Contents(q)[i + 1]
      <3>1. i + 1 \in 1 .. Q!QueueSize(q)
        BY <2>6, <2>7
      <3>2. Q!Wrap(r.head + i - 1, n) = IF r.head + i - 1 < n THEN r.head + i - 1 ELSE r.head + i - 1 - n
        BY <2>4, Index
      <3>3. Q!Wrap(q.head + (i + 1) - 1, n) =
              IF q.head + (i + 1) - 1 < n THEN q.head + (i + 1) - 1 ELSE q.head + (i + 1) - 1 - n
        BY <3>1, Index
      <3>4. Q!Wrap(r.head + i - 1, n) = Q!Wrap(q.head + (i + 1) - 1, n)
        <4>1. i \in Int /\ q.head \in 0 .. n - 1 /\ r.head \in 0 .. n - 1
          BY <2>4, <2>6, <2>7, Fields
        <4>2. r.head = IF q.head + 1 < n THEN q.head + 1 ELSE 0
          BY <2>1, <2>5
        <4>3. i <= n - 1 /\ 1 <= i
          BY <2>6, <2>7
        <4>4. CASE q.head + 1 < n
          BY <3>2, <3>3, <4>1, <4>2, <4>4
        <4>5. CASE q.head = n - 1
          BY <3>2, <3>3, <4>1, <4>2, <4>3, <4>5
        <4> QED BY <4>1, <4>4, <4>5
      <3>5. Q!Contents(r)[i] = r.pcbs[Q!Wrap(r.head + i - 1, n)]
        BY <2>4, ContentsType
      <3>6. Q!Contents(q)[i + 1] = q.pcbs[Q!Wrap(q.head + (i + 1) - 1, n)]
        BY <3>1, ContentsType
      <3> QED BY <2>5, <3>4, <3>5, <3>6
    <2>9. /\ Q!Contents(r) \in Seq(Task \cup {NULL}) /\ Len(Q!Contents(r)) = Q!QueueSize(q) - 1
          /\ Q!Contents(q) \in Seq(Task \cup {NULL}) /\ Len(Q!Contents(q)) = Q!QueueSize(q)
      BY <2>4, <2>6, ContentsType
    <2>10. Q!Popped(q) = Head(Q!Contents(q))
      <3>1. Q!Wrap(q.head + 1 - 1, n) = q.head
        BY <2>7, Index, Fields
      <3>2. Q!Contents(q)[1] = q.pcbs[Q!Wrap(q.head + 1 - 1, n)]
        BY <2>7, ContentsType
      <3> QED BY <1>3, <2>7, <2>9, <3>1, <3>2 DEF Q!Popped
    <2>11. Q!Contents(r) = Tail(Q!Contents(q))
      BY <2>6, <2>7, <2>8, <2>9
    <2> QED BY <1>1, <1>3, <2>4, <2>10, <2>11 DEF r
  <1> QED BY <1>2, <1>3

(* queue_push() on a ring of NUM_TASKS entries is the Push of Coop.        *)
THEOREM PushIsTheRings ==
  ASSUME NEW q \in Q!Rings(Capacity), NEW pcb \in Task
  PROVE  Q!Contents(Q!QueuePush(q, pcb)) = Push(Q!Contents(q), pcb)
  <1>1. Capacity \in Nat \ {0}
    BY FS_CardinalityType, FS_EmptySet, CoopAssumption DEF Capacity
  <1>2. Len(Q!Contents(q)) \in 0 .. Capacity
    BY <1>1, Size, ContentsType
  <1> QED BY <1>1, <1>2, PushAppends DEF Push

-----------------------------------------------------------------------------
(***************************************************************************)
(* The file system.  Its invariant, DiskSound, says of the directories     *)
(* what mkdir and rmdir have said, of the blocks that nobody has one that  *)
(* is another's, and of the counters that the superblock on the disk has   *)
(* never fallen behind but for blocks.                                     *)
(***************************************************************************)
(* The directories ever made.                                              *)
Dir == 0 .. mem.inode - 1

(* The inode numbers never go back, and neither do the address blocks,     *)
(* which mkdir takes and saves at once: no mount forgets one.              *)
Counters ==
  /\ mem \in [inode : Nat \ {0}, block : Nat \ {0}]
  /\ saved \in [inode : Nat \ {0}, block : Nat \ {0}]
  /\ saved.inode = mem.inode /\ saved.block <= mem.block
  /\ lost \in BOOLEAN /\ hung \in BOOLEAN
  /\ first \in [Dir -> 0 .. saved.block - 1]
  /\ \A d, e \in Dir : first[d] = first[e] => d = e

(* What pointers, entries and reports are about.                           *)
Contents ==
  /\ ptr \in [DOMAIN ptr -> 1 .. MaxBlock]
  /\ \A k \in DOMAIN ptr : k \in Nat \X Nat /\ k[1] < saved.block
  /\ dent \in [DOMAIN dent -> [name : Name, inode : Dir, next : Int]]
  /\ tree \subseteq Dir \X Name \X Dir
  /\ \A e \in tree : <<e[1], e[2]>> \in asked

(* Blocks that no mount has forgotten are below the next one, and nobody   *)
(* has one that is another's.                                              *)
Remembered ==
  ~lost => /\ \A k \in DOMAIN ptr : ptr[k] < mem.block
           /\ \A k, l \in DOMAIN ptr : ptr[k] = ptr[l] => k = l
           /\ \A k \in DOMAIN ptr, d \in Dir : ptr[k] # first[d]

(* Every entry is where the hash of its name says, for a directory that    *)
(* has been told so.                                                       *)
EntriesReported ==
  \A x \in DOMAIN dent : \E d \in Dir :
    /\ Pointer(d, dent[x].name) \in DOMAIN ptr
    /\ x = Slot(d, dent[x].name)
    /\ <<d, dent[x].name, dent[x].inode>> \in tree

(* What has been reported is there, but for names that hash alike.         *)
ReportsEntered ==
  \A e \in tree : Shares(e[1], e[2]) \/
    /\ Pointer(e[1], e[2]) \in DOMAIN ptr
    /\ Slot(e[1], e[2]) \in DOMAIN dent
    /\ dent[Slot(e[1], e[2])].name = e[2]
    /\ dent[Slot(e[1], e[2])].inode = e[3]

DiskSound ==
  /\ Counters
  /\ Contents
  /\ Remembered
  /\ Apart => EntriesReported /\ ReportsEntered
  /\ HangsOnCollision

-----------------------------------------------------------------------------
LEMMA HashParts ==
  ASSUME NEW n \in Name
  PROVE  /\ Haxi[n] \div 15 \in Nat /\ (Haxi[n] \div 150) * 10 + 9 \in Nat
         /\ (Haxi[n] \div 150) * 150 + 135 \in Int
         /\ \A m \in Name : Haxi[m] \div 15 = Haxi[n] \div 15 /\ Haxi[m] % 15 = Haxi[n] % 15
                              => Haxi[m] = Haxi[n]
<1>1. \A m \in Name : Haxi[m] \in Nat BY FileSysAssumption
<1>2. \A m \in Name : Haxi[m] = 15 * (Haxi[m] \div 15) + (Haxi[m] % 15)
  <2> SUFFICES ASSUME NEW m \in Name PROVE Haxi[m] = 15 * (Haxi[m] \div 15) + (Haxi[m] % 15)
    OBVIOUS
  <2> DEFINE h == Haxi[m]
  <2>1. h \in Nat BY <1>1
  <2> HIDE DEF h
  <2>2. h = 15 * (h \div 15) + (h % 15) BY <2>1
  <2> QED BY <2>2 DEF h
<1>3. Haxi[n] \div 15 \in Nat /\ Haxi[n] \div 150 \in Nat BY <1>1
<1>4. (Haxi[n] \div 150) * 10 + 9 \in Nat /\ (Haxi[n] \div 150) * 150 + 135 \in Int
  <2> DEFINE q == Haxi[n] \div 150
  <2>1. q \in Nat BY <1>3
  <2> HIDE DEF q
  <2>2. q * 10 + 9 \in Nat /\ q * 150 + 135 \in Int BY <2>1
  <2> QED BY <2>2 DEF q
<1>5. ASSUME NEW m \in Name, Haxi[m] \div 15 = Haxi[n] \div 15, Haxi[m] % 15 = Haxi[n] % 15
      PROVE  Haxi[m] = Haxi[n]
  BY <1>2, <1>5
<1> QED BY <1>3, <1>4, <1>5

LEMMA WithFacts ==
  ASSUME NEW f, NEW k, NEW v
  PROVE  /\ DOMAIN With(f, k, v) = DOMAIN f \cup {k}
         /\ With(f, k, v)[k] = v
         /\ \A x \in DOMAIN f : x # k => With(f, k, v)[x] = f[x]
BY DEF With

LEMMA ZeroedFacts ==
  ASSUME NEW f, NEW b
  PROVE  /\ DOMAIN Zeroed(f, b) = {x \in DOMAIN f : x[1] # b}
         /\ \A x \in DOMAIN Zeroed(f, b) : Zeroed(f, b)[x] = f[x]
BY DEF Zeroed

LEMMA DiskBegins == FSInit => DiskSound
<1> SUFFICES ASSUME FSInit PROVE DiskSound OBVIOUS
<1>1. /\ mem = [inode |-> 1, block |-> 1] /\ saved = mem
      /\ first = [d \in {0} |-> 0] /\ ptr = <<>> /\ dent = <<>> /\ tree = {}
      /\ hung = FALSE /\ lost = FALSE
  BY DEF FSInit, Root
<1>2. DOMAIN ptr = {} /\ DOMAIN dent = {} /\ Dir = {0} BY <1>1 DEF Dir
<1>3. Counters
  <2>1. mem.inode = 1 /\ mem.block = 1 /\ mem \in [inode : Nat \ {0}, block : Nat \ {0}]
    BY <1>1
  <2>2. first \in [Dir -> 0 .. saved.block - 1] BY <1>1, <1>2
  <2>3. \A d, e \in Dir : d = e BY <1>2
  <2> QED BY <1>1, <2>1, <2>2, <2>3 DEF Counters
<1>4. Contents
  <2>1. ptr \in [DOMAIN ptr -> 1 .. MaxBlock] BY <1>1, <1>2
  <2>2. dent \in [DOMAIN dent -> [name : Name, inode : Dir, next : Int]] BY <1>1, <1>2
  <2> QED BY <1>1, <1>2, <2>1, <2>2 DEF Contents
<1>5. Remembered BY <1>2 DEF Remembered
<1>6. EntriesReported /\ ReportsEntered BY <1>1, <1>2 DEF EntriesReported, ReportsEntered
<1>7. HangsOnCollision BY <1>1 DEF HangsOnCollision
<1> QED BY <1>3, <1>4, <1>5, <1>6, <1>7 DEF DiskSound

-----------------------------------------------------------------------------
(* In a disk whose blocks have one owner each, an entry says which name it *)
(* is for.                                                                 *)

LEMMA PointersApart ==
  ASSUME Counters, Contents, Apart, NEW k \in DOMAIN ptr
  PROVE  /\ \A l \in DOMAIN ptr : ptr[k] = ptr[l] => k = l
         /\ \A d \in Dir : ptr[k] # first[d]
<1>1. ptr[k] \in 1 .. MaxBlock /\ <<"entries", k>> \in Owners(ptr[k])
  BY DEF Contents, Owners
<1>2. ASSUME NEW l \in DOMAIN ptr, ptr[k] = ptr[l] PROVE k = l
  <2>1. <<"entries", l>> \in Owners(ptr[k]) BY <1>2 DEF Owners
  <2>2. <<"entries", k>> = <<"entries", l>> BY <1>1, <2>1 DEF Apart
  <2> QED BY <2>2
<1>3. ASSUME NEW d \in Dir, ptr[k] = first[d] PROVE FALSE
  <2>1. <<"addresses", d>> \in Owners(ptr[k]) BY <1>3 DEF Owners, Counters
  <2>2. <<"entries", k>> = <<"addresses", d>> BY <1>1, <2>1 DEF Apart
  <2> QED BY <2>2
<1> QED BY <1>2, <1>3

LEMMA SlotsApart ==
  ASSUME Counters, Contents, Apart, NEW d \in Dir, NEW e \in Dir, NEW m \in Name, NEW n \in Name,
         Pointer(d, m) \in DOMAIN ptr, Pointer(e, n) \in DOMAIN ptr, Slot(d, m) = Slot(e, n)
  PROVE  d = e /\ Haxi[m] = Haxi[n]
<1>1. ptr[Pointer(d, m)] = ptr[Pointer(e, n)] /\ Haxi[m] % 15 = Haxi[n] % 15 BY DEF Slot
<1>2. Pointer(d, m) = Pointer(e, n) BY <1>1, PointersApart
<1>3. first[d] = first[e] /\ Haxi[m] \div 15 = Haxi[n] \div 15 BY <1>2 DEF Pointer
<1> QED BY <1>1, <1>3, HashParts DEF Counters

LEMMA EntryOf ==
  ASSUME Counters, Contents, Apart, EntriesReported, NEW d \in Dir, NEW n \in Name,
         Pointer(d, n) \in DOMAIN ptr, Slot(d, n) \in DOMAIN dent
  PROVE  LET m == dent[Slot(d, n)].name
         IN  /\ m \in Name /\ Haxi[m] = Haxi[n]
             /\ <<d, m, dent[Slot(d, n)].inode>> \in tree /\ <<d, m>> \in asked
             /\ m # n => Shares(d, n)
<1> DEFINE x == Slot(d, n)
           m == dent[x].name
<1>1. m \in Name BY DEF Contents
<1>2. PICK e \in Dir : /\ Pointer(e, m) \in DOMAIN ptr /\ x = Slot(e, m)
                       /\ <<e, m, dent[x].inode>> \in tree
  BY DEF EntriesReported
<1> HIDE DEF x, m
<1>3. e = d /\ Haxi[m] = Haxi[n] BY <1>1, <1>2, SlotsApart DEF x
<1>4. <<d, m, dent[x].inode>> \in tree BY <1>2, <1>3
<1>5. <<d, m>> \in asked BY <1>4 DEF Contents
<1>6. m # n => Shares(d, n) BY <1>1, <1>3, <1>5 DEF Shares
<1> QED BY <1>1, <1>3, <1>4, <1>5, <1>6 DEF x, m

(* What a search comes to.                                                 *)
LEMMA Found ==
  ASSUME NEW d, NEW n
  PROVE  /\ Find(d, n) \in {"no block", "free", "hit", "taken", "loop"}
         /\ Find(d, n) = "no block" <=> Pointer(d, n) \notin DOMAIN ptr
         /\ Find(d, n) = "free" => Pointer(d, n) \in DOMAIN ptr /\ Slot(d, n) \notin DOMAIN dent
         /\ Find(d, n) \in {"hit", "taken", "loop"} =>
              Pointer(d, n) \in DOMAIN ptr /\ Slot(d, n) \in DOMAIN dent
         /\ Find(d, n) \in {"taken", "loop"} => ~Matches(n, dent[Slot(d, n)].name)
         /\ Find(d, n) = "hit" <=> /\ Pointer(d, n) \in DOMAIN ptr /\ Slot(d, n) \in DOMAIN dent
                                   /\ Matches(n, dent[Slot(d, n)].name)
BY DEF Find

-----------------------------------------------------------------------------
(* What no step loses.                                                     *)
LEMMA StillShares ==
  ASSUME asked \subseteq asked', NEW d, NEW n, Shares(d, n)
  PROVE  Shares(d, n)'
BY DEF Shares

LEMMA StillCollided ==
  ASSUME asked \subseteq asked', DOMAIN first \subseteq DOMAIN first',
         \E d \in DOMAIN first : Collided(d)
  PROVE  \E d \in DOMAIN first' : Collided(d)'
<1>1. PICK d \in DOMAIN first : Collided(d) OBVIOUS
<1>2. PICK n \in Name : <<d, n>> \in asked /\ Shares(d, n) BY <1>1 DEF Collided
<1>3. <<d, n>> \in asked' /\ Shares(d, n)' BY <1>2, StillShares
<1>4. Collided(d)' BY <1>3 DEF Collided
<1> QED BY <1>4

(* Entries that may lead on elsewhere, but are for the same names.         *)
SameEntries(D) ==
  /\ D \in [DOMAIN dent -> [name : Name, inode : Dir, next : Int]]
  /\ \A x \in DOMAIN dent : D[x].name = dent[x].name /\ D[x].inode = dent[x].inode

LEMMA Linking ==
  ASSUME Contents, NEW d \in Dir, NEW n \in Name, Find(d, n) = "taken"
  PROVE  SameEntries(Linked(d, n))
<1>1. (Haxi[n] \div 150) * 150 + 135 \in Int BY HashParts
<1>2. Slot(d, n) \in DOMAIN dent BY Found
<1> DEFINE v == (Haxi[n] \div 150) * 150 + 135
           x == Slot(d, n)
<1> HIDE DEF v, x
<1>3. Linked(d, n) = [dent EXCEPT ![x].next = v] BY DEF Linked, v, x
<1>4. v \in Int /\ x \in DOMAIN dent BY <1>1, <1>2 DEF v, x
<1>5. [dent EXCEPT ![x].next = v] \in [DOMAIN dent -> [name : Name, inode : Dir, next : Int]]
  BY <1>4 DEF Contents
<1>6. \A y \in DOMAIN dent : /\ [dent EXCEPT ![x].next = v][y].name = dent[y].name
                             /\ [dent EXCEPT ![x].next = v][y].inode = dent[y].inode
  BY <1>4 DEF Contents
<1> QED BY <1>3, <1>5, <1>6 DEF SameEntries

(* Nor has a block two owners after a step that leaves the blocks apart.   *)
LEMMA OnePointer ==
  ASSUME Apart', NEW b \in 1 .. MaxBlock, NEW k \in DOMAIN ptr', ptr'[k] = b
  PROVE  /\ \A l \in DOMAIN ptr' : ptr'[l] = b => l = k
         /\ \A d \in DOMAIN first' : first'[d] # b
<1>1. \A p, q \in Owners(b)' : p = q BY DEF Apart
<1>2. <<"entries", k>> \in Owners(b)' BY DEF Owners
<1>3. ASSUME NEW l \in DOMAIN ptr', ptr'[l] = b PROVE l = k
  <2>1. <<"entries", l>> \in Owners(b)' BY <1>3 DEF Owners
  <2>2. <<"entries", l>> = <<"entries", k>> BY <1>1, <1>2, <2>1
  <2> QED BY <2>2
<1>4. ASSUME NEW d \in DOMAIN first', first'[d] = b PROVE FALSE
  <2>1. <<"addresses", d>> \in Owners(b)' BY <1>4 DEF Owners
  <2>2. <<"addresses", d>> = <<"entries", k>> BY <1>1, <1>2, <2>1
  <2> QED BY <2>2
<1> QED BY <1>3, <1>4

(* A search that takes no block.                                           *)
LEMMA LooksOnly ==
  ASSUME DiskSound, Apart, UNCHANGED <<mem, saved, first, ptr, lost, tree>>, SameEntries(dent'),
         asked \subseteq asked', hung' \in BOOLEAN,
         hung' => hung \/ \E d \in DOMAIN first' : Collided(d)'
  PROVE  DiskSound'
<1>1. Dir' = Dir /\ Counters' BY DEF DiskSound, Counters, Dir
<1>2. DOMAIN dent' = DOMAIN dent BY DEF SameEntries
<1>3. Contents' BY <1>1, <1>2 DEF DiskSound, Contents, SameEntries
<1>4. Remembered' BY <1>1 DEF DiskSound, Remembered
<1>5. \A d, n : Pointer(d, n)' = Pointer(d, n) /\ Slot(d, n)' = Slot(d, n)
  BY DEF Pointer, Slot
<1>6. EntriesReported'
  <2>1. EntriesReported BY DEF DiskSound
  <2>2. \A x \in DOMAIN dent : dent'[x].name = dent[x].name /\ dent'[x].inode = dent[x].inode
    BY DEF SameEntries
  <2> QED BY <1>1, <1>2, <2>1, <2>2 DEF EntriesReported, Pointer, Slot
<1>7. ReportsEntered'
  <2>1. ReportsEntered BY DEF DiskSound
  <2> SUFFICES ASSUME NEW e \in tree, ~Shares(e[1], e[2])'
               PROVE  /\ Pointer(e[1], e[2])' \in DOMAIN ptr
                      /\ Slot(e[1], e[2])' \in DOMAIN dent'
                      /\ dent'[Slot(e[1], e[2])'].name = e[2]
                      /\ dent'[Slot(e[1], e[2])'].inode = e[3]
    BY DEF ReportsEntered
  <2>2. ~Shares(e[1], e[2]) BY StillShares
  <2>3. /\ Pointer(e[1], e[2]) \in DOMAIN ptr
        /\ Slot(e[1], e[2]) \in DOMAIN dent
        /\ dent[Slot(e[1], e[2])].name = e[2]
        /\ dent[Slot(e[1], e[2])].inode = e[3]
    BY <2>1, <2>2 DEF ReportsEntered
  <2> QED BY <1>2, <1>5, <2>3 DEF SameEntries
<1>8. HangsOnCollision'
  <2>1. hung => \E d \in DOMAIN first' : Collided(d)'
    BY StillCollided DEF DiskSound, HangsOnCollision
  <2> QED BY <2>1 DEF HangsOnCollision
<1> QED BY <1>1, <1>3, <1>4, <1>6, <1>7, <1>8 DEF DiskSound

(* A search that takes a block for the pointer k of d.                     *)
LEMMA LooksAndTakes ==
  ASSUME DiskSound, Apart, UNCHANGED <<saved, first, lost, tree, hung>>, asked \subseteq asked',
         mem.block < MaxBlock, NEW d \in Dir, NEW g \in Nat, <<first[d], g>> \notin DOMAIN ptr,
         NewBlock(<<first[d], g>>), NEW D, SameEntries(D), dent' = Zeroed(D, mem.block)
  PROVE  DiskSound'
<1> DEFINE k == <<first[d], g>>
<1>1. /\ Counters /\ Contents /\ Remembered /\ EntriesReported /\ ReportsEntered
      /\ HangsOnCollision
  BY DEF DiskSound
<1>2. /\ mem' = [mem EXCEPT !.block = @ + 1] /\ k \notin DOMAIN ptr
      /\ ptr' = Zeroed(With(ptr, k, mem.block), mem.block)
  BY DEF NewBlock, AlocBlock
<1>3. /\ mem'.inode = mem.inode /\ mem'.block = mem.block + 1
      /\ mem.inode \in Nat \ {0} /\ mem.block \in Nat \ {0} /\ saved.block \in Nat \ {0}
      /\ saved.block <= mem.block /\ mem.block \in 1 .. MaxBlock
      /\ mem' \in [inode : Nat \ {0}, block : Nat \ {0}]
  BY <1>1, <1>2, FileSysAssumption DEF Counters
<1>4. /\ k \in Nat \X Nat /\ k[1] < saved.block
      /\ \A l \in DOMAIN ptr : l[1] \in Nat /\ l[1] < saved.block
  BY <1>1, <1>3 DEF Counters, Contents
<1> HIDE DEF k
<1>5. /\ DOMAIN ptr' = DOMAIN ptr \cup {k} /\ ptr'[k] = mem.block
      /\ \A l \in DOMAIN ptr : ptr'[l] = ptr[l] /\ l # k
      /\ ptr' \in [DOMAIN ptr' -> 1 .. MaxBlock]
  <2> DEFINE P == With(ptr, k, mem.block)
  <2>1. /\ DOMAIN P = DOMAIN ptr \cup {k} /\ P[k] = mem.block
        /\ \A x \in DOMAIN ptr : x # k => P[x] = ptr[x]
    BY DEF With
  <2> HIDE DEF P
  <2>2. \A x \in DOMAIN P : x[1] # mem.block BY <1>3, <1>4, <2>1
  <2>3. ptr' = [x \in DOMAIN P |-> P[x]] BY <1>2, <2>2 DEF Zeroed, P
  <2>4. \A x \in DOMAIN ptr : ptr[x] \in 1 .. MaxBlock BY <1>1 DEF Contents
  <2> QED BY <1>2, <1>3, <2>1, <2>3, <2>4
<1>6. Dir' = Dir BY <1>3 DEF Dir
<1>7. Counters' BY <1>1, <1>3, <1>6 DEF Counters
<1>8. /\ DOMAIN dent' \subseteq DOMAIN dent /\ dent' \in [DOMAIN dent' -> [name : Name, inode : Dir, next : Int]]
      /\ \A x \in DOMAIN dent' : dent'[x].name = dent[x].name /\ dent'[x].inode = dent[x].inode
      /\ \A x \in DOMAIN dent : x[1] # mem.block => x \in DOMAIN dent'
  <2>1. DOMAIN D = DOMAIN dent BY DEF SameEntries
  <2> QED BY <2>1 DEF SameEntries, Zeroed
<1>9. Contents' BY <1>1, <1>4, <1>5, <1>6, <1>8 DEF Contents
<1>10. Remembered'
  <2> SUFFICES ASSUME ~lost
               PROVE  /\ \A l \in DOMAIN ptr' : ptr'[l] < mem'.block
                      /\ \A l, m \in DOMAIN ptr' : ptr'[l] = ptr'[m] => l = m
                      /\ \A l \in DOMAIN ptr', e \in Dir : ptr'[l] # first[e]
    BY <1>6 DEF Remembered
  <2>1. /\ \A l \in DOMAIN ptr : ptr[l] < mem.block /\ ptr[l] \in Nat
        /\ \A l, m \in DOMAIN ptr : ptr[l] = ptr[m] => l = m
        /\ \A l \in DOMAIN ptr, e \in Dir : ptr[l] # first[e]
    BY <1>1 DEF Remembered, Contents
  <2>2. \A e \in Dir : first[e] \in Nat /\ first[e] < mem.block BY <1>1, <1>3 DEF Counters
  <2>3. \A l \in DOMAIN ptr' : ptr'[l] < mem'.block BY <1>3, <1>5, <2>1
  <2>4. \A l, m \in DOMAIN ptr' : ptr'[l] = ptr'[m] => l = m BY <1>3, <1>5, <2>1
  <2>5. \A l \in DOMAIN ptr', e \in Dir : ptr'[l] # first[e] BY <1>3, <1>5, <2>1, <2>2
  <2> QED BY <2>3, <2>4, <2>5
<1>11. ASSUME Apart' PROVE EntriesReported' /\ ReportsEntered'
  <2>1. \A l \in DOMAIN ptr : ptr[l] # mem.block
    <3> SUFFICES ASSUME NEW l \in DOMAIN ptr, ptr[l] = mem.block PROVE FALSE OBVIOUS
    <3>1. l \in DOMAIN ptr' /\ k \in DOMAIN ptr' /\ l # k /\ ptr'[l] = ptr'[k] BY <1>5
    <3> QED BY <1>3, <1>5, <1>11, <3>1, OnePointer
  <2>2. DOMAIN dent' = DOMAIN dent
    <3>1. ASSUME NEW x \in DOMAIN dent PROVE x[1] # mem.block
      <4>1. PICK e \in Dir : /\ Pointer(e, dent[x].name) \in DOMAIN ptr
                             /\ x = Slot(e, dent[x].name)
        BY <1>1 DEF EntriesReported
      <4> QED BY <2>1, <4>1 DEF Slot
    <3> QED BY <1>8, <3>1
  <2>3. \A e, n : Pointer(e, n) \in DOMAIN ptr =>
          /\ Pointer(e, n)' = Pointer(e, n) /\ Pointer(e, n) \in DOMAIN ptr'
          /\ Slot(e, n)' = Slot(e, n)
    BY <1>5 DEF Pointer, Slot
  <2>4. EntriesReported'
    <3> SUFFICES ASSUME NEW x \in DOMAIN dent'
                 PROVE  \E e \in Dir : LET m == dent'[x].name
                                          l == <<first'[e], Haxi[m] \div 15>>
                                      IN  /\ l \in DOMAIN ptr'
                                          /\ x = <<ptr'[l], Haxi[m] % 15>>
                                          /\ <<e, m, dent'[x].inode>> \in tree'
      BY <1>6 DEF EntriesReported, Pointer, Slot
    <3>1. PICK e \in Dir : LET m == dent[x].name
                               l == <<first[e], Haxi[m] \div 15>>
                           IN  /\ l \in DOMAIN ptr
                               /\ x = <<ptr[l], Haxi[m] % 15>>
                               /\ <<e, m, dent[x].inode>> \in tree
      BY <1>1, <1>8 DEF EntriesReported, Pointer, Slot
    <3>2. dent'[x].name = dent[x].name /\ dent'[x].inode = dent[x].inode BY <1>8
    <3> QED BY <1>5, <3>1, <3>2
  <2>5. ReportsEntered'
    <3> SUFFICES ASSUME NEW e \in tree, ~Shares(e[1], e[2])'
                 PROVE  /\ Pointer(e[1], e[2])' \in DOMAIN ptr'
                        /\ Slot(e[1], e[2])' \in DOMAIN dent'
                        /\ dent'[Slot(e[1], e[2])'].name = e[2]
                        /\ dent'[Slot(e[1], e[2])'].inode = e[3]
      BY DEF ReportsEntered
    <3>1. ~Shares(e[1], e[2]) BY StillShares
    <3>2. /\ Pointer(e[1], e[2]) \in DOMAIN ptr
          /\ Slot(e[1], e[2]) \in DOMAIN dent
          /\ dent[Slot(e[1], e[2])].name = e[2]
          /\ dent[Slot(e[1], e[2])].inode = e[3]
      BY <1>1, <3>1 DEF ReportsEntered
    <3> QED BY <1>8, <2>2, <2>3, <3>2
  <2> QED BY <2>4, <2>5
<1>12. HangsOnCollision'
  <2>1. hung => \E e \in DOMAIN first' : Collided(e)'
    BY <1>1, StillCollided DEF HangsOnCollision
  <2> QED BY <2>1 DEF HangsOnCollision
<1> QED BY <1>7, <1>9, <1>10, <1>11, <1>12 DEF DiskSound

LEMMA LookupKeeps ==
  ASSUME DiskSound, Apart, NEW d \in Dir, NEW n \in Name, Lookup(d, n)
  PROVE  DiskSound'
<1>1. /\ mem.block < MaxBlock /\ FindHash(d, n) /\ Ask(d, n)
      /\ UNCHANGED <<saved, first, lost, tree>>
  BY DEF Lookup
<1>2. /\ Counters /\ Contents /\ EntriesReported /\ asked \subseteq asked' /\ <<d, n>> \in asked'
      /\ hung \in BOOLEAN /\ DOMAIN first = Dir
  BY <1>1 DEF DiskSound, Ask, Counters
<1>3. SameEntries(dent) BY <1>2 DEF Contents, SameEntries
<1>4. /\ Haxi[n] \div 15 \in Nat /\ (Haxi[n] \div 150) * 10 + 9 \in Nat BY HashParts
<1>5. CASE UNCHANGED <<mem, ptr, dent, hung>>
  BY <1>1, <1>2, <1>3, <1>5, LooksOnly
<1>6. CASE /\ Find(d, n) = "no block" /\ NewBlock(Pointer(d, n))
           /\ dent' = Zeroed(dent, mem.block) /\ UNCHANGED hung
  <2>1. Pointer(d, n) \notin DOMAIN ptr BY <1>6, Found
  <2> QED BY <1>1, <1>2, <1>3, <1>4, <1>6, <2>1, LooksAndTakes DEF Pointer
<1>7. CASE /\ Find(d, n) = "taken" /\ Overflow(d, n) \notin DOMAIN ptr
           /\ NewBlock(Overflow(d, n)) /\ dent' = Zeroed(Linked(d, n), mem.block)
           /\ UNCHANGED hung
  <2>1. SameEntries(Linked(d, n)) BY <1>2, <1>7, Linking
  <2> DEFINE g == (Haxi[n] \div 150) * 10 + 9
  <2>2. Overflow(d, n) = <<first[d], g>> /\ g \in Nat BY <1>4 DEF Overflow
  <2> HIDE DEF g
  <2>3. <<first[d], g>> \notin DOMAIN ptr /\ NewBlock(<<first[d], g>>) BY <1>7, <2>2
  <2> QED BY <1>1, <1>2, <1>7, <2>1, <2>2, <2>3, LooksAndTakes
<1>8. CASE Find(d, n) = "taken" /\ dent' = Linked(d, n) /\ UNCHANGED <<mem, ptr, hung>>
  <2>1. SameEntries(dent') BY <1>2, <1>8, Linking
  <2> QED BY <1>1, <1>2, <1>8, <2>1, LooksOnly
<1>9. CASE Find(d, n) = "loop" /\ hung' = TRUE /\ UNCHANGED <<mem, ptr, dent>>
  <2> DEFINE m == dent[Slot(d, n)].name
  <2>1. /\ Pointer(d, n) \in DOMAIN ptr /\ Slot(d, n) \in DOMAIN dent /\ ~Matches(n, m)
    BY <1>9, Found
  <2>2. m # n BY <2>1 DEF Matches
  <2>3. Shares(d, n) BY <1>2, <2>1, <2>2, EntryOf
  <2>4. Collided(d)' BY <1>2, <2>3, StillShares DEF Collided
  <2>5. \E e \in DOMAIN first' : Collided(e)' BY <1>1, <1>2, <2>4
  <2> QED BY <1>1, <1>2, <1>3, <1>9, <2>5, LooksOnly
<1> QED BY <1>1, <1>5, <1>6, <1>7, <1>8, <1>9 DEF FindHash

LEMMA MkdirKeeps ==
  ASSUME DiskSound, Apart, NEW d \in Dir, NEW n \in Name, Mkdir(d, n)
  PROVE  DiskSound'
<1> DEFINE x0 == Slot(d, n)
           i0 == mem.inode
           b0 == mem.block
           new == [name |-> n, inode |-> i0, next |-> -1]
<1>1. /\ Counters /\ Contents /\ Remembered /\ EntriesReported /\ ReportsEntered
      /\ HangsOnCollision
  BY DEF DiskSound
<1>2. /\ b0 < MaxBlock /\ mem' = [inode |-> i0 + 1, block |-> b0 + 1] /\ saved' = mem'
      /\ first' = With(first, i0, b0) /\ ptr' = Zeroed(ptr, b0)
      /\ dent' = With(Zeroed(dent, b0), x0, new)
      /\ tree' = tree \cup {<<d, n, i0>>}
      /\ asked' = asked \cup {<<d, n>>} /\ UNCHANGED <<hung, lost>>
  BY DEF Mkdir, WriteSuper, Ask
<1>3. Pointer(d, n) \in DOMAIN ptr /\ x0 \notin DOMAIN dent BY Found DEF Mkdir
<1>4. /\ i0 \in Nat \ {0} /\ b0 \in Nat \ {0} /\ saved.block \in Nat \ {0} /\ saved.block <= b0
      /\ b0 \in 1 .. MaxBlock /\ first \in [Dir -> 0 .. saved.block - 1]
      /\ \A e \in Dir : first[e] \in Nat /\ first[e] < b0
  BY <1>1, <1>2, FileSysAssumption DEF Counters
<1> HIDE DEF x0, i0, b0
<1>5. Dir' = 0 .. i0 /\ Dir' = Dir \cup {i0} /\ i0 \notin Dir
  <2>1. Dir = 0 .. i0 - 1 /\ Dir' = 0 .. (i0 + 1) - 1 BY <1>2 DEF Dir, i0
  <2> QED BY <1>4, <2>1
<1>6. /\ DOMAIN first' = Dir' /\ first'[i0] = b0 /\ \A e \in Dir : first'[e] = first[e]
      /\ first' = [e \in Dir' |-> IF e = i0 THEN b0 ELSE first[e]]
  BY <1>2, <1>4, <1>5 DEF With
<1>7. Counters'
  <2>1. saved'.block = b0 + 1 /\ saved' \in [inode : Nat \ {0}, block : Nat \ {0}]
    BY <1>2, <1>4
  <2>2. first' \in [Dir' -> 0 .. b0]
    <3>1. \A e \in Dir : first[e] \in 0 .. b0 BY <1>4
    <3>2. \A e \in Dir' : (IF e = i0 THEN b0 ELSE first[e]) \in 0 .. b0 BY <1>4, <1>5, <3>1
    <3> QED BY <1>6, <3>2
  <2>3. first' \in [Dir' -> 0 .. saved'.block - 1] BY <1>4, <2>1, <2>2
  <2>4. ASSUME NEW e \in Dir', NEW f \in Dir', first'[e] = first'[f] PROVE e = f
    <3>1. e \in Dir \cup {i0} /\ f \in Dir \cup {i0} BY <1>5
    <3>2. \A g \in Dir : first'[g] = first[g] /\ first'[g] # b0 BY <1>4, <1>6
    <3>3. \A g, h \in Dir : first[g] = first[h] => g = h BY <1>1 DEF Counters
    <3> QED BY <1>6, <2>4, <3>1, <3>2, <3>3
  <2> QED BY <1>1, <1>2, <1>4, <2>1, <2>3, <2>4 DEF Counters
<1>8. ptr' = ptr
  <2>1. \A k \in DOMAIN ptr : k[1] # b0 BY <1>1, <1>4 DEF Contents
  <2>2. ptr = [k \in DOMAIN ptr |-> ptr[k]] BY <1>1 DEF Contents
  <2> QED BY <1>2, <2>1, <2>2 DEF Zeroed
<1>9. /\ x0 \in DOMAIN dent' /\ dent'[x0] = new
      /\ \A x \in DOMAIN dent' : x # x0 => x \in DOMAIN dent /\ dent'[x] = dent[x]
      /\ \A x \in DOMAIN dent : x[1] # b0 => x \in DOMAIN dent' /\ dent'[x] = dent[x]
      /\ dent' = [x \in DOMAIN dent' |-> dent'[x]]
  <2> HIDE DEF new
  <2> QED BY <1>2, <1>3 DEF With, Zeroed
<1>10. Contents'
  <2>1. saved'.block > saved.block BY <1>2, <1>4
  <2>2. \A k \in DOMAIN ptr' : k \in Nat \X Nat /\ k[1] < saved'.block
    BY <1>1, <1>2, <1>4, <1>8 DEF Contents
  <2>3. dent' \in [DOMAIN dent' -> [name : Name, inode : Dir', next : Int]]
    <3>1. \A x \in DOMAIN dent : dent[x] \in [name : Name, inode : Dir', next : Int]
      BY <1>1, <1>5 DEF Contents
    <3>2. new \in [name : Name, inode : Dir', next : Int] BY <1>5
    <3> HIDE DEF new
    <3> QED BY <1>9, <3>1, <3>2
  <2>4. tree' \subseteq Dir' \X Name \X Dir' BY <1>1, <1>2, <1>5 DEF Contents
  <2>5. ASSUME NEW e \in tree' PROVE <<e[1], e[2]>> \in asked'
    <3>1. e \in tree => <<e[1], e[2]>> \in asked BY <1>1 DEF Contents
    <3>2. e = <<d, n, i0>> => e[1] = d /\ e[2] = n OBVIOUS
    <3> QED BY <1>2, <3>1, <3>2
  <2> QED BY <1>1, <1>8, <2>2, <2>3, <2>4, <2>5 DEF Contents
<1>11. Remembered'
  <2> SUFFICES ASSUME ~lost
               PROVE  /\ \A k \in DOMAIN ptr : ptr[k] < mem'.block
                      /\ \A k, l \in DOMAIN ptr : ptr[k] = ptr[l] => k = l
                      /\ \A k \in DOMAIN ptr, e \in Dir' : ptr[k] # first'[e]
    BY <1>2, <1>8 DEF Remembered
  <2>1. /\ \A k \in DOMAIN ptr : ptr[k] < b0 /\ ptr[k] \in Nat
        /\ \A k, l \in DOMAIN ptr : ptr[k] = ptr[l] => k = l
        /\ \A k \in DOMAIN ptr, e \in Dir : ptr[k] # first[e]
    BY <1>1 DEF Remembered, Contents, b0
  <2>2. \A k \in DOMAIN ptr : ptr[k] < b0 + 1 /\ ptr[k] # b0 BY <1>4, <2>1
  <2>3. mem'.block = b0 + 1 BY <1>2
  <2>4. \A k \in DOMAIN ptr, e \in Dir' : ptr[k] # first'[e] BY <1>5, <1>6, <2>1, <2>2
  <2> QED BY <2>1, <2>2, <2>3, <2>4
<1>12. ASSUME Apart' PROVE EntriesReported' /\ ReportsEntered'
  <2>1. \A k \in DOMAIN ptr : ptr[k] # b0
    <3> SUFFICES ASSUME NEW k \in DOMAIN ptr, ptr[k] = b0 PROVE FALSE OBVIOUS
    <3>1. k \in DOMAIN ptr' /\ ptr'[k] = b0 BY <1>8
    <3>2. \A e \in DOMAIN first' : first'[e] # b0 BY <1>4, <1>12, <3>1, OnePointer
    <3> QED BY <1>5, <1>6, <3>2
  <2>2. \A x \in DOMAIN dent : x # x0 /\ x \in DOMAIN dent' /\ dent'[x] = dent[x]
    <3> SUFFICES ASSUME NEW x \in DOMAIN dent PROVE x[1] # b0 BY <1>3, <1>9
    <3>1. PICK e \in Dir : /\ Pointer(e, dent[x].name) \in DOMAIN ptr
                           /\ x = Slot(e, dent[x].name)
      BY <1>1 DEF EntriesReported
    <3> QED BY <2>1, <3>1 DEF Slot
  <2>3. /\ \A m : \A e \in Dir : Pointer(e, m)' = Pointer(e, m) /\ Slot(e, m)' = Slot(e, m)
        /\ Pointer(d, n)' = Pointer(d, n) /\ Slot(d, n)' = x0
    BY <1>6, <1>8 DEF Pointer, Slot, x0
  <2>4. EntriesReported'
    <3> SUFFICES ASSUME NEW x \in DOMAIN dent'
                 PROVE  \E e \in Dir' : LET m == dent'[x].name
                                           l == <<first'[e], Haxi[m] \div 15>>
                                       IN  /\ l \in DOMAIN ptr'
                                           /\ x = <<ptr'[l], Haxi[m] % 15>>
                                           /\ <<e, m, dent'[x].inode>> \in tree'
      BY DEF EntriesReported, Pointer, Slot
    <3>1. CASE x = x0
      <4>1. dent'[x].name = n /\ dent'[x].inode = i0 BY <1>9, <3>1
      <4>2. /\ <<first[d], Haxi[n] \div 15>> \in DOMAIN ptr
            /\ x = <<ptr[<<first[d], Haxi[n] \div 15>>], Haxi[n] % 15>>
        BY <1>3, <3>1 DEF Pointer, Slot, x0
      <4>3. first'[d] = first[d] /\ d \in Dir' /\ <<d, n, i0>> \in tree'
        BY <1>2, <1>5, <1>6
      <4> QED BY <1>8, <4>1, <4>2, <4>3
    <3>2. CASE x # x0
      <4>1. x \in DOMAIN dent /\ dent'[x] = dent[x] BY <1>9, <3>2
      <4>2. PICK e \in Dir : LET m == dent[x].name
                                 l == <<first[e], Haxi[m] \div 15>>
                             IN  /\ l \in DOMAIN ptr
                                 /\ x = <<ptr[l], Haxi[m] % 15>>
                                 /\ <<e, m, dent[x].inode>> \in tree
        BY <1>1, <4>1 DEF EntriesReported, Pointer, Slot
      <4>3. first'[e] = first[e] /\ e \in Dir' /\ tree \subseteq tree'
        BY <1>2, <1>5, <1>6
      <4> QED BY <1>8, <4>1, <4>2, <4>3
    <3> QED BY <3>1, <3>2
  <2>5. ReportsEntered'
    <3> SUFFICES ASSUME NEW e \in tree', ~Shares(e[1], e[2])'
                 PROVE  /\ Pointer(e[1], e[2])' \in DOMAIN ptr'
                        /\ Slot(e[1], e[2])' \in DOMAIN dent'
                        /\ dent'[Slot(e[1], e[2])'].name = e[2]
                        /\ dent'[Slot(e[1], e[2])'].inode = e[3]
      BY DEF ReportsEntered
    <3>1. CASE e \in tree
      <4>1. ~Shares(e[1], e[2]) BY <1>2, StillShares
      <4>2. /\ Pointer(e[1], e[2]) \in DOMAIN ptr
            /\ Slot(e[1], e[2]) \in DOMAIN dent
            /\ dent[Slot(e[1], e[2])].name = e[2]
            /\ dent[Slot(e[1], e[2])].inode = e[3]
        BY <1>1, <3>1, <4>1 DEF ReportsEntered
      <4>3. e[1] \in Dir BY <1>1, <3>1 DEF Contents
      <4> QED BY <1>8, <2>2, <2>3, <4>2, <4>3
    <3>2. CASE e = <<d, n, i0>>
      <4>1. e[1] = d /\ e[2] = n /\ e[3] = i0 BY <3>2
      <4>2. Pointer(d, n)' \in DOMAIN ptr' /\ Slot(d, n)' = x0 BY <1>3, <1>8, <2>3
      <4>3. dent'[x0].name = n /\ dent'[x0].inode = i0 BY <1>9
      <4> QED BY <1>9, <4>1, <4>2, <4>3
    <3> QED BY <1>2, <3>1, <3>2
  <2> QED BY <2>4, <2>5
<1>13. HangsOnCollision'
  <2>1. DOMAIN first \subseteq DOMAIN first' /\ asked \subseteq asked' BY <1>2, <1>4, <1>5, <1>6
  <2>2. hung => \E e \in DOMAIN first' : Collided(e)'
    BY <1>1, <2>1, StillCollided DEF HangsOnCollision
  <2> QED BY <1>2, <2>2 DEF HangsOnCollision
<1> QED BY <1>7, <1>10, <1>11, <1>12, <1>13 DEF DiskSound

LEMMA RmdirKeeps ==
  ASSUME DiskSound, Apart, NEW d \in Dir, NEW n \in Name, Rmdir(d, n)
  PROVE  DiskSound'
<1> DEFINE x0 == Slot(d, n)
<1>1. /\ Counters /\ Contents /\ Remembered /\ EntriesReported /\ ReportsEntered
      /\ HangsOnCollision
  BY DEF DiskSound
<1>2. /\ dent' = Drop(dent, x0) /\ tree' = {e \in tree : ~(e[1] = d /\ e[2] = n)}
      /\ asked' = asked \cup {<<d, n>>} /\ UNCHANGED <<mem, saved, first, ptr, hung, lost>>
  BY DEF Rmdir, Ask
<1>3. Pointer(d, n) \in DOMAIN ptr BY Found DEF Rmdir
<1>4. Dir' = Dir /\ Counters' BY <1>1, <1>2 DEF Counters, Dir
<1>5. /\ DOMAIN dent' = DOMAIN dent \ {x0} /\ \A x \in DOMAIN dent' : dent'[x] = dent[x]
      /\ dent' = [x \in DOMAIN dent' |-> dent'[x]]
  <2> HIDE DEF x0
  <2> QED BY <1>2 DEF Drop
<1>6. Contents'
  <2>1. dent' \in [DOMAIN dent' -> [name : Name, inode : Dir, next : Int]]
    BY <1>1, <1>5 DEF Contents
  <2> QED BY <1>1, <1>2, <1>4, <2>1 DEF Contents
<1>7. Remembered' BY <1>1, <1>2, <1>4 DEF Remembered
<1>8. \A e, m : Pointer(e, m)' = Pointer(e, m) /\ Slot(e, m)' = Slot(e, m)
  BY <1>2 DEF Pointer, Slot
<1>9. EntriesReported'
  <2> SUFFICES ASSUME NEW x \in DOMAIN dent'
               PROVE  \E e \in Dir : LET m == dent'[x].name
                                        l == <<first'[e], Haxi[m] \div 15>>
                                    IN  /\ l \in DOMAIN ptr'
                                        /\ x = <<ptr'[l], Haxi[m] % 15>>
                                        /\ <<e, m, dent'[x].inode>> \in tree'
    BY <1>4 DEF EntriesReported, Pointer, Slot
  <2>1. x \in DOMAIN dent /\ x # x0 /\ dent'[x] = dent[x] BY <1>5
  <2>2. PICK e \in Dir : /\ Pointer(e, dent[x].name) \in DOMAIN ptr
                         /\ x = Slot(e, dent[x].name)
                         /\ <<e, dent[x].name, dent[x].inode>> \in tree
    BY <1>1, <2>1 DEF EntriesReported
  <2>3. ~(e = d /\ dent[x].name = n) BY <2>1, <2>2
  <2>4. <<e, dent[x].name, dent[x].inode>> \in tree' BY <1>2, <2>2, <2>3
  <2> QED BY <1>2, <2>1, <2>2, <2>4 DEF Pointer, Slot
<1>10. ReportsEntered'
  <2> SUFFICES ASSUME NEW e \in tree', ~Shares(e[1], e[2])'
               PROVE  /\ Pointer(e[1], e[2])' \in DOMAIN ptr'
                      /\ Slot(e[1], e[2])' \in DOMAIN dent'
                      /\ dent'[Slot(e[1], e[2])'].name = e[2]
                      /\ dent'[Slot(e[1], e[2])'].inode = e[3]
    BY DEF ReportsEntered
  <2>1. e \in tree /\ ~(e[1] = d /\ e[2] = n) /\ e[1] \in Dir /\ e[2] \in Name
    BY <1>1, <1>2 DEF Contents
  <2>2. ~Shares(e[1], e[2]) BY <1>2, StillShares
  <2>3. /\ Pointer(e[1], e[2]) \in DOMAIN ptr
        /\ Slot(e[1], e[2]) \in DOMAIN dent
        /\ dent[Slot(e[1], e[2])].name = e[2]
        /\ dent[Slot(e[1], e[2])].inode = e[3]
    BY <1>1, <2>1, <2>2 DEF ReportsEntered
  <2>4. Slot(e[1], e[2]) # x0
    <3> SUFFICES ASSUME Slot(e[1], e[2]) = x0 PROVE FALSE OBVIOUS
    <3>1. e[1] = d /\ Haxi[e[2]] = Haxi[n] BY <1>1, <1>3, <2>1, <2>3, SlotsApart
    <3>2. n \in Name \ {e[2]} /\ <<e[1], n>> \in asked' BY <1>2, <2>1, <3>1
    <3>3. Shares(e[1], e[2])' BY <3>1, <3>2 DEF Shares
    <3> QED BY <3>3
  <2> QED BY <1>2, <1>5, <1>8, <2>3, <2>4
<1>11. HangsOnCollision'
  <2>1. DOMAIN first \subseteq DOMAIN first' /\ asked \subseteq asked' BY <1>2
  <2>2. hung => \E e \in DOMAIN first' : Collided(e)'
    BY <1>1, <2>1, StillCollided DEF HangsOnCollision
  <2> QED BY <1>2, <2>2 DEF HangsOnCollision
<1> QED BY <1>4, <1>6, <1>7, <1>9, <1>10, <1>11 DEF DiskSound

(* Mounting changes the next block at most; which blocks have two owners   *)
(* stays as it was.                                                        *)
LEMMA RemountKeeps ==
  ASSUME DiskSound, Remount
  PROVE  DiskSound'
<1>1. /\ mem' = saved /\ lost' = (lost \/ mem.block # saved.block) /\ hung' = FALSE
      /\ UNCHANGED <<saved, first, ptr, dent, tree, asked>>
  BY DEF Remount, disk
<1>2. /\ mem'.inode = mem.inode /\ mem' \in [inode : Nat \ {0}, block : Nat \ {0}]
      /\ mem'.block = saved.block /\ saved.block \in Nat
  BY <1>1 DEF DiskSound, Counters
<1>3. Dir' = Dir /\ Counters'
  <2>1. Dir' = Dir BY <1>2 DEF Dir
  <2>2. saved'.block <= mem'.block /\ lost' \in BOOLEAN BY <1>1, <1>2 DEF DiskSound, Counters
  <2> QED BY <1>1, <1>2, <2>1, <2>2 DEF DiskSound, Counters
<1>4. Contents' BY <1>1, <1>3 DEF DiskSound, Contents
<1>5. Remembered'
  <2> SUFFICES ASSUME ~lost' PROVE ~lost /\ mem'.block = mem.block
    BY <1>1, <1>3 DEF DiskSound, Remembered
  <2> QED BY <1>1, <1>2
<1>6. Apart' => Apart
  <2>1. \A b : Owners(b)' = Owners(b) BY <1>1, <1>2 DEF Owners
  <2> QED BY <2>1 DEF Apart
<1>7. Apart' => EntriesReported' /\ ReportsEntered'
  BY <1>1, <1>3, <1>6 DEF DiskSound, EntriesReported, ReportsEntered, Pointer, Slot, Shares
<1>8. HangsOnCollision' BY <1>1 DEF HangsOnCollision
<1> QED BY <1>3, <1>4, <1>5, <1>7, <1>8 DEF DiskSound

-----------------------------------------------------------------------------
(* Every set of natural numbers has a least one.                           *)
LEMMA LeastNumber ==
  ASSUME NEW T \in SUBSET Nat, T # {}
  PROVE  \E n \in T : \A m \in T : n <= m
<1>1. \E n \in T : \A m \in T : ~ (<<m, n>> \in OpToRel(<, Nat))
  BY NatLessThanWellFounded, WFMin
<1>2. \A m, n \in T : <<m, n>> \in OpToRel(<, Nat) <=> m < n
  BY DEF OpToRel
<1>3. PICK n \in T : \A m \in T : ~ (<<m, n>> \in OpToRel(<, Nat)) BY <1>1
<1>4. \A m \in T : ~ (m < n) BY <1>2, <1>3
<1>5. n \in Nat /\ \A m \in T : m \in Nat OBVIOUS
<1>6. \A m \in T : n <= m BY <1>4, <1>5
<1> QED BY <1>6

(* A path leads to directories that were made.                             *)
LEMMA PathsLeadToDirs ==
  ASSUME Counters, Contents
  PROVE  Below[MaxInode] \subseteq Dir
<1> DEFINE Down(S) == S \cup {dent[e].inode : e \in {x \in DOMAIN dent :
                        \E p \in DOMAIN ptr, d \in S : ptr[p] = x[1] /\ first[d] = p[1]}}
           B(k, w) == w = [j \in 0 .. k |-> IF j = 0 THEN {Root} ELSE Down(w[j - 1])]
           T == {k \in Nat : ~ \E w : B(k, w) /\ \A j \in 0 .. k : w[j] \subseteq Dir}
<1>1. \A S : S \subseteq Dir => Down(S) \subseteq Dir BY DEF Contents
<1>2. {Root} \subseteq Dir BY DEF Counters, Dir, Root
<1> HIDE DEF Down
<1>3. T = {}
  <2> SUFFICES ASSUME T # {} PROVE FALSE OBVIOUS
  <2>1. PICK k \in T : \A m \in T : k <= m BY LeastNumber
  <2>2. k \in Nat /\ ~ \E w : B(k, w) /\ \A j \in 0 .. k : w[j] \subseteq Dir OBVIOUS
  <2>3. k # 0
    <3>1. SUFFICES ASSUME k = 0 PROVE FALSE OBVIOUS
    <3> DEFINE w == [j \in 0 .. 0 |-> {Root}]
    <3>2. B(0, w) OBVIOUS
    <3>3. \A j \in 0 .. 0 : w[j] \subseteq Dir BY <1>2
    <3> QED BY <2>2, <3>1, <3>2, <3>3
  <2>4. k - 1 \in Nat /\ ~(k <= k - 1) BY <2>2, <2>3
  <2>5. k - 1 \notin T BY <2>1, <2>4
  <2>6. PICK v : B(k - 1, v) /\ \A j \in 0 .. k - 1 : v[j] \subseteq Dir BY <2>4, <2>5
  <2> DEFINE w == [j \in 0 .. k |-> IF j = k THEN Down(v[k - 1]) ELSE v[j]]
  <2>7. B(k, w)
    <3> SUFFICES ASSUME NEW j \in 0 .. k
                 PROVE  w[j] = IF j = 0 THEN {Root} ELSE Down(w[j - 1])
      OBVIOUS
    <3>1. \A i \in 0 .. k - 1 : w[i] = v[i] BY <2>2
    <3>2. CASE j = k BY <2>3, <2>4, <3>1, <3>2
    <3>3. CASE j # k
      <4>1. j \in 0 .. k - 1 /\ (j # 0 => j - 1 \in 0 .. k - 1) BY <2>2, <3>3
      <4>2. v[j] = IF j = 0 THEN {Root} ELSE Down(v[j - 1]) BY <2>6, <4>1
      <4> QED BY <3>1, <4>1, <4>2
    <3> QED BY <3>2, <3>3
  <2>8. \A j \in 0 .. k : w[j] \subseteq Dir
    <3>1. v[k - 1] \subseteq Dir BY <2>4, <2>6
    <3>2. Down(v[k - 1]) \subseteq Dir BY <1>1, <3>1
    <3>3. \A j \in 0 .. k : j # k => j \in 0 .. k - 1 BY <2>2
    <3> QED BY <2>6, <3>2, <3>3
  <2> QED BY <2>2, <2>7, <2>8
<1>4. MaxInode \in Nat BY FileSysAssumption
<1> HIDE DEF B
<1>5. \E w : B(MaxInode, w) BY <1>3, <1>4
<1> USE DEF B
<1> DEFINE w0 == CHOOSE w : B(MaxInode, w)
<1>6. B(MaxInode, w0) BY <1>5
<1>7. Below = w0 BY DEF Below, Down
<1> HIDE DEF w0
<1>8. \A k \in Nat : k <= MaxInode => w0[k] \subseteq Dir
  <2> DEFINE U == {k \in Nat : k <= MaxInode /\ ~(w0[k] \subseteq Dir)}
  <2>1. U = {}
    <3> SUFFICES ASSUME U # {} PROVE FALSE OBVIOUS
    <3>1. PICK k \in U : \A m \in U : k <= m BY LeastNumber
    <3>2. k \in 0 .. MaxInode BY <1>4
    <3>3. w0[k] = IF k = 0 THEN {Root} ELSE Down(w0[k - 1]) BY <1>6, <3>2
    <3>4. CASE k = 0 BY <1>2, <3>3, <3>4
    <3>5. CASE k # 0
      <4>1. k - 1 \in Nat /\ k - 1 <= MaxInode /\ ~(k <= k - 1) BY <1>4, <3>2, <3>5
      <4>2. w0[k - 1] \subseteq Dir BY <3>1, <4>1
      <4> QED BY <1>1, <3>3, <3>5, <4>2
    <3> QED BY <3>4, <3>5
  <2> QED BY <2>1
<1> QED BY <1>4, <1>7, <1>8

LEMMA DiskStepKeeps ==
  ASSUME DiskSound, [FSNext]_fsvars
  PROVE  DiskSound'
<1>1. CASE Operation
  <2>1. Apart BY <1>1 DEF Operation
  <2>2. PICK d \in Below[MaxInode], n \in Name : Lookup(d, n) \/ Mkdir(d, n) \/ Rmdir(d, n)
    BY <1>1 DEF Operation
  <2>3. d \in Dir BY PathsLeadToDirs DEF DiskSound
  <2>4. CASE Lookup(d, n) BY <2>1, <2>3, <2>4, LookupKeeps
  <2>5. CASE Mkdir(d, n) BY <2>1, <2>3, <2>5, MkdirKeeps
  <2>6. CASE Rmdir(d, n) BY <2>1, <2>3, <2>6, RmdirKeeps
  <2> QED BY <2>2, <2>4, <2>5, <2>6
<1>2. CASE Remount BY <1>2, RemountKeeps
<1>3. CASE UNCHANGED fsvars
  <2>1. Dir' = Dir BY <1>3 DEF fsvars, Dir
  <2>2. Counters' /\ Contents' /\ Remembered'
    BY <1>3, <2>1 DEF fsvars, DiskSound, Counters, Contents, Remembered
  <2>3. Apart' => EntriesReported' /\ ReportsEntered'
    <3>1. Apart' => Apart BY <1>3 DEF fsvars, Apart, Owners
    <3> QED BY <1>3, <2>1, <3>1
        DEF fsvars, DiskSound, EntriesReported, ReportsEntered, Pointer, Slot, Shares
  <2>4. HangsOnCollision'
    BY <1>3 DEF fsvars, DiskSound, HangsOnCollision, Collided, Shares
  <2> QED BY <2>2, <2>3, <2>4 DEF DiskSound
<1> QED BY <1>1, <1>2, <1>3 DEF FSNext

(* The disk of p6fs_init(), through every lookup, mkdir, rmdir and mount.  *)
THEOREM DiskAlwaysSound == FSSpec => []DiskSound
<1>1. FSInit => DiskSound BY DiskBegins
<1>2. DiskSound /\ [FSNext]_fsvars => DiskSound' BY DiskStepKeeps
<1> QED BY <1>1, <1>2, PTL DEF FSSpec

-----------------------------------------------------------------------------
(* Two owners of one block: while no mount has forgotten any and the inode *)
(* table fits in the sector the counter starts behind, they are the same.  *)
LEMMA DiskIsOneOwner ==
  ASSUME DiskSound
  PROVE  OneOwner
<1> SUFFICES ASSUME ~lost, mem.inode <= PerSector, NEW b \in 1 .. MaxBlock,
                    NEW p \in Owners(b), NEW q \in Owners(b)
             PROVE  p = q
  BY DEF OneOwner, Apart
<1>1. /\ Counters /\ Contents
      /\ \A k, l \in DOMAIN ptr : ptr[k] = ptr[l] => k = l
      /\ \A k \in DOMAIN ptr, d \in Dir : ptr[k] # first[d]
      /\ DOMAIN first = Dir /\ \A d, e \in Dir : first[d] = first[e] => d = e
  BY DEF DiskSound, Remembered, Counters
<1>2. b \notin {j \div PerSector : j \in 0 .. mem.inode - 1}
  <2> SUFFICES ASSUME NEW j \in 0 .. mem.inode - 1 PROVE j \div PerSector = 0 OBVIOUS
  <2>1. j \in Nat /\ PerSector \in Nat /\ j < PerSector BY <1>1, FileSysAssumption DEF Counters
  <2> QED BY <2>1
<1>3. ASSUME NEW o \in Owners(b)
      PROVE  \/ \E d \in Dir : o = <<"addresses", d>> /\ first[d] = b
             \/ \E k \in DOMAIN ptr : o = <<"entries", k>> /\ ptr[k] = b
  BY <1>1, <1>2 DEF Owners
<1>4. CASE \E d \in Dir : p = <<"addresses", d>> /\ first[d] = b BY <1>1, <1>3, <1>4
<1>5. CASE \E k \in DOMAIN ptr : p = <<"entries", k>> /\ ptr[k] = b BY <1>1, <1>3, <1>5
<1> QED BY <1>3, <1>4, <1>5

(* What readdir shows of a directory none of whose names hash alike.       *)
LEMMA ListingAgrees ==
  ASSUME DiskSound, Apart, NEW d \in Dir, ~Collided(d)
  PROVE  Listing(d) = {e[2] : e \in {t \in tree : t[1] = d}}
<1>1. Counters /\ Contents /\ EntriesReported /\ ReportsEntered BY DEF DiskSound
<1>2. ASSUME NEW m \in Listing(d) PROVE m \in {e[2] : e \in {t \in tree : t[1] = d}}
  <2>1. PICK x \in DOMAIN dent, k \in DOMAIN ptr :
               m = dent[x].name /\ ptr[k] = x[1] /\ k[1] = first[d]
    BY <1>2 DEF Listing
  <2>2. PICK e \in Dir : /\ Pointer(e, m) \in DOMAIN ptr /\ x = Slot(e, m)
                         /\ <<e, m, dent[x].inode>> \in tree
    BY <1>1, <2>1 DEF EntriesReported
  <2>3. ptr[Pointer(e, m)] = ptr[k] BY <2>1, <2>2 DEF Slot
  <2>4. Pointer(e, m) = k BY <1>1, <2>2, <2>3, PointersApart
  <2>5. first[e] = first[d] BY <2>1, <2>4 DEF Pointer
  <2>6. e = d BY <1>1, <2>5 DEF Counters
  <2> QED BY <2>2, <2>6
<1>3. ASSUME NEW e \in tree, e[1] = d PROVE e[2] \in Listing(d)
  <2>1. e[2] \in Name /\ <<d, e[2]>> \in asked BY <1>1, <1>3 DEF Contents
  <2>2. ~Shares(d, e[2]) BY <2>1 DEF Collided
  <2>3. /\ Pointer(d, e[2]) \in DOMAIN ptr
        /\ Slot(d, e[2]) \in DOMAIN dent
        /\ dent[Slot(d, e[2])].name = e[2]
    BY <1>1, <1>3, <2>2 DEF ReportsEntered
  <2>4. Slot(d, e[2])[1] = ptr[Pointer(d, e[2])] /\ Pointer(d, e[2])[1] = first[d]
    BY DEF Slot, Pointer
  <2> QED BY <2>3, <2>4 DEF Listing
<1> QED BY <1>2, <1>3

(* What a lookup finds of a name that no other one hashes like.            *)
LEMMA LookupAgrees ==
  ASSUME DiskSound, Apart, NEW d \in Dir, NEW n \in Name, ~Shares(d, n)
  PROVE  IF Find(d, n) = "hit"
         THEN <<d, n, dent[Slot(d, n)].inode>> \in {t \in tree : t[1] = d}
         ELSE \A e \in {t \in tree : t[1] = d} : e[2] # n
<1>1. Counters /\ Contents /\ EntriesReported /\ ReportsEntered BY DEF DiskSound
<1>2. ASSUME Find(d, n) = "hit" PROVE <<d, n, dent[Slot(d, n)].inode>> \in tree
  <2>1. Pointer(d, n) \in DOMAIN ptr /\ Slot(d, n) \in DOMAIN dent BY <1>2, Found
  <2>2. dent[Slot(d, n)].name = n BY <1>1, <2>1, EntryOf
  <2> QED BY <1>1, <2>1, <2>2, EntryOf
<1>3. ASSUME NEW e \in tree, e[1] = d, e[2] = n PROVE Find(d, n) = "hit"
  <2>1. /\ Pointer(d, n) \in DOMAIN ptr /\ Slot(d, n) \in DOMAIN dent
        /\ dent[Slot(d, n)].name = n
    BY <1>1, <1>3 DEF ReportsEntered
  <2> QED BY <2>1, Found DEF Matches
<1> QED BY <1>2, <1>3

LEMMA DiskIsTreeAgrees ==
  ASSUME DiskSound
  PROVE  TreeAgrees
<1>1. DOMAIN first = Dir BY DEF DiskSound, Counters
<1> QED BY <1>1, ListingAgrees, LookupAgrees DEF TreeAgrees

(* Every block has one owner for as long as no mount forgets an allocation *)
(* and the inodes fit in the sector in front of the ones aloc_block() hands *)
(* out, through every lookup and every mkdir.                              *)
THEOREM BlocksHaveOneOwner == FSSpec => []OneOwner
<1>1. DiskSound => OneOwner BY DiskIsOneOwner
<1> QED BY <1>1, DiskAlwaysSound, PTL

(* Lookups and readdir show what mkdir and rmdir have reported, across     *)
(* mounts, but for names that hash alike.                                  *)
THEOREM DirectoriesAgree == FSSpec => []TreeAgrees
<1>1. DiskSound => TreeAgrees BY DiskIsTreeAgrees
<1> QED BY <1>1, DiskAlwaysSound, PTL

(* find_hash() goes round for ever only in a directory where two names     *)
(* that hash alike were looked for.                                        *)
THEOREM OnlyCollisionsHang == FSSpec => []HangsOnCollision
<1>1. DiskSound => HangsOnCollision BY DEF DiskSound
<1> QED BY <1>1, DiskAlwaysSound, PTL

(* The next inode number never goes back, a mount's included.              *)
THEOREM NumbersNeverBack == FSSpec => NeverBack
<1>1. DiskSound /\ [FSNext]_fsvars => [mem'.inode >= mem.inode]_fsvars
  <2> SUFFICES ASSUME DiskSound, FSNext PROVE mem'.inode >= mem.inode OBVIOUS
  <2>1. mem.inode \in Nat /\ saved.inode = mem.inode /\ mem \in [inode : Nat \ {0}, block : Nat \ {0}]
    BY DEF DiskSound, Counters
  <2>2. ASSUME NEW d, NEW n, Lookup(d, n) PROVE mem'.inode = mem.inode
    BY <2>1, <2>2 DEF Lookup, FindHash, NewBlock, AlocBlock
  <2>3. ASSUME NEW d, NEW n, Mkdir(d, n) PROVE mem'.inode = mem.inode + 1
    BY <2>3 DEF Mkdir
  <2>4. ASSUME NEW d, NEW n, Rmdir(d, n) PROVE mem'.inode = mem.inode
    BY <2>4 DEF Rmdir
  <2>5. ASSUME Remount PROVE mem'.inode = mem.inode BY <2>1, <2>5 DEF Remount
  <2> QED BY <2>1, <2>2, <2>3, <2>4, <2>5 DEF FSNext, Operation
<1> QED BY <1>1, DiskAlwaysSound, PTL DEF FSSpec, NeverBack
=============================================================================
