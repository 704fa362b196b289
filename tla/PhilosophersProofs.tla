------------------------- MODULE PhilosophersProofs -------------------------
(***************************************************************************)
(* Theorems about Philosophers, for any number of them, however long they  *)
(* think and eat.                                                          *)
(***************************************************************************)
EXTENDS Philosophers, SchedProofs

(* Who has fork f, or was promised it.                                     *)
Holders(f) == {id \in Task : f \in InHand(id)}

(* Nobody leaves the start before the forks are laid.                      *)
Opened ==
  /\ pc[0] = "start" => ~forksInitialized
  /\ ~forksInitialized =>
       /\ \A id \in Task : pc[id] = "start"
       /\ \A f \in Obj : value[f] = 0 /\ wq[f] = <<>>

(* Who waits for a fork has asked for it and done nothing since.           *)
Queued ==
  \A f \in Obj : \A id \in ToSet(wq[f]) :
    \/ f = Forks(id)[1] /\ pc[id] = "second"
    \/ f = Forks(id)[2] /\ pc[id] = "eat"

(* A fork lies on the table, wanted by nobody, or one philosopher has it.  *)
OneHolder(f) ==
  \/ value[f] = 1 /\ wq[f] = <<>> /\ Holders(f) = {}
  \/ value[f] = 0 /\ \E id \in Task : Holders(f) = {id}

Dining ==
  /\ TypeOK
  /\ InPlace
  /\ Opened
  /\ Queued
  /\ forksInitialized => \A f \in Obj : OneHolder(f)
  /\ \A id \in Task : eating[id] <=> pc[id] = "ate"

-----------------------------------------------------------------------------
(* What a philosopher has, or waits for, when it is at a step.             *)
Has(id, f, step) ==
  \/ f = Forks(id)[1] /\ step \in {"second", "eat", "ate"}
  \/ f = Forks(id)[2] /\ step \in {"eat", "ate", "putSecond"}

LEMMA TableFacts ==
  /\ 0 \in Task /\ IsFiniteSet(Task) /\ Task # {} /\ Cardinality(Task) = NumPhilosophers
  /\ Obj \subseteq Queue /\ Task \subseteq Queue /\ NULL \notin Task
  /\ \A id \in Task : /\ Forks(id)[1] \in Obj /\ Forks(id)[2] \in Obj
                      /\ Forks(id)[1] # Forks(id)[2]
<1>1. NumPhilosophers \in Nat /\ NumPhilosophers >= 2 /\ Task = 0 .. NumPhilosophers - 1
  BY PhilosophersAssumption
<1>2. IsFiniteSet(Task) /\ Cardinality(Task) = NumPhilosophers
  <2>1. /\ IsFiniteSet(0 .. NumPhilosophers - 1)
        /\ Cardinality(0 .. NumPhilosophers - 1) =
             IF 0 > NumPhilosophers - 1 THEN 0 ELSE NumPhilosophers - 1 - 0 + 1
    BY <1>1, FS_Interval
  <2> QED BY <1>1, <2>1
<1>3. \A i \in Task : Fork(i) \in Obj BY PhilosophersAssumption
<1>4. ASSUME NEW id \in Task
      PROVE  /\ Forks(id)[1] \in Obj /\ Forks(id)[2] \in Obj
             /\ Forks(id)[1] # Forks(id)[2]
  <2>1. CASE id = 0
    <3>1. Forks(id)[1] = Fork(0) /\ Forks(id)[2] = Fork(NumPhilosophers - 1) BY <2>1 DEF Forks
    <3>2. 0 \in Task /\ NumPhilosophers - 1 \in Task BY <1>1
    <3>3. Fork(0) # Fork(NumPhilosophers - 1) BY <1>1 DEF Fork
    <3> QED BY <1>3, <3>1, <3>2, <3>3
  <2>2. CASE id # 0
    <3>1. Forks(id)[1] = Fork(id - 1) /\ Forks(id)[2] = Fork(id) BY <2>2 DEF Forks
    <3>2. id - 1 \in Task BY <1>1, <2>2
    <3>3. Fork(id - 1) # Fork(id) BY <1>1 DEF Fork
    <3> QED BY <1>3, <3>1, <3>2, <3>3
  <2> QED BY <2>1, <2>2
<1> QED BY <1>1, <1>2, <1>4, SchedAssumption DEF Queue

LEMMA InHandHas ==
  ASSUME NEW f \in Obj, NEW id \in Task
  PROVE  id \in Holders(f) <=> id \notin ToSet(wq[f]) /\ Has(id, f, pc[id])
BY DEF Holders, InHand, Has

LEMMA Begins == Init => Dining
<1> SUFFICES ASSUME Init PROVE Dining OBVIOUS
<1>1. PICK order \in [1 .. NumPhilosophers -> Task] :
        IsInjective(order) /\ cur = Head(order) /\ ready = Tail(order)
  BY DEF Init
<1>2. order \in SetToSeqs(Task) BY <1>1, TableFacts DEF SetToSeqs, IsInjective
<1>3. status \in [Task -> Runnable] BY StatusNames DEF Init
<1>4. /\ cur \in Task /\ ready \in Seq(Task)
      /\ QueuesAgree(ready, sleepq, status) /\ RunsAlone(cur, ready, status)
  BY <1>1, <1>2, <1>3, TableFacts, OrderPlaces DEF Init
<1>5. SchedTypeOK
  <2>1. status \in [Task -> Status] /\ type \in [Task -> TaskType]
    BY StatusNames DEF Init, TaskType
  <2>2. left \in [Task -> Nat] /\ waitIn \in [Task -> Queue \cup {NULL}] /\ mode \in Mode
    BY DEF Init, Mode
  <2>3. wq \in [Queue -> Seq(Task)] /\ sleepq \in Seq(Task)
    <3>1. <<>> \in Seq(Task) BY EmptySeq
    <3> QED BY <3>1 DEF Init
  <2> QED BY <1>4, <2>1, <2>2, <2>3 DEF SchedTypeOK
<1>6. \A q \in Queue : wq[q] = <<>> /\ ToSet(wq[q]) = {} /\ IsInjective(wq[q])
  BY EmptyQueue DEF Init
<1>7. InPlace BY <1>4, <1>5, <1>6 DEF InPlace, WaitsAgree
<1>8. TypeOK
  <2>1. value \in [Obj -> 0 .. 1] /\ pc \in [Task -> Step] BY DEF Init, Step
  <2>2. eating \in [Task -> BOOLEAN] /\ forksInitialized \in BOOLEAN BY DEF Init
  <2> QED BY <1>5, <2>1, <2>2 DEF TypeOK
<1>9. Opened /\ Queued BY <1>6, TableFacts DEF Init, Opened, Queued
<1> QED BY <1>7, <1>8, <1>9 DEF Dining, Init

-----------------------------------------------------------------------------
(* The thread id that runs waits for no fork; the forks are laid unless it *)
(* has not begun.                                                          *)
LEMMA Running ==
  ASSUME Dining, NEW id \in Task, cur = id
  PROVE  /\ InPlace /\ \A q \in Queue : id \notin ToSet(wq[q])
         /\ pc \in [Task -> Step] /\ eating \in [Task -> BOOLEAN] /\ value \in [Obj -> 0 .. 1]
         /\ pc[id] # "start" => forksInitialized /\ \A f \in Obj : OneHolder(f)
BY PlaceOutside DEF Dining, TypeOK, Opened

LEMMA SamePlace ==
  ASSUME InPlace, UNCHANGED schedVars
  PROVE  InPlace' /\ wq' = wq
BY DEF schedVars, InPlace, SchedTypeOK, QueuesAgree, RunsAlone, WaitsAgree

(* A step of id that leaves its forks where they are.                      *)
LEMMA QuietKeeps ==
  ASSUME Dining, NEW id \in Task, cur = id, NEW s \in Step, GoTo(id, s),
         InPlace', UNCHANGED <<wq, value, forksInitialized>>,
         forksInitialized, s # "start", \A f \in Obj : Has(id, f, s) <=> Has(id, f, pc[id]),
         eating' = [eating EXCEPT ![id] = (s = "ate")]
  PROVE  Dining'
<1>1. /\ pc' \in [Task -> Step] /\ pc'[id] = s /\ \A u \in Task : u # id => pc'[u] = pc[u]
      /\ \A q \in Queue : id \notin ToSet(wq[q])
      /\ eating' \in [Task -> BOOLEAN] /\ eating'[id] = (s = "ate")
      /\ \A u \in Task : u # id => eating'[u] = eating[u]
  BY Running DEF GoTo
<1>2. TypeOK' BY <1>1 DEF Dining, TypeOK, InPlace
<1>3. Opened'
  <2>1. pc'[0] # "start" BY <1>1, TableFacts DEF Dining, Opened
  <2> QED BY <2>1 DEF Opened
<1>4. Queued'
  <2> SUFFICES ASSUME NEW f \in Obj, NEW u \in ToSet(wq'[f])
               PROVE \/ f = Forks(u)[1] /\ pc'[u] = "second"
                     \/ f = Forks(u)[2] /\ pc'[u] = "eat"
    BY DEF Queued
  <2>1. u \in ToSet(wq[f]) /\ u \in Task /\ u # id BY <1>1, Running, PlaceFacts, TableFacts
  <2> QED BY <1>1, <2>1 DEF Dining, Queued
<1>5. ASSUME NEW f \in Obj PROVE OneHolder(f)'
  <2>1. \A u \in Task : u \in Holders(f)' <=> u \in Holders(f)
    <3> TAKE u \in Task
    <3>1. u \in Holders(f) <=> u \notin ToSet(wq[f]) /\ Has(u, f, pc[u]) BY InHandHas
    <3>2. u \in Holders(f)' <=> u \notin ToSet(wq'[f]) /\ Has(u, f, pc'[u])
      BY DEF Holders, InHand, Has
    <3> QED BY <1>1, <3>1, <3>2
  <2>2. Holders(f)' = Holders(f) BY <2>1 DEF Holders
  <2> QED BY <2>2 DEF Dining, OneHolder
<1>6. \A u \in Task : eating'[u] <=> pc'[u] = "ate" BY <1>1 DEF Dining
<1> QED BY <1>2, <1>3, <1>4, <1>5, <1>6 DEF Dining

(* id takes fork f, or queues for it.                                      *)
LEMMA TakeKeeps ==
  ASSUME Dining, NEW id \in Task, cur = id, NEW f \in Obj, NEW s \in Step,
         Take(id, f), GoTo(id, s), pc[id] \notin {"start", "ate"},
         (f = Forks(id)[1] /\ s = "second") \/ (f = Forks(id)[2] /\ s = "eat"),
         ~Has(id, f, pc[id]), Has(id, f, s),
         \A g \in Obj \ {f} : Has(id, g, s) <=> Has(id, g, pc[id])
  PROVE  Dining'
<1>1. /\ pc' \in [Task -> Step] /\ pc'[id] = s /\ \A u \in Task : u # id => pc'[u] = pc[u]
      /\ \A q \in Queue : id \notin ToSet(wq[q])
      /\ InPlace /\ f \in Queue /\ value \in [Obj -> 0 .. 1]
      /\ forksInitialized /\ \A g \in Obj : OneHolder(g)
      /\ eating' = eating /\ forksInitialized' = forksInitialized
  BY Running, TableFacts DEF GoTo, Take
<1>2. \/ /\ value[f] = 1 /\ value' = [value EXCEPT ![f] = 0] /\ wq' = wq /\ InPlace'
      \/ /\ value[f] = 0 /\ value' = value /\ InPlace'
         /\ wq' = [wq EXCEPT ![f] = Append(@, id)]
         /\ ToSet(wq'[f]) = ToSet(wq[f]) \cup {id}
  <2>1. CASE DownNow(f) /\ UNCHANGED schedVars
    <3>1. value[f] > 0 /\ value' = [value EXCEPT ![f] = @ - 1] BY <2>1 DEF DownNow
    <3>2. value[f] = 1 /\ value[f] - 1 = 0 BY <1>1, <3>1
    <3> QED BY <1>1, <2>1, <3>1, <3>2, SamePlace
  <2>2. CASE DownWait(id, f) /\ UNCHANGED type
    <3>1. value[f] = 0 /\ Block(id, f) /\ value' = value BY <2>2 DEF DownWait
    <3> QED BY <1>1, <2>2, <3>1, BlockInPlace
  <2> QED BY <2>1, <2>2 DEF Take
<1>3. /\ wq \in [Queue -> Seq(Task)] /\ \A g \in Obj : g \in Queue
      /\ \A g \in Obj \ {f} : wq'[g] = wq[g] /\ value'[g] = value[g]
      /\ \A u \in Task : u # id => (u \in ToSet(wq'[f]) <=> u \in ToSet(wq[f]))
  BY <1>1, <1>2, PlaceFacts, TableFacts
<1>4. TypeOK'
  <2>1. value' \in [Obj -> 0 .. 1] BY <1>1, <1>2
  <2>2. SchedTypeOK' BY <1>2 DEF InPlace
  <2> QED BY <1>1, <2>1, <2>2 DEF Dining, TypeOK
<1>5. Opened'
  <2>1. pc'[0] # "start" BY <1>1, TableFacts DEF Dining, Opened
  <2> QED BY <1>1, <2>1 DEF Opened
<1>6. Queued'
  <2> SUFFICES ASSUME NEW g \in Obj, NEW u \in ToSet(wq'[g])
               PROVE \/ g = Forks(u)[1] /\ pc'[u] = "second"
                     \/ g = Forks(u)[2] /\ pc'[u] = "eat"
    BY DEF Queued
  <2>1. g \in Queue /\ ToSet(wq[g]) \subseteq Task BY <1>1, <1>3, PlaceFacts
  <2>2. CASE u \in ToSet(wq[g])
    <3>1. u \in Task /\ u # id BY <1>1, <2>1, <2>2
    <3> QED BY <1>1, <2>2, <3>1 DEF Dining, Queued
  <2>3. CASE u \notin ToSet(wq[g])
    <3>1. g = f BY <1>3, <2>3
    <3>2. u \in ToSet(wq'[f]) /\ u \notin ToSet(wq[f]) BY <2>3, <3>1
    <3>3. u = id BY <1>2, <3>2
    <3> QED BY <1>1, <3>1, <3>3
  <2> QED BY <2>2, <2>3
<1>7. \A g \in Obj, u \in Task :
        u \in Holders(g)' <=> u \notin ToSet(wq'[g]) /\ Has(u, g, pc'[u])
  BY DEF Holders, InHand, Has
<1>8. ASSUME NEW g \in Obj \ {f} PROVE OneHolder(g)'
  <2>1. \A u \in Task : u \in Holders(g)' <=> u \in Holders(g)
    <3> TAKE u \in Task
    <3>1. wq'[g] = wq[g] /\ (Has(u, g, pc'[u]) <=> Has(u, g, pc[u])) BY <1>1, <1>3
    <3> QED BY <1>7, <3>1, InHandHas
  <2>2. Holders(g)' = Holders(g) BY <2>1 DEF Holders
  <2> QED BY <1>1, <1>3, <2>2 DEF OneHolder
<1>9. OneHolder(f)'
  <2>0. \A u \in Task : u # id => (u \in Holders(f)' <=> u \in Holders(f))
    BY <1>1, <1>3, <1>7, InHandHas
  <2>1. id \notin Holders(f) BY InHandHas
  <2>2. Holders(f) \subseteq Task /\ Holders(f)' \subseteq Task BY DEF Holders
  <2>3. CASE value[f] = 1 /\ value' = [value EXCEPT ![f] = 0] /\ wq' = wq
    <3>1. Holders(f) = {} BY <1>1, <2>3 DEF OneHolder
    <3>2. id \in Holders(f)' BY <1>1, <1>7, <2>3
    <3>3. Holders(f)' = {id} BY <2>0, <2>2, <3>1, <3>2
    <3>4. value'[f] = 0 BY <1>1, <2>3
    <3> QED BY <3>3, <3>4 DEF OneHolder
  <2>4. CASE value[f] = 0 /\ value' = value /\ ToSet(wq'[f]) = ToSet(wq[f]) \cup {id}
    <3>1. id \notin Holders(f)' BY <1>7, <2>4
    <3>2. Holders(f)' = Holders(f) BY <2>0, <2>1, <2>2, <3>1
    <3>3. \E h \in Task : Holders(f) = {h} BY <1>1, <2>4 DEF OneHolder
    <3> QED BY <2>4, <3>2, <3>3 DEF OneHolder
  <2> QED BY <1>2, <2>3, <2>4
<1>10. \A u \in Task : eating'[u] <=> pc'[u] = "ate" BY <1>1 DEF Dining
<1> QED BY <1>2, <1>4, <1>5, <1>6, <1>8, <1>9, <1>10 DEF Dining

(* id gives fork f back, or passes it on to the one that waits longest.    *)
LEMMA PutKeeps ==
  ASSUME Dining, NEW id \in Task, cur = id, NEW f \in Obj, NEW s \in Step,
         Put(f), GoTo(id, s), pc[id] # "start", s \notin {"start", "ate"},
         eating' = [eating EXCEPT ![id] = FALSE],
         Has(id, f, pc[id]), ~Has(id, f, s),
         \A g \in Obj \ {f} : Has(id, g, s) <=> Has(id, g, pc[id])
  PROVE  Dining'
<1>1. /\ pc' \in [Task -> Step] /\ pc'[id] = s /\ \A u \in Task : u # id => pc'[u] = pc[u]
      /\ \A q \in Queue : id \notin ToSet(wq[q])
      /\ InPlace /\ f \in Queue /\ value \in [Obj -> 0 .. 1]
      /\ forksInitialized /\ \A g \in Obj : OneHolder(g)
      /\ forksInitialized' = forksInitialized
      /\ eating' \in [Task -> BOOLEAN] /\ ~eating'[id]
      /\ \A u \in Task : u # id => eating'[u] = eating[u]
  BY Running, TableFacts DEF GoTo, Put
<1>2. id \in Holders(f) BY <1>1, InHandHas
<1>3. value[f] = 0 /\ Holders(f) = {id} BY <1>1, <1>2 DEF OneHolder
<1>4. UNCHANGED <<type, left, waitIn, sleepq, cur, mode>> BY DEF Put
<1>5. \/ /\ value' = value /\ InPlace' /\ wq' = [wq EXCEPT ![f] = Tail(@)]
         /\ \E h \in ToSet(wq[f]) : h \in Task /\ ToSet(wq'[f]) = ToSet(wq[f]) \ {h}
      \/ value' = [value EXCEPT ![f] = 1] /\ wq' = wq /\ wq[f] = <<>> /\ InPlace'
  <2>1. CASE wq[f] # <<>> /\ UnblockOne(f) /\ value' = value
    BY <1>1, <1>4, <2>1, UnblockOneInPlace
  <2>2. CASE /\ wq[f] = <<>> /\ value' = [value EXCEPT ![f] = @ + 1]
             /\ UNCHANGED <<status, ready, wq>>
    BY <1>1, <1>3, <1>4, <2>2, SamePlace DEF schedVars
  <2> QED BY <1>3, <2>1, <2>2 DEF Put, Up
<1>6. /\ wq \in [Queue -> Seq(Task)] /\ \A g \in Obj : g \in Queue
      /\ \A g \in Obj \ {f} : wq'[g] = wq[g] /\ value'[g] = value[g]
      /\ ToSet(wq'[f]) \subseteq ToSet(wq[f])
  BY <1>1, <1>5, PlaceFacts, TableFacts
<1>7. TypeOK'
  <2>1. value' \in [Obj -> 0 .. 1] BY <1>1, <1>5
  <2>2. SchedTypeOK' BY <1>5 DEF InPlace
  <2> QED BY <1>1, <2>1, <2>2 DEF Dining, TypeOK
<1>8. Opened'
  <2>1. pc'[0] # "start" BY <1>1, TableFacts DEF Dining, Opened
  <2> QED BY <1>1, <2>1 DEF Opened
<1>9. Queued'
  <2> SUFFICES ASSUME NEW g \in Obj, NEW u \in ToSet(wq'[g])
               PROVE \/ g = Forks(u)[1] /\ pc'[u] = "second"
                     \/ g = Forks(u)[2] /\ pc'[u] = "eat"
    BY DEF Queued
  <2>1. u \in ToSet(wq[g]) BY <1>6
  <2>2. u \in Task /\ u # id BY <1>1, <1>6, <2>1, PlaceFacts
  <2> QED BY <1>1, <2>1, <2>2 DEF Dining, Queued
<1>10. \A g \in Obj, u \in Task :
         u \in Holders(g)' <=> u \notin ToSet(wq'[g]) /\ Has(u, g, pc'[u])
  BY DEF Holders, InHand, Has
<1>11. ASSUME NEW g \in Obj \ {f} PROVE OneHolder(g)'
  <2>1. \A u \in Task : u \in Holders(g)' <=> u \in Holders(g)
    <3> TAKE u \in Task
    <3>1. wq'[g] = wq[g] /\ (Has(u, g, pc'[u]) <=> Has(u, g, pc[u])) BY <1>1, <1>6
    <3> QED BY <1>10, <3>1, InHandHas
  <2>2. Holders(g)' = Holders(g) BY <2>1 DEF Holders
  <2> QED BY <1>1, <1>6, <2>2 DEF OneHolder
<1>12. OneHolder(f)'
  <2>1. id \notin Holders(f)' BY <1>1, <1>10
  <2>2. \A u \in Task : u # id => Has(u, f, pc'[u]) = Has(u, f, pc[u]) BY <1>1
  <2>3. Holders(f)' \subseteq Task BY DEF Holders
  <2>4. CASE \E h \in ToSet(wq[f]) : /\ h \in Task /\ value' = value
                                     /\ ToSet(wq'[f]) = ToSet(wq[f]) \ {h}
    <3>1. PICK h \in ToSet(wq[f]) : /\ h \in Task /\ value' = value
                                    /\ ToSet(wq'[f]) = ToSet(wq[f]) \ {h}
      BY <2>4
    <3>2. h # id BY <1>1
    <3>3. Has(h, f, pc[h]) BY DEF Dining, Queued, Has
    <3>4. h \in Holders(f)' BY <1>10, <2>2, <3>1, <3>2, <3>3
    <3>5. ASSUME NEW u \in Task, u # h, u # id PROVE u \notin Holders(f)'
      <4>1. u \notin Holders(f) BY <1>3, <3>5
      <4> QED BY <1>10, <2>2, <3>1, <3>5, <4>1, InHandHas
    <3>6. Holders(f)' = {h} BY <2>1, <2>3, <3>4, <3>5
    <3> QED BY <1>3, <3>1, <3>6 DEF OneHolder
  <2>5. CASE value' = [value EXCEPT ![f] = 1] /\ wq' = wq /\ wq[f] = <<>>
    <3>1. ASSUME NEW u \in Task, u # id PROVE u \notin Holders(f)'
      <4>1. u \notin Holders(f) BY <1>3, <3>1
      <4> QED BY <1>10, <2>2, <2>5, <3>1, <4>1, InHandHas
    <3>2. Holders(f)' = {} BY <2>1, <2>3, <3>1
    <3>3. value'[f] = 1 /\ wq'[f] = <<>> BY <1>1, <2>5
    <3> QED BY <3>2, <3>3 DEF OneHolder
  <2> QED BY <1>5, <2>4, <2>5
<1>13. \A u \in Task : eating'[u] <=> pc'[u] = "ate" BY <1>1 DEF Dining
<1> QED BY <1>1, <1>5, <1>7, <1>8, <1>9, <1>11, <1>12, <1>13 DEF Dining

(* Steps that only move threads between the queues of the scheduler.       *)
LEMMA PlacesOnly ==
  ASSUME Dining, InPlace', UNCHANGED <<wq, value, pc, eating, forksInitialized>>
  PROVE  Dining'
<1>1. TypeOK' /\ Opened' /\ Queued' BY DEF Dining, TypeOK, Opened, Queued, InPlace
<1>2. \A f \in Obj : OneHolder(f) => OneHolder(f)' BY DEF OneHolder, Holders, InHand
<1> QED BY <1>1, <1>2 DEF Dining

-----------------------------------------------------------------------------
(* Every action keeps it *)

LEMMA LayForksKeeps ==
  ASSUME Dining, LayForks
  PROVE  Dining'
<1>1. /\ cur = 0 /\ pc[0] = "start" /\ value' = [f \in Obj |-> 1] /\ forksInitialized' = TRUE
      /\ GoTo(0, "think") /\ UNCHANGED schedVars /\ eating' = eating /\ 0 \in Task
  BY TableFacts DEF LayForks, At
<1>2. /\ \A id \in Task : pc[id] = "start"
      /\ \A f \in Obj : wq[f] = <<>>
      /\ pc \in [Task -> Step]
  BY <1>1 DEF Dining, Opened, TypeOK
<1>3. InPlace' /\ wq' = wq BY <1>1, SamePlace DEF Dining
<1>4. /\ pc' \in [Task -> Step] /\ pc'[0] = "think"
      /\ \A id \in Task : pc'[id] \in {"start", "think"}
  BY <1>1, <1>2 DEF GoTo, Step
<1>5. TypeOK'
  <2>1. value' \in [Obj -> 0 .. 1] BY <1>1
  <2> QED BY <1>1, <1>3, <1>4, <2>1 DEF Dining, TypeOK, InPlace
<1>6. Opened' BY <1>1, <1>4 DEF Opened
<1>7. Queued' BY <1>2, <1>3, EmptyQueue DEF Queued
<1>8. ASSUME NEW f \in Obj PROVE OneHolder(f)'
  <2>1. Holders(f)' = {} BY <1>4 DEF Holders, InHand
  <2> QED BY <1>1, <1>2, <1>3, <2>1 DEF OneHolder
<1>9. \A id \in Task : eating'[id] <=> pc'[id] = "ate" BY <1>1, <1>2, <1>4 DEF Dining
<1> QED BY <1>3, <1>5, <1>6, <1>7, <1>8, <1>9 DEF Dining

LEMMA AwaitForksKeeps ==
  ASSUME Dining, NEW id \in Task, AwaitForks(id)
  PROVE  Dining'
<1>1. /\ cur = id /\ pc[id] = "start" /\ InPlace
      /\ UNCHANGED <<value, eating, forksInitialized>>
  BY DEF AwaitForks, At, Dining
<1>2. CASE ~forksInitialized /\ DoYield(id) /\ UNCHANGED pc
  <2>1. InPlace' BY <1>1, <1>2, YieldInPlace
  <2>2. wq' = wq BY <1>2 DEF DoYield
  <2> QED BY <1>1, <1>2, <2>1, <2>2, PlacesOnly
<1>3. CASE forksInitialized /\ GoTo(id, "think") /\ UNCHANGED schedVars
  <2>1. InPlace' /\ wq' = wq BY <1>1, <1>3, SamePlace
  <2>2. \A f \in Obj : Has(id, f, "think") <=> Has(id, f, pc[id]) BY <1>1 DEF Has
  <2>3. eating' = [eating EXCEPT ![id] = FALSE]
    <3>1. eating \in [Task -> BOOLEAN] /\ ~eating[id] BY <1>1, Running DEF Dining
    <3> QED BY <1>1, <3>1
  <2> QED BY <1>1, <1>3, <2>1, <2>2, <2>3, QuietKeeps DEF Step
<1> QED BY <1>2, <1>3 DEF AwaitForks

LEMMA ThinkKeeps ==
  ASSUME Dining, NEW id \in Task, Think(id)
  PROVE  Dining'
<1>1. /\ cur = id /\ pc[id] = "think" /\ GoTo(id, "first") /\ InPlace
      /\ UNCHANGED <<value, eating, forksInitialized>>
  BY DEF Think, At, Dining
<1>2. PICK ms \in ThinkTime : DoSleep(id, ms) BY DEF Think
<1>3. ms \in Nat BY PhilosophersAssumption
<1>4. InPlace' /\ wq' = wq BY <1>1, <1>2, <1>3, SleepInPlace
<1>5. \A f \in Obj : Has(id, f, "first") <=> Has(id, f, pc[id]) BY <1>1 DEF Has
<1>6. eating' = [eating EXCEPT ![id] = FALSE]
  <2>1. eating \in [Task -> BOOLEAN] /\ ~eating[id] BY <1>1, Running DEF Dining
  <2> QED BY <1>1, <2>1
<1>7. forksInitialized BY <1>1, Running
<1> QED BY <1>1, <1>4, <1>5, <1>6, <1>7, QuietKeeps DEF Step

LEMMA EatKeeps ==
  ASSUME Dining, NEW id \in Task, Eat(id)
  PROVE  Dining'
<1>1. /\ cur = id /\ pc[id] = "eat" /\ GoTo(id, "ate") /\ InPlace
      /\ eating' = [eating EXCEPT ![id] = TRUE]
      /\ UNCHANGED <<value, forksInitialized>>
  BY DEF Eat, At, Dining
<1>2. PICK ms \in EatTime : DoSleep(id, ms) BY DEF Eat
<1>3. ms \in Nat BY PhilosophersAssumption
<1>4. InPlace' /\ wq' = wq BY <1>1, <1>2, <1>3, SleepInPlace
<1>5. \A f \in Obj : Has(id, f, "ate") <=> Has(id, f, pc[id]) BY <1>1 DEF Has
<1>6. forksInitialized BY <1>1, Running
<1> QED BY <1>1, <1>4, <1>5, <1>6, QuietKeeps DEF Step

LEMMA TakesKeep ==
  ASSUME Dining, NEW id \in Task, TakeFirst(id) \/ TakeSecond(id)
  PROVE  Dining'
<1>1. Forks(id)[1] \in Obj /\ Forks(id)[2] \in Obj /\ Forks(id)[1] # Forks(id)[2]
  BY TableFacts
<1>2. CASE TakeFirst(id)
  <2>1. cur = id /\ pc[id] = "first" /\ Take(id, Forks(id)[1]) /\ GoTo(id, "second")
    BY <1>2 DEF TakeFirst, At
  <2>2. /\ ~Has(id, Forks(id)[1], pc[id]) /\ Has(id, Forks(id)[1], "second")
        /\ \A g \in Obj \ {Forks(id)[1]} : Has(id, g, "second") <=> Has(id, g, pc[id])
    BY <1>1, <2>1 DEF Has
  <2> QED BY <1>1, <2>1, <2>2, TakeKeeps DEF Step
<1>3. CASE TakeSecond(id)
  <2>1. cur = id /\ pc[id] = "second" /\ Take(id, Forks(id)[2]) /\ GoTo(id, "eat")
    BY <1>3 DEF TakeSecond, At
  <2>2. /\ ~Has(id, Forks(id)[2], pc[id]) /\ Has(id, Forks(id)[2], "eat")
        /\ \A g \in Obj \ {Forks(id)[2]} : Has(id, g, "eat") <=> Has(id, g, pc[id])
    BY <1>1, <2>1 DEF Has
  <2> QED BY <1>1, <2>1, <2>2, TakeKeeps DEF Step
<1> QED BY <1>2, <1>3

LEMMA PutsKeep ==
  ASSUME Dining, NEW id \in Task, PutFirst(id) \/ PutSecond(id)
  PROVE  Dining'
<1>1. Forks(id)[1] \in Obj /\ Forks(id)[2] \in Obj /\ Forks(id)[1] # Forks(id)[2]
  BY TableFacts
<1>2. CASE PutFirst(id)
  <2>1. /\ cur = id /\ pc[id] = "ate" /\ Put(Forks(id)[1]) /\ GoTo(id, "putSecond")
        /\ eating' = [eating EXCEPT ![id] = FALSE]
    BY <1>2 DEF PutFirst, At
  <2>2. /\ Has(id, Forks(id)[1], pc[id]) /\ ~Has(id, Forks(id)[1], "putSecond")
        /\ \A g \in Obj \ {Forks(id)[1]} : Has(id, g, "putSecond") <=> Has(id, g, pc[id])
    BY <1>1, <2>1 DEF Has
  <2> QED BY <1>1, <2>1, <2>2, PutKeeps DEF Step
<1>3. CASE PutSecond(id)
  <2>1. /\ cur = id /\ pc[id] = "putSecond" /\ Put(Forks(id)[2]) /\ GoTo(id, "think")
        /\ eating' = eating
    BY <1>3 DEF PutSecond, At
  <2>2. /\ Has(id, Forks(id)[2], pc[id]) /\ ~Has(id, Forks(id)[2], "think")
        /\ \A g \in Obj \ {Forks(id)[2]} : Has(id, g, "think") <=> Has(id, g, pc[id])
    BY <1>1, <2>1 DEF Has
  <2>3. eating' = [eating EXCEPT ![id] = FALSE]
    <3>1. eating \in [Task -> BOOLEAN] /\ ~eating[id] BY <2>1, Running DEF Dining
    <3> QED BY <2>1, <3>1
  <2> QED BY <1>1, <2>1, <2>2, <2>3, PutKeeps DEF Step
<1> QED BY <1>2, <1>3

LEMMA TickKeeps ==
  ASSUME Dining, Tick
  PROVE  Dining'
<1>1. TimerIrq(TRUE) /\ UNCHANGED <<value, pc, eating, forksInitialized>> BY DEF Tick
<1>2. InPlace' /\ wq' = wq BY <1>1, TimerInPlace DEF Dining
<1> QED BY <1>1, <1>2, PlacesOnly

LEMMA StepKeeps == Dining /\ [Next]_vars => Dining'
<1> SUFFICES ASSUME Dining, [Next]_vars PROVE Dining' OBVIOUS
<1>1. ASSUME NEW id \in Task, Philosopher(id) PROVE Dining'
  BY <1>1, AwaitForksKeeps, ThinkKeeps, TakesKeep, EatKeeps, PutsKeep DEF Philosopher
<1>2. CASE UNCHANGED vars
  <2>1. UNCHANGED schedVars /\ UNCHANGED <<value, pc, eating, forksInitialized>>
    BY <1>2 DEF vars
  <2>2. InPlace' /\ wq' = wq BY <2>1, SamePlace DEF Dining
  <2> QED BY <2>1, <2>2, PlacesOnly
<1> QED BY <1>1, <1>2, LayForksKeeps, TickKeeps DEF Next, CpuStep

LEMMA AlwaysDining == Spec => []Dining
BY Begins, StepKeeps, PTL DEF Spec

-----------------------------------------------------------------------------
(* Through every wait and hand-over of the semaphores, a fork is either on *)
(* the table or has one owner, who may be still waiting to run again.      *)
THEOREM NoForkLost == Spec => []ForksConserved
<1>1. ASSUME NEW f \in Obj, OneHolder(f)
      PROVE  value[f] + Cardinality({id \in Task : f \in InHand(id)}) = 1
  <2>1. CASE value[f] = 1 /\ Holders(f) = {}
    <3>1. Cardinality(Holders(f)) = 0 BY <2>1, FS_EmptySet
    <3> QED BY <2>1, <3>1 DEF Holders
  <2>2. CASE value[f] = 0 /\ \E id \in Task : Holders(f) = {id}
    <3>1. Cardinality(Holders(f)) = 1 BY <2>2, FS_Singleton
    <3> QED BY <2>2, <3>1 DEF Holders
  <2> QED BY <1>1, <2>1, <2>2 DEF OneHolder
<1>2. Dining => ForksConserved BY <1>1 DEF Dining, ForksConserved
<1> QED BY <1>2, AlwaysDining, PTL

(* Two neighbours have a fork in common.                                   *)
LEMMA SharedFork ==
  ASSUME NEW id \in Task, NEW d \in {id + 1, id + NumPhilosophers - 1}
  PROVE  LET n == d % NumPhilosophers
         IN  /\ n \in Task /\ n # id
             /\ \E f \in Obj : /\ f \in {Forks(id)[1], Forks(id)[2]}
                               /\ f \in {Forks(n)[1], Forks(n)[2]}
<1> DEFINE n == d % NumPhilosophers
           Shares(a, b) == \E f \in Obj : /\ f \in {Forks(a)[1], Forks(a)[2]}
                                          /\ f \in {Forks(b)[1], Forks(b)[2]}
<1>1. NumPhilosophers \in Nat /\ NumPhilosophers >= 2 /\ Task = 0 .. NumPhilosophers - 1
  BY PhilosophersAssumption
<1>2. \A i \in Task : /\ Fork(i) \in Obj /\ Fork(i) \in {Forks(i)[1], Forks(i)[2]}
                      /\ i > 0 => Fork(i - 1) = Forks(i)[1]
  BY <1>1, PhilosophersAssumption DEF Forks
<1>3. Fork(NumPhilosophers - 1) = Forks(0)[2] BY DEF Forks
<1>4. \A i \in Task : i > 0 => Shares(i, i - 1) /\ Shares(i - 1, i)
  <2> SUFFICES ASSUME NEW i \in Task, i > 0 PROVE Shares(i, i - 1) /\ Shares(i - 1, i)
    OBVIOUS
  <2>1. i - 1 \in Task BY <1>1
  <2> QED BY <1>2, <2>1
<1>5. 0 \in Task /\ NumPhilosophers - 1 \in Task BY <1>1
<1>6. Shares(0, NumPhilosophers - 1) /\ Shares(NumPhilosophers - 1, 0)
  BY <1>2, <1>3, <1>5
<1>7. n \in Task /\ n # id /\ Shares(id, n)
  <2> HIDE DEF Shares
  <2>1. CASE d = id + 1 /\ id < NumPhilosophers - 1
    <3>1. n = id + 1 /\ n \in Task /\ n > 0 /\ n - 1 = id /\ n # id BY <1>1, <2>1
    <3> HIDE DEF n
    <3>2. Shares(n - 1, n) BY <1>4, <3>1
    <3> QED BY <3>1, <3>2
  <2>2. CASE d = id + 1 /\ id = NumPhilosophers - 1
    <3>1. n = 0 BY <1>1, <2>2
    <3> QED BY <1>1, <1>5, <1>6, <2>2, <3>1
  <2>3. CASE d = id + NumPhilosophers - 1 /\ id = 0
    <3>1. n = NumPhilosophers - 1 BY <1>1, <2>3
    <3> QED BY <1>1, <1>5, <1>6, <2>3, <3>1
  <2>4. CASE d = id + NumPhilosophers - 1 /\ id > 0
    <3>1. n = id - 1 /\ n \in Task BY <1>1, <2>4
    <3> QED BY <1>1, <1>4, <2>4, <3>1
  <2> QED BY <1>1, <2>1, <2>2, <2>3, <2>4
<1> QED BY <1>7

(* The ASSERTs of philosopher() hold, for any number of philosophers: who  *)
(* eats has both forks, and a fork has one owner.                          *)
THEOREM NeighboursNeverEat == Spec => []NeighboursApart
<1>1. ASSUME Dining, NEW id \in Task, eating[id], NEW f \in Obj,
             f \in {Forks(id)[1], Forks(id)[2]}
      PROVE  forksInitialized /\ id \in Holders(f)
  <2>1. pc[id] = "ate" BY <1>1 DEF Dining
  <2>2. id \notin ToSet(wq[f]) BY <1>1, <2>1 DEF Dining, Queued
  <2>3. Has(id, f, pc[id]) BY <1>1, <2>1 DEF Has
  <2> QED BY <1>1, <2>1, <2>2, <2>3, InHandHas DEF Dining, Opened
<1>2. Dining => NeighboursApart
  <2> SUFFICES ASSUME Dining, NEW id \in Task, eating[id],
                      NEW d \in {id + 1, id + NumPhilosophers - 1},
                      eating[d % NumPhilosophers]
               PROVE  FALSE
    BY DEF NeighboursApart
  <2> DEFINE n == d % NumPhilosophers
  <2>1. /\ n \in Task /\ n # id
        /\ \E f \in Obj : /\ f \in {Forks(id)[1], Forks(id)[2]}
                          /\ f \in {Forks(n)[1], Forks(n)[2]}
    BY SharedFork
  <2>2. eating[n] OBVIOUS
  <2> HIDE DEF n
  <2>3. PICK f \in Obj : /\ f \in {Forks(id)[1], Forks(id)[2]}
                         /\ f \in {Forks(n)[1], Forks(n)[2]}
    BY <2>1
  <2>4. forksInitialized /\ id \in Holders(f) /\ n \in Holders(f)
    BY <1>1, <2>1, <2>2, <2>3
  <2> QED BY <2>1, <2>4 DEF Dining, OneHolder
<1> QED BY <1>2, AlwaysDining, PTL
=============================================================================
