---------------------------- MODULE MailboxProofs ---------------------------
(***************************************************************************)
(* Theorems about Mailbox, for any number of programs, boxes, names and    *)
(* messages to a box.                                                      *)
(***************************************************************************)
EXTENDS Mailbox, SchedProofs

Full(b)  == <<b, "full">>
Empty(b) == <<b, "empty">>

(* The semaphore that a call waits for.                                    *)
Sem(b, op) == IF op = "recv" THEN Full(b) ELSE Empty(b)
Op == {"send", "recv"}

LEMMA BoxFacts ==
  /\ IsFiniteSet(Task) /\ Task # {} /\ MaxLength \in Nat \ {0}
  /\ Cardinality(Task) \in Nat
  /\ \A b \in Box : Full(b) \in Obj /\ Empty(b) \in Obj /\ b \in Int
  /\ \A b \in Box, op \in Op : Sem(b, op) \in Obj
  /\ Obj \subseteq Queue
  /\ \A o \in Obj : \E b \in Box, op \in Op : o = Sem(b, op)
  /\ \A b, c \in Box, op, opp \in Op : Sem(b, op) = Sem(c, opp) => b = c /\ op = opp
  /\ \A b \in Box : Full(b) = Sem(b, "recv") /\ Empty(b) = Sem(b, "send")
<1>1. IsFiniteSet(Task) /\ Task # {} /\ MaxLength \in Nat \ {0} /\ Obj = Box \X {"full", "empty"}
  BY MailboxAssumption
<1>2. Cardinality(Task) \in Nat BY <1>1, FS_CardinalityType
<1>3. \A b \in Box : b \in Int BY MailboxAssumption DEF Box
<1>4. \A b, c \in Box, op, opp \in Op : Sem(b, op) = Sem(c, opp) => b = c /\ op = opp
  BY DEF Sem, Full, Empty, Op
<1>5. \A o \in Obj : \E b \in Box, op \in Op : o = Sem(b, op)
  <2> SUFFICES ASSUME NEW b \in Box, NEW k \in {"full", "empty"}
               PROVE  \E op \in Op : <<b, k>> = Sem(b, op)
    BY <1>1
  <2>1. CASE k = "full" BY <2>1 DEF Sem, Full, Op
  <2>2. CASE k = "empty" BY <2>2 DEF Sem, Empty, Op
  <2> QED BY <2>1, <2>2
<1> QED BY <1>1, <1>2, <1>3, <1>4, <1>5 DEF Sem, Full, Empty, Op, Queue

-----------------------------------------------------------------------------
(* Nobody sleeps here. Who is inside a call has the box open and has       *)
(* blocked, and may have been let through since; an open box is in use;    *)
(* the queue of a semaphore holds the calls that wait for it.              *)
Awake == {"FIRST_TIME", "READY", "BLOCKED"}

InCall(t, b, op) == Inside(t, b) /\ call[t].op = op

CallsAgree ==
  /\ \A t \in Task : status[t] \in Awake /\ (call[t] # NoCall => status[t] # "FIRST_TIME")
  /\ \A t \in Task, b \in Box : Inside(t, b) => b \in opened[t]
  /\ \A t \in Task, b \in Box : b \in opened[t] => used[b]
  /\ \A b \in Box, op \in Op : \A t \in ToSet(wq[Sem(b, op)]) : InCall(t, b, op)

(* What RoomConserved says of box b.                                       *)
Room(b) == value[Full(b)] + value[Empty(b)]
             + Cardinality(Granted(b, "send")) + Cardinality(Granted(b, "recv"))

RoomOK == \A b \in Box : used[b] => Room(b) = MaxLength

(* message_num is what is free to receive, less the receivers that wait.   *)
Balanced == wild \/ \A b \in Box : num[b] = value[Full(b)] - Len(wq[Full(b)])

Held == TypeOK /\ InPlace /\ CallsAgree /\ RoomOK /\ NoneWaitsInVain /\ Balanced

LEMMA CallFacts ==
  ASSUME call \in [Task -> Calls], NEW t \in Task
  PROVE  /\ call[t] # NoCall => call[t].op \in Op /\ call[t].box \in Box /\ call[t].slot \in Slot
                                /\ InCall(t, call[t].box, call[t].op)
         /\ call[t].op \in Op => call[t] # NoCall
         /\ \A b \in Box : Inside(t, b) => call[t].op \in Op
BY DEF Calls, NoCall, Op, Inside, InCall

LEMMA GrantedFinite ==
  ASSUME NEW b, NEW op
  PROVE  IsFiniteSet(Granted(b, op)) /\ Cardinality(Granted(b, op)) \in Nat
<1>1. Granted(b, op) \in SUBSET Task BY DEF Granted
<1> QED BY <1>1, BoxFacts, FS_Subset, FS_CardinalityType

-----------------------------------------------------------------------------
(* What semaphore_up() does, at the end of p's call or in it: the value    *)
(* less the waiters, and the value and those let through, go up by one.    *)
One(c, o, b, op) == IF c = b /\ o = op THEN 1 ELSE 0

Conserved(val, p, b, op) ==
  \A c \in Box, o \in Op :
    /\ value'[Sem(c, o)] + Cardinality(Granted(c, o)')
         = val[Sem(c, o)] + Cardinality(Granted(c, o) \ {p}) + One(c, o, b, op)
    /\ value'[Sem(c, o)] - Len(wq'[Sem(c, o)])
         = val[Sem(c, o)] - Len(wq[Sem(c, o)]) + One(c, o, b, op)
    /\ wq'[Sem(c, o)] # <<>> => value'[Sem(c, o)] = 0

LEMMA UpFlow ==
  ASSUME InPlace, CallsAgree, call \in [Task -> Calls], NEW p \in Task, cur = p,
         NEW b \in Box, NEW op \in Op, NEW val \in [Obj -> Nat], Up(val, Sem(b, op)),
         call' = [call EXCEPT ![p] = NoCall], \A o \in Obj : wq[o] # <<>> => val[o] = 0,
         UNCHANGED <<type, left, waitIn, sleepq, cur, mode, used, opened>>
  PROVE  InPlace' /\ CallsAgree' /\ value' \in [Obj -> Nat] /\ Conserved(val, p, b, op)
<1> DEFINE s == Sem(b, op)
<1>0. s \in Obj /\ s \in Queue BY BoxFacts
<1>1. \A c \in Box, o \in Op : /\ Sem(c, o) \in Obj /\ Sem(c, o) \in Queue
                               /\ Sem(c, o) = s <=> c = b /\ o = op
  <2>1. \A c \in Box, o \in Op : Sem(c, o) \in Obj /\ Sem(c, o) \in Queue BY BoxFacts
  <2>2. \A c \in Box, o \in Op : Sem(c, o) = s => c = b /\ o = op BY BoxFacts
  <2> QED BY <2>1, <2>2
<1>2. Up(val, s) OBVIOUS
<1>3. \A c \in Box, o \in Op : IsFiniteSet(Granted(c, o) \ {p}) /\ Cardinality(Granted(c, o) \ {p}) \in Nat
  BY GrantedFinite, FS_RemoveElement, FS_CardinalityType
<1>4. \A t \in Task : call'[t] = IF t = p THEN NoCall ELSE call[t] OBVIOUS
<1>5. \A c \in Box : \A t \in Task : Inside(t, c)' <=> t # p /\ Inside(t, c)
  BY <1>4 DEF Inside
<1>6. \A c \in Box, o \in Op : \A t \in Task : InCall(t, c, o)' <=> t # p /\ InCall(t, c, o)
  BY <1>4, <1>5 DEF InCall
<1>7. \A q \in Queue : p \notin ToSet(wq[q]) BY PlaceOutside
<1> HIDE DEF s
<1>8. CASE val[s] = 0 /\ wq[s] # <<>> /\ UnblockOne(s) /\ value' = val
  <2> DEFINE t == Head(wq[s])
  <2>1. /\ InPlace' /\ t \in Task /\ t \in ToSet(wq[s]) /\ status[t] = "BLOCKED"
        /\ status' = [status EXCEPT ![t] = "READY"]
        /\ wq' = [wq EXCEPT ![s] = Tail(@)]
        /\ ToSet(wq'[s]) = ToSet(wq[s]) \ {t} /\ Len(wq'[s]) = Len(wq[s]) - 1
    BY <1>0, <1>8, UnblockOneInPlace
  <2> HIDE DEF t
  <2>2. InCall(t, b, op) /\ t # p BY <2>1, <1>0, <1>7 DEF CallsAgree, s
  <2>3. \A q \in Queue : q # s => wq'[q] = wq[q] BY <2>1, PlaceFacts
  <2>4. \A u \in Task : status'[u] = IF u = t THEN "READY" ELSE status[u]
    BY <2>1, PlaceFacts
  <2>5. CallsAgree'
    <3>1. \A u \in Task : status'[u] \in Awake /\ (call'[u] # NoCall => status'[u] # "FIRST_TIME")
      BY <1>4, <2>4 DEF CallsAgree, Awake
    <3>2. /\ \A u \in Task, c \in Box : Inside(u, c)' => c \in opened'[u]
          /\ \A u \in Task, c \in Box : c \in opened'[u] => used'[c]
      BY <1>5 DEF CallsAgree
    <3>3. ASSUME NEW c \in Box, NEW o \in Op, NEW u \in ToSet(wq'[Sem(c, o)])
          PROVE  InCall(u, c, o)'
      <4>1. u \in ToSet(wq[Sem(c, o)]) BY <3>3, <1>1, <2>1, <2>3
      <4>2. u \in Task /\ u # p BY <4>1, <1>1, <1>7, PlaceFacts
      <4> QED BY <4>1, <4>2, <1>6 DEF CallsAgree
    <3> QED BY <3>1, <3>2, <3>3 DEF CallsAgree
  <2>6. ASSUME NEW c \in Box, NEW o \in Op
        PROVE  /\ value'[Sem(c, o)] + Cardinality(Granted(c, o)')
                    = val[Sem(c, o)] + Cardinality(Granted(c, o) \ {p}) + One(c, o, b, op)
               /\ value'[Sem(c, o)] - Len(wq'[Sem(c, o)])
                    = val[Sem(c, o)] - Len(wq[Sem(c, o)]) + One(c, o, b, op)
               /\ wq'[Sem(c, o)] # <<>> => value'[Sem(c, o)] = 0
    <3>1. value'[Sem(c, o)] = val[Sem(c, o)] /\ val[Sem(c, o)] \in Nat BY <1>8, <1>1
    <3>2. Len(wq[Sem(c, o)]) \in Nat BY <1>1, PlaceFacts, LenProperties
    <3>3. CASE c = b /\ o = op
      <4>1. (Granted(c, o) \ {p}) \cup {t} = Granted(c, o)'
        BY <3>3, <1>6, <2>1, <2>2, <2>4 DEF Granted, InCall
      <4>2. t \notin Granted(c, o) \ {p} BY <2>1 DEF Granted
      <4>3. Cardinality(Granted(c, o)') = Cardinality(Granted(c, o) \ {p}) + 1
        BY <4>1, <4>2, <1>3, FS_AddElement
      <4>4. Sem(c, o) = s /\ One(c, o, b, op) = 1 BY <3>3, <1>1 DEF One
      <4>5. Len(wq'[Sem(c, o)]) = Len(wq[Sem(c, o)]) - 1 /\ value'[Sem(c, o)] = 0
        BY <4>4, <1>8, <2>1
      <4>6. Cardinality(Granted(c, o) \ {p}) \in Nat BY <1>3
      <4> QED BY <4>3, <4>4, <4>5, <4>6, <3>1, <3>2
    <3>4. CASE ~(c = b /\ o = op)
      <4>1. ~InCall(t, c, o) BY <3>4, <2>2, CallFacts, <2>1 DEF InCall, Inside
      <4>2. Granted(c, o)' = Granted(c, o) \ {p}
        BY <4>1, <1>6, <2>1, <2>4 DEF Granted, InCall
      <4>3. Sem(c, o) # s /\ One(c, o, b, op) = 0 BY <3>4, <1>1 DEF One
      <4>4. wq'[Sem(c, o)] = wq[Sem(c, o)] BY <4>3, <2>3, <1>1
      <4>5. wq'[Sem(c, o)] # <<>> => value'[Sem(c, o)] = 0 BY <4>4, <3>1, <1>1
      <4>6. Cardinality(Granted(c, o) \ {p}) \in Nat BY <1>3
      <4>7. Cardinality(Granted(c, o)') = Cardinality(Granted(c, o) \ {p}) BY <4>2
      <4> QED BY <4>3, <4>4, <4>5, <4>6, <4>7, <3>1, <3>2
    <3> QED BY <3>3, <3>4
  <2> QED BY <1>8, <2>1, <2>5, <2>6 DEF Conserved
<1>9. CASE /\ val[s] > 0 \/ wq[s] = <<>>
           /\ value' = [val EXCEPT ![s] = @ + 1]
           /\ UNCHANGED <<status, ready, wq>>
  <2>1. wq[s] = <<>> BY <1>9, <1>0
  <2>2. value' \in [Obj -> Nat] BY <1>9, <1>0
  <2>3. InPlace' BY <1>9 DEF InPlace, SchedTypeOK
  <2>4. CallsAgree'
    <3>1. \A u \in Task : status'[u] \in Awake /\ (call'[u] # NoCall => status'[u] # "FIRST_TIME")
      BY <1>4, <1>9 DEF CallsAgree, Awake
    <3>2. /\ \A u \in Task, c \in Box : Inside(u, c)' => c \in opened'[u]
          /\ \A u \in Task, c \in Box : c \in opened'[u] => used'[c]
      BY <1>5 DEF CallsAgree
    <3>3. ASSUME NEW c \in Box, NEW o \in Op, NEW u \in ToSet(wq'[Sem(c, o)])
          PROVE  InCall(u, c, o)'
      <4>1. u \in ToSet(wq[Sem(c, o)]) BY <3>3, <1>9
      <4>2. u \in Task /\ u # p BY <4>1, <1>1, <1>7, PlaceFacts
      <4> QED BY <4>1, <4>2, <1>6 DEF CallsAgree
    <3> QED BY <3>1, <3>2, <3>3 DEF CallsAgree
  <2>5. ASSUME NEW c \in Box, NEW o \in Op
        PROVE  /\ value'[Sem(c, o)] + Cardinality(Granted(c, o)')
                    = val[Sem(c, o)] + Cardinality(Granted(c, o) \ {p}) + One(c, o, b, op)
               /\ value'[Sem(c, o)] - Len(wq'[Sem(c, o)])
                    = val[Sem(c, o)] - Len(wq[Sem(c, o)]) + One(c, o, b, op)
               /\ wq'[Sem(c, o)] # <<>> => value'[Sem(c, o)] = 0
    <3>1. Granted(c, o)' = Granted(c, o) \ {p}
      BY <1>6, <1>9 DEF Granted, InCall
    <3>2. wq'[Sem(c, o)] = wq[Sem(c, o)] /\ Len(wq[Sem(c, o)]) \in Nat
      BY <1>1, <1>9, PlaceFacts, LenProperties
    <3>3. value'[Sem(c, o)] = val[Sem(c, o)] + One(c, o, b, op) /\ val[Sem(c, o)] \in Nat
      BY <1>0, <1>1, <1>9 DEF One
    <3>4. wq[Sem(c, o)] # <<>> => Sem(c, o) # s /\ val[Sem(c, o)] = 0 /\ One(c, o, b, op) = 0
      BY <2>1, <1>1 DEF One
    <3>5. One(c, o, b, op) \in {0, 1} BY DEF One
    <3>6. wq'[Sem(c, o)] # <<>> => value'[Sem(c, o)] = 0 BY <3>2, <3>3, <3>4
    <3>7. Cardinality(Granted(c, o) \ {p}) \in Nat BY <1>3
    <3>8. Cardinality(Granted(c, o)') = Cardinality(Granted(c, o) \ {p}) BY <3>1
    <3> QED BY <3>2, <3>3, <3>5, <3>6, <3>7, <3>8
  <2> QED BY <2>2, <2>3, <2>4, <2>5 DEF Conserved
<1> QED BY <1>2, <1>8, <1>9 DEF Up

(* A call that waits: nobody is let through, one more waits.               *)
LEMMA WaitFlow ==
  ASSUME InPlace, CallsAgree, NoneWaitsInVain, call \in [Task -> Calls],
         NEW p \in Task, cur = p, call[p] = NoCall,
         NEW b \in Box, b \in opened[p], NEW op \in Op, NEW x, DownWait(p, Sem(b, op)),
         call' = [call EXCEPT ![p] = [op |-> op, box |-> b, slot |-> x]],
         UNCHANGED <<type, used, opened>>
  PROVE  /\ InPlace' /\ CallsAgree' /\ value' = value /\ NoneWaitsInVain'
         /\ \A c \in Box, o \in Op :
              /\ Granted(c, o)' = Granted(c, o)
              /\ Len(wq'[Sem(c, o)]) = Len(wq[Sem(c, o)]) + One(c, o, b, op)
<1> DEFINE s == Sem(b, op)
           st == [status EXCEPT ![p] = "BLOCKED"]
<1>0. s \in Obj /\ s \in Queue BY BoxFacts
<1>1. \A c \in Box, o \in Op : /\ Sem(c, o) \in Obj /\ Sem(c, o) \in Queue
                               /\ Sem(c, o) = s <=> c = b /\ o = op
  <2>1. \A c \in Box, o \in Op : Sem(c, o) \in Obj /\ Sem(c, o) \in Queue BY BoxFacts
  <2>2. \A c \in Box, o \in Op : Sem(c, o) = s => c = b /\ o = op BY BoxFacts
  <2> QED BY <2>1, <2>2
<1>2. value[s] = 0 /\ Block(p, s) /\ value' = value BY DEF DownWait
<1>3. /\ InPlace' /\ OnlyWakes(st, status')
      /\ wq' = [wq EXCEPT ![s] = Append(@, p)]
      /\ ToSet(wq'[s]) = ToSet(wq[s]) \cup {p} /\ Len(wq'[s]) = Len(wq[s]) + 1
  <2> HIDE DEF s
  <2> QED BY <1>0, <1>2, BlockInPlace
<1>4. \A t \in Task : status'[t] = IF t = p THEN "BLOCKED" ELSE status[t]
  BY <1>3, PlaceFacts DEF OnlyWakes, CallsAgree, Awake
<1>5. \A t \in Task : call'[t] = IF t = p THEN [op |-> op, box |-> b, slot |-> x] ELSE call[t]
  OBVIOUS
<1>6. [op |-> op, box |-> b, slot |-> x] # NoCall BY DEF NoCall, Op
<1>7. \A t \in Task, c \in Box : Inside(t, c)' <=> (t = p /\ c = b) \/ Inside(t, c)
  BY <1>5, <1>6 DEF Inside
<1>8. \A t \in Task, c \in Box, o \in Op :
        InCall(t, c, o)' <=> (t = p /\ c = b /\ o = op) \/ InCall(t, c, o)
  BY <1>5, <1>6 DEF Inside, InCall
<1>9. \A q \in Queue : q # s => wq'[q] = wq[q] BY <1>3, PlaceFacts
<1> HIDE DEF s, st
<1>10. CallsAgree'
  <2>1. \A t \in Task : status'[t] \in Awake /\ (call'[t] # NoCall => status'[t] # "FIRST_TIME")
    BY <1>4, <1>5 DEF CallsAgree, Awake
  <2>2. /\ \A t \in Task, c \in Box : Inside(t, c)' => c \in opened'[t]
        /\ \A t \in Task, c \in Box : c \in opened'[t] => used'[c]
    BY <1>7 DEF CallsAgree
  <2>3. ASSUME NEW c \in Box, NEW o \in Op, NEW t \in ToSet(wq'[Sem(c, o)])
        PROVE  InCall(t, c, o)'
    <3>1. t \in Task BY <1>1, <1>3, SetOfSeq DEF InPlace, SchedTypeOK
    <3>2. CASE c = b /\ o = op
      BY <3>1, <3>2, <1>1, <1>3, <1>8, <2>3 DEF CallsAgree
    <3>3. CASE ~(c = b /\ o = op)
      BY <3>1, <3>3, <1>1, <1>8, <1>9, <2>3 DEF CallsAgree
    <3> QED BY <3>2, <3>3
  <2> QED BY <2>1, <2>2, <2>3 DEF CallsAgree
<1>11. ASSUME NEW c \in Box, NEW o \in Op
       PROVE  /\ Granted(c, o)' = Granted(c, o)
              /\ Len(wq'[Sem(c, o)]) = Len(wq[Sem(c, o)]) + One(c, o, b, op)
  <2>1. Granted(c, o)' = Granted(c, o)
    <3>1. ~InCall(p, c, o) BY DEF InCall, Inside
    <3> QED BY <3>1, <1>4, <1>8 DEF Granted, InCall
  <2>2. Len(wq[Sem(c, o)]) \in Nat BY <1>1, PlaceFacts, LenProperties
  <2>3. CASE c = b /\ o = op
    <3>1. Sem(c, o) = s /\ One(c, o, b, op) = 1 BY <2>3, <1>1 DEF One
    <3> QED BY <2>1, <3>1, <1>3
  <2>4. CASE ~(c = b /\ o = op)
    <3>1. Sem(c, o) # s /\ One(c, o, b, op) = 0 BY <2>4, <1>1 DEF One
    <3>2. wq'[Sem(c, o)] = wq[Sem(c, o)] BY <3>1, <1>1, <1>9
    <3> QED BY <2>1, <2>2, <3>1, <3>2
  <2> QED BY <2>3, <2>4
<1>12. NoneWaitsInVain' BY <1>0, <1>1, <1>2, <1>3, <1>9, BoxFacts DEF NoneWaitsInVain
<1> QED BY <1>2, <1>3, <1>10, <1>11, <1>12

(* Nobody enters or leaves a call; a task outside of all calls may be      *)
(* preempted, and get or give up boxes.                                    *)
LEMMA QuietFlow ==
  ASSUME CallsAgree,
         \A t \in Task : status'[t] = status[t] \/ (call[t] = NoCall /\ status'[t] = "READY"),
         \A t \in Task, c \in Box : Inside(t, c) => c \in opened'[t],
         \A t \in Task, c \in Box : c \in opened'[t] => used'[c],
         UNCHANGED <<wq, call>>
  PROVE  CallsAgree' /\ \A c \in Box, o \in Op : Granted(c, o)' = Granted(c, o)
<1>1. \A t \in Task : status'[t] \in Awake /\ (call'[t] # NoCall => status'[t] # "FIRST_TIME")
  BY DEF CallsAgree, Awake
<1>2. \A t \in Task, c \in Box : Inside(t, c)' <=> Inside(t, c) BY DEF Inside
<1>3. CallsAgree' BY <1>1, <1>2 DEF CallsAgree, InCall, Inside
<1>4. \A c \in Box, o \in Op : Granted(c, o)' = Granted(c, o) BY DEF Granted, Inside
<1> QED BY <1>3, <1>4

(* Nobody is in a call on a box that is not in use.                        *)
LEMMA UnusedBox ==
  ASSUME InPlace, CallsAgree, NEW b \in Box, ~used[b]
  PROVE  /\ \A t \in Task : ~Inside(t, b)
         /\ \A op \in Op : wq[Sem(b, op)] = <<>> /\ Granted(b, op) = {}
<1>1. \A t \in Task : ~Inside(t, b) BY DEF CallsAgree
<1>2. ASSUME NEW op \in Op PROVE wq[Sem(b, op)] = <<>>
  <2> SUFFICES ASSUME wq[Sem(b, op)] # <<>> PROVE FALSE OBVIOUS
  <2>1. wq[Sem(b, op)] \in Seq(Task) BY BoxFacts, PlaceFacts
  <2>2. PICK t \in Task : t \in ToSet(wq[Sem(b, op)]) BY <2>1, TailQueue
  <2>3. InCall(t, b, op) BY <2>2 DEF CallsAgree
  <2> QED BY <1>1, <2>3 DEF InCall
<1> QED BY <1>1, <1>2 DEF Granted

-----------------------------------------------------------------------------
(* The end of a call of p on box b, with values val: one of the places in  *)
(* the box is p's.                                                         *)
Ending(p, b, val) ==
  /\ val \in [Obj -> Nat] /\ used[b]
  /\ \A o \in Obj : wq[o] # <<>> => val[o] = 0
  /\ \A c \in Box \ {b}, o \in Op : /\ val[Sem(c, o)] = value[Sem(c, o)]
                                    /\ Granted(c, o) \ {p} = Granted(c, o)
  /\ val[Full(b)] + val[Empty(b)] + Cardinality(Granted(b, "send") \ {p})
       + Cardinality(Granted(b, "recv") \ {p}) = MaxLength - 1

(* A call that did not wait has taken its place from a semaphore.          *)
LEMMA EndingNow ==
  ASSUME Held, NEW p \in Task, call[p] = NoCall, NEW b \in Box, b \in opened[p],
         NEW op \in Op, value[Sem(b, op)] > 0
  PROVE  Ending(p, b, [value EXCEPT ![Sem(b, op)] = @ - 1])
<1> DEFINE s == Sem(b, op)
           val == [value EXCEPT ![s] = @ - 1]
<1>1. \A c \in Box, o \in Op : Sem(c, o) \in Obj /\ (Sem(c, o) = s => c = b /\ o = op)
  BY BoxFacts
<1>2. /\ value \in [Obj -> 0 .. MaxLength] /\ s \in Obj /\ value[s] > 0
      /\ MaxLength \in Nat
  BY BoxFacts DEF Held, TypeOK
<1>3. val \in [Obj -> Nat] /\ \A o \in Obj : val[o] = IF o = s THEN value[o] - 1 ELSE value[o]
  BY <1>2
<1>4. \A o \in Obj : wq[o] # <<>> => val[o] = 0
  BY <1>2, <1>3 DEF Held, NoneWaitsInVain
<1>5. \A c \in Box, o \in Op : Granted(c, o) \ {p} = Granted(c, o)
  BY DEF Granted, Inside
<1> HIDE DEF val, s
<1>6. val[Full(b)] + val[Empty(b)] = value[Full(b)] + value[Empty(b)] - 1
  <2>1. Full(b) = Sem(b, "recv") /\ Empty(b) = Sem(b, "send") /\ Full(b) # Empty(b)
    BY DEF Full, Empty, Sem
  <2>2. s = Full(b) \/ s = Empty(b) BY <2>1 DEF s, Op
  <2>3. Full(b) \in Obj /\ Empty(b) \in Obj BY BoxFacts
  <2> QED BY <1>2, <1>3, <2>1, <2>2, <2>3
<1>7. used[b] /\ Room(b) = MaxLength BY DEF Held, CallsAgree, RoomOK
<1>8. /\ Cardinality(Granted(b, "send")) \in Nat /\ Cardinality(Granted(b, "recv")) \in Nat
      /\ value[Full(b)] \in Nat /\ value[Empty(b)] \in Nat
  <2>1. Full(b) \in Obj /\ Empty(b) \in Obj BY BoxFacts
  <2> QED BY <1>2, <2>1, GrantedFinite
<1>9. val[Full(b)] + val[Empty(b)] + Cardinality(Granted(b, "send"))
        + Cardinality(Granted(b, "recv")) = MaxLength - 1
  BY <1>2, <1>6, <1>7, <1>8 DEF Room
<1>10. \A c \in Box \ {b}, o \in Op : val[Sem(c, o)] = value[Sem(c, o)]
  BY <1>1, <1>3
<1>11. Granted(b, "send") \ {p} = Granted(b, "send") /\ Granted(b, "recv") \ {p} = Granted(b, "recv")
  BY <1>5 DEF Op
<1>12. Ending(p, b, val) BY <1>3, <1>4, <1>5, <1>7, <1>9, <1>10, <1>11 DEF Ending
<1> QED BY <1>12 DEF val, s

(* A call that waited has been let through.                                *)
LEMMA EndingResumed ==
  ASSUME Held, NEW p \in Task, cur = p, call[p] # NoCall
  PROVE  call[p].box \in Box /\ call[p].op \in Op /\ Ending(p, call[p].box, value)
<1> DEFINE b == call[p].box
           op == call[p].op
<1>1. b \in Box /\ op \in Op /\ InCall(p, b, op) BY CallFacts DEF Held, TypeOK
<1>2. status[p] = "READY"
  BY PlaceOutside DEF Held, CallsAgree, Awake, Runnable
<1>3. used[b] /\ Room(b) = MaxLength BY <1>1 DEF Held, CallsAgree, RoomOK, InCall
<1>4. \A c \in Box, o \in Op : p \in Granted(c, o) <=> c = b /\ o = op
  BY <1>1, <1>2 DEF Granted, InCall, Inside
<1>5. value \in [Obj -> 0 .. MaxLength] /\ value \in [Obj -> Nat] /\ MaxLength \in Nat
  BY BoxFacts DEF Held, TypeOK
<1> HIDE DEF b, op
<1>6. \A o \in Op : /\ Cardinality(Granted(b, o)) \in Nat
                    /\ Cardinality(Granted(b, o) \ {p})
                         = IF o = op THEN Cardinality(Granted(b, o)) - 1 ELSE Cardinality(Granted(b, o))
  BY <1>1, <1>4, GrantedFinite, FS_RemoveElement
<1>7. Cardinality(Granted(b, "send") \ {p}) + Cardinality(Granted(b, "recv") \ {p})
        = Cardinality(Granted(b, "send")) + Cardinality(Granted(b, "recv")) - 1
  BY <1>1, <1>6 DEF Op
<1>8. /\ Cardinality(Granted(b, "send") \ {p}) \in Int /\ Cardinality(Granted(b, "recv") \ {p}) \in Int
      /\ Cardinality(Granted(b, "send")) \in Nat /\ Cardinality(Granted(b, "recv")) \in Nat
  BY <1>6 DEF Op
<1>9. value[Full(b)] \in Nat /\ value[Empty(b)] \in Nat BY <1>1, <1>5, BoxFacts
<1>10. value[Full(b)] + value[Empty(b)] + Cardinality(Granted(b, "send") \ {p})
         + Cardinality(Granted(b, "recv") \ {p}) = MaxLength - 1
  BY <1>3, <1>5, <1>7, <1>8, <1>9 DEF Room
<1>11. \A c \in Box \ {b}, o \in Op : Granted(c, o) \ {p} = Granted(c, o) BY <1>4
<1>12. Ending(p, b, value) BY <1>3, <1>5, <1>10, <1>11 DEF Ending, Held, NoneWaitsInVain
<1> QED BY <1>1, <1>12 DEF b, op

LEMMA SlotBound ==
  ASSUME NEW w \in Seq(Task), IsInjective(w), NEW v \in 0 .. MaxLength
  PROVE  v - Len(w) \in Slot
<1>1. Len(w) \in Nat /\ Len(w) <= Cardinality(Task) /\ Cardinality(Task) \in Nat /\ MaxLength \in Nat
  BY BoxFacts, QueueBound
<1> QED BY <1>1 DEF Slot

(* What is free to receive, less who waits, after an up for the calls op.  *)
FullMoved(val, b, op) ==
  \A c \in Box : value'[Full(c)] - Len(wq'[Full(c)])
                    = val[Full(c)] - Len(wq[Full(c)]) + One(c, "recv", b, op)

LEMMA EndFlow ==
  ASSUME Held, NEW p \in Task, cur = p, NEW b \in Box, NEW op \in Op, NEW val,
         Ending(p, b, val), Up(val, Sem(b, op)),
         call' = [call EXCEPT ![p] = NoCall],
         UNCHANGED <<type, left, waitIn, sleepq, cur, mode, used, opened>>
  PROVE  /\ InPlace' /\ CallsAgree' /\ RoomOK' /\ NoneWaitsInVain'
         /\ value' \in [Obj -> 0 .. MaxLength] /\ call' \in [Task -> Calls]
         /\ FullMoved(val, b, op)
<1>1. call \in [Task -> Calls] /\ value \in [Obj -> 0 .. MaxLength] BY DEF Held, TypeOK
<1>2. InPlace' /\ CallsAgree' /\ value' \in [Obj -> Nat] /\ Conserved(val, p, b, op)
  BY <1>1, UpFlow DEF Held, Ending
<1>3. NoneWaitsInVain'
  <2> SUFFICES ASSUME NEW o \in Obj PROVE wq'[o] # <<>> => value'[o] = 0
    BY DEF NoneWaitsInVain
  <2>1. PICK c \in Box, k \in Op : o = Sem(c, k) BY BoxFacts
  <2> QED BY <1>2, <2>1 DEF Conserved
<1>4. ASSUME NEW c \in Box, used[c] PROVE Room(c)' = MaxLength
  <2>1. /\ value'[Full(c)] + Cardinality(Granted(c, "recv")')
             = val[Full(c)] + Cardinality(Granted(c, "recv") \ {p}) + One(c, "recv", b, op)
        /\ value'[Empty(c)] + Cardinality(Granted(c, "send")')
             = val[Empty(c)] + Cardinality(Granted(c, "send") \ {p}) + One(c, "send", b, op)
    <3>1. Full(c) = Sem(c, "recv") /\ Empty(c) = Sem(c, "send") /\ "send" \in Op /\ "recv" \in Op
      BY BoxFacts DEF Op
    <3> QED BY <1>2, <3>1 DEF Conserved
  <2>2. One(c, "recv", b, op) + One(c, "send", b, op) = (IF c = b THEN 1 ELSE 0)
    BY DEF One, Op
  <2>3. One(c, "recv", b, op) \in {0, 1} /\ One(c, "send", b, op) \in {0, 1} BY DEF One
  <2>4. \A o \in Op : Cardinality(Granted(c, o) \ {p}) \in Nat
    BY GrantedFinite, FS_RemoveElement, FS_CardinalityType
  <2>5. \A o \in Op : Cardinality(Granted(c, o)') \in Nat
    <3>1. \A o \in Op : Granted(c, o)' \in SUBSET Task BY DEF Granted
    <3> QED BY <3>1, BoxFacts, FS_Subset, FS_CardinalityType
  <2>6. /\ value'[Full(c)] \in Nat /\ value'[Empty(c)] \in Nat
        /\ val[Full(c)] \in Nat /\ val[Empty(c)] \in Nat /\ MaxLength \in Nat
    BY <1>2, BoxFacts DEF Ending
  <2>7. val[Full(c)] + val[Empty(c)] + Cardinality(Granted(c, "send") \ {p})
          + Cardinality(Granted(c, "recv") \ {p}) = MaxLength - (IF c = b THEN 1 ELSE 0)
    <3>1. CASE c = b BY <3>1 DEF Ending
    <3>2. CASE c # b
      <4>1. /\ val[Full(c)] = value[Full(c)] /\ val[Empty(c)] = value[Empty(c)]
            /\ Granted(c, "send") \ {p} = Granted(c, "send")
            /\ Granted(c, "recv") \ {p} = Granted(c, "recv")
        BY <3>2, BoxFacts DEF Ending, Op
      <4>2. Room(c) = MaxLength BY <1>4 DEF Held, RoomOK
      <4> QED BY <3>2, <4>1, <4>2, <2>6 DEF Room
    <3> QED BY <3>1, <3>2
  <2>8. \A o \in {"send", "recv"} : /\ Cardinality(Granted(c, o) \ {p}) \in Nat
                                    /\ Cardinality(Granted(c, o)') \in Nat
    BY <2>4, <2>5 DEF Op
  <2>9. value'[Full(c)] + value'[Empty(c)] + Cardinality(Granted(c, "send")')
          + Cardinality(Granted(c, "recv")') = MaxLength
    <3>1. /\ Cardinality(Granted(c, "send") \ {p}) \in Nat /\ Cardinality(Granted(c, "send")') \in Nat
          /\ Cardinality(Granted(c, "recv") \ {p}) \in Nat /\ Cardinality(Granted(c, "recv")') \in Nat
      BY <2>8
    <3>2. CASE c = b BY <3>1, <3>2, <2>1, <2>2, <2>3, <2>6, <2>7
    <3>3. CASE c # b BY <3>1, <3>3, <2>1, <2>2, <2>3, <2>6, <2>7
    <3> QED BY <3>2, <3>3
  <2> QED BY <2>9 DEF Room
<1>5. RoomOK' BY <1>4 DEF RoomOK
<1>6. ASSUME NEW c \in Box
      PROVE  value'[Full(c)] - Len(wq'[Full(c)])
               = val[Full(c)] - Len(wq[Full(c)]) + One(c, "recv", b, op)
  <2>1. Full(c) = Sem(c, "recv") /\ "recv" \in Op BY BoxFacts DEF Op
  <2> QED BY <1>2, <2>1 DEF Conserved
<1>7. \A o \in Obj : value'[o] <= MaxLength
  <2> SUFFICES ASSUME NEW k \in Obj PROVE value'[k] <= MaxLength OBVIOUS
  <2>0. PICK c \in Box, o \in Op : k = Sem(c, o) BY BoxFacts
  <2>1. CASE used[c]
    <3>1. Room(c)' = MaxLength BY <1>4, <2>1
    <3>2. \A i \in {"send", "recv"} : Cardinality(Granted(c, i)') \in Nat
      <4>1. \A i : Granted(c, i)' \in SUBSET Task BY DEF Granted
      <4> QED BY <4>1, BoxFacts, FS_Subset, FS_CardinalityType
    <3>3. value'[Full(c)] \in Nat /\ value'[Empty(c)] \in Nat /\ MaxLength \in Nat
      BY <1>2, BoxFacts
    <3>4. value'[Full(c)] <= MaxLength /\ value'[Empty(c)] <= MaxLength
      BY <3>1, <3>2, <3>3 DEF Room
    <3> QED BY <2>0, <3>4 DEF Sem, Op
  <2>2. CASE ~used[c]
    <3>0. c # b /\ Sem(c, o) \in Obj BY <2>0, <2>2 DEF Ending
    <3>1. c # b /\ Sem(c, o) \in Obj /\ Sem(c, o) # Sem(b, op) BY <3>0, BoxFacts
    <3>2. value'[Sem(c, o)] = val[Sem(c, o)] BY <3>1 DEF Up, Ending
    <3>3. val[Sem(c, o)] = value[Sem(c, o)] BY <3>1 DEF Ending
    <3> QED BY <2>0, <3>1, <3>2, <3>3, <1>1, BoxFacts
  <2> QED BY <2>1, <2>2
<1>8. value' \in [Obj -> 0 .. MaxLength] BY <1>2, <1>7, BoxFacts
<1>9. call' \in [Task -> Calls] BY <1>1 DEF Calls
<1> QED BY <1>2, <1>3, <1>5, <1>6, <1>8, <1>9 DEF FullMoved

-----------------------------------------------------------------------------
(* What the type invariant says of the boxes and the calls.                *)
BoxesTyped ==
  /\ used   \in [Box -> BOOLEAN]
  /\ name   \in [Box -> [text : Name \cup {Mixed, NULL}, len : Nat]]
  /\ buf    \in [Box -> [Slot -> Task \cup {NULL}]]
  /\ opened \in [Task -> SUBSET Box]
  /\ wanted \in [Box -> Name \cup {NULL}]
  /\ unread \in [Box -> [Task -> Nat]]
  /\ wrong  \in [Box -> BOOLEAN]
  /\ overlap \in [Box -> BOOLEAN]
  /\ wild   \in BOOLEAN

LEMMA HeldFacts ==
  ASSUME Held
  PROVE  /\ BoxesTyped /\ num \in [Box -> Slot] /\ value \in [Obj -> 0 .. MaxLength]
         /\ call \in [Task -> Calls] /\ MaxLength \in Nat
         /\ \A b \in Box : Full(b) \in Obj /\ Full(b) \in Queue
BY BoxFacts DEF Held, TypeOK, BoxesTyped

(* The typing of message_num comes from the balance.                       *)
LEMMA Assemble ==
  ASSUME BoxesTyped', InPlace', CallsAgree', RoomOK', NoneWaitsInVain',
         value' \in [Obj -> 0 .. MaxLength], call' \in [Task -> Calls],
         num' = [b \in Box |-> num'[b]],
         \A b \in Box : num'[b] = value'[Full(b)] - Len(wq'[Full(b)])
  PROVE  Held'
<1>1. \A b \in Box : Full(b) \in Obj /\ Full(b) \in Queue BY BoxFacts
<1>2. ASSUME NEW b \in Box PROVE num'[b] \in Slot
  <2>1. wq'[Full(b)] \in Seq(Task) /\ IsInjective(wq'[Full(b)])
    BY <1>1 DEF InPlace, SchedTypeOK, WaitsAgree
  <2> QED BY <1>1, <2>1, SlotBound
<1>3. num' \in [Box -> Slot] BY <1>2
<1>4. Balanced' BY DEF Balanced
<1>5. TypeOK' BY <1>3 DEF TypeOK, BoxesTyped, InPlace
<1> QED BY <1>4, <1>5 DEF Held

LEMMA Delivered ==
  ASSUME Held, ~wild, NEW p \in Task, cur = p, NEW b \in Box, NEW slot \in Slot, NEW val,
         Ending(p, b, val), val[Full(b)] = value[Full(b)], Deliver(p, b, slot, val),
         call' = [call EXCEPT ![p] = NoCall],
         UNCHANGED <<type, left, waitIn, sleepq, cur, mode, used, name, opened, wanted, wrong, overlap>>
  PROVE  Held'
<1>1. Up(val, Sem(b, "recv")) /\ "recv" \in Op BY DEF Deliver, Sem, Full, Op
<1>2. /\ InPlace' /\ CallsAgree' /\ RoomOK' /\ NoneWaitsInVain'
      /\ value' \in [Obj -> 0 .. MaxLength] /\ call' \in [Task -> Calls]
      /\ \A c \in Box : value'[Full(c)] - Len(wq'[Full(c)])
                          = val[Full(c)] - Len(wq[Full(c)]) + One(c, "recv", b, "recv")
  <2>1. UNCHANGED <<type, left, waitIn, sleepq, cur, mode, used, opened>> OBVIOUS
  <2>2. /\ InPlace' /\ CallsAgree' /\ RoomOK' /\ NoneWaitsInVain'
        /\ value' \in [Obj -> 0 .. MaxLength] /\ call' \in [Task -> Calls]
        /\ FullMoved(val, b, "recv")
    BY <1>1, <2>1, EndFlow
  <2> QED BY <2>2 DEF FullMoved
<1>3. unread' \in [Box -> [Task -> Nat]]
  <2>1. [unread EXCEPT ![b][p] = @ + 1] \in [Box -> [Task -> Nat]]
    BY HeldFacts DEF BoxesTyped
  <2> QED BY <2>1, HeldFacts DEF BoxesTyped, Deliver
<1>4. CASE /\ buf' = [buf EXCEPT ![b][slot] = p]
           /\ num' = [num EXCEPT ![b] = @ + 1]
           /\ UNCHANGED wild
  <2>1. buf' \in [Box -> [Slot -> Task \cup {NULL}]] BY <1>4, HeldFacts DEF BoxesTyped
  <2>2. BoxesTyped' BY <1>3, <1>4, <2>1, HeldFacts DEF BoxesTyped
  <2>3. ASSUME NEW c \in Box PROVE num'[c] = value'[Full(c)] - Len(wq'[Full(c)])
    <3>1. num[c] = val[Full(c)] - Len(wq[Full(c)])
      <4>1. val[Full(c)] = value[Full(c)]
        <5>1. CASE c = b BY <5>1
        <5>2. CASE c # b BY <5>2, BoxFacts DEF Ending, Op
        <5> QED BY <5>1, <5>2
      <4> QED BY <4>1 DEF Held, Balanced
    <3>2. num'[c] = num[c] + One(c, "recv", b, "recv") /\ num[c] \in Int
      BY <1>4, HeldFacts DEF One, Slot
    <3> QED BY <1>2, <3>1, <3>2
  <2>4. num' = [c \in Box |-> num'[c]] BY <1>4, HeldFacts
  <2> QED BY <1>2, <2>2, <2>3, <2>4, Assemble
<1>5. CASE wild' = TRUE /\ UNCHANGED <<buf, num>>
  BY <1>2, <1>3, <1>5, HeldFacts DEF Held, TypeOK, BoxesTyped, InPlace, Balanced
<1> QED BY <1>4, <1>5 DEF Deliver

LEMMA Collected ==
  ASSUME Held, ~wild, NEW p \in Task, cur = p, NEW b \in Box, NEW slot \in Slot, NEW val,
         Ending(p, b, val), Collect(b, slot, val), call' = [call EXCEPT ![p] = NoCall],
         num' \in [Box -> Int], \A c \in Box : num'[c] = val[Full(c)] - Len(wq[Full(c)]),
         UNCHANGED <<type, left, waitIn, sleepq, cur, mode, used, name, buf, wild, opened, wanted, overlap>>
  PROVE  Held'
<1>1. Up(val, Sem(b, "send")) /\ "send" \in Op BY DEF Collect, Sem, Empty, Op
<1>2. /\ InPlace' /\ CallsAgree' /\ RoomOK' /\ NoneWaitsInVain'
      /\ value' \in [Obj -> 0 .. MaxLength] /\ call' \in [Task -> Calls]
      /\ \A c \in Box : value'[Full(c)] - Len(wq'[Full(c)])
                          = val[Full(c)] - Len(wq[Full(c)]) + One(c, "recv", b, "send")
  <2>1. UNCHANGED <<type, left, waitIn, sleepq, cur, mode, used, opened>> OBVIOUS
  <2>2. /\ InPlace' /\ CallsAgree' /\ RoomOK' /\ NoneWaitsInVain'
        /\ value' \in [Obj -> 0 .. MaxLength] /\ call' \in [Task -> Calls]
        /\ FullMoved(val, b, "send")
    BY <1>1, <2>1, EndFlow
  <2> QED BY <2>2 DEF FullMoved
<1>3. \A c \in Box : num'[c] = value'[Full(c)] - Len(wq'[Full(c)])
  BY <1>2 DEF One
<1>4. BoxesTyped'
  <2> DEFINE m == buf[b][slot]
  <2>1. m \in Task \cup {NULL} BY HeldFacts DEF BoxesTyped
  <2>2. NoMessages \in [Task -> Nat] BY DEF NoMessages
  <2>3. CASE /\ Fresh(b, m)
             /\ unread' = [unread EXCEPT ![b][m] = @ - 1]
             /\ UNCHANGED wrong
    <3>1. m \in Task /\ unread[b][m] > 0 BY <2>1, <2>3 DEF Fresh
    <3>2. unread' \in [Box -> [Task -> Nat]] BY <2>3, <3>1, HeldFacts DEF BoxesTyped
    <3> QED BY <2>3, <3>2, HeldFacts DEF BoxesTyped
  <2>4. CASE /\ unread' = [unread EXCEPT ![b] = NoMessages]
             /\ wrong' = [wrong EXCEPT ![b] = TRUE]
    BY <2>2, <2>4, HeldFacts DEF BoxesTyped
  <2> QED BY <2>3, <2>4 DEF Collect
<1>5. num' = [c \in Box |-> num'[c]] OBVIOUS
<1> QED BY <1>2, <1>3, <1>4, <1>5, Assemble

LEMMA SendHeld ==
  ASSUME Held, NEW p \in Task, NEW b \in Box, SendNow(p, b) \/ SendWait(p, b)
  PROVE  Held'
<1>1. /\ ~wild /\ cur = p /\ call[p] = NoCall /\ b \in opened[p]
      /\ Empty(b) = Sem(b, "send") /\ "send" \in Op /\ Empty(b) \in Obj /\ Full(b) \in Obj
      /\ Empty(b) # Full(b) /\ num[b] \in Slot
  BY BoxFacts, HeldFacts DEF SendNow, SendWait, MaySend, User, Running, Op, Empty, Full
<1>2. CASE SendNow(p, b)
  <2> DEFINE val == [value EXCEPT ![Sem(b, "send")] = @ - 1]
  <2>1. value[Sem(b, "send")] > 0 /\ Deliver(p, b, num[b], val)
    BY <1>1, <1>2 DEF SendNow, Empty
  <2>2. Ending(p, b, val) BY <1>1, <2>1, EndingNow
  <2>3. val[Full(b)] = value[Full(b)] BY <1>1, HeldFacts
  <2>4. call' = [call EXCEPT ![p] = NoCall] BY <1>1, <1>2, HeldFacts DEF SendNow
  <2> HIDE DEF val
  <2> QED BY <1>1, <1>2, <2>1, <2>2, <2>3, <2>4, Delivered DEF SendNow
<1>3. CASE SendWait(p, b)
  <2>1. DownWait(p, Sem(b, "send")) BY <1>1, <1>3 DEF SendWait, Empty
  <2>2. /\ call' = [call EXCEPT ![p] = [op |-> "send", box |-> b, slot |-> num[b]]]
        /\ UNCHANGED <<type, used, opened>>
    BY <1>3 DEF SendWait, boxVars
  <2>3. /\ InPlace' /\ CallsAgree' /\ value' = value /\ NoneWaitsInVain'
        /\ \A c \in Box, o \in Op :
             /\ Granted(c, o)' = Granted(c, o)
             /\ Len(wq'[Sem(c, o)]) = Len(wq[Sem(c, o)]) + One(c, o, b, "send")
    BY <1>1, <2>1, <2>2, HeldFacts, WaitFlow DEF Held
  <2>4. RoomOK'
    BY <2>2, <2>3 DEF Held, RoomOK, Room, Op
  <2>5. \A c \in Box : Len(wq'[Full(c)]) = Len(wq[Full(c)])
    <3>1. \A c \in Box : Full(c) = Sem(c, "recv") /\ "recv" \in Op /\ One(c, "recv", b, "send") = 0
      BY BoxFacts DEF Op, One
    <3>2. \A c \in Box : Len(wq[Full(c)]) \in Nat BY HeldFacts, PlaceFacts, LenProperties DEF Held
    <3> QED BY <2>3, <3>1, <3>2
  <2>6. UNCHANGED <<num, name, buf, wild, used, opened, wanted, unread, wrong>>
    BY <1>3 DEF SendWait, boxVars
  <2>7. overlap' \in [Box -> BOOLEAN] BY <1>3, HeldFacts DEF SendWait, BoxesTyped
  <2>8. BoxesTyped' BY <2>6, <2>7, HeldFacts DEF BoxesTyped
  <2>9. call' \in [Task -> Calls] BY <1>1, <2>2, HeldFacts DEF Calls
  <2>10. \A c \in Box : num'[c] = value'[Full(c)] - Len(wq'[Full(c)])
    BY <1>1, <2>3, <2>5, <2>6 DEF Held, Balanced
  <2>11. num' = [c \in Box |-> num'[c]] BY <2>6, HeldFacts
  <2> QED BY <2>3, <2>4, <2>8, <2>9, <2>10, <2>11, HeldFacts, Assemble
<1> QED BY <1>2, <1>3

LEMMA RecvHeld ==
  ASSUME Held, NEW p \in Task, NEW b \in Box, RecvNow(p, b) \/ RecvWait(p, b)
  PROVE  Held'
<1>1. /\ ~wild /\ cur = p /\ call[p] = NoCall /\ b \in opened[p]
      /\ Full(b) = Sem(b, "recv") /\ "recv" \in Op /\ Full(b) \in Obj
      /\ num' = [num EXCEPT ![b] = @ - 1] /\ Balanced
  BY BoxFacts, HeldFacts DEF RecvNow, RecvWait, MayRecv, User, Running, Op, Held
<1>2. \A c \in Box : Len(wq[Full(c)]) \in Nat /\ value[Full(c)] \in Nat /\ num[c] \in Int
  BY HeldFacts, PlaceFacts, LenProperties DEF Held, Slot
<1>3. num' \in [Box -> Int] BY <1>1, HeldFacts DEF Slot
<1>4. \A c \in Box : num[c] = value[Full(c)] - Len(wq[Full(c)]) BY <1>1 DEF Balanced
<1>5. num[b] - 1 \in Slot
  <2>1. /\ wq[Full(b)] \in Seq(Task) /\ IsInjective(wq[Full(b)]) /\ num[b] \in Slot
        /\ Cardinality(Task) \in Nat /\ MaxLength \in Nat
    BY HeldFacts, BoxFacts, PlaceFacts DEF Held
  <2>2. CASE value[Full(b)] > 0
    <3>1. Len(wq[Full(b)]) <= Cardinality(Task) BY <2>1, BoxFacts, QueueBound
    <3> QED BY <1>2, <1>4, <2>1, <2>2, <3>1 DEF Slot
  <2>3. CASE value[Full(b)] = 0
    <3>1. RecvWait(p, b) BY <2>3 DEF RecvNow, Full
    <3>2. Block(p, Full(b)) BY <3>1 DEF RecvWait, DownWait, Full
    <3>3. p \notin ToSet(wq[Full(b)]) BY <1>1, HeldFacts, PlaceOutside DEF Held
    <3>4. IsInjective(Append(wq[Full(b)], p)) /\ Append(wq[Full(b)], p) \in Seq(Task)
      BY <2>1, <3>3, AppendQueue
    <3>5. Len(Append(wq[Full(b)], p)) = Len(wq[Full(b)]) + 1 BY <2>1, AppendProperties
    <3>6. Len(Append(wq[Full(b)], p)) <= Cardinality(Task)
      <4>1. IsFiniteSet(Task) BY BoxFacts
      <4> QED BY <3>4, <4>1, QueueBound
    <3>7. Len(wq[Full(b)]) + 1 <= Cardinality(Task) BY <3>5, <3>6
    <3> QED BY <1>2, <1>4, <2>1, <2>3, <3>7 DEF Slot
  <2> QED BY <1>2, <2>2, <2>3
<1>6. CASE RecvNow(p, b)
  <2> DEFINE val == [value EXCEPT ![Sem(b, "recv")] = @ - 1]
  <2>1. value[Sem(b, "recv")] > 0 /\ Collect(b, num[b] - 1, val)
    BY <1>1, <1>6 DEF RecvNow, Full
  <2>2. Ending(p, b, val) BY <1>1, <2>1, EndingNow
  <2>3. \A c \in Box : num'[c] = val[Full(c)] - Len(wq[Full(c)])
    <3>1. \A c \in Box : Full(c) \in Obj /\ (c # b => Full(c) # Full(b)) BY BoxFacts DEF Full
    <3>2. \A c \in Box : val[Full(c)] = IF c = b THEN value[Full(c)] - 1 ELSE value[Full(c)]
      BY <1>1, <3>1, HeldFacts
    <3>3. \A c \in Box : num'[c] = IF c = b THEN num[c] - 1 ELSE num[c] BY <1>1, HeldFacts
    <3> HIDE DEF val
    <3> QED BY <1>2, <1>4, <3>2, <3>3
  <2>4. call' = [call EXCEPT ![p] = NoCall] BY <1>1, <1>6, HeldFacts DEF RecvNow
  <2> HIDE DEF val
  <2> QED BY <1>1, <1>3, <1>5, <1>6, <2>1, <2>2, <2>3, <2>4, Collected DEF RecvNow
<1>7. CASE RecvWait(p, b)
  <2>1. DownWait(p, Sem(b, "recv")) BY <1>1, <1>7 DEF RecvWait, Full
  <2>2. /\ call' = [call EXCEPT ![p] = [op |-> "recv", box |-> b, slot |-> num[b] - 1]]
        /\ UNCHANGED <<type, used, opened>>
    BY <1>7 DEF RecvWait
  <2>3. /\ InPlace' /\ CallsAgree' /\ value' = value /\ NoneWaitsInVain'
        /\ \A c \in Box, o \in Op :
             /\ Granted(c, o)' = Granted(c, o)
             /\ Len(wq'[Sem(c, o)]) = Len(wq[Sem(c, o)]) + One(c, o, b, "recv")
    BY <1>1, <2>1, <2>2, HeldFacts, WaitFlow DEF Held
  <2>4. RoomOK'
    BY <2>2, <2>3 DEF Held, RoomOK, Room, Op
  <2>5. \A c \in Box : num'[c] = value'[Full(c)] - Len(wq'[Full(c)])
    <3>1. \A c \in Box : Full(c) = Sem(c, "recv") /\ One(c, "recv", b, "recv") = IF c = b THEN 1 ELSE 0
      BY BoxFacts DEF One
    <3>2. \A c \in Box : num'[c] = IF c = b THEN num[c] - 1 ELSE num[c] BY <1>1, HeldFacts
    <3>3. \A c \in Box : Len(wq'[Full(c)]) = Len(wq[Full(c)]) + (IF c = b THEN 1 ELSE 0)
      BY <1>1, <2>3, <3>1
    <3> SUFFICES ASSUME NEW c \in Box
                 PROVE  num'[c] = value'[Full(c)] - Len(wq'[Full(c)])
      OBVIOUS
    <3>4. /\ Len(wq[Full(c)]) \in Nat /\ value[Full(c)] \in Nat /\ num[c] \in Int
          /\ num[c] = value[Full(c)] - Len(wq[Full(c)]) /\ value'[Full(c)] = value[Full(c)]
      BY <1>2, <1>4, <2>3
    <3>5. CASE c = b
      <4>1. num'[c] = num[c] - 1 /\ Len(wq'[Full(c)]) = Len(wq[Full(c)]) + 1
        BY <3>2, <3>3, <3>5
      <4> QED BY <3>4, <4>1
    <3>6. CASE c # b
      <4>1. num'[c] = num[c] /\ Len(wq'[Full(c)]) = Len(wq[Full(c)]) + 0
        BY <3>2, <3>3, <3>6
      <4> QED BY <3>4, <4>1
    <3> QED BY <3>5, <3>6
  <2>6. UNCHANGED <<name, buf, wild, used, opened, wanted, unread, wrong>>
    BY <1>7 DEF RecvWait
  <2>7. overlap' \in [Box -> BOOLEAN]
    <3>1. (overlap[b] \/ \E t \in Task : Inside(t, b)) \in BOOLEAN BY HeldFacts DEF BoxesTyped
    <3> QED BY <1>7, <3>1, HeldFacts DEF RecvWait, BoxesTyped
  <2>8. BoxesTyped' BY <2>6, <2>7, HeldFacts DEF BoxesTyped
  <2>9. call' \in [Task -> Calls] BY <1>5, <2>2, HeldFacts DEF Calls
  <2>10. num' = [c \in Box |-> num'[c]] BY <1>3
  <2> QED BY <2>3, <2>4, <2>5, <2>8, <2>9, <2>10, HeldFacts, Assemble
<1> QED BY <1>6, <1>7

LEMMA ResumeHeld ==
  ASSUME Held, NEW p \in Task, SendResume(p) \/ RecvResume(p)
  PROVE  Held'
<1> DEFINE b == call[p].box
           slot == call[p].slot
<1>1. /\ ~wild /\ cur = p /\ call[p].op \in Op
  BY DEF SendResume, RecvResume, Running, Op
<1>2. call[p] # NoCall /\ b \in Box /\ slot \in Slot /\ call' = [call EXCEPT ![p] = NoCall]
  BY <1>1, HeldFacts, CallFacts DEF SendResume, RecvResume
<1>3. Ending(p, b, value) BY <1>1, <1>2, EndingResumed
<1>4. CASE SendResume(p)
  <2>1. Deliver(p, b, slot, value) BY <1>4 DEF SendResume
  <2> HIDE DEF b, slot
  <2> QED BY <1>1, <1>2, <1>3, <1>4, <2>1, Delivered DEF SendResume
<1>5. CASE RecvResume(p)
  <2>1. Collect(b, slot, value) BY <1>5 DEF RecvResume
  <2>2. num' \in [Box -> Int] BY <1>5, HeldFacts DEF RecvResume, Slot
  <2>3. \A c \in Box : num'[c] = value[Full(c)] - Len(wq[Full(c)])
    BY <1>1, <1>5 DEF RecvResume, Held, Balanced
  <2> HIDE DEF b, slot
  <2> QED BY <1>1, <1>2, <1>3, <1>5, <2>1, <2>2, <2>3, Collected DEF RecvResume
<1> QED BY <1>4, <1>5

(* A step that leaves the semaphores, the boxes and the calls alone.       *)
LEMMA QuietHeld ==
  ASSUME Held, InPlace',
         \A t \in Task : status'[t] = status[t] \/ (call[t] = NoCall /\ status'[t] = "READY"),
         UNCHANGED <<wq, boxVars, call, seen>>
  PROVE  Held'
<1>1. UNCHANGED <<wq, used, name, num, buf, value, wild, call, opened, wanted, unread, wrong, overlap>>
  BY DEF boxVars, seen
<1>2. CallsAgree' /\ \A c \in Box, o \in Op : Granted(c, o)' = Granted(c, o)
  <2>1. CallsAgree BY DEF Held
  <2> QED BY <1>1, <2>1, QuietFlow DEF CallsAgree
<1>3. RoomOK' BY <1>1, <1>2 DEF Held, RoomOK, Room, Op
<1>4. NoneWaitsInVain' /\ Balanced' BY <1>1 DEF Held, NoneWaitsInVain, Balanced
<1>5. TypeOK' BY <1>1 DEF Held, TypeOK, InPlace
<1> QED BY <1>2, <1>3, <1>4, <1>5 DEF Held

LEMMA SwitchHeld ==
  ASSUME Held, (\E p \in Task : Yield(p)) \/ Tick
  PROVE  Held'
<1>1. ASSUME NEW p \in Task, Yield(p) PROVE Held'
  <2>1. cur = p /\ call[p] = NoCall /\ DoYield(p) /\ InPlace /\ UNCHANGED <<boxVars, call, seen>>
    BY <1>1 DEF Yield, Running, Held
  <2>2. InPlace' /\ OnlyWakes([status EXCEPT ![p] = "READY"], status') BY <2>1, YieldInPlace
  <2>3. \A t \in Task : status'[t] = status[t] \/ (call[t] = NoCall /\ status'[t] = "READY")
    BY <2>1, <2>2, PlaceFacts DEF OnlyWakes, Held, CallsAgree, Awake
  <2>4. UNCHANGED wq BY <2>1 DEF DoYield
  <2> QED BY <2>1, <2>2, <2>3, <2>4, QuietHeld
<1>2. CASE Tick
  <2> DEFINE nested == cur # NULL => type[cur] = "KERNEL_THREAD" \/ call[cur] # NoCall
  <2>1. TimerIrq(nested) /\ InPlace /\ UNCHANGED <<boxVars, call, seen>> BY <1>2 DEF Tick, Held
  <2> HIDE DEF nested
  <2>2. /\ InPlace' /\ wq' = wq
        /\ \/ OnlyWakes(status, status')
           \/ cur \in Task /\ ~nested /\ OnlyWakes([status EXCEPT ![cur] = "READY"], status')
    BY <2>1, TimerInPlace
  <2>3. ~nested => call[cur] = NoCall BY DEF nested
  <2>4. \A t \in Task : status'[t] = status[t] \/ (call[t] = NoCall /\ status'[t] = "READY")
    BY <2>1, <2>2, <2>3, PlaceFacts DEF OnlyWakes, Held, CallsAgree, Awake
  <2> QED BY <2>1, <2>2, <2>4, QuietHeld
<1> QED BY <1>1, <1>2

(* do_mbox_open() and do_mbox_close(): whose boxes are open changes, and a *)
(* box starts with all its room.                                           *)
LEMMA OpenHeld ==
  ASSUME Held, NEW p \in Task, (\E n \in Name : Open(p, n)) \/ (\E b \in Box : Close(p, b))
  PROVE  Held'
<1>0. InPlace /\ CallsAgree BY DEF Held
<1>1. ASSUME NEW b \in Box, Close(p, b) PROVE Held'
  <2>1. /\ call[p] = NoCall /\ \A t \in Task \ {p} : b \notin opened[t]
        /\ used' = [used EXCEPT ![b] = FALSE] /\ opened' = [opened EXCEPT ![p] = @ \ {b}]
        /\ UNCHANGED <<schedVars, name, num, buf, value, wild, call, wanted, unread, wrong, overlap>>
    BY <1>1 DEF Close, User
  <2>2. UNCHANGED <<status, type, left, waitIn, ready, sleepq, wq, cur, mode>> BY <2>1 DEF schedVars
  <2>3. InPlace' BY <1>0, <2>2 DEF InPlace, SchedTypeOK
  <2>4. /\ used' \in [Box -> BOOLEAN] /\ opened' \in [Task -> SUBSET Box]
        /\ \A c \in Box : used'[c] <=> c # b /\ used[c]
        /\ \A t \in Task, c \in Box : c \in opened'[t] => c \in opened[t] /\ c # b
        /\ \A t \in Task, c \in Box : c \in opened[t] /\ t # p => c \in opened'[t]
    BY <2>1, HeldFacts DEF BoxesTyped
  <2>5. \A t \in Task, c \in Box : Inside(t, c) => c \in opened'[t]
    BY <1>0, <2>1, <2>4 DEF CallsAgree, Inside
  <2>6. \A t \in Task, c \in Box : c \in opened'[t] => used'[c]
    BY <1>0, <2>4 DEF CallsAgree
  <2>7. CallsAgree' /\ \A c \in Box, o \in Op : Granted(c, o)' = Granted(c, o)
    BY <1>0, <2>1, <2>2, <2>5, <2>6, QuietFlow
  <2>8. RoomOK' BY <2>1, <2>4, <2>7 DEF Held, RoomOK, Room, Op
  <2>9. NoneWaitsInVain' /\ Balanced' BY <2>1, <2>2 DEF Held, NoneWaitsInVain, Balanced
  <2>10. TypeOK' BY <2>1, <2>3, <2>4 DEF Held, TypeOK, InPlace
  <2> QED BY <2>3, <2>7, <2>8, <2>9, <2>10 DEF Held
<1>2. ASSUME NEW n \in Name, NEW b \in Box, Open(p, n), ~used[b], Got(p, b), Create(b, n)
      PROVE  Held'
  <2>1. /\ opened' = [opened EXCEPT ![p] = @ \cup {b}]
        /\ UNCHANGED <<status, type, left, waitIn, ready, sleepq, cur, mode, call>>
    BY <1>2 DEF Open, Got
  <2>2. \A op \in Op : Sem(b, op) \in Queue /\ wq[Sem(b, op)] = <<>> /\ Granted(b, op) = {}
    BY <1>0, <1>2, UnusedBox, BoxFacts
  <2>3. wq' = wq
    <3>1. wq[<<b, "full">>] = <<>> /\ wq[<<b, "empty">>] = <<>>
      BY <2>2 DEF Sem, Full, Empty, Op
    <3>2. wq' = [wq EXCEPT ![<<b, "full">>] = <<>>, ![<<b, "empty">>] = <<>>]
      BY <1>2 DEF Create
    <3> QED BY <1>0, <3>1, <3>2, PlaceFacts
  <2>4. InPlace' BY <1>0, <2>1, <2>3 DEF InPlace, SchedTypeOK
  <2>5. /\ used' \in [Box -> BOOLEAN] /\ opened' \in [Task -> SUBSET Box]
        /\ \A c \in Box : used'[c] <=> c = b \/ used[c]
        /\ \A t \in Task, c \in Box : c \in opened'[t] => c \in opened[t] \/ c = b
        /\ \A t \in Task, c \in Box : c \in opened[t] => c \in opened'[t]
    BY <1>2, <2>1, HeldFacts DEF BoxesTyped, Create
  <2>6. CallsAgree' /\ \A c \in Box, o \in Op : Granted(c, o)' = Granted(c, o)
    <3>1. \A t \in Task, c \in Box : Inside(t, c) => c \in opened'[t]
      BY <1>0, <2>5 DEF CallsAgree
    <3>2. \A t \in Task, c \in Box : c \in opened'[t] => used'[c]
      BY <1>0, <2>5 DEF CallsAgree
    <3> QED BY <1>0, <2>1, <2>3, <3>1, <3>2, QuietFlow
  <2>7. /\ value' \in [Obj -> 0 .. MaxLength]
        /\ value'[Full(b)] = 0 /\ value'[Empty(b)] = MaxLength
        /\ \A c \in Box : c # b => value'[Full(c)] = value[Full(c)] /\ value'[Empty(c)] = value[Empty(c)]
    <3>1. \A c \in Box : Full(c) \in Obj /\ Empty(c) \in Obj BY BoxFacts
    <3>2. value' = [value EXCEPT ![Full(b)] = 0, ![Empty(b)] = MaxLength]
      BY <1>2 DEF Create, Full, Empty
    <3>3. \A c, d \in Box : Full(c) # Empty(d) /\ (c # d => Full(c) # Full(d) /\ Empty(c) # Empty(d))
      BY DEF Full, Empty
    <3> QED BY <3>1, <3>2, <3>3, HeldFacts
  <2>8. RoomOK'
    <3>1. ASSUME NEW c \in Box, used'[c] PROVE Room(c)' = MaxLength
      <4>1. /\ Cardinality(Granted(c, "send")') = Cardinality(Granted(c, "send"))
            /\ Cardinality(Granted(c, "recv")') = Cardinality(Granted(c, "recv"))
        BY <2>6 DEF Op
      <4>2. CASE c = b
        <5>1. Cardinality(Granted(b, "send")) = 0 /\ Cardinality(Granted(b, "recv")) = 0
          BY <2>2, FS_EmptySet DEF Op
        <5> QED BY <4>1, <4>2, <5>1, <2>7, HeldFacts DEF Room
      <4>3. CASE c # b
        <5>1. Room(c) = MaxLength BY <2>5, <3>1, <4>3 DEF Held, RoomOK
        <5> QED BY <4>1, <4>3, <5>1, <2>7 DEF Room
      <4> QED BY <4>2, <4>3
    <3> QED BY <3>1 DEF RoomOK
  <2>9. NoneWaitsInVain'
    <3>1. ASSUME NEW o \in Obj, wq'[o] # <<>> PROVE value'[o] = 0
      <4>1. o # <<b, "full">> /\ o # <<b, "empty">>
        BY <2>2, <2>3, <3>1 DEF Sem, Full, Empty, Op
      <4>2. value'[o] = value[o] BY <4>1, <1>2, HeldFacts DEF Create
      <4> QED BY <4>2, <2>3, <3>1 DEF Held, NoneWaitsInVain
    <3> QED BY <3>1 DEF NoneWaitsInVain
  <2>10. /\ num' = [num EXCEPT ![b] = 0]
         /\ \A c \in Box : num'[c] = IF c = b THEN 0 ELSE num[c]
    BY <1>2, HeldFacts DEF Create
  <2>11. num' \in [Box -> Slot]
    <3>1. 0 \in Slot BY BoxFacts DEF Slot
    <3> QED BY <2>10, <3>1, HeldFacts
  <2>12. Balanced'
    <3>1. Full(b) = Sem(b, "recv") /\ Len(<<>>) = 0 BY BoxFacts
    <3>2. Len(wq'[Full(b)]) = 0 BY <2>2, <2>3, <3>1 DEF Op
    <3>3. wild' = wild BY <1>2 DEF Create
    <3>4. CASE wild' BY <3>4 DEF Balanced
    <3>5. ASSUME ~wild, NEW c \in Box PROVE num'[c] = value'[Full(c)] - Len(wq'[Full(c)])
      <4>1. CASE c = b BY <4>1, <2>7, <2>10, <3>2
      <4>2. CASE c # b BY <4>2, <2>3, <2>7, <2>10, <3>5 DEF Held, Balanced
      <4> QED BY <4>1, <4>2
    <3> QED BY <3>3, <3>4, <3>5 DEF Balanced
  <2>13. BoxesTyped'
    <3>1. Copied(n, name[b]) \in [text : Name \cup {Mixed, NULL}, len : Nat]
      BY HeldFacts, MailboxAssumption DEF BoxesTyped, Copied
    <3>2. NoMessages \in [Task -> Nat] BY DEF NoMessages
    <3>3. name' \in [Box -> [text : Name \cup {Mixed, NULL}, len : Nat]]
      BY <1>2, <3>1, HeldFacts DEF BoxesTyped, Create
    <3> QED BY <1>2, <2>5, <3>2, <3>3, HeldFacts DEF BoxesTyped, Create
  <2>14. TypeOK' BY <2>1, <2>4, <2>7, <2>11, <2>13, HeldFacts DEF TypeOK, BoxesTyped, InPlace
  <2> QED BY <2>4, <2>6, <2>8, <2>9, <2>12, <2>14 DEF Held
<1>3. ASSUME NEW n \in Name, NEW b \in Box, Open(p, n), used[b], Got(p, b),
             UNCHANGED <<boxVars, wanted, unread, wrong, overlap, wq>>
      PROVE  Held'
  <2>1. /\ UNCHANGED <<status, type, left, waitIn, ready, sleepq, cur, mode, wq, call>>
        /\ UNCHANGED <<used, name, num, buf, value, wild, wanted, unread, wrong, overlap>>
        /\ opened' = [opened EXCEPT ![p] = @ \cup {b}]
    BY <1>3 DEF Open, boxVars, Got
  <2>2. InPlace' BY <1>0, <2>1 DEF InPlace, SchedTypeOK
  <2>3. /\ opened' \in [Task -> SUBSET Box]
        /\ \A t \in Task, c \in Box : c \in opened'[t] => c \in opened[t] \/ c = b
        /\ \A t \in Task, c \in Box : c \in opened[t] => c \in opened'[t]
    BY <2>1, HeldFacts DEF BoxesTyped
  <2>4. CallsAgree' /\ \A c \in Box, o \in Op : Granted(c, o)' = Granted(c, o)
    <3>1. \A t \in Task, c \in Box : Inside(t, c) => c \in opened'[t]
      BY <1>0, <2>3 DEF CallsAgree
    <3>2. \A t \in Task, c \in Box : c \in opened'[t] => used'[c]
      BY <1>0, <1>3, <2>1, <2>3 DEF CallsAgree
    <3> QED BY <1>0, <2>1, <3>1, <3>2, QuietFlow
  <2>5. RoomOK' BY <2>1, <2>4 DEF Held, RoomOK, Room, Op
  <2>6. NoneWaitsInVain' /\ Balanced' BY <2>1 DEF Held, NoneWaitsInVain, Balanced
  <2>7. TypeOK' BY <2>1, <2>2, <2>3 DEF Held, TypeOK, InPlace
  <2> QED BY <2>2, <2>4, <2>5, <2>6, <2>7 DEF Held
<1>4. ASSUME NEW n \in Name, Open(p, n), UNCHANGED <<boxVars, seen, wq>> PROVE Held'
  <2>1. UNCHANGED <<status, type, left, waitIn, ready, sleepq, cur, mode, wq, call>>
    BY <1>4 DEF Open
  <2>2. InPlace' BY <1>0, <2>1 DEF InPlace, SchedTypeOK
  <2> QED BY <1>4, <2>1, <2>2, QuietHeld
<1>5. ASSUME NEW n \in Name, Open(p, n) PROVE Held'
  <2>1. \A b \in Named(n) : b \in Box /\ used[b] BY DEF Named
  <2>2. \A b \in Unused : b \in Box /\ ~used[b] BY DEF Unused
  <2> QED BY <1>2, <1>3, <1>4, <1>5, <2>1, <2>2 DEF Open
<1> QED BY <1>1, <1>5

LEMMA StartsHeld == Init => Held
<1> SUFFICES ASSUME Init PROVE Held OBVIOUS
<1>1. PICK order \in SetToSeqs(Task) : cur = Head(order) /\ ready = Tail(order) BY DEF Init
<1>2. status \in [Task -> Runnable] BY DEF Init, Runnable
<1>3. /\ cur \in Task /\ ready \in Seq(Task)
      /\ QueuesAgree(ready, sleepq, status) /\ RunsAlone(cur, ready, status)
  BY <1>1, <1>2, BoxFacts, OrderPlaces DEF Init
<1>4. <<>> \in Seq(Task) /\ IsInjective(<<>>) /\ ToSet(<<>>) = {} /\ Len(<<>>) = 0
  BY EmptySeq, EmptyQueue
<1>5. SchedTypeOK
  <2>1. /\ status \in [Task -> Status] /\ sleepq \in Seq(Task) /\ mode \in Mode
        /\ wq \in [Queue -> Seq(Task)]
    BY <1>2, <1>4, StatusNames DEF Init, Mode
  <2>2. /\ type \in [Task -> TaskType] /\ left \in [Task -> Nat]
        /\ waitIn \in [Task -> Queue \cup {NULL}]
    BY DEF Init, TaskType
  <2> QED BY <1>3, <2>1, <2>2 DEF SchedTypeOK
<1>6. \A q \in Queue : wq[q] = <<>> BY DEF Init
<1>7. InPlace BY <1>3, <1>4, <1>5, <1>6 DEF InPlace, WaitsAgree
<1>8. 0 \in Slot /\ 0 \in 0 .. MaxLength BY BoxFacts DEF Slot
<1>9. BoxesTyped
  <2>1. NoMessages \in [Task -> Nat] BY DEF NoMessages
  <2>2. /\ used \in [Box -> BOOLEAN] /\ wrong \in [Box -> BOOLEAN] /\ overlap \in [Box -> BOOLEAN]
        /\ wild \in BOOLEAN /\ unread \in [Box -> [Task -> Nat]]
        /\ opened \in [Task -> SUBSET Box] /\ wanted \in [Box -> Name \cup {NULL}]
    BY <2>1 DEF Init
  <2>3. /\ buf \in [Box -> [Slot -> Task \cup {NULL}]]
        /\ name \in [Box -> [text : Name \cup {Mixed, NULL}, len : Nat]]
    BY DEF Init
  <2> QED BY <2>2, <2>3 DEF BoxesTyped
<1>10. TypeOK
  <2>1. num \in [Box -> Slot] /\ value \in [Obj -> 0 .. MaxLength] /\ call \in [Task -> Calls]
    BY <1>8 DEF Init, Calls
  <2> QED BY <1>5, <1>9, <2>1 DEF TypeOK, BoxesTyped
<1>11. CallsAgree
  <2>1. \A t \in Task : status[t] \in Awake /\ call[t] = NoCall /\ opened[t] = {} BY DEF Init, Awake
  <2>2. \A b \in Box, op \in Op : ToSet(wq[Sem(b, op)]) = {} BY <1>4, <1>6, BoxFacts
  <2> QED BY <2>1, <2>2 DEF CallsAgree, Inside
<1>12. RoomOK BY DEF Init, RoomOK
<1>13. NoneWaitsInVain BY <1>6, BoxFacts DEF NoneWaitsInVain
<1>14. Balanced
  <2>1. \A b \in Box : Full(b) \in Obj /\ Full(b) \in Queue BY BoxFacts
  <2>2. \A b \in Box : num[b] = 0 /\ value[Full(b)] = 0 /\ Len(wq[Full(b)]) = 0
    BY <1>4, <1>6, <2>1 DEF Init
  <2> QED BY <2>2 DEF Balanced
<1> QED BY <1>7, <1>10, <1>11, <1>12, <1>13, <1>14 DEF Held

LEMMA StepHeld == Held /\ [Next]_vars => Held'
<1> SUFFICES ASSUME Held, [Next]_vars PROVE Held' OBVIOUS
<1>1. CASE UNCHANGED vars
  <2>1. UNCHANGED <<status, type, left, waitIn, ready, sleepq, wq, cur, mode, boxVars, call, seen>>
    BY <1>1 DEF vars, schedVars
  <2>2. InPlace' BY <2>1 DEF Held, InPlace, SchedTypeOK
  <2> QED BY <2>1, <2>2, QuietHeld
<1>2. ASSUME NEW p \in Task, Step(p) PROVE Held'
  <2>1. CASE (\E n \in Name : Open(p, n)) \/ (\E b \in Box : Close(p, b)) BY <2>1, OpenHeld
  <2>2. ASSUME NEW b \in Box, SendNow(p, b) \/ SendWait(p, b) PROVE Held' BY <2>2, SendHeld
  <2>3. ASSUME NEW b \in Box, RecvNow(p, b) \/ RecvWait(p, b) PROVE Held' BY <2>3, RecvHeld
  <2>4. CASE SendResume(p) \/ RecvResume(p) BY <2>4, ResumeHeld
  <2>5. CASE Yield(p) BY <2>5, SwitchHeld
  <2> QED BY <1>2, <2>1, <2>2, <2>3, <2>4, <2>5 DEF Step
<1> QED BY <1>1, <1>2, SwitchHeld DEF Next, Stuck

LEMMA AlwaysHeld == Spec => []Held
BY StartsHeld, StepHeld, PTL DEF Spec

(* The room of a box is never lost or used twice, whatever the order in    *)
(* which its senders and receivers block and go on.                        *)
THEOREM RoomIsConserved == Spec => []RoomConserved
<1>1. Held => RoomConserved
  BY DEF Held, RoomOK, Room, RoomConserved, Full, Empty
<1> QED BY <1>1, AlwaysHeld, PTL

(* Nobody waits for a message or for room that is there.                   *)
THEOREM NobodyWaitsInVain == Spec => []NoneWaitsInVain
<1>1. Held => NoneWaitsInVain BY DEF Held
<1> QED BY <1>1, AlwaysHeld, PTL

-----------------------------------------------------------------------------
(* The name in a box in use is the one it was created for, or no name.     *)
NamesAgree == \A b \in Box : used[b] => name[b].text \in {wanted[b], Mixed}

LEMMA StepNames == NamesAgree /\ OneBoxPerName /\ TypeOK /\ [Next]_vars => (NamesAgree /\ OneBoxPerName)'
<1> SUFFICES ASSUME NamesAgree, OneBoxPerName, TypeOK, [Next]_vars
             PROVE  NamesAgree' /\ OneBoxPerName'
  OBVIOUS
<1>1. CASE UNCHANGED <<name, wanted>> /\ \A b \in Box : used'[b] => used[b]
  BY <1>1 DEF NamesAgree, OneBoxPerName
<1>2. ASSUME NEW n \in Name, NEW b \in Box, Named(n) = {}, Create(b, n)
      PROVE  NamesAgree' /\ OneBoxPerName'
  <2>1. /\ \A c \in Box : used'[c] <=> c = b \/ used[c]
        /\ \A c \in Box : wanted'[c] = IF c = b THEN n ELSE wanted[c]
        /\ \A c \in Box : c # b => name'[c] = name[c]
        /\ name'[b] = Copied(n, name[b])
    BY <1>2 DEF Create, TypeOK
  <2>2. name'[b].text \in {n, Mixed} BY <2>1 DEF Copied
  <2>3. \A c \in Box : used[c] => name[c].text # n BY <1>2 DEF Named
  <2>4. NamesAgree' BY <2>1, <2>2 DEF NamesAgree
  <2>5. OneBoxPerName'
    <3> SUFFICES ASSUME NEW c \in Box, NEW d \in Box, used'[c], used'[d], wanted'[c] = wanted'[d], c # d
                 PROVE  Mixed \in {name'[c].text, name'[d].text}
      BY DEF OneBoxPerName
    <3>1. CASE c = b BY <3>1, <2>1, <2>3 DEF NamesAgree
    <3>2. CASE d = b BY <3>2, <2>1, <2>3 DEF NamesAgree
    <3>3. CASE c # b /\ d # b BY <3>3, <2>1 DEF OneBoxPerName
    <3> QED BY <3>1, <3>2, <3>3
  <2> QED BY <2>4, <2>5
<1>3. ASSUME NEW p \in Task, Step(p) PROVE NamesAgree' /\ OneBoxPerName'
  <2>1. ASSUME NEW n \in Name, Open(p, n) PROVE NamesAgree' /\ OneBoxPerName'
    BY <2>1, <1>1, <1>2 DEF Open, boxVars, seen, Unused
  <2>2. ASSUME NEW b \in Box, Close(p, b) PROVE NamesAgree' /\ OneBoxPerName'
    BY <2>2, <1>1 DEF Close, TypeOK
  <2>3. ASSUME NEW b \in Box, SendNow(p, b) \/ SendWait(p, b) \/ RecvNow(p, b) \/ RecvWait(p, b)
        PROVE  NamesAgree' /\ OneBoxPerName'
    BY <2>3, <1>1 DEF SendNow, SendWait, RecvNow, RecvWait, boxVars
  <2>4. CASE SendResume(p) \/ RecvResume(p) \/ Yield(p)
    BY <2>4, <1>1 DEF SendResume, RecvResume, Yield, boxVars, seen
  <2> QED BY <1>3, <2>1, <2>2, <2>3, <2>4 DEF Step
<1>4. CASE Tick \/ Stuck \/ UNCHANGED vars BY <1>4, <1>1 DEF Tick, Stuck, vars, boxVars, seen
<1> QED BY <1>3, <1>4 DEF Next

(* All who open a name share one box, however boxes are closed and their   *)
(* entries used again, unless a longer name was there before.              *)
THEOREM OneBoxForAName == Spec => []OneBoxPerName
<1>1. Init => NamesAgree /\ OneBoxPerName BY DEF Init, NamesAgree, OneBoxPerName
<1>2. Held => TypeOK BY DEF Held
<1> QED BY <1>1, <1>2, StepNames, AlwaysHeld, PTL DEF Spec

-----------------------------------------------------------------------------
(* The entries lo .. hi of a buffer f hold messages, and u counts them by  *)
(* sender.                                                                 *)
Holding(f, lo, hi, m) == {i \in lo .. hi : f[i] = m}

Content(f, lo, hi, u) ==
  /\ \A i \in lo .. hi : f[i] \in Task
  /\ \A m \in Task : u[m] = Cardinality(Holding(f, lo, hi, m))

Buffer == [Slot -> Task \cup {NULL}]

LEMMA HoldingFinite ==
  ASSUME NEW f, NEW lo \in Int, NEW hi \in Int, NEW m
  PROVE  IsFiniteSet(Holding(f, lo, hi, m)) /\ Cardinality(Holding(f, lo, hi, m)) \in Nat
<1>1. IsFiniteSet(lo .. hi) BY FS_Interval
<1>2. Holding(f, lo, hi, m) \in SUBSET (lo .. hi) BY DEF Holding
<1> QED BY <1>1, <1>2, FS_Subset, FS_CardinalityType

LEMMA ContentNone ==
  ASSUME NEW f, NEW lo \in Int, NEW hi \in Int, hi < lo, NEW u
  PROVE  Content(f, lo, hi, u) <=> \A m \in Task : u[m] = 0
<1>1. lo .. hi = {} OBVIOUS
<1>2. \A m : Holding(f, lo, hi, m) = {} BY <1>1 DEF Holding
<1> QED BY <1>1, <1>2, FS_EmptySet DEF Content

LEMMA ContentPut ==
  ASSUME NEW f \in Buffer, NEW lo \in Int, NEW n \in Slot, lo <= n, NEW u \in [Task -> Nat],
         NEW p \in Task, Content(f, lo, n - 1, u)
  PROVE  Content([f EXCEPT ![n] = p], lo, n, [u EXCEPT ![p] = @ + 1])
<1> DEFINE g == [f EXCEPT ![n] = p]
           v == [u EXCEPT ![p] = @ + 1]
<1>1. n \in Int BY BoxFacts DEF Slot
<1>2. g[n] = p /\ \A i \in lo .. n - 1 : g[i] = f[i] BY <1>1 DEF Buffer
<1>3. lo .. n = (lo .. n - 1) \cup {n} /\ n \notin lo .. n - 1 BY <1>1
<1>4. \A m \in Task : v[m] = IF m = p THEN u[m] + 1 ELSE u[m] OBVIOUS
<1> HIDE DEF g, v
<1>5. \A i \in lo .. n : g[i] \in Task BY <1>2, <1>3 DEF Content
<1>6. ASSUME NEW m \in Task PROVE v[m] = Cardinality(Holding(g, lo, n, m))
  <2>1. /\ IsFiniteSet(Holding(f, lo, n - 1, m)) /\ n \notin Holding(f, lo, n - 1, m)
        /\ u[m] = Cardinality(Holding(f, lo, n - 1, m))
    <3>1. n - 1 \in Int BY <1>1
    <3>2. IsFiniteSet(Holding(f, lo, n - 1, m)) BY <3>1, HoldingFinite
    <3>3. n \notin Holding(f, lo, n - 1, m) BY <1>3 DEF Holding
    <3> QED BY <3>2, <3>3 DEF Content
  <2>2. CASE m = p
    <3>1. Holding(g, lo, n, m) = Holding(f, lo, n - 1, m) \cup {n}
      BY <1>2, <1>3, <2>2 DEF Holding
    <3> DEFINE z == Holding(f, lo, n - 1, m)
    <3>2. IsFiniteSet(z) /\ n \notin z /\ u[m] = Cardinality(z) BY <2>1
    <3> HIDE DEF z
    <3>3. Cardinality(z \cup {n}) = Cardinality(z) + 1 BY <3>2, FS_AddElement
    <3>4. v[m] = u[m] + 1 BY <1>4, <2>2
    <3> QED BY <3>1, <3>2, <3>3, <3>4 DEF z
  <2>3. CASE m # p
    <3>1. Holding(g, lo, n, m) = Holding(f, lo, n - 1, m) BY <1>2, <1>3, <2>3 DEF Holding
    <3> QED BY <1>4, <2>1, <2>3, <3>1
  <2> QED BY <2>2, <2>3
<1>7. Content(g, lo, n, v) BY <1>5, <1>6 DEF Content
<1> QED BY <1>7 DEF g, v

(* Entry k, at an end of lo .. hi, is taken out.                           *)
LEMMA ContentTake ==
  ASSUME NEW f, NEW lo \in Int, NEW hi \in Int, NEW a \in Int, NEW z \in Int, NEW k \in lo .. hi,
         a .. z = (lo .. hi) \ {k}, NEW u \in [Task -> Nat], Content(f, lo, hi, u)
  PROVE  f[k] \in Task /\ u[f[k]] > 0 /\ Content(f, a, z, [u EXCEPT ![f[k]] = @ - 1])
<1> DEFINE x == f[k]
           v == [u EXCEPT ![x] = @ - 1]
<1>1. x \in Task BY DEF Content
<1>2. \A m \in Task : v[m] = IF m = x THEN u[m] - 1 ELSE u[m] OBVIOUS
<1>3. f[k] = x OBVIOUS
<1> HIDE DEF x, v
<1>4. \A m \in Task : /\ IsFiniteSet(Holding(f, lo, hi, m)) /\ u[m] = Cardinality(Holding(f, lo, hi, m))
  BY HoldingFinite DEF Content
<1>5. k \in Holding(f, lo, hi, x) BY <1>3 DEF Holding
<1>6. u[x] > 0
  <2>1. Cardinality(Holding(f, lo, hi, x)) # 0 BY <1>1, <1>4, <1>5, FS_EmptySet
  <2>2. u[x] \in Nat BY <1>1
  <2> QED BY <1>1, <1>4, <2>1, <2>2
<1>7. ASSUME NEW m \in Task PROVE v[m] = Cardinality(Holding(f, a, z, m))
  <2>1. Holding(f, a, z, m) = Holding(f, lo, hi, m) \ {k} BY DEF Holding
  <2>2. k \in Holding(f, lo, hi, m) <=> m = x BY <1>3 DEF Holding
  <2>3. Cardinality(Holding(f, lo, hi, m) \ {k})
          = IF m = x THEN Cardinality(Holding(f, lo, hi, m)) - 1 ELSE Cardinality(Holding(f, lo, hi, m))
    <3>1. IsFiniteSet(Holding(f, lo, hi, m)) BY <1>4
    <3> QED BY <2>2, <3>1, FS_RemoveElement
  <2>4. CASE m = x BY <1>2, <1>4, <2>1, <2>3, <2>4
  <2>5. CASE m # x BY <1>2, <1>4, <2>1, <2>3, <2>5
  <2> QED BY <2>4, <2>5
<1>8. \A i \in a .. z : f[i] \in Task BY DEF Content
<1>9. Content(f, a, z, v) BY <1>7, <1>8 DEF Content
<1> QED BY <1>1, <1>6, <1>9 DEF x, v

-----------------------------------------------------------------------------
(* As long as nobody has waited beside another call, box b holds the       *)
(* messages that are still to be received, in the slots below message_num; *)
(* a receiver that waits has slot -1, and the message that lets it go on   *)
(* is put there.                                                           *)
Low(b) == IF \E t \in Task : Inside(t, b) THEN -1 ELSE 0

InOrder(b) ==
  /\ \A t \in Task : Inside(t, b) => call[t].op = "recv" /\ call[t].slot = -1
  /\ \A t, u \in Task : Inside(t, b) /\ Inside(u, b) => t = u
  /\ Content(buf[b], Low(b), num[b] - 1, unread[b])

OrderlyAt(b) ==
  /\ wrong[b] => overlap[b]
  /\ used[b] /\ ~overlap[b] /\ ~wild => InOrder(b)

Orderly == \A b \in Box : OrderlyAt(b)

LEMMA OrderFacts ==
  ASSUME Held, ~wild, NEW b \in Box, InOrder(b)
  PROVE  /\ num[b] \in Int /\ Low(b) \in Int /\ Low(b) <= num[b]
         /\ wq[Full(b)] = <<>> => num[b] = value[Full(b)] /\ num[b] >= 0
         /\ value[Full(b)] > 0 => num[b] = value[Full(b)]
         /\ \A t \in Task : Inside(t, b) /\ status[t] # "BLOCKED" => wq[Full(b)] = <<>>
         /\ (\A t \in Task : ~Inside(t, b)) => wq[Full(b)] = <<>>
<1> DEFINE w == wq[Full(b)]
<1>1. /\ w \in Seq(Task) /\ IsInjective(w) /\ Full(b) \in Obj /\ Full(b) \in Queue
      /\ \A t \in ToSet(w) : t \in Task /\ Inside(t, b) /\ status[t] = "BLOCKED"
  <2>1. Full(b) \in Obj /\ Full(b) \in Queue /\ Full(b) = Sem(b, "recv") /\ "recv" \in Op
    BY BoxFacts DEF Op
  <2> QED BY <2>1, PlaceFacts DEF Held, CallsAgree, InPlace, WaitsAgree, InCall
<1>2. /\ num[b] = value[Full(b)] - Len(w) /\ value[Full(b)] \in Nat /\ Len(w) \in Nat
      /\ (w # <<>> => value[Full(b)] = 0)
  BY <1>1, HeldFacts, LenProperties DEF Held, Balanced, NoneWaitsInVain
<1>3. Len(<<>>) = 0 OBVIOUS
<1>4. w # <<>> => Head(w) \in ToSet(w) BY <1>1, TailQueue
<1>5. Len(w) <= 1
  <2> SUFFICES ASSUME Len(w) > 1 PROVE FALSE BY <1>2
  <2>1. 1 \in DOMAIN w /\ 2 \in DOMAIN w BY <1>1, <1>2, LenProperties
  <2>2. w[1] \in ToSet(w) /\ w[2] \in ToSet(w) BY <2>1 DEF ToSet
  <2>3. w[1] = w[2] BY <1>1, <2>2 DEF InOrder
  <2> QED BY <1>1, <2>1, <2>3 DEF IsInjective
<1>6. w # <<>> => Low(b) = -1 BY <1>1, <1>4 DEF Low
<1>7. Low(b) \in {-1, 0} BY DEF Low
<1>8. ASSUME NEW t \in Task, Inside(t, b), status[t] # "BLOCKED" PROVE w = <<>>
  <2> SUFFICES ASSUME w # <<>> PROVE FALSE OBVIOUS
  <2>1. Inside(Head(w), b) /\ Head(w) \in Task /\ status[Head(w)] = "BLOCKED" BY <1>1, <1>4
  <2>2. Head(w) = t BY <1>8, <2>1 DEF InOrder
  <2> QED BY <1>8, <2>1, <2>2
<1>9. (\A t \in Task : ~Inside(t, b)) => w = <<>> BY <1>1, <1>4
<1> HIDE DEF w
<1>10. /\ num[b] \in Int /\ Low(b) \in Int /\ Low(b) <= num[b]
       /\ w = <<>> => num[b] = value[Full(b)] /\ num[b] >= 0
       /\ value[Full(b)] > 0 => num[b] = value[Full(b)]
  <2>1. CASE w = <<>> BY <1>2, <1>3, <1>7, <2>1
  <2>2. CASE w # <<>> BY <1>2, <1>5, <1>6, <2>2
  <2> QED BY <2>1, <2>2
<1> QED BY <1>8, <1>9, <1>10 DEF w

LEMMA OrderFrame ==
  ASSUME NEW b \in Box, OrderlyAt(b), ~wild' => ~wild, used'[b] => used[b],
         overlap'[b] = overlap[b], wrong'[b] = wrong[b], num'[b] = num[b], buf'[b] = buf[b],
         unread'[b] = unread[b],
         \A t \in Task : (Inside(t, b)' <=> Inside(t, b)) /\ (Inside(t, b) => call'[t] = call[t])
  PROVE  OrderlyAt(b)'
<1>1. Low(b)' = Low(b) BY DEF Low
<1>2. InOrder(b) => InOrder(b)' BY <1>1 DEF InOrder
<1> QED BY <1>2 DEF OrderlyAt

(* A step on box b leaves the other boxes and the calls on them alone.     *)
Elsewhere(b) ==
  /\ ~wild' => ~wild
  /\ \A c \in Box \ {b} :
       /\ used'[c] = used[c] /\ overlap'[c] = overlap[c] /\ wrong'[c] = wrong[c]
       /\ num'[c] = num[c] /\ buf'[c] = buf[c] /\ unread'[c] = unread[c]
       /\ \A t \in Task : (Inside(t, c)' <=> Inside(t, c)) /\ (Inside(t, c) => call'[t] = call[t])

LEMMA OnBox ==
  ASSUME Orderly, NEW b \in Box, Elsewhere(b), OrderlyAt(b)'
  PROVE  Orderly'
<1>1. ASSUME NEW c \in Box \ {b} PROVE OrderlyAt(c)'
  BY OrderFrame DEF Orderly, Elsewhere
<1> QED BY <1>1 DEF Orderly

(* The end of a call of p on box b changes no other box.                   *)
LEMMA CallElsewhere ==
  ASSUME Held, NEW p \in Task, NEW b \in Box, NEW x, call' = [call EXCEPT ![p] = x],
         Inside(p, b) \/ call[p] = NoCall, x = NoCall \/ x.box = b
  PROVE  \A c \in Box \ {b} : \A t \in Task :
           (Inside(t, c)' <=> Inside(t, c)) /\ (Inside(t, c) => call'[t] = call[t])
<1>1. \A t \in Task : call'[t] = IF t = p THEN x ELSE call[t] BY HeldFacts
<1> QED BY <1>1 DEF Inside

LEMMA SendOrderly ==
  ASSUME Held, Orderly, NEW p \in Task, NEW b \in Box, SendNow(p, b) \/ SendWait(p, b)
  PROVE  Orderly'
<1>1. /\ ~wild /\ call[p] = NoCall /\ b \in opened[p] /\ used[b] /\ num[b] \in Slot
      /\ overlap \in [Box -> BOOLEAN] /\ wrong \in [Box -> BOOLEAN] /\ num \in [Box -> Slot]
      /\ buf \in [Box -> Buffer] /\ unread \in [Box -> [Task -> Nat]]
  BY HeldFacts
     DEF SendNow, SendWait, MaySend, User, Running, Held, CallsAgree, BoxesTyped, Buffer
<1>2. CASE SendNow(p, b)
  <2>1. /\ Deliver(p, b, num[b], [value EXCEPT ![<<b, "empty">>] = @ - 1])
        /\ UNCHANGED <<used, call, wrong, overlap>>
    BY <1>2 DEF SendNow
  <2>2. unread' = IF wrong[b] THEN unread ELSE [unread EXCEPT ![b][p] = @ + 1]
    BY <2>1 DEF Deliver
  <2>3. \A t \in Task, c \in Box : (Inside(t, c)' <=> Inside(t, c)) /\ call'[t] = call[t]
    BY <2>1 DEF Inside
  <2>4. CASE wild' = TRUE /\ UNCHANGED <<buf, num>>
    <3>1. Elsewhere(b) BY <1>1, <2>1, <2>2, <2>3, <2>4 DEF Elsewhere
    <3>2. OrderlyAt(b)' BY <2>1, <2>4 DEF Orderly, OrderlyAt
    <3> QED BY <3>1, <3>2, OnBox
  <2>5. CASE /\ buf' = [buf EXCEPT ![b][num[b]] = p]
             /\ num' = [num EXCEPT ![b] = @ + 1]
             /\ UNCHANGED wild
    <3>1. Elsewhere(b) BY <1>1, <2>1, <2>2, <2>3, <2>5 DEF Elsewhere
    <3>2. ASSUME ~overlap[b] PROVE InOrder(b)'
      <4>1. InOrder(b) /\ ~wrong[b] BY <1>1, <3>2 DEF Orderly, OrderlyAt
      <4>2. Low(b)' = Low(b) BY <2>3 DEF Low
      <4>3. Low(b) \in Int /\ Low(b) <= num[b] BY <1>1, <4>1, OrderFacts
      <4>4. Content([buf[b] EXCEPT ![num[b]] = p], Low(b), num[b], [unread[b] EXCEPT ![p] = @ + 1])
        BY <1>1, <4>1, <4>3, ContentPut DEF InOrder
      <4>5. /\ buf'[b] = [buf[b] EXCEPT ![num[b]] = p] /\ num'[b] = num[b] + 1
            /\ unread'[b] = [unread[b] EXCEPT ![p] = @ + 1]
        BY <1>1, <2>2, <2>5, <4>1
      <4>6. num'[b] - 1 = num[b] BY <4>1, <4>5, <1>1, OrderFacts
      <4>7. Content(buf'[b], Low(b)', num'[b] - 1, unread'[b]) BY <4>2, <4>4, <4>5, <4>6
      <4> QED BY <2>3, <4>1, <4>7 DEF InOrder
    <3>3. OrderlyAt(b)' BY <2>1, <3>2 DEF Orderly, OrderlyAt
    <3> QED BY <3>1, <3>3, OnBox
  <2> QED BY <2>1, <2>4, <2>5 DEF Deliver
<1>3. CASE SendWait(p, b)
  <2> DEFINE x == [op |-> "send", box |-> b, slot |-> num[b]]
  <2>1. /\ call' = [call EXCEPT ![p] = x] /\ x.box = b
        /\ overlap' = [overlap EXCEPT ![b] = TRUE]
        /\ UNCHANGED <<used, num, buf, wild, unread, wrong>>
    BY <1>3 DEF SendWait, boxVars
  <2> HIDE DEF x
  <2>2. Elsewhere(b) BY <1>1, <2>1, CallElsewhere DEF Elsewhere
  <2>3. overlap'[b] BY <1>1, <2>1
  <2> QED BY <2>2, <2>3, OnBox DEF OrderlyAt
<1> QED BY <1>2, <1>3

(* A receiver that gets entry k, at an end of what the box holds.          *)
LEMMA CollectContent ==
  ASSUME Held, NEW b \in Box, NEW lo \in Int, NEW hi \in Int, NEW a \in Int, NEW z \in Int,
         NEW k \in lo .. hi, a .. z = (lo .. hi) \ {k}, Content(buf[b], lo, hi, unread[b]),
         ~wrong[b], NEW val, Collect(b, k, val)
  PROVE  wrong' = wrong /\ Content(buf[b], a, z, unread'[b])
<1> DEFINE m == buf[b][k]
<1>1. unread \in [Box -> [Task -> Nat]] /\ NULL \notin Task
  BY HeldFacts, SchedAssumption DEF BoxesTyped
<1>2. m \in Task /\ unread[b][m] > 0 /\ Content(buf[b], a, z, [unread[b] EXCEPT ![m] = @ - 1])
  BY <1>1, ContentTake
<1>3. Fresh(b, m) BY <1>1, <1>2 DEF Fresh
<1>4. unread' = [unread EXCEPT ![b][m] = @ - 1] /\ wrong' = wrong
  BY <1>3 DEF Collect
<1>5. unread'[b] = [unread[b] EXCEPT ![m] = @ - 1] BY <1>1, <1>4
<1> QED BY <1>2, <1>4, <1>5

(* What Collect leaves alone.                                              *)
LEMMA CollectElsewhere ==
  ASSUME Held, NEW b \in Box, NEW k, NEW val, Collect(b, k, val)
  PROVE  \A c \in Box \ {b} : wrong'[c] = wrong[c] /\ unread'[c] = unread[c]
BY HeldFacts DEF Collect, BoxesTyped

LEMMA RecvOrderly ==
  ASSUME Held, Orderly, NEW p \in Task, NEW b \in Box, RecvNow(p, b) \/ RecvWait(p, b)
  PROVE  Orderly'
<1>1. /\ ~wild /\ call[p] = NoCall /\ b \in opened[p] /\ used[b] /\ num[b] \in Int
      /\ overlap \in [Box -> BOOLEAN] /\ wrong \in [Box -> BOOLEAN] /\ num \in [Box -> Slot]
      /\ num' = [num EXCEPT ![b] = @ - 1]
  BY HeldFacts
     DEF RecvNow, RecvWait, MayRecv, User, Running, Held, CallsAgree, BoxesTyped, Slot
<1>2. num'[b] = num[b] - 1 /\ \A c \in Box \ {b} : num'[c] = num[c] BY <1>1
<1>3. CASE RecvNow(p, b)
  <2> DEFINE val == [value EXCEPT ![<<b, "full">>] = @ - 1]
  <2>1. /\ value[Full(b)] > 0 /\ Collect(b, num[b] - 1, val)
        /\ UNCHANGED <<used, buf, wild, call, overlap>>
    BY <1>3 DEF RecvNow, Full
  <2> HIDE DEF val
  <2>2. \A t \in Task, c \in Box : (Inside(t, c)' <=> Inside(t, c)) /\ call'[t] = call[t]
    BY <2>1 DEF Inside
  <2>3. Elsewhere(b) BY <1>2, <2>1, <2>2, CollectElsewhere DEF Elsewhere
  <2>4. ASSUME ~overlap[b] PROVE ~wrong'[b] /\ InOrder(b)'
    <3>1. InOrder(b) /\ ~wrong[b] BY <1>1, <2>4 DEF Orderly, OrderlyAt
    <3>2. Low(b)' = Low(b) BY <2>2 DEF Low
    <3>3. Low(b) \in {-1, 0} BY DEF Low
    <3>4. num[b] > 0 BY <1>1, <2>1, <3>1, OrderFacts
    <3>5. /\ num[b] - 1 \in Low(b) .. num[b] - 1
          /\ Low(b) .. num[b] - 2 = (Low(b) .. num[b] - 1) \ {num[b] - 1}
          /\ Low(b) \in Int /\ num[b] - 1 \in Int /\ num[b] - 2 \in Int
      BY <1>1, <3>3, <3>4
    <3>6. wrong' = wrong /\ Content(buf[b], Low(b), num[b] - 2, unread'[b])
      BY <2>1, <3>1, <3>5, CollectContent DEF InOrder
    <3>7. num'[b] - 1 = num[b] - 2 BY <1>1, <1>2
    <3>8. Content(buf'[b], Low(b)', num'[b] - 1, unread'[b]) BY <2>1, <3>2, <3>6, <3>7
    <3> QED BY <2>2, <3>1, <3>6, <3>8 DEF InOrder
  <2>5. OrderlyAt(b)' BY <2>1, <2>4 DEF OrderlyAt
  <2> QED BY <2>3, <2>5, OnBox
<1>4. CASE RecvWait(p, b)
  <2> DEFINE x == [op |-> "recv", box |-> b, slot |-> num[b] - 1]
  <2>1. /\ call' = [call EXCEPT ![p] = x] /\ x.box = b /\ x # NoCall
        /\ x.op = "recv" /\ x.slot = num[b] - 1
        /\ overlap' = [overlap EXCEPT ![b] = @ \/ \E t \in Task : Inside(t, b)]
        /\ UNCHANGED <<used, buf, wild, unread, wrong>> /\ value[Full(b)] = 0
    BY <1>4 DEF RecvWait, DownWait, Full, NoCall
  <2> HIDE DEF x
  <2>2. \A c \in Box \ {b} : \A t \in Task :
          (Inside(t, c)' <=> Inside(t, c)) /\ (Inside(t, c) => call'[t] = call[t])
    BY <1>1, <2>1, CallElsewhere
  <2>3. Elsewhere(b) BY <1>1, <1>2, <2>1, <2>2 DEF Elsewhere
  <2>4. overlap'[b] = (overlap[b] \/ \E t \in Task : Inside(t, b)) BY <1>1, <2>1
  <2>5. ASSUME ~overlap'[b] PROVE InOrder(b)'
    <3>1. ~overlap[b] /\ \A t \in Task : ~Inside(t, b) BY <2>4, <2>5
    <3>2. InOrder(b) BY <1>1, <3>1 DEF Orderly, OrderlyAt
    <3>3. num[b] = 0 BY <1>1, <2>1, <3>1, <3>2, OrderFacts
    <3>4. \A t \in Task : call'[t] = IF t = p THEN x ELSE call[t] BY <2>1, HeldFacts
    <3>5. \A t \in Task : Inside(t, b)' <=> t = p BY <2>1, <3>1, <3>4 DEF Inside
    <3>6. Low(b) = 0 /\ Low(b)' = -1 BY <3>1, <3>5 DEF Low
    <3>7. \A m \in Task : unread[b][m] = 0
      <4>1. Content(buf[b], 0, 0 - 1, unread[b]) BY <3>2, <3>3, <3>6 DEF InOrder
      <4> DEFINE f == buf[b]
                 u == unread[b]
                 hi == 0 - 1
      <4>2. Content(f, 0, hi, u) /\ hi \in Int /\ hi < 0 /\ 0 \in Int BY <4>1
      <4> HIDE DEF f, hi, u
      <4>3. \A m \in Task : u[m] = 0 BY <4>2, ContentNone
      <4> QED BY <4>3 DEF u
    <3>8. num'[b] - 1 = -2 /\ x.slot = -1 BY <1>2, <2>1, <3>3
    <3>9. Content(buf'[b], Low(b)', num'[b] - 1, unread'[b])
      BY <2>1, <3>6, <3>7, <3>8, ContentNone
    <3> QED BY <2>1, <3>4, <3>5, <3>8, <3>9 DEF InOrder
  <2>6. OrderlyAt(b)' BY <2>1, <2>4, <2>5 DEF Orderly, OrderlyAt
  <2> QED BY <2>3, <2>6, OnBox
<1> QED BY <1>3, <1>4

LEMMA ResumeOrderly ==
  ASSUME Held, Orderly, NEW p \in Task, SendResume(p) \/ RecvResume(p)
  PROVE  Orderly'
<1>1. /\ ~wild /\ cur = p /\ call[p].op \in Op
  BY DEF SendResume, RecvResume, Running, Op
<1>0. /\ call[p] # NoCall /\ call[p].box \in Box /\ call[p].slot \in Slot
      /\ call' = [call EXCEPT ![p] = NoCall] /\ Inside(p, call[p].box)
  BY <1>1, HeldFacts, CallFacts DEF SendResume, RecvResume, InCall
<1>B. PICK b \in Box, slot \in Slot : b = call[p].box /\ slot = call[p].slot BY <1>0
<1>2. call[p] # NoCall /\ call' = [call EXCEPT ![p] = NoCall] /\ Inside(p, b) BY <1>0, <1>B
<1>3. used[b] /\ status[p] # "BLOCKED"
  BY <1>1, <1>2, PlaceOutside, StatusNames DEF Held, CallsAgree
<1>4. \A c \in Box \ {b} : \A t \in Task :
        (Inside(t, c)' <=> Inside(t, c)) /\ (Inside(t, c) => call'[t] = call[t])
  BY <1>2, CallElsewhere
<1>5. \A t \in Task : call'[t] = IF t = p THEN NoCall ELSE call[t] BY <1>2, HeldFacts
<1>6. CASE SendResume(p)
  <2>1. /\ Deliver(p, b, slot, value) /\ call[p].op = "send"
        /\ UNCHANGED <<used, wrong, overlap>>
    BY <1>6, <1>B DEF SendResume
  <2>2. \A c \in Box \ {b} : buf'[c] = buf[c] /\ num'[c] = num[c] /\ unread'[c] = unread[c]
    BY <2>1, HeldFacts DEF Deliver, BoxesTyped
  <2>3. Elsewhere(b) BY <1>1, <1>4, <2>1, <2>2 DEF Elsewhere
  <2>4. overlap[b] BY <1>1, <1>2, <1>3, <2>1 DEF Orderly, OrderlyAt, InOrder
  <2>5. OrderlyAt(b)' BY <2>1, <2>4 DEF OrderlyAt
  <2> QED BY <1>2, <2>3, <2>5, OnBox
<1>7. CASE RecvResume(p)
  <2>1. Collect(b, slot, value) /\ UNCHANGED <<used, num, buf, wild, overlap>>
    BY <1>7, <1>B DEF RecvResume
  <2>2. slot = call[p].slot BY <1>B
  <2>3. Elsewhere(b) BY <1>2, <1>4, <2>1, CollectElsewhere DEF Elsewhere
  <2>4. ASSUME ~overlap[b] PROVE ~wrong'[b] /\ InOrder(b)'
    <3>1. InOrder(b) /\ ~wrong[b] BY <1>1, <1>2, <1>3, <2>4 DEF Orderly, OrderlyAt
    <3>2. slot = -1 BY <1>2, <2>2, <3>1 DEF InOrder
    <3>3. num[b] \in Int /\ num[b] >= 0 BY <1>1, <1>2, <1>3, <3>1, OrderFacts
    <3>4. Low(b) = -1 BY <1>2 DEF Low
    <3>5. \A t \in Task : ~Inside(t, b)' BY <1>2, <1>5, <3>1 DEF Inside, InOrder
    <3>6. Low(b)' = 0 BY <3>5 DEF Low
    <3>7. /\ -1 \in -1 .. num[b] - 1 /\ 0 .. num[b] - 1 = (-1 .. num[b] - 1) \ {-1}
          /\ -1 \in Int /\ 0 \in Int /\ num[b] - 1 \in Int
      BY <3>3
    <3>8. Content(buf[b], -1, num[b] - 1, unread[b]) /\ Collect(b, -1, value)
      BY <2>1, <3>1, <3>2, <3>4 DEF InOrder
    <3>9. wrong' = wrong /\ Content(buf[b], 0, num[b] - 1, unread'[b])
      BY <1>2, <3>1, <3>7, <3>8, CollectContent
    <3>10. Content(buf'[b], Low(b)', num'[b] - 1, unread'[b]) BY <2>1, <3>6, <3>9
    <3> QED BY <3>1, <3>5, <3>9, <3>10 DEF InOrder
  <2>5. OrderlyAt(b)' BY <2>1, <2>4 DEF OrderlyAt
  <2> QED BY <1>2, <2>3, <2>5, OnBox
<1> QED BY <1>6, <1>7

(* A step that touches no buffer and no call.                              *)
LEMMA StillOrderly ==
  ASSUME Orderly, UNCHANGED <<num, buf, wild, call, unread, wrong, overlap>>,
         \A b \in Box : used'[b] => used[b]
  PROVE  Orderly'
<1>1. \A t \in Task, b \in Box : (Inside(t, b)' <=> Inside(t, b)) /\ call'[t] = call[t]
  BY DEF Inside
<1>2. ASSUME NEW b \in Box PROVE OrderlyAt(b)' BY <1>1, OrderFrame DEF Orderly
<1> QED BY <1>2 DEF Orderly

LEMMA CreateOrderly ==
  ASSUME Held, Orderly, NEW n, NEW b \in Box, ~used[b], Create(b, n), call' = call
  PROVE  Orderly'
<1>1. InPlace /\ CallsAgree BY DEF Held
<1>2. /\ \A c \in Box \ {b} : used'[c] = used[c] /\ overlap'[c] = overlap[c] /\ wrong'[c] = wrong[c]
                              /\ num'[c] = num[c] /\ buf'[c] = buf[c] /\ unread'[c] = unread[c]
      /\ ~overlap'[b] /\ ~wrong'[b] /\ num'[b] = 0 /\ unread'[b] = NoMessages /\ wild' = wild
  BY HeldFacts DEF Create, BoxesTyped
<1>3. \A t \in Task, c \in Box : (Inside(t, c)' <=> Inside(t, c)) /\ call'[t] = call[t]
  BY DEF Inside
<1>4. Elsewhere(b) BY <1>2, <1>3 DEF Elsewhere
<1>5. \A t \in Task : ~Inside(t, b)' BY <1>1, <1>3, UnusedBox
<1>6. Low(b)' = 0 BY <1>5 DEF Low
<1>7. \A m \in Task : unread'[b][m] = 0 BY <1>2 DEF NoMessages
<1>8. num'[b] - 1 = -1 /\ -1 \in Int /\ 0 \in Int BY <1>2
<1>9. Content(buf'[b], 0, -1, unread'[b]) BY <1>7, <1>8, ContentNone
<1>10. InOrder(b)' BY <1>5, <1>6, <1>8, <1>9 DEF InOrder
<1>11. OrderlyAt(b)' BY <1>2, <1>10 DEF OrderlyAt
<1> QED BY <1>4, <1>11, OnBox

LEMMA StepOrderly == Held /\ Orderly /\ [Next]_vars => Orderly'
<1> SUFFICES ASSUME Held, Orderly, [Next]_vars PROVE Orderly' OBVIOUS
<1>1. ASSUME NEW p \in Task, Step(p) PROVE Orderly'
  <2>1. ASSUME NEW n \in Name, Open(p, n) PROVE Orderly'
    <3>1. call' = call BY <2>1 DEF Open
    <3>2. CASE UNCHANGED <<boxVars, wanted, unread, wrong, overlap, wq>>
      BY <3>1, <3>2, StillOrderly DEF boxVars
    <3>3. ASSUME NEW b \in Unused, Create(b, n) PROVE Orderly'
      BY <3>1, <3>3, CreateOrderly DEF Unused
    <3>4. CASE UNCHANGED <<boxVars, seen, wq>>
      BY <3>1, <3>4, StillOrderly DEF boxVars, seen
    <3> QED BY <2>1, <3>2, <3>3, <3>4 DEF Open
  <2>2. ASSUME NEW b \in Box, Close(p, b) PROVE Orderly'
    <3>1. \A c \in Box : used'[c] => used[c] BY <2>2, HeldFacts DEF Close, BoxesTyped
    <3> QED BY <2>2, <3>1, StillOrderly DEF Close
  <2>3. ASSUME NEW b \in Box, SendNow(p, b) \/ SendWait(p, b) PROVE Orderly' BY <2>3, SendOrderly
  <2>4. ASSUME NEW b \in Box, RecvNow(p, b) \/ RecvWait(p, b) PROVE Orderly' BY <2>4, RecvOrderly
  <2>5. CASE SendResume(p) \/ RecvResume(p) BY <2>5, ResumeOrderly
  <2>6. CASE Yield(p) BY <2>6, StillOrderly DEF Yield, boxVars, seen
  <2> QED BY <1>1, <2>1, <2>2, <2>3, <2>4, <2>5, <2>6 DEF Step
<1>2. CASE Tick \/ Stuck \/ UNCHANGED vars
  BY <1>2, StillOrderly DEF Tick, Stuck, vars, boxVars, seen
<1> QED BY <1>1, <1>2 DEF Next

(* A receiver gets what was sent to its box and what nobody has received,  *)
(* as long as no sender has waited for room and no receiver has waited     *)
(* beside another: whatever the number of programs, messages and boxes.    *)
THEOREM ReceivedOnce == Spec => []DeliveredAlone
<1>1. Init => Orderly
  <2> SUFFICES ASSUME Init, NEW b \in Box PROVE OrderlyAt(b) BY DEF Orderly
  <2> QED BY DEF Init, OrderlyAt
<1>2. Orderly => DeliveredAlone BY DEF Orderly, OrderlyAt, DeliveredAlone
<1> QED BY <1>1, <1>2, StepOrderly, AlwaysHeld, PTL DEF Spec
=============================================================================
