------------------------ MODULE PagingPriorityProofs ------------------------
(***************************************************************************)
(* What Paging is proved to guarantee for any number of frames, processes, *)
(* pages and contents, and Priority for any number of tasks, any sleeps    *)
(* and any rounds. The two are programs of different projects that share   *)
(* nothing but the queues, whose lemmas come first.                        *)
(***************************************************************************)
EXTENDS Paging, Priority, SequenceTheorems, FiniteSetTheorems, TLAPS

(* The lemmas about queues, which are about no kernel in particular.       *)
QueueFacts == INSTANCE SchedProofs WITH
  Task <- {}, Obj <- {}, NULL <- 0, status <- 0, type <- 0, left <- 0, waitIn <- 0,
  ready <- 0, sleepq <- 0, wq <- 0, cur <- 0, mode <- 0

(* queue_init()                                                            *)
LEMMA EmptyQueue == ToSet(<<>>) = {} /\ IsInjective(<<>>)
BY QueueFacts!EmptyQueue DEF QueueFacts!ToSet, ToSet, QueueFacts!IsInjective, IsInjective

(* Only elements of T are in a queue over T.                               *)
LEMMA SetOfSeq ==
  ASSUME NEW T, NEW s \in Seq(T)
  PROVE  ToSet(s) \subseteq T
BY QueueFacts!SetOfSeq DEF QueueFacts!ToSet, ToSet

(* The search that do_kill() makes for a node.                             *)
LEMMA ContainsQueue ==
  ASSUME NEW T, NEW s \in Seq(T), NEW x
  PROVE  Contains(s, x) <=> x \in ToSet(s)
BY QueueFacts!ContainsQueue DEF QueueFacts!Contains, Contains, QueueFacts!ToSet, ToSet

(* enqueue()                                                               *)
LEMMA AppendQueue ==
  ASSUME NEW T, NEW s \in Seq(T), NEW x \in T
  PROVE  /\ Append(s, x) \in Seq(T)
         /\ ToSet(Append(s, x)) = ToSet(s) \cup {x}
         /\ IsInjective(s) /\ x \notin ToSet(s) => IsInjective(Append(s, x))
BY QueueFacts!AppendQueue DEF QueueFacts!ToSet, ToSet, QueueFacts!IsInjective, IsInjective

(* Every element of one queue after those of another.                      *)
LEMMA ConcatQueue ==
  ASSUME NEW T, NEW r \in Seq(T), NEW s \in Seq(T)
  PROVE  /\ r \o s \in Seq(T)
         /\ ToSet(r \o s) = ToSet(r) \cup ToSet(s)
         /\ IsInjective(r) /\ IsInjective(s) /\ ToSet(r) \cap ToSet(s) = {} => IsInjective(r \o s)
BY QueueFacts!ConcatQueue DEF QueueFacts!ToSet, ToSet, QueueFacts!IsInjective, IsInjective

(* The first k elements of a queue, and the others.                        *)
LEMMA SplitQueue ==
  ASSUME NEW T, NEW s \in Seq(T), NEW k \in 0 .. Len(s)
  PROVE  LET a == SubSeq(s, 1, k)
             b == SubSeq(s, k + 1, Len(s))
         IN  /\ a \in Seq(T) /\ b \in Seq(T)
             /\ ToSet(a) \cup ToSet(b) = ToSet(s)
             /\ IsInjective(s) => /\ IsInjective(a) /\ IsInjective(b)
                                  /\ ToSet(a) \cap ToSet(b) = {}
BY QueueFacts!SplitQueue DEF QueueFacts!ToSet, ToSet, QueueFacts!IsInjective, IsInjective

(* The task at the head leaves its queue.                                  *)
LEMMA TailQueue ==
  ASSUME NEW T, NEW s \in Seq(T), s # <<>>
  PROVE  /\ Head(s) \in T /\ Tail(s) \in Seq(T)
         /\ Head(s) \in ToSet(s)
         /\ ToSet(s) = ToSet(Tail(s)) \cup {Head(s)}
         /\ IsInjective(s) => /\ IsInjective(Tail(s))
                              /\ ToSet(Tail(s)) = ToSet(s) \ {Head(s)}
BY QueueFacts!TailQueue DEF QueueFacts!ToSet, ToSet, QueueFacts!IsInjective, IsInjective

(* The task at position i leaves its queue.                                *)
LEMMA RemoveAtQueue ==
  ASSUME NEW T, NEW s \in Seq(T), NEW i \in 1 .. Len(s)
  PROVE  /\ RemoveAt(s, i) \in Seq(T)
         /\ ToSet(RemoveAt(s, i)) \subseteq ToSet(s)
         /\ IsInjective(s) => /\ IsInjective(RemoveAt(s, i))
                              /\ ToSet(RemoveAt(s, i)) = ToSet(s) \ {s[i]}
BY QueueFacts!RemoveAtQueue
   DEF QueueFacts!ToSet, ToSet, QueueFacts!IsInjective, IsInjective, QueueFacts!RemoveAt, RemoveAt

(* The two parts that a queue has around position i.                       *)
LEMMA PartsOf ==
  ASSUME NEW T, NEW s \in Seq(T), NEW i \in 1 .. Len(s) + 1
  PROVE  LET a == SubSeq(s, 1, i - 1)
             b == SubSeq(s, i, Len(s))
         IN  /\ a \in Seq(T) /\ Len(a) = i - 1 /\ \A j \in 1 .. i - 1 : a[j] = s[j]
             /\ b \in Seq(T) /\ Len(b) = Len(s) - i + 1
             /\ \A j \in 1 .. Len(s) - i + 1 : b[j] = s[i + j - 1]
<1> DEFINE a == SubSeq(s, 1, i - 1)
           b == SubSeq(s, i, Len(s))
<1>1. Len(s) \in Nat /\ i \in Int /\ i - 1 \in Int BY LenProperties
<1>2. \A j \in 1 .. i - 1 : s[j] \in T BY <1>1, ElementOfSeq
<1>3. \A j \in i .. Len(s) : s[j] \in T BY <1>1, ElementOfSeq
<1>4. /\ a \in Seq(T) /\ Len(a) = IF 1 <= i - 1 THEN (i - 1) - 1 + 1 ELSE 0
      /\ \A j \in 1 .. (i - 1) - 1 + 1 : a[j] = s[1 + j - 1]
  BY <1>1, <1>2, SubSeqProperties
<1>5. /\ b \in Seq(T) /\ Len(b) = IF i <= Len(s) THEN Len(s) - i + 1 ELSE 0
      /\ \A j \in 1 .. Len(s) - i + 1 : b[j] = s[i + j - 1]
  BY <1>1, <1>3, SubSeqProperties
<1> HIDE DEF a, b
<1>6. Len(a) = i - 1 /\ Len(b) = Len(s) - i + 1 BY <1>1, <1>4, <1>5
<1>7. \A j \in 1 .. i - 1 : a[j] = s[j]
  <2> SUFFICES ASSUME NEW j \in 1 .. i - 1 PROVE a[j] = s[j] OBVIOUS
  <2>1. j \in 1 .. (i - 1) - 1 + 1 /\ 1 + j - 1 = j BY <1>1
  <2> QED BY <1>4, <2>1
<1> QED BY <1>4, <1>5, <1>6, <1>7 DEF a, b

(* Those behind the one that left move up.                                 *)
LEMMA RemovedAt ==
  ASSUME NEW T, NEW s \in Seq(T), NEW i \in 1 .. Len(s)
  PROVE  /\ Len(RemoveAt(s, i)) = Len(s) - 1
         /\ \A j \in 1 .. Len(s) - 1 : RemoveAt(s, i)[j] = IF j < i THEN s[j] ELSE s[j + 1]
<1> DEFINE a == SubSeq(s, 1, i - 1)
           c == SubSeq(s, i + 1, Len(s))
<1>1. Len(s) \in Nat /\ i \in 1 .. Len(s) + 1 /\ i + 1 \in 1 .. Len(s) + 1 BY LenProperties
<1>2. a \in Seq(T) /\ Len(a) = i - 1 /\ \A j \in 1 .. i - 1 : a[j] = s[j]
  BY <1>1, PartsOf
<1>3. /\ c \in Seq(T) /\ Len(c) = Len(s) - (i + 1) + 1
      /\ \A j \in 1 .. Len(s) - (i + 1) + 1 : c[j] = s[(i + 1) + j - 1]
  BY <1>1, PartsOf
<1>4. RemoveAt(s, i) = a \o c BY DEF RemoveAt
<1> HIDE DEF a, c
<1>5. /\ Len(a \o c) = Len(a) + Len(c)
      /\ \A j \in 1 .. Len(a) + Len(c) : (a \o c)[j] = IF j <= Len(a) THEN a[j] ELSE c[j - Len(a)]
  BY <1>2, <1>3, ConcatProperties
<1>6. Len(a) + Len(c) = Len(s) - 1 BY <1>1, <1>2, <1>3
<1>7. ASSUME NEW j \in 1 .. Len(s) - 1
      PROVE  (a \o c)[j] = IF j < i THEN s[j] ELSE s[j + 1]
  <2>1. CASE j < i BY <1>1, <1>2, <1>5, <1>6, <2>1
  <2>2. CASE ~(j < i)
    <3>1. j - (i - 1) \in 1 .. Len(s) - (i + 1) + 1 /\ (i + 1) + (j - (i - 1)) - 1 = j + 1
      BY <1>1, <2>2
    <3>2. (a \o c)[j] = c[j - (i - 1)]
      <4>1. Len(a) = i - 1 /\ j \in 1 .. Len(a) + Len(c) BY <1>2, <1>6
      <4>2. ~(j <= Len(a)) BY <1>1, <2>2, <4>1
      <4>3. (a \o c)[j] = c[j - Len(a)] BY <1>5, <4>1, <4>2
      <4> QED BY <4>1, <4>3
    <3> QED BY <1>3, <2>2, <3>1, <3>2
  <2> QED BY <2>1, <2>2
<1> QED BY <1>4, <1>5, <1>6, <1>7

(* A task takes position i, and those from there on move back.             *)
LEMMA InsertedAt ==
  ASSUME NEW T, NEW s \in Seq(T), NEW i \in 1 .. Len(s) + 1, NEW x \in T
  PROVE  LET r == InsertAt(s, i, x)
         IN  /\ r \in Seq(T) /\ Len(r) = Len(s) + 1
             /\ \A j \in 1 .. Len(s) + 1 :
                  r[j] = IF j < i THEN s[j] ELSE IF j = i THEN x ELSE s[j - 1]
             /\ ToSet(r) = ToSet(s) \cup {x}
             /\ IsInjective(s) /\ x \notin ToSet(s) => IsInjective(r)
<1> DEFINE a == SubSeq(s, 1, i - 1)
           b == SubSeq(s, i, Len(s))
           ax == Append(a, x)
           r == InsertAt(s, i, x)
<1>1. Len(s) \in Nat /\ i \in Int BY LenProperties
<1>2. /\ a \in Seq(T) /\ Len(a) = i - 1 /\ \A j \in 1 .. i - 1 : a[j] = s[j]
      /\ b \in Seq(T) /\ Len(b) = Len(s) - i + 1
      /\ \A j \in 1 .. Len(s) - i + 1 : b[j] = s[i + j - 1]
  BY PartsOf
<1>3. r = (a \o <<x>>) \o b BY DEF InsertAt
<1> HIDE DEF a, b, r
<1>4. <<x>> \in Seq(T) /\ Len(<<x>>) = 1 /\ <<x>>[1] = x OBVIOUS
<1> DEFINE c == a \o <<x>>
<1>5. c \in Seq(T) /\ Len(c) = i /\ \A j \in 1 .. i : c[j] = IF j <= i - 1 THEN s[j] ELSE x
  <2>1. /\ c \in Seq(T) /\ Len(c) = Len(a) + 1
        /\ \A j \in 1 .. Len(a) + 1 : c[j] = IF j <= Len(a) THEN a[j] ELSE <<x>>[j - Len(a)]
    BY <1>2, <1>4, ConcatProperties
  <2> HIDE DEF c
  <2>2. Len(a) + 1 = i BY <1>1, <1>2
  <2>3. \A j \in 1 .. i : ~(j <= i - 1) => j - (i - 1) = 1 BY <1>1
  <2>4. \A j \in 1 .. i : j <= i - 1 => j \in 1 .. i - 1 BY <1>1
  <2> QED BY <1>2, <1>4, <2>1, <2>2, <2>3, <2>4
<1> HIDE DEF c
<1>6. /\ r \in Seq(T) /\ Len(r) = Len(c) + Len(b)
      /\ \A j \in 1 .. Len(c) + Len(b) : r[j] = IF j <= Len(c) THEN c[j] ELSE b[j - Len(c)]
  <2>1. r = c \o b BY <1>3 DEF c
  <2>2. c \in Seq(T) /\ b \in Seq(T) BY <1>2, <1>5
  <2> QED BY <2>1, <2>2, ConcatProperties
<1>7. Len(c) + Len(b) = Len(s) + 1 BY <1>1, <1>2, <1>5
<1>8. ASSUME NEW j \in 1 .. Len(s) + 1
      PROVE  r[j] = IF j < i THEN s[j] ELSE IF j = i THEN x ELSE s[j - 1]
  <2>1. CASE j <= i
    <3>1. j \in 1 .. i /\ (j <= i - 1 <=> j < i) BY <1>1, <2>1
    <3>2. r[j] = c[j] BY <1>5, <1>6, <1>7, <2>1
    <3> QED BY <1>1, <1>5, <2>1, <3>1, <3>2
  <2>2. CASE ~(j <= i)
    <3>1. j - i \in 1 .. Len(s) - i + 1 /\ i + (j - i) - 1 = j - 1 /\ ~(j < i) /\ j # i
      BY <1>1, <2>2
    <3>2. r[j] = b[j - i] BY <1>5, <1>6, <1>7, <2>2
    <3>3. b[j - i] = s[i + (j - i) - 1] BY <1>2, <3>1
    <3> QED BY <3>1, <3>2, <3>3
  <2> QED BY <2>1, <2>2
<1>9. DOMAIN r = 1 .. Len(s) + 1 /\ DOMAIN s = 1 .. Len(s)
  <2>1. Len(r) = Len(s) + 1 BY <1>6, <1>7
  <2>2. DOMAIN r = 1 .. Len(r) BY <1>6, LenProperties
  <2> QED BY <2>1, <2>2, LenProperties
<1>10. ToSet(r) = ToSet(s) \cup {x}
  <2>1. ASSUME NEW j \in 1 .. Len(s) + 1 PROVE r[j] \in ToSet(s) \cup {x}
    <3>1. j < i => j \in 1 .. Len(s) BY <1>1
    <3>2. ~(j < i) /\ j # i => j - 1 \in 1 .. Len(s) BY <1>1
    <3>3. \A k \in 1 .. Len(s) : s[k] \in ToSet(s) BY <1>9 DEF ToSet
    <3> QED BY <1>8, <3>1, <3>2, <3>3
  <2>2. x \in ToSet(r)
    <3>1. i \in 1 .. Len(s) + 1 /\ ~(i < i) BY <1>1
    <3>2. r[i] = x BY <1>8, <3>1
    <3> QED BY <1>9, <3>2 DEF ToSet
  <2>3. ASSUME NEW k \in 1 .. Len(s) PROVE s[k] \in ToSet(r)
    <3>1. CASE k < i
      <4>1. k \in 1 .. Len(s) + 1 BY <1>1
      <4>2. r[k] = s[k] BY <1>8, <3>1, <4>1
      <4> QED BY <1>9, <4>1, <4>2 DEF ToSet
    <3>2. CASE ~(k < i)
      <4>1. k + 1 \in 1 .. Len(s) + 1 /\ ~(k + 1 < i) /\ k + 1 # i /\ (k + 1) - 1 = k
        BY <1>1, <3>2
      <4>2. r[k + 1] = s[k] BY <1>8, <4>1
      <4> QED BY <1>9, <4>1, <4>2 DEF ToSet
    <3> QED BY <3>1, <3>2
  <2> QED BY <1>9, <2>1, <2>2, <2>3 DEF ToSet
<1>11. ASSUME IsInjective(s), x \notin ToSet(s) PROVE IsInjective(r)
  <2> SUFFICES ASSUME NEW j \in 1 .. Len(s) + 1, NEW k \in 1 .. Len(s) + 1, r[j] = r[k]
               PROVE  j = k
    BY <1>9 DEF IsInjective
  <2> DEFINE back(m) == IF m < i THEN m ELSE m - 1
  <2>1. \A m \in 1 .. Len(s) + 1 : m # i => back(m) \in 1 .. Len(s) /\ r[m] = s[back(m)]
    BY <1>1, <1>8
  <2>2. \A m \in 1 .. Len(s) : s[m] # x BY <1>9, <1>11 DEF ToSet
  <2>3. \A m \in 1 .. Len(s) + 1 : m = i => r[m] = x BY <1>1, <1>8
  <2>4. \A m, n \in 1 .. Len(s) : s[m] = s[n] => m = n BY <1>9, <1>11 DEF IsInjective
  <2>5. j # i /\ k # i => back(j) = back(k)
    <3> HIDE DEF back
    <3> QED BY <2>1, <2>4
  <2>6. j # i /\ k # i => j = k BY <1>1, <2>5
  <2>7. j = i <=> k = i
    <3> HIDE DEF back
    <3> QED BY <2>1, <2>2, <2>3
  <2> QED BY <2>6, <2>7
<1> QED BY <1>6, <1>7, <1>8, <1>10, <1>11 DEF r

-----------------------------------------------------------------------------
Halves == [Half -> HalfOf]

(* The entry of a page, and what the entry says of it.                     *)
Of(pg)     == <<pg[1], pg[2]>>
HalfAt(pg) == lo[Of(pg)][pg[3]]

Unpinned == {f \in ToSet(fifo) : ~pin[f]}

(* A frame that may be given away is noted for an entry, and holds a page. *)
Owned == \A f \in Unpinned : owner[f] \in Entry /\ content[f] \in Value

LEMMA PageFacts ==
  /\ \A pg \in Page : Of(pg) \in Entry /\ pg[3] \in Half /\ PageOf(Of(pg), pg[3]) = pg
  /\ \A e \in Entry, h \in Half :
       PageOf(e, h) \in Page /\ Of(PageOf(e, h)) = e /\ PageOf(e, h)[3] = h
  /\ Touched \subseteq Page
  /\ \A pg \in Touched : pg[1] \in Nat
<1>1. \A pg \in Touched : Of(pg) \in Entry /\ pg[3] \in Half /\ pg = PageOf(Of(pg), pg[3]) /\ pg[1] \in Nat
  BY PagingAssumption DEF Entry, Of, PageOf
<1>2. \A e \in Entry : e = <<e[1], e[2]>> BY DEF Entry
<1>3. \A e \in Entry, h \in Half :
        PageOf(e, h) \in Page /\ Of(PageOf(e, h)) = e /\ PageOf(e, h)[3] = h
  BY <1>2 DEF Page, PageOf, Of
<1>4. \A pg \in Page : Of(pg) \in Entry /\ pg[3] \in Half /\ PageOf(Of(pg), pg[3]) = pg
  <2> SUFFICES ASSUME NEW e \in Entry, NEW h \in Half
               PROVE  LET pg == <<e[1], e[2], h>> IN
                      Of(pg) \in Entry /\ pg[3] \in Half /\ PageOf(Of(pg), pg[3]) = pg
    BY DEF Page
  <2> QED BY <1>2 DEF PageOf, Of
<1> QED BY <1>1, <1>3, <1>4

(* page_alloc(): what it does to the list, whichever frame it finds.       *)
LEMMA UnusedTaken ==
  ASSUME TypeOK, NEW f \in Frame, NEW pinned, NEW e, TakeUnused(f, pinned, e)
  PROVE  /\ fifo' \in Seq(Frame) /\ IsInjective(fifo')
         /\ f \notin ToSet(fifo) /\ ToSet(fifo') = ToSet(fifo) \cup {f}
         /\ pin' = [pin EXCEPT ![f] = pinned] /\ owner' = [owner EXCEPT ![f] = e]
<1>1. fifo \in Seq(Frame) /\ IsInjective(fifo) BY DEF TypeOK
<1>2. f \notin ToSet(fifo) BY <1>1, ContainsQueue DEF TakeUnused, InUse
<1> QED BY <1>1, <1>2, AppendQueue DEF TakeUnused

LEMMA UsedTaken ==
  ASSUME TypeOK, NEW f \in Frame, NEW pinned, NEW e, TakeUsed(f, pinned, e)
  PROVE  /\ fifo' \in Seq(Frame) /\ IsInjective(fifo')
         /\ ToSet(fifo) = Frame /\ ToSet(fifo') = Frame /\ ~pin[f]
         /\ pin' = [pin EXCEPT ![f] = pinned] /\ owner' = [owner EXCEPT ![f] = e]
<1>1. fifo \in Seq(Frame) /\ IsInjective(fifo) BY DEF TypeOK
<1>2. ToSet(fifo) = Frame
  <2>1. \A g \in Frame : g \in ToSet(fifo) BY <1>1, ContainsQueue DEF TakeUsed, InUse
  <2> QED BY <1>1, <2>1, SetOfSeq
<1>3. DOMAIN fifo = 1 .. Len(fifo) /\ Len(fifo) \in Nat BY <1>1, LenProperties
<1>4. PICK i \in 1 .. Len(fifo) :
        /\ fifo[i] = f /\ ~pin[f]
        /\ fifo' = SubSeq(fifo, i + 1, Len(fifo)) \o SubSeq(fifo, 1, i)
  BY <1>3 DEF TakeUsed
<1> DEFINE a == SubSeq(fifo, 1, i)
           b == SubSeq(fifo, i + 1, Len(fifo))
<1>5. i \in 0 .. Len(fifo) BY <1>3
<1>6. /\ a \in Seq(Frame) /\ b \in Seq(Frame) /\ ToSet(a) \cup ToSet(b) = ToSet(fifo)
      /\ IsInjective(a) /\ IsInjective(b) /\ ToSet(a) \cap ToSet(b) = {}
  BY <1>1, <1>5, SplitQueue
<1>7. fifo' = b \o a BY <1>4
<1> HIDE DEF a, b
<1>8. /\ b \o a \in Seq(Frame) /\ ToSet(b \o a) = ToSet(b) \cup ToSet(a)
      /\ IsInjective(b) /\ IsInjective(a) /\ ToSet(b) \cap ToSet(a) = {} => IsInjective(b \o a)
  BY <1>6, ConcatQueue
<1>9. fifo' \in Seq(Frame) /\ IsInjective(fifo') /\ ToSet(fifo') = ToSet(fifo)
  BY <1>6, <1>7, <1>8
<1> QED BY <1>2, <1>4, <1>9 DEF TakeUsed

LEMMA RefilledEntries ==
  ASSUME NEW t \in [Entry -> Halves \cup {NULL}], NEW e \in Entry, NEW x \in Halves,
         NEW u \in Refilled(t, e, x)
  PROVE  /\ u \in [Entry -> Halves \cup {NULL}] /\ u[e] = x
         /\ \A d \in Entry : d # e => u[d] \in {t[d], NULL}
BY DEF Refilled

(* What a swap-out leaves, or no swap-out.                                 *)
Typed(s) ==
  s.lo \in [Entry -> Halves] /\ s.tlb \in [Entry -> Halves \cup {NULL}] /\ s.disk \in [Page -> Value]

(* The swap-out of a page that is there.                                   *)
LEMMA SwappedOut ==
  ASSUME TypeOK, NEW f \in Frame, owner[f] \in Entry, content[f] \in Value
  PROVE  /\ EvictedHalf(f) \in Half
         /\ Typed(SwapOut(f))
<1>1. EvictedHalf(f) \in Half BY DEF EvictedHalf, Half
<1>2. lo \in [Entry -> Halves] /\ tlb \in [Entry -> Halves \cup {NULL}] /\ disk \in [Page -> Value]
  BY DEF TypeOK, Halves
<1>3. SwapOut(f).lo \in [Entry -> Halves]
  <2>1. lo[owner[f]][EvictedHalf(f)] \in HalfOf BY <1>1, <1>2 DEF Halves
  <2>2. [lo[owner[f]][EvictedHalf(f)] EXCEPT !.valid = FALSE] \in HalfOf BY <2>1 DEF HalfOf
  <2>3. [lo[owner[f]] EXCEPT ![EvictedHalf(f)].valid = FALSE] \in Halves BY <1>1, <1>2, <2>2 DEF Halves
  <2>4. SwapOut(f).lo = [lo EXCEPT ![owner[f]] = [lo[owner[f]] EXCEPT ![EvictedHalf(f)].valid = FALSE]]
    BY DEF SwapOut
  <2> QED BY <1>2, <2>3, <2>4
<1>4. SwapOut(f).tlb \in [Entry -> Halves \cup {NULL}] BY <1>2 DEF SwapOut
<1>5. SwapOut(f).disk \in [Page -> Value]
  <2>1. PageOf(owner[f], EvictedHalf(f)) \in Page BY <1>1, PageFacts
  <2> QED BY <1>2, <2>1 DEF SwapOut
<1> QED BY <1>1, <1>3, <1>4, <1>5 DEF Typed

(* The page-in, in terms of what has been left.                            *)
Arrived(f, e, h, s) ==
  /\ content' = [content EXCEPT ![f] = s.disk[PageOf(e, h)]]
  /\ s.disk[PageOf(e, h)] \in Value /\ disk' = s.disk
  /\ lo' = [s.lo EXCEPT ![e] = lo'[e]] /\ lo' \in [Entry -> Halves]
  /\ lo'[e] = [s.lo[e] EXCEPT ![h] = [pfn |-> s.lo[e][h].pfn \cup Pfn(f), valid |-> TRUE]]
  /\ tlb' \in [Entry -> Halves \cup {NULL}] /\ tlb'[e] = lo'[e]
  /\ \A d \in Entry : d # e => tlb'[d] \in {s.tlb[d], NULL}

LEMMA PagedIn ==
  ASSUME NEW f \in Frame, NEW e \in Entry, NEW h \in Half, NEW s,
         Typed(s), PageIn(f, e, h, s)
  PROVE  Arrived(f, e, h, s)
<1> USE DEF Typed
<1> DEFINE new == [pfn |-> s.lo[e][h].pfn \cup Pfn(f), valid |-> TRUE]
           entry == [s.lo[e] EXCEPT ![h] = new]
<1>1. content' = [content EXCEPT ![f] = s.disk[PageOf(e, h)]] /\ disk' = s.disk
  BY DEF PageIn
<1>2. s.disk[PageOf(e, h)] \in Value BY PageFacts
<1>3. entry \in Halves
  <2>1. s.lo[e] \in Halves /\ s.lo[e][h] \in HalfOf BY DEF Halves
  <2>2. Pfn(f) \subseteq PfnBit BY DEF Pfn, Bits
  <2>3. new \in HalfOf BY <2>1, <2>2 DEF HalfOf
  <2> HIDE DEF new
  <2> QED BY <2>1, <2>3 DEF Halves
<1>4. lo' = [s.lo EXCEPT ![e] = entry] /\ tlb' \in Refilled(s.tlb, e, entry)
  BY DEF PageIn
<1> HIDE DEF entry
<1>5. lo'[e] = entry /\ lo' \in [Entry -> Halves] BY <1>3, <1>4
<1>6. /\ tlb' \in [Entry -> Halves \cup {NULL}] /\ tlb'[e] = entry
      /\ \A d \in Entry : d # e => tlb'[d] \in {s.tlb[d], NULL}
  BY <1>3, <1>4, RefilledEntries
<1>7. lo'[e] = [s.lo[e] EXCEPT ![h] = new] BY <1>5 DEF entry
<1> QED BY <1>1, <1>2, <1>4, <1>5, <1>6, <1>7 DEF Arrived

LEMMA KeptTyped ==
  ASSUME TypeOK
  PROVE  Kept.lo = lo /\ Kept.tlb = tlb /\ Kept.disk = disk /\ Typed(Kept)
BY DEF TypeOK, Kept, Halves, Typed

(* A page comes in, to a frame that page_alloc() has found.                *)
LEMMA FaultTyped ==
  ASSUME TypeOK, Owned, NEW f \in Frame, NEW e \in Entry, NEW h \in Half, NEW s,
         Typed(s), PageIn(f, e, h, s),
         fifo' \in Seq(Frame), IsInjective(fifo'), ToSet(fifo') = ToSet(fifo) \cup {f},
         pin' = [pin EXCEPT ![f] = FALSE], owner' = [owner EXCEPT ![f] = e],
         UNCHANGED <<numProcs, booted, hung, last>>
  PROVE  TypeOK' /\ Owned'
<1>0. Arrived(f, e, h, s) BY PagedIn
<1>1. /\ content' = [content EXCEPT ![f] = s.disk[PageOf(e, h)]] /\ s.disk[PageOf(e, h)] \in Value
      /\ disk' = s.disk /\ lo' \in [Entry -> Halves] /\ tlb' \in [Entry -> Halves \cup {NULL}]
  BY <1>0 DEF Arrived
<1>2. TypeOK'
  <2>1. /\ pin' \in [Frame -> BOOLEAN] /\ owner' \in [Frame -> Entry \cup {NULL}]
        /\ content' \in [Frame -> Value \cup {NULL}]
    BY <1>1 DEF TypeOK
  <2>2. /\ numProcs' \in ProcCounts /\ booted' \in 0 .. numProcs' /\ hung' \in BOOLEAN
        /\ last' \in {<<>>} \cup ({"read", "write"} \X Page \X (Value \cup {NULL}))
    BY DEF TypeOK
  <2>3. disk' \in [Page -> Value] BY <1>1 DEF Typed
  <2> QED BY <1>1, <2>1, <2>2, <2>3 DEF TypeOK, Halves
<1>3. Owned'
  <2> SUFFICES ASSUME NEW g \in ToSet(fifo'), ~pin'[g] PROVE owner'[g] \in Entry /\ content'[g] \in Value
    BY DEF Owned, Unpinned
  <2>1. g \in Frame BY SetOfSeq
  <2>2. CASE g = f BY <1>1, <2>1, <2>2 DEF TypeOK
  <2>3. CASE g # f
    <3>1. g \in Unpinned BY <2>1, <2>3 DEF Unpinned, TypeOK
    <3> QED BY <1>1, <2>1, <2>3, <3>1 DEF Owned, TypeOK
  <2> QED BY <2>2, <2>3
<1> QED BY <1>2, <1>3

LEMMA StepTyped == TypeOK /\ Owned /\ [Next]_vars => TypeOK' /\ Owned'
<1> SUFFICES ASSUME TypeOK, Owned, [Next]_vars PROVE TypeOK' /\ Owned'
  OBVIOUS
<1>0. ASSUME UNCHANGED vars PROVE TypeOK' /\ Owned'
  BY <1>0 DEF vars, mapVars, TypeOK, Owned, Unpinned
<1>1. CASE SetupPageTable
  <2>1. CASE UNCHANGED mapVars /\ hung' = TRUE /\ booted' = booted
    BY <1>1, <2>1 DEF SetupPageTable, mapVars, TypeOK, Owned, Unpinned
  <2>2. ASSUME NEW f \in Frame, TakeUnused(f, TRUE, NULL), booted' = booted + 1, UNCHANGED hung
        PROVE  TypeOK' /\ Owned'
    <3>1. /\ fifo' \in Seq(Frame) /\ IsInjective(fifo')
          /\ f \notin ToSet(fifo) /\ ToSet(fifo') = ToSet(fifo) \cup {f}
          /\ pin' = [pin EXCEPT ![f] = TRUE] /\ owner' = [owner EXCEPT ![f] = NULL]
      BY <2>2, UnusedTaken
    <3>2. pin' \in [Frame -> BOOLEAN] /\ owner' \in [Frame -> Entry \cup {NULL}]
      BY <3>1 DEF TypeOK
    <3>3. numProcs' \in ProcCounts /\ booted' \in 0 .. numProcs'
      <4>1. numProcs \in Nat BY PagingAssumption DEF TypeOK
      <4> QED BY <1>1, <2>2, <4>1 DEF SetupPageTable, TypeOK
    <3>4. TypeOK' BY <1>1, <2>2, <3>1, <3>2, <3>3 DEF SetupPageTable, TypeOK
    <3>5. Owned'
      <4> SUFFICES ASSUME NEW g \in ToSet(fifo'), ~pin'[g] PROVE owner'[g] \in Entry /\ content'[g] \in Value
        BY DEF Owned, Unpinned
      <4>1. g \in Frame BY <3>1, SetOfSeq
      <4>2. g # f BY <3>1, <4>1 DEF TypeOK
      <4>3. g \in Unpinned BY <3>1, <4>1, <4>2 DEF Unpinned, TypeOK
      <4> QED BY <1>1, <3>1, <4>1, <4>2, <4>3 DEF SetupPageTable, Owned, TypeOK
    <3> QED BY <3>4, <3>5
  <2> QED BY <1>1, <2>1, <2>2 DEF SetupPageTable
<1>2. ASSUME NEW pg \in Touched, Access(Of(pg), pg[3]) PROVE TypeOK' /\ Owned'
  <2> DEFINE e == Of(pg)
             h == pg[3]
  <2>0. e \in Entry /\ h \in Half BY PageFacts
  <2> HIDE DEF e, h
  <2>1. CASE TlbMiss(e, h) /\ PageFault(e, h)
    <3>0. UNCHANGED <<numProcs, booted, last>> BY <2>1 DEF TlbMiss
    <3>1. CASE hung' = TRUE /\ UNCHANGED <<mapVars, lo, tlb, content, disk>>
      BY <3>0, <3>1 DEF mapVars, TypeOK, Owned, Unpinned
    <3>2. ASSUME NEW f \in Frame, TakeUnused(f, FALSE, e), PageIn(f, e, h, Kept), UNCHANGED hung
          PROVE  TypeOK' /\ Owned'
      BY <2>0, <3>0, <3>2, KeptTyped, UnusedTaken, FaultTyped
    <3>3. ASSUME NEW f \in Frame, TakeUsed(f, FALSE, e), PageIn(f, e, h, SwapOut(f)), UNCHANGED hung
          PROVE  TypeOK' /\ Owned'
      <4>1. /\ fifo' \in Seq(Frame) /\ IsInjective(fifo')
            /\ ToSet(fifo) = Frame /\ ToSet(fifo') = Frame /\ ~pin[f]
            /\ pin' = [pin EXCEPT ![f] = FALSE] /\ owner' = [owner EXCEPT ![f] = e]
        BY <3>3, UsedTaken
      <4>2. owner[f] \in Entry /\ content[f] \in Value BY <4>1 DEF Owned, Unpinned
      <4>3. ToSet(fifo') = ToSet(fifo) \cup {f} BY <4>1
      <4> QED BY <2>0, <3>0, <3>3, <4>1, <4>2, <4>3, SwappedOut, FaultTyped
    <3> QED BY <2>1, <3>1, <3>2, <3>3 DEF PageFault
  <2>2. CASE TlbMiss(e, h) /\ Refill(e, h)
    <3>1. lo[e] \in Halves /\ tlb \in [Entry -> Halves \cup {NULL}] BY <2>0 DEF TypeOK, Halves
    <3>2. tlb' \in [Entry -> Halves \cup {NULL}]
      BY <2>0, <2>2, <3>1, RefilledEntries DEF Refill
    <3> QED BY <2>2, <3>2 DEF TlbMiss, Refill, mapVars, TypeOK, Owned, Unpinned, Halves
  <2>3. CASE Load(e, h)
    <3>1. At(tlb[e][h].pfn) \in Value \cup {NULL} BY DEF At, TypeOK
    <3>2. last' \in {"read", "write"} \X Page \X (Value \cup {NULL})
      BY <2>0, <2>3, <3>1, PageFacts DEF Load
    <3> QED BY <2>3, <3>2 DEF Load, mapVars, TypeOK, Owned, Unpinned
  <2>4. ASSUME NEW v \in Value, Store(e, h, v) PROVE TypeOK' /\ Owned'
    <3>1. last' \in {"read", "write"} \X Page \X (Value \cup {NULL})
      BY <2>0, <2>4, PageFacts DEF Store
    <3>2. content' \in [Frame -> Value \cup {NULL}] BY <2>4 DEF Store, TypeOK
    <3>3. TypeOK' BY <2>4, <3>1, <3>2 DEF Store, mapVars, TypeOK
    <3>4. Owned'
      <4> SUFFICES ASSUME NEW g \in ToSet(fifo), ~pin[g] PROVE owner[g] \in Entry /\ content'[g] \in Value
        BY <2>4 DEF Owned, Unpinned, Store, mapVars
      <4>1. g \in Frame BY SetOfSeq DEF TypeOK
      <4> QED BY <2>4, <4>1 DEF Owned, Unpinned, Store
    <3> QED BY <3>3, <3>4
  <2> QED BY <1>2, <2>1, <2>2, <2>3, <2>4 DEF Access, TlbMiss, e, h
<1> QED BY <1>0, <1>1, <1>2 DEF Next, Stuck, Of

(* Every variable keeps its type, and a frame that may be given away is    *)
(* noted for an entry and holds a page: page_alloc() never swaps out a     *)
(* frame of no owner.                                                      *)
THEOREM TypeCorrect == Spec => [](TypeOK /\ Owned)
<1>1. Init => TypeOK /\ Owned
  <2> SUFFICES ASSUME Init PROVE TypeOK /\ Owned
    OBVIOUS
  <2>1. NoFrame \in Halves BY DEF NoFrame, Halves, HalfOf
  <2>2. numProcs \in Nat BY PagingAssumption DEF Init
  <2>3. fifo \in Seq(Frame) /\ IsInjective(fifo) BY EmptyQueue, EmptySeq DEF Init
  <2>4. /\ numProcs \in ProcCounts /\ booted \in 0 .. numProcs /\ hung \in BOOLEAN
        /\ disk \in [Page -> Value]
        /\ last \in {<<>>} \cup ({"read", "write"} \X Page \X (Value \cup {NULL}))
    <3>1. booted \in 0 .. numProcs BY <2>2 DEF Init
    <3>2. disk \in [Page -> Value] BY PagingAssumption DEF Init
    <3> QED BY <3>1, <3>2 DEF Init
  <2>5. /\ lo \in [Entry -> Halves] /\ tlb \in [Entry -> Halves \cup {NULL}]
        /\ pin \in [Frame -> BOOLEAN] /\ owner \in [Frame -> Entry \cup {NULL}]
        /\ content \in [Frame -> Value \cup {NULL}]
    BY <2>1 DEF Init
  <2>6. TypeOK BY <2>3, <2>4, <2>5 DEF TypeOK, Halves
  <2>7. Owned BY EmptyQueue DEF Init, Owned, Unpinned
  <2> QED BY <2>6, <2>7
<1> QED BY <1>1, StepTyped, PTL DEF Spec

-----------------------------------------------------------------------------
LEMMA FaultAgrees ==
  ASSUME NEW f \in Frame, NEW e \in Entry, NEW h \in Half, NEW s, Typed(s), PageIn(f, e, h, s),
         \A d \in Entry : s.tlb[d] # NULL => s.tlb[d] = s.lo[d]
  PROVE  TlbAgrees'
<1>1. Arrived(f, e, h, s) BY PagedIn
<1>2. lo' = [s.lo EXCEPT ![e] = lo'[e]] /\ s.lo \in [Entry -> Halves] BY <1>1 DEF Arrived, Typed
<1>3. \A d \in Entry : d # e => lo'[d] = s.lo[d] BY <1>2
<1>4. tlb'[e] = lo'[e] /\ \A d \in Entry : d # e => tlb'[d] \in {s.tlb[d], NULL}
  BY <1>1 DEF Arrived
<1>5. \A d \in Entry : tlb'[d] # NULL => tlb'[d] = lo'[d] BY <1>3, <1>4
<1> QED BY <1>5 DEF TlbAgrees

LEMMA StepAgrees == TypeOK /\ Owned /\ TlbAgrees /\ [Next]_vars => TlbAgrees'
<1> SUFFICES ASSUME TypeOK, Owned, TlbAgrees, [Next]_vars PROVE TlbAgrees'
  OBVIOUS
<1>1. CASE UNCHANGED <<tlb, lo>> BY <1>1 DEF TlbAgrees
<1>2. ASSUME NEW pg \in Touched, TlbMiss(Of(pg), pg[3]) PROVE TlbAgrees'
  <2> DEFINE e == Of(pg)
             h == pg[3]
  <2>0. e \in Entry /\ h \in Half BY PageFacts
  <2>1. TlbMiss(e, h) BY <1>2
  <2> HIDE DEF e, h
  <2>2. ASSUME NEW f \in Frame, TakeUnused(f, FALSE, e), PageIn(f, e, h, Kept) PROVE TlbAgrees'
    <3>1. Kept.lo = lo /\ Kept.tlb = tlb /\ Typed(Kept) BY KeptTyped
    <3>2. \A d \in Entry : Kept.tlb[d] # NULL => Kept.tlb[d] = Kept.lo[d] BY <3>1 DEF TlbAgrees
    <3> QED BY <2>0, <2>2, <3>1, <3>2, FaultAgrees
  <2>3. ASSUME NEW f \in Frame, TakeUsed(f, FALSE, e), PageIn(f, e, h, SwapOut(f)) PROVE TlbAgrees'
    <3>1. f \in Unpinned BY <2>3, UsedTaken DEF Unpinned
    <3>2. owner[f] \in Entry /\ content[f] \in Value /\ Typed(SwapOut(f))
      BY <3>1, SwappedOut DEF Owned
    <3>3. \A d \in Entry : SwapOut(f).tlb[d] # NULL => SwapOut(f).tlb[d] = SwapOut(f).lo[d]
      <4>1. lo \in [Entry -> Halves] /\ tlb \in [Entry -> Halves \cup {NULL}] BY DEF TypeOK, Halves
      <4>2. SwapOut(f).tlb = [tlb EXCEPT ![owner[f]] = NULL] BY DEF SwapOut
      <4>3. \A d \in Entry : d # owner[f] => SwapOut(f).lo[d] = lo[d] BY <4>1 DEF SwapOut
      <4> QED BY <3>2, <4>1, <4>2, <4>3 DEF TlbAgrees
    <3> QED BY <2>0, <2>3, <3>2, <3>3, FaultAgrees
  <2>4. CASE Refill(e, h)
    <3>1. lo[e] \in Halves /\ tlb \in [Entry -> Halves \cup {NULL}] BY <2>0 DEF TypeOK, Halves
    <3>2. tlb'[e] = lo[e] /\ \A d \in Entry : d # e => tlb'[d] \in {tlb[d], NULL}
      BY <2>0, <2>4, <3>1, RefilledEntries DEF Refill
    <3>3. lo' = lo BY <2>4 DEF Refill
    <3>4. \A d \in Entry : tlb'[d] # NULL => tlb'[d] = lo'[d] BY <3>2, <3>3 DEF TlbAgrees
    <3> QED BY <3>4 DEF TlbAgrees
  <2>5. CASE PageFault(e, h) BY <1>1, <2>2, <2>3, <2>5 DEF PageFault
  <2> QED BY <2>1, <2>4, <2>5 DEF TlbMiss
<1>3. ASSUME NEW pg \in Touched, Access(Of(pg), pg[3]) PROVE TlbAgrees'
  <2>1. ASSUME Load(Of(pg), pg[3]) \/ \E v \in Value : Store(Of(pg), pg[3], v) PROVE UNCHANGED <<tlb, lo>>
    BY <2>1 DEF Load, Store
  <2> QED BY <1>1, <1>2, <1>3, <2>1 DEF Access
<1>4. CASE SetupPageTable \/ UNCHANGED vars
  BY <1>1, <1>4 DEF SetupPageTable, vars
<1> QED BY <1>3, <1>4 DEF Next, Stuck, Of

(* The TLB never knows better than the page table, however many pages of   *)
(* an entry a program uses and whatever frames come back to them: every    *)
(* swap-out flushes what it makes invalid, every fault and refill writes   *)
(* what the page table says.                                               *)
THEOREM TlbNeverStale == Spec => []TlbAgrees
<1>1. Init => TlbAgrees BY DEF Init, TlbAgrees
<1> QED BY <1>1, StepAgrees, TypeCorrect, PTL DEF Spec

-----------------------------------------------------------------------------
(***************************************************************************)
(* The kernel as built (Fits): what the frames and the entries say agrees. *)
(***************************************************************************)
Mapped(f) == [pfn |-> Pfn(f), valid |-> TRUE]
Pinned    == {f \in Frame : pin[f]}

(* Page tables are the pinned frames, and come first.                      *)
PinsOK == /\ Pinned \subseteq ToSet(fifo) /\ Cardinality(Pinned) = booted
          /\ booted < numProcs => Unpinned = {}

(* The page that is in a frame.                                            *)
Hosted(f, pg) == Of(pg) = owner[f] /\ HalfAt(pg) = Mapped(f)

Hosts  == \A f \in Unpinned : \E pg \in Touched : pg[1] <= numProcs /\ Hosted(f, pg)
Housed == \A pg \in Page : HalfAt(pg).valid => \E f \in Unpinned : Hosted(f, pg)

(* A page that is never used has no frame number.                          *)
Bare == \A pg \in Page \ Touched : HalfAt(pg) = NoFrame[0]

(* A page that has left its frame keeps its number: that of the only frame *)
(* there is for pages.                                                     *)
Stale == \A pg \in Page : HalfAt(pg).pfn # {} /\ ~HalfAt(pg).valid =>
           numProcs >= PageablePages - 1 /\ \E f \in Unpinned : HalfAt(pg).pfn = Pfn(f)

Sound == PinsOK /\ Hosts /\ Housed /\ Bare /\ Stale

LEMMA FrameFacts ==
  /\ IsFiniteSet(Frame) /\ Cardinality(Frame) = PageablePages
  /\ \A f, g \in Frame : Mapped(f) = Mapped(g) => f = g
  /\ \A f \in Frame : Pfn(f) # {}
<1>1. PageablePages \in Nat /\ PageablePages > 0 BY PagingAssumption
<1>2. IsFiniteSet(Frame) /\ Cardinality(Frame) = PageablePages
  <2>1. IsFiniteSet(0 .. PageablePages - 1)
        /\ Cardinality(0 .. PageablePages - 1)
             = IF 0 > PageablePages - 1 THEN 0 ELSE (PageablePages - 1) - 0 + 1
    BY <1>1, FS_Interval
  <2> QED BY <1>1, <2>1 DEF Frame
<1>3. \A f, g \in Frame : Mapped(f) = Mapped(g) => f = g
  <2> SUFFICES ASSUME NEW f \in Frame, NEW g \in Frame, Mapped(f) = Mapped(g) PROVE f = g
    OBVIOUS
  <2>1. Mapped(f).pfn = Mapped(g).pfn OBVIOUS
  <2>2. Pfn(f) = Pfn(g) BY <2>1 DEF Mapped
  <2> QED BY <2>2, FrameAssumption
<1> QED BY <1>2, <1>3, FrameAssumption

LEMMA PinnedFacts ==
  ASSUME TypeOK, PinsOK
  PROVE  /\ IsFiniteSet(Pinned) /\ Unpinned \subseteq Frame
         /\ booted = numProcs /\ numProcs >= PageablePages - 1 =>
              \A f, g \in Frame : ~pin[f] /\ ~pin[g] => f = g
<1>1. IsFiniteSet(Pinned) BY FrameFacts, FS_Subset DEF Pinned
<1>2. Unpinned \subseteq Frame BY SetOfSeq DEF Unpinned, TypeOK
<1>3. ASSUME booted = numProcs, numProcs >= PageablePages - 1,
             NEW f \in Frame, NEW g \in Frame, ~pin[f], ~pin[g], f # g
      PROVE  FALSE
  <2>1. IsFiniteSet(Frame \ {f}) /\ Cardinality(Frame \ {f}) = PageablePages - 1
    BY FrameFacts, FS_RemoveElement
  <2>2. /\ IsFiniteSet((Frame \ {f}) \ {g})
        /\ Cardinality((Frame \ {f}) \ {g}) = Cardinality(Frame \ {f}) - 1
    BY <1>3, <2>1, FS_RemoveElement
  <2>3. Pinned \subseteq (Frame \ {f}) \ {g} BY <1>3 DEF Pinned
  <2>4. Cardinality(Pinned) <= Cardinality((Frame \ {f}) \ {g}) BY <2>2, <2>3, FS_Subset
  <2>5. Cardinality(Pinned) = numProcs BY <1>3 DEF PinsOK
  <2>6. numProcs \in Nat /\ PageablePages \in Nat BY PagingAssumption DEF TypeOK
  <2> QED BY <1>3, <2>1, <2>2, <2>4, <2>5, <2>6
<1> QED BY <1>1, <1>2, <1>3

(* A page that is to come in finds every frame taken only if page tables   *)
(* have all but one.                                                       *)
LEMMA NoRoom ==
  ASSUME Fits, TypeOK, PinsOK, Hosts, booted = numProcs, ToSet(fifo) = Frame,
         NEW pg \in Touched, pg[1] <= numProcs, ~HalfAt(pg).valid
  PROVE  numProcs >= PageablePages - 1
<1> DEFINE S == {q \in Touched : q[1] <= numProcs}
           in[f \in Unpinned] == CHOOSE q \in S : Hosted(f, q)
<1>1. numProcs \in ProcCounts /\ numProcs \in Nat /\ PageablePages \in Nat
  BY PagingAssumption DEF TypeOK
<1>2. IsFiniteSet(S) BY PagingAssumption, FS_Subset
<1>3. IsFiniteSet(S \ {pg}) /\ Cardinality(S \ {pg}) = Cardinality(S) - 1 /\ Cardinality(S) \in Nat
  BY <1>2, FS_RemoveElement, FS_CardinalityType
<1>4. Unpinned = Frame \ Pinned BY DEF Unpinned, Pinned
<1>5. IsFiniteSet(Unpinned) /\ Cardinality(Unpinned) = PageablePages - numProcs
  <2>1. Pinned \cap Frame = Pinned BY DEF Pinned
  <2>2. IsFiniteSet(Frame \ Pinned)
        /\ Cardinality(Frame \ Pinned) = Cardinality(Frame) - Cardinality(Frame \cap Pinned)
    BY FrameFacts, PinnedFacts, FS_Difference
  <2>3. Frame \cap Pinned = Pinned BY <2>1
  <2>4. Cardinality(Pinned) = numProcs BY DEF PinsOK
  <2> QED BY <1>4, <2>2, <2>3, <2>4, FrameFacts
<1>6. \A f \in Unpinned : in[f] \in S /\ Hosted(f, in[f])
  BY DEF Hosts
<1> HIDE DEF in
<1>7. in \in Injection(Unpinned, S \ {pg})
  <2>1. \A f \in Unpinned : in[f] \in S \ {pg}
    <3>1. \A f \in Unpinned : HalfAt(in[f]) = Mapped(f) BY <1>6 DEF Hosted
    <3>2. \A f \in Unpinned : Mapped(f).valid BY DEF Mapped
    <3> QED BY <1>6, <3>1, <3>2
  <2>2. in \in [Unpinned -> S \ {pg}] BY <2>1 DEF in
  <2>3. \A f, g \in Unpinned : in[f] = in[g] => f = g
    BY <1>4, <1>6, FrameFacts DEF Hosted
  <2> QED BY <2>2, <2>3 DEF Injection, IsInjective
<1>8. Cardinality(Unpinned) <= Cardinality(S \ {pg}) BY <1>3, <1>5, <1>7, FS_Injection
<1>9. ~(numProcs + Cardinality(S) <= PageablePages) BY <1>1, <1>3, <1>5, <1>8
<1> QED BY <1>1, <1>9 DEF Fits

LEMMA LocatedAt ==
  ASSUME NEW q \in Page
  PROVE  /\ ~HalfAt(q).valid => Located(q) = disk[q]
         /\ \A f \in Frame : HalfAt(q) = Mapped(f) => Located(q) = content[f]
         /\ ~HalfAt(q).valid' => Located(q)' = disk'[q]
         /\ \A f \in Frame : HalfAt(q)' = Mapped(f) => Located(q)' = content'[f]
<1>1. ASSUME NEW f \in Frame PROVE At(Pfn(f)) = content[f] /\ At(Pfn(f))' = content'[f]
  <2>1. (CHOOSE g \in Frame : Pfn(g) = Pfn(f)) = f BY FrameAssumption
  <2> QED BY <2>1 DEF At
<1>2. /\ Located(q) = IF HalfAt(q).valid THEN At(HalfAt(q).pfn) ELSE disk[q]
      /\ Located(q)' = IF HalfAt(q).valid' THEN At(HalfAt(q).pfn)' ELSE disk'[q]
  BY DEF Located, HalfAt, Of
<1>3. \A f \in Frame : Mapped(f).valid /\ Mapped(f).pfn = Pfn(f) BY DEF Mapped
<1>4. ASSUME NEW f \in Frame, HalfAt(q) = Mapped(f) PROVE Located(q) = content[f]
  BY <1>1, <1>2, <1>3, <1>4
<1>5. ASSUME NEW f \in Frame, HalfAt(q)' = Mapped(f) PROVE Located(q)' = content'[f]
  <2>1. HalfAt(q).valid' /\ HalfAt(q).pfn' = Pfn(f) BY <1>3, <1>5
  <2>2. At(HalfAt(q).pfn)' = At(Pfn(f))' BY <2>1 DEF At
  <2> QED BY <1>1, <1>2, <2>1, <2>2
<1> QED BY <1>2, <1>4, <1>5

(* The entries after a page-in, page by page.                              *)
LEMMA ArrivedAt ==
  ASSUME NEW f \in Frame, NEW pg \in Page, NEW s, Typed(s), PageIn(f, Of(pg), pg[3], s), NEW q \in Page
  PROVE  HalfAt(q)' = IF q = pg THEN [pfn |-> s.lo[Of(pg)][pg[3]].pfn \cup Pfn(f), valid |-> TRUE]
                                ELSE s.lo[Of(q)][q[3]]
<1>0. /\ Of(pg) \in Entry /\ pg[3] \in Half /\ Of(q) \in Entry /\ q[3] \in Half
      /\ pg = PageOf(Of(pg), pg[3]) /\ q = PageOf(Of(q), q[3])
  BY PageFacts
<1>1. Arrived(f, Of(pg), pg[3], s) BY <1>0, PagedIn
<1> DEFINE new == [pfn |-> s.lo[Of(pg)][pg[3]].pfn \cup Pfn(f), valid |-> TRUE]
<1>2. /\ lo' = [s.lo EXCEPT ![Of(pg)] = lo'[Of(pg)]]
      /\ lo'[Of(pg)] = [s.lo[Of(pg)] EXCEPT ![pg[3]] = new]
      /\ s.lo \in [Entry -> Halves]
  BY <1>1 DEF Arrived, Typed
<1>3. HalfAt(q)' = lo'[Of(q)][q[3]] BY DEF HalfAt, Of
<1>4. s.lo[Of(pg)] \in [Half -> HalfOf] BY <1>0, <1>2 DEF Halves
<1> HIDE DEF new
<1>5. CASE Of(q) # Of(pg) BY <1>0, <1>2, <1>3, <1>5
<1>6. CASE Of(q) = Of(pg)
  <2>1. HalfAt(q)' = [s.lo[Of(pg)] EXCEPT ![pg[3]] = new][q[3]] BY <1>2, <1>3, <1>6
  <2>2. CASE q[3] = pg[3] BY <1>0, <1>4, <1>6, <2>1, <2>2 DEF new
  <2>3. CASE q[3] # pg[3] BY <1>0, <1>4, <1>6, <2>1, <2>3
  <2> QED BY <2>2, <2>3
<1> QED BY <1>5, <1>6 DEF new

(* What a swap-out leaves of the entries, page by page.                    *)
LEMMA SwappedAt ==
  ASSUME TypeOK, NEW f \in Frame, NEW out \in Page, Of(out) = owner[f], out[3] = EvictedHalf(f),
         HalfAt(out) = Mapped(f), NEW q \in Page
  PROVE  SwapOut(f).lo[Of(q)][q[3]]
           = IF q = out THEN [pfn |-> Pfn(f), valid |-> FALSE] ELSE HalfAt(q)
<1>0. /\ Of(out) \in Entry /\ out[3] \in Half /\ Of(q) \in Entry /\ q[3] \in Half
      /\ out = PageOf(Of(out), out[3]) /\ q = PageOf(Of(q), q[3])
  BY PageFacts
<1>1. lo \in [Entry -> [Half -> HalfOf]] BY DEF TypeOK
<1>2. SwapOut(f).lo = [lo EXCEPT ![Of(out)] = [lo[Of(out)] EXCEPT ![out[3]] = [lo[Of(out)][out[3]] EXCEPT !.valid = FALSE]]]
  BY DEF SwapOut
<1>3. [lo[Of(out)][out[3]] EXCEPT !.valid = FALSE] = [pfn |-> Pfn(f), valid |-> FALSE]
  <2>1. lo[Of(out)][out[3]] = Mapped(f) BY DEF HalfAt
  <2>2. ASSUME NEW r \in HalfOf PROVE [r EXCEPT !.valid = FALSE] = [pfn |-> r.pfn, valid |-> FALSE]
    <3> DEFINE s == [r EXCEPT !.valid = FALSE]
    <3>1. s \in HalfOf /\ s.pfn = r.pfn /\ s.valid = FALSE BY DEF HalfOf
    <3>2. \A t \in HalfOf : t = [pfn |-> t.pfn, valid |-> t.valid] BY DEF HalfOf
    <3> HIDE DEF s
    <3>3. s = [pfn |-> s.pfn, valid |-> s.valid] BY <3>1, <3>2
    <3>4. s = [pfn |-> r.pfn, valid |-> FALSE] BY <3>1, <3>3
    <3> QED BY <3>4 DEF s
  <2>3. lo[Of(out)][out[3]] \in HalfOf BY <1>0, <1>1
  <2>4. Mapped(f).pfn = Pfn(f) BY DEF Mapped
  <2> QED BY <2>1, <2>2, <2>3, <2>4
<1>4. lo[Of(out)] \in [Half -> HalfOf] BY <1>0, <1>1
<1>5. CASE Of(q) # Of(out) BY <1>0, <1>1, <1>2, <1>5 DEF HalfAt
<1>6. CASE Of(q) = Of(out)
  <2>1. SwapOut(f).lo[Of(q)] = [lo[Of(out)] EXCEPT ![out[3]] = [pfn |-> Pfn(f), valid |-> FALSE]]
    <3> DEFINE z == [lo[Of(out)] EXCEPT ![out[3]] = [pfn |-> Pfn(f), valid |-> FALSE]]
    <3>1. SwapOut(f).lo = [lo EXCEPT ![Of(out)] = z] BY <1>2, <1>3
    <3> HIDE DEF z
    <3>2. SwapOut(f).lo[Of(out)] = z BY <1>0, <1>1, <3>1
    <3> QED BY <1>6, <3>2 DEF z
  <2>2. CASE q[3] = out[3] BY <1>0, <1>4, <1>6, <2>1, <2>2
  <2>3. CASE q[3] # out[3] BY <1>0, <1>4, <1>6, <2>1, <2>3 DEF HalfAt
  <2> QED BY <2>2, <2>3
<1> QED BY <1>5, <1>6

SameMemory == \A q \in Page : Located(q)' = Located(q)

(* A page comes in to a frame that nobody has used.                        *)
LEMMA FirstUse ==
  ASSUME TypeOK, Owned, Sound, booted = numProcs, NEW pg \in Touched, pg[1] <= numProcs,
         ~HalfAt(pg).valid, NEW f \in Frame, TakeUnused(f, FALSE, Of(pg)),
         PageIn(f, Of(pg), pg[3], Kept), UNCHANGED <<numProcs, booted>>
  PROVE  Sound' /\ SameMemory
<1>1. /\ f \notin ToSet(fifo) /\ ToSet(fifo') = ToSet(fifo) \cup {f}
      /\ pin' = [pin EXCEPT ![f] = FALSE] /\ owner' = [owner EXCEPT ![f] = Of(pg)]
  BY UnusedTaken
<1>2. pg \in Page /\ Of(pg) \in Entry /\ pg[3] \in Half BY PageFacts
<1>3. Typed(Kept) /\ Kept.lo = lo /\ Kept.disk = disk BY KeptTyped
<1>4. ~pin[f] /\ f \notin Unpinned BY <1>1 DEF Sound, PinsOK, Pinned, Unpinned
<1>5. pin' = pin /\ Pinned' = Pinned /\ Unpinned' = Unpinned \cup {f} /\ Unpinned \subseteq Frame
  <2>1. pin' = pin BY <1>1, <1>4 DEF TypeOK
  <2>2. Unpinned \subseteq Frame BY PinnedFacts DEF Sound
  <2> QED BY <1>1, <1>4, <2>1, <2>2 DEF Pinned, Unpinned
<1>6. HalfAt(pg).pfn = {}
  <2> SUFFICES ASSUME HalfAt(pg).pfn # {} PROVE FALSE
    OBVIOUS
  <2>1. numProcs >= PageablePages - 1 /\ \E g \in Unpinned : HalfAt(pg).pfn = Pfn(g)
    BY <1>2 DEF Sound, Stale
  <2>2. PICK g \in Unpinned : TRUE BY <2>1
  <2>3. g \in Frame /\ ~pin[g] BY <1>5 DEF Unpinned
  <2>4. g = f BY <1>4, <2>1, <2>3, PinnedFacts DEF Sound
  <2> QED BY <1>4, <2>2, <2>4
<1>7. \A q \in Page : HalfAt(q)' = IF q = pg THEN Mapped(f) ELSE HalfAt(q)
  <2> SUFFICES ASSUME NEW q \in Page PROVE HalfAt(q)' = IF q = pg THEN Mapped(f) ELSE HalfAt(q)
    OBVIOUS
  <2>1. HalfAt(q)' = IF q = pg THEN [pfn |-> Kept.lo[Of(pg)][pg[3]].pfn \cup Pfn(f), valid |-> TRUE]
                               ELSE Kept.lo[Of(q)][q[3]]
    BY <1>2, <1>3, ArrivedAt
  <2>2. Kept.lo[Of(pg)][pg[3]].pfn = {} BY <1>3, <1>6 DEF HalfAt
  <2> QED BY <1>3, <2>1, <2>2 DEF HalfAt, Mapped
<1>8. Mapped(f).valid /\ Mapped(f).pfn = Pfn(f) BY DEF Mapped
<1>9. \A g \in Unpinned : owner'[g] = owner[g] /\ g # f BY <1>1, <1>4, <1>5 DEF TypeOK
<1>10. owner'[f] = Of(pg) BY <1>1 DEF TypeOK
<1>11. Hosted(f, pg)' BY <1>2, <1>7, <1>10 DEF Hosted, Mapped, Of
<1>12. \A g \in Unpinned, q \in Page : Hosted(g, q) => Hosted(g, q)' /\ q # pg
  <2> SUFFICES ASSUME NEW g \in Unpinned, NEW q \in Page, Hosted(g, q) PROVE Hosted(g, q)' /\ q # pg
    OBVIOUS
  <2>1. HalfAt(q) = Mapped(g) /\ Mapped(g).valid BY DEF Hosted, Mapped
  <2>2. q # pg BY <2>1
  <2>3. HalfAt(q)' = Mapped(g) BY <1>7, <2>1, <2>2
  <2> QED BY <1>9, <2>2, <2>3 DEF Hosted, Mapped, Of
<1>13. PinsOK'
  <2>1. numProcs \in Nat BY PagingAssumption DEF TypeOK
  <2> QED BY <1>1, <1>5, <2>1 DEF Sound, PinsOK
<1>14. Hosts'
  <2> SUFFICES ASSUME NEW g \in Unpinned' PROVE \E q \in Touched : q[1] <= numProcs /\ Hosted(g, q)'
    BY DEF Hosts
  <2>1. CASE g = f BY <1>11, <2>1
  <2>2. CASE g \in Unpinned BY <1>12, <2>2, PageFacts DEF Sound, Hosts
  <2> QED BY <1>5, <2>1, <2>2
<1>15. Housed'
  <2> SUFFICES ASSUME NEW q \in Page, HalfAt(q).valid' PROVE \E g \in Unpinned' : Hosted(g, q)'
    BY DEF Housed
  <2>1. CASE q = pg BY <1>5, <1>11, <2>1
  <2>2. CASE q # pg BY <1>5, <1>7, <1>12, <2>2 DEF Sound, Housed
  <2> QED BY <2>1, <2>2
<1>16. Bare' BY <1>7 DEF Sound, Bare
<1>17. Stale'
  <2> SUFFICES ASSUME NEW q \in Page, HalfAt(q).pfn' # {}, ~HalfAt(q).valid'
               PROVE  numProcs >= PageablePages - 1 /\ \E g \in Unpinned' : HalfAt(q).pfn' = Pfn(g)
    BY DEF Stale, Pfn, Bits
  <2>1. q # pg BY <1>7, <1>8
  <2> QED BY <1>5, <1>7, <2>1 DEF Sound, Stale
<1>18. SameMemory
  <2> SUFFICES ASSUME NEW q \in Page PROVE Located(q)' = Located(q)
    BY DEF SameMemory
  <2>0. Arrived(f, Of(pg), pg[3], Kept) BY <1>2, <1>3, PagedIn
  <2>1. /\ content' = [content EXCEPT ![f] = disk[PageOf(Of(pg), pg[3])]] /\ disk' = disk
    BY <1>3, <2>0 DEF Arrived
  <2>2. content'[f] = disk[pg] /\ \A g \in Unpinned : content'[g] = content[g]
    BY <1>2, <1>5, <1>9, <2>1, PageFacts DEF TypeOK
  <2>3. CASE q = pg
    <3>1. Located(q)' = content'[f] BY <1>2, <1>7, <2>3, LocatedAt
    <3>2. Located(q) = disk[pg] BY <2>3, <1>2, LocatedAt
    <3> QED BY <2>2, <3>1, <3>2
  <2>4. CASE q # pg /\ HalfAt(q).valid
    <3>1. PICK g \in Unpinned : Hosted(g, q) BY <2>4 DEF Sound, Housed
    <3>2. HalfAt(q)' = Mapped(g) /\ HalfAt(q) = Mapped(g) /\ g \in Frame BY <1>5, <1>7, <2>4, <3>1 DEF Hosted
    <3> QED BY <2>2, <3>2, LocatedAt
  <2>5. CASE q # pg /\ ~HalfAt(q).valid
    <3>1. ~HalfAt(q).valid' BY <1>7, <2>5
    <3> QED BY <2>1, <2>5, <3>1, LocatedAt
  <2> QED BY <2>3, <2>4, <2>5
<1> QED BY <1>13, <1>14, <1>15, <1>16, <1>17, <1>18 DEF Sound

(* The page in a frame is the only one of its entry that has been in any.  *)
LEMMA OnlyPage ==
  ASSUME Fits, Bare, NEW f \in Frame, NEW p \in Page, NEW q \in Page,
         Hosted(f, p), HalfAt(q).pfn # {}, Of(q) = owner[f]
  PROVE  p = q
<1>1. HalfAt(p).pfn # {} BY FrameFacts DEF Hosted, Mapped
<1>2. p \in Touched /\ q \in Touched BY <1>1 DEF Bare, NoFrame, Half
<1>3. p[1] = q[1] /\ p[2] = q[2] BY DEF Of, Hosted
<1> QED BY <1>2, <1>3 DEF Fits

(* A page comes in to the frame of another, which goes to the disk.        *)
LEMMA Eviction ==
  ASSUME Fits, TypeOK, Owned, Sound, booted = numProcs, NEW pg \in Touched, pg[1] <= numProcs,
         ~HalfAt(pg).valid, NEW f \in Frame, TakeUsed(f, FALSE, Of(pg)),
         PageIn(f, Of(pg), pg[3], SwapOut(f)), UNCHANGED <<numProcs, booted>>
  PROVE  Sound' /\ SameMemory
<1>1. /\ ToSet(fifo) = Frame /\ ToSet(fifo') = Frame /\ ~pin[f]
      /\ pin' = [pin EXCEPT ![f] = FALSE] /\ owner' = [owner EXCEPT ![f] = Of(pg)]
  BY UsedTaken
<1>2. pg \in Page /\ Of(pg) \in Entry /\ pg[3] \in Half BY PageFacts
<1>3. numProcs >= PageablePages - 1 BY <1>1, NoRoom DEF Sound
<1>4. Unpinned = {f}
  <2>1. f \in Unpinned BY <1>1 DEF Unpinned
  <2>2. \A g \in Unpinned : g = f BY <1>1, <1>3, PinnedFacts DEF Sound, Unpinned
  <2> QED BY <2>1, <2>2
<1>5. pin' = pin /\ Pinned' = Pinned /\ Unpinned' = {f}
  <2>1. pin' = pin BY <1>1 DEF TypeOK
  <2> QED BY <1>1, <1>4, <2>1 DEF Pinned, Unpinned
<1>6. PICK out \in Touched : Hosted(f, out) BY <1>4 DEF Sound, Hosts
<1>7. out \in Page /\ Of(out) = owner[f] /\ HalfAt(out) = Mapped(f) /\ out[3] \in Half
  BY <1>6, PageFacts DEF Hosted
<1>8. Mapped(f).valid /\ Mapped(f).pfn = Pfn(f) /\ Pfn(f) # {} BY FrameFacts DEF Mapped
<1>9. out # pg BY <1>7, <1>8
<1>10. out[3] = EvictedHalf(f)
  <2>1. CASE out[3] = 0
    <3>1. lo[owner[f]][0] = Mapped(f) BY <1>7, <2>1 DEF HalfAt
    <3> QED BY <1>8, <2>1, <3>1 DEF EvictedHalf
  <2>2. CASE out[3] = 1
    <3> DEFINE even == PageOf(owner[f], 0)
    <3>1. even \in Page /\ Of(even) = owner[f] /\ even[3] = 0
      <4>1. owner[f] \in Entry /\ 0 \in Half BY <1>2, <1>7, PageFacts DEF Half
      <4> QED BY <4>1, PageFacts
    <3>2. HalfAt(even) = lo[owner[f]][0] BY <3>1 DEF HalfAt
    <3> HIDE DEF even
    <3>3. HalfAt(even).pfn = {}
      <4>1. HalfAt(even).pfn # {} => even = out BY <1>6, <1>7, <3>1, OnlyPage DEF Sound
      <4> QED BY <2>2, <3>1, <4>1
    <3>4. lo[owner[f]][0].pfn # Pfn(f) BY <1>8, <3>2, <3>3
    <3> QED BY <2>2, <3>4 DEF EvictedHalf
  <2> QED BY <1>7, <2>1, <2>2 DEF Half
<1>11. HalfAt(pg).pfn \in {{}, Pfn(f)} BY <1>2, <1>4 DEF Sound, Stale
<1>12. owner[f] \in Entry /\ content[f] \in Value /\ Typed(SwapOut(f))
  BY <1>4, SwappedOut DEF Owned
<1>13. \A q \in Page : HalfAt(q)' = IF q = pg THEN Mapped(f)
                                   ELSE IF q = out THEN [pfn |-> Pfn(f), valid |-> FALSE] ELSE HalfAt(q)
  <2> SUFFICES ASSUME NEW q \in Page
               PROVE HalfAt(q)' = IF q = pg THEN Mapped(f)
                                  ELSE IF q = out THEN [pfn |-> Pfn(f), valid |-> FALSE] ELSE HalfAt(q)
    OBVIOUS
  <2>1. HalfAt(q)' = IF q = pg THEN [pfn |-> SwapOut(f).lo[Of(pg)][pg[3]].pfn \cup Pfn(f), valid |-> TRUE]
                               ELSE SwapOut(f).lo[Of(q)][q[3]]
    BY <1>2, <1>12, ArrivedAt
  <2>2. SwapOut(f).lo[Of(q)][q[3]] = IF q = out THEN [pfn |-> Pfn(f), valid |-> FALSE] ELSE HalfAt(q)
    BY <1>7, <1>10, SwappedAt
  <2>3. SwapOut(f).lo[Of(pg)][pg[3]] = HalfAt(pg)
    BY <1>2, <1>7, <1>9, <1>10, SwappedAt
  <2>4. SwapOut(f).lo[Of(pg)][pg[3]].pfn \cup Pfn(f) = Pfn(f) BY <1>11, <2>3
  <2> QED BY <2>1, <2>2, <2>4 DEF Mapped
<1>14. owner'[f] = Of(pg) BY <1>1 DEF TypeOK
<1>15. Hosted(f, pg)' BY <1>2, <1>13, <1>14 DEF Hosted, Mapped, Of
<1>16. \A q \in Page : q # pg => ~HalfAt(q).valid'
  <2> SUFFICES ASSUME NEW q \in Page, q # pg, q # out, HalfAt(q).valid PROVE FALSE
    BY <1>13
  <2>1. Hosted(f, q) BY <1>4 DEF Sound, Housed
  <2>2. HalfAt(q).pfn # {} /\ Of(q) = owner[f] BY <1>8, <2>1 DEF Hosted
  <2>3. out = q BY <1>6, <1>7, <2>2, OnlyPage DEF Sound
  <2> QED BY <2>3
<1>17. PinsOK'
  <2>1. numProcs \in Nat BY PagingAssumption DEF TypeOK
  <2> QED BY <1>1, <1>5, <2>1 DEF Sound, PinsOK
<1>18. Hosts' BY <1>5, <1>15 DEF Hosts
<1>19. Housed' BY <1>5, <1>15, <1>16 DEF Housed
<1>20. Bare' BY <1>6, <1>13 DEF Sound, Bare
<1>21. Stale'
  <2> SUFFICES ASSUME NEW q \in Page, HalfAt(q).pfn' # {}, ~HalfAt(q).valid'
               PROVE  numProcs >= PageablePages - 1 /\ HalfAt(q).pfn' = Pfn(f)
    BY <1>5 DEF Stale, Pfn, Bits
  <2>1. q # pg BY <1>8, <1>13
  <2>2. CASE q = out BY <1>3, <1>13, <2>1, <2>2
  <2>3. CASE q # out BY <1>4, <1>13, <2>1, <2>3 DEF Sound, Stale
  <2> QED BY <2>2, <2>3
<1>22. SameMemory
  <2> SUFFICES ASSUME NEW q \in Page PROVE Located(q)' = Located(q)
    BY DEF SameMemory
  <2>0. Arrived(f, Of(pg), pg[3], SwapOut(f)) BY <1>2, <1>12, PagedIn
  <2>1. /\ content' = [content EXCEPT ![f] = SwapOut(f).disk[pg]] /\ disk' = SwapOut(f).disk
    BY <1>2, <2>0, PageFacts DEF Arrived
  <2>2. SwapOut(f).disk = [disk EXCEPT ![out] = content[f]]
    BY <1>7, <1>10, PageFacts DEF SwapOut
  <2>3. disk' = [disk EXCEPT ![out] = content[f]] /\ content'[f] = disk[pg]
    BY <1>2, <1>7, <1>9, <2>1, <2>2 DEF TypeOK
  <2>4. CASE q = pg
    <3>1. Located(q)' = content'[f] BY <1>2, <1>13, <2>4, LocatedAt
    <3>2. Located(q) = disk[pg] BY <2>4, <1>2, LocatedAt
    <3> QED BY <2>3, <3>1, <3>2
  <2>5. CASE q = out
    <3>1. Located(q)' = disk'[q] BY <1>9, <1>16, <2>5, LocatedAt
    <3>2. Located(q) = content[f] BY <1>7, <2>5, LocatedAt
    <3>3. disk'[q] = content[f] BY <1>7, <2>3, <2>5 DEF TypeOK
    <3> QED BY <3>1, <3>2, <3>3
  <2>6. CASE q # pg /\ q # out
    <3>1. ~HalfAt(q).valid' /\ ~HalfAt(q).valid BY <1>13, <1>16, <2>6
    <3>2. disk'[q] = disk[q] BY <1>7, <2>3, <2>6 DEF TypeOK
    <3> QED BY <3>1, <3>2, LocatedAt
  <2> QED BY <2>4, <2>5, <2>6
<1> QED BY <1>17, <1>18, <1>19, <1>20, <1>21, <1>22 DEF Sound

(* A page table is set up.                                                 *)
LEMMA SetupSound ==
  ASSUME TypeOK, Sound, booted < numProcs, NEW f \in Frame, TakeUnused(f, TRUE, NULL),
         booted' = booted + 1, UNCHANGED <<numProcs, lo>>
  PROVE  Sound'
<1>1. /\ f \notin ToSet(fifo) /\ ToSet(fifo') = ToSet(fifo) \cup {f}
      /\ pin' = [pin EXCEPT ![f] = TRUE]
  BY UnusedTaken
<1>2. Unpinned = {} /\ f \notin Pinned /\ Pinned \subseteq ToSet(fifo) BY <1>1 DEF Sound, PinsOK
<1>3. Unpinned' = {}
  <2>1. ToSet(fifo) \subseteq Frame BY SetOfSeq DEF TypeOK
  <2>2. \A g \in ToSet(fifo') : pin'[g] BY <1>1, <1>2, <2>1 DEF Unpinned, TypeOK
  <2> QED BY <2>2 DEF Unpinned
<1>4. Pinned' = Pinned \cup {f} BY <1>1 DEF Pinned, TypeOK
<1>5. Cardinality(Pinned \cup {f}) = Cardinality(Pinned) + 1
  BY <1>2, PinnedFacts, FS_AddElement DEF Sound
<1>6. PinsOK' BY <1>1, <1>2, <1>3, <1>4, <1>5 DEF Sound, PinsOK
<1>7. Hosts' BY <1>3 DEF Hosts
<1>8. \A q \in Page : HalfAt(q)' = HalfAt(q) BY DEF HalfAt, Of
<1>9. \A q \in Page : ~HalfAt(q).valid /\ HalfAt(q).pfn = {}
  BY <1>2 DEF Sound, Housed, Stale
<1>10. Housed' /\ Stale' BY <1>8, <1>9 DEF Housed, Stale
<1>11. Bare' BY <1>8 DEF Sound, Bare
<1> QED BY <1>6, <1>7, <1>10, <1>11 DEF Sound

LEMMA SoundUnchanged ==
  Sound /\ UNCHANGED <<mapVars, booted, numProcs, lo>> => Sound'
<1> SUFFICES ASSUME Sound, UNCHANGED <<mapVars, booted, numProcs, lo>> PROVE Sound'
  OBVIOUS
<1>1. Unpinned' = Unpinned /\ Pinned' = Pinned BY DEF Unpinned, Pinned, mapVars
<1>2. \A q : HalfAt(q)' = HalfAt(q) BY DEF HalfAt, Of
<1>3. \A f, q : Hosted(f, q)' <=> Hosted(f, q) BY <1>2 DEF Hosted, mapVars, Of, Mapped
<1>4. PinsOK' BY <1>1 DEF Sound, PinsOK, mapVars
<1>5. Hosts' /\ Housed' BY <1>1, <1>2, <1>3 DEF Sound, Hosts, Housed
<1>6. Bare' /\ Stale' BY <1>1, <1>2 DEF Sound, Bare, Stale
<1> QED BY <1>4, <1>5, <1>6 DEF Sound

(* A TLB miss moves no page as the programs see it.                        *)
LEMMA MissSound ==
  ASSUME Fits, TypeOK, Owned, Sound, NEW pg \in Touched, pg[1] <= numProcs, TlbMiss(Of(pg), pg[3])
  PROVE  Sound' /\ SameMemory
<1> DEFINE e == Of(pg)
           h == pg[3]
<1>1. UNCHANGED <<numProcs, booted>> /\ booted = numProcs BY DEF TlbMiss, Running
<1>2. HalfAt(pg) = lo[e][h] BY DEF HalfAt
<1> HIDE DEF e, h
<1>3. TlbMiss(e, h) BY DEF e, h
<1>4. CASE UNCHANGED <<mapVars, lo, content, disk>>
  <2>1. Sound' BY <1>1, <1>4, SoundUnchanged
  <2>2. SameMemory BY <1>4 DEF SameMemory, Located, At
  <2> QED BY <2>1, <2>2
<1>5. ASSUME NEW f \in Frame, TakeUnused(f, FALSE, e), PageIn(f, e, h, Kept), ~lo[e][h].valid
      PROVE  Sound' /\ SameMemory
  BY <1>1, <1>2, <1>5, FirstUse DEF e, h
<1>6. ASSUME NEW f \in Frame, TakeUsed(f, FALSE, e), PageIn(f, e, h, SwapOut(f)), ~lo[e][h].valid
      PROVE  Sound' /\ SameMemory
  BY <1>1, <1>2, <1>6, Eviction DEF e, h
<1>7. CASE PageFault(e, h) BY <1>4, <1>5, <1>6, <1>7 DEF PageFault
<1>8. CASE Refill(e, h) BY <1>4, <1>8 DEF Refill
<1> QED BY <1>3, <1>7, <1>8 DEF TlbMiss

LEMMA StepSound == ASSUME Fits PROVE TypeOK /\ Owned /\ Sound /\ [Next]_vars => Sound'
<1> SUFFICES ASSUME TypeOK, Owned, Sound, [Next]_vars PROVE Sound'
  OBVIOUS
<1>1. CASE UNCHANGED <<mapVars, booted, numProcs, lo>> BY <1>1, SoundUnchanged
<1>2. CASE SetupPageTable BY <1>1, <1>2, SetupSound DEF SetupPageTable
<1>3. ASSUME NEW pg \in Touched, pg[1] <= numProcs, Access(Of(pg), pg[3]) PROVE Sound'
  <2>1. ASSUME Load(Of(pg), pg[3]) \/ \E v \in Value : Store(Of(pg), pg[3], v)
        PROVE  UNCHANGED <<mapVars, booted, numProcs, lo>>
    BY <2>1 DEF Load, Store
  <2> QED BY <1>1, <1>3, <2>1, MissSound DEF Access
<1>4. CASE UNCHANGED vars BY <1>1, <1>4 DEF vars
<1> QED BY <1>2, <1>3, <1>4 DEF Next, Stuck, Of

LEMMA InitSound == Init => Sound
<1> SUFFICES ASSUME Init PROVE Sound
  OBVIOUS
<1>1. Unpinned = {} /\ Pinned = {} BY EmptyQueue DEF Init, Unpinned, Pinned
<1>2. \A q \in Page : HalfAt(q) = NoFrame[0] BY PageFacts DEF Init, HalfAt, NoFrame, Half
<1>3. NoFrame[0].pfn = {} /\ NoFrame[0].valid = FALSE BY DEF NoFrame, Half
<1>4. PinsOK BY <1>1, FS_EmptySet DEF Init, PinsOK
<1> QED BY <1>1, <1>2, <1>3, <1>4 DEF Sound, Hosts, Housed, Bare, Stale

LEMMA FramesSound == ASSUME Fits PROVE TypeOK /\ Owned /\ Sound => FramesOwned
<1> SUFFICES ASSUME TypeOK, Owned, Sound PROVE FramesOwned
  OBVIOUS
<1>1. ASSUME NEW pg \in Page, HalfAt(pg).valid
      PROVE  \E f \in Frame : HalfAt(pg).pfn = Pfn(f) /\ ~pin[f] /\ owner[f] = Of(pg)
  <2>1. PICK f \in Unpinned : Hosted(f, pg) BY <1>1 DEF Sound, Housed
  <2> QED BY <2>1, PinnedFacts DEF Sound, Unpinned, Hosted, Mapped
<1>2. ASSUME NEW f \in Frame, InUse(f), ~pin[f]
      PROVE  /\ owner[f] \in Entry
             /\ Cardinality({h \in Half : lo[owner[f]][h] = Mapped(f)}) = 1
  <2>1. f \in Unpinned BY <1>2, ContainsQueue DEF InUse, Unpinned, TypeOK
  <2>2. owner[f] \in Entry BY <2>1 DEF Owned
  <2>3. PICK pg \in Touched : Hosted(f, pg) BY <2>1 DEF Sound, Hosts
  <2>4. pg \in Page /\ pg[3] \in Half /\ lo[owner[f]][pg[3]] = Mapped(f)
    BY <2>3, PageFacts DEF Hosted, HalfAt
  <2>5. ASSUME NEW h \in Half, lo[owner[f]][h] = Mapped(f) PROVE h = pg[3]
    <3> DEFINE q == PageOf(owner[f], h)
    <3>1. q \in Page /\ Of(q) = owner[f] /\ q[3] = h BY <2>2, PageFacts
    <3> HIDE DEF q
    <3>2. HalfAt(q).pfn # {} BY <2>5, <3>1, FrameFacts DEF HalfAt, Mapped
    <3>3. pg = q BY <2>3, <2>4, <3>1, <3>2, OnlyPage DEF Sound
    <3> QED BY <3>1, <3>3
  <2>6. {h \in Half : lo[owner[f]][h] = Mapped(f)} = {pg[3]} BY <2>4, <2>5
  <2> QED BY <2>2, <2>6, FS_Singleton
<1>3. Cardinality({f \in Frame : pin[f]}) = booted BY DEF Sound, PinsOK, Pinned
<1> QED BY <1>1, <1>2, <1>3 DEF FramesOwned, HalfAt, Of, Mapped

(* With one page of an entry used by a program, and a frame for each page  *)
(* or one for all of them: a frame holds one page, that of the entry it is *)
(* noted for, and no frame of a page table is given away or mapped,        *)
(* whatever the order of faults and evictions.                             *)
THEOREM FramesAreOwned == ASSUME Fits PROVE Spec => []FramesOwned
<1>1. Init => Sound BY InitSound
<1>2. TypeOK /\ Owned /\ Sound /\ [Next]_vars => Sound' BY StepSound
<1>3. TypeOK /\ Owned /\ Sound => FramesOwned BY FramesSound
<1> QED BY <1>1, <1>2, <1>3, TypeCorrect, PTL DEF Spec

-----------------------------------------------------------------------------
Seen == [pg \in Page |-> Located(pg)]

LEMMA InitMaps == Init => M!Init
<1> SUFFICES ASSUME Init PROVE M!Init
  OBVIOUS
<1>1. ASSUME NEW q \in Page PROVE Located(q) = Image[q]
  <2>1. ~HalfAt(q).valid BY PageFacts DEF Init, HalfAt, NoFrame
  <2> QED BY <2>1, LocatedAt DEF Init
<1> QED BY <1>1, PagingAssumption DEF M!Init, Init

LEMMA StoreMaps ==
  ASSUME Fits, TypeOK, Sound, TlbAgrees, NEW pg \in Touched, NEW v \in Value, Store(Of(pg), pg[3], v)
  PROVE  M!Write(pg, v)
<1>1. pg \in Page /\ Of(pg) \in Entry /\ PageOf(Of(pg), pg[3]) = pg BY PageFacts
<1>2. tlb[Of(pg)] = lo[Of(pg)] /\ HalfAt(pg).valid /\ tlb[Of(pg)][pg[3]] = HalfAt(pg)
  BY <1>1 DEF Store, Hit, TlbAgrees, HalfAt
<1>3. PICK f \in Unpinned : Hosted(f, pg) BY <1>1, <1>2 DEF Sound, Housed
<1>4. f \in Frame /\ HalfAt(pg) = Mapped(f) /\ Mapped(f).pfn = Pfn(f) /\ Mapped(f).valid
  BY <1>3, PinnedFacts DEF Sound, Hosted, Mapped
<1>5. content'[f] = v /\ \A g \in Frame : g # f => content'[g] = content[g]
  BY <1>2, <1>4, FrameAssumption DEF Store
<1>6. \A q \in Page : HalfAt(q)' = HalfAt(q) BY DEF Store, HalfAt, Of
<1>7. ASSUME NEW q \in Page PROVE Located(q)' = IF q = pg THEN v ELSE Located(q)
  <2>1. CASE q = pg BY <1>4, <1>5, <1>6, <2>1, LocatedAt
  <2>2. CASE q # pg /\ HalfAt(q).valid
    <3>1. PICK g \in Unpinned : Hosted(g, q) BY <2>2 DEF Sound, Housed
    <3>2. g \in Frame /\ HalfAt(q) = Mapped(g) BY <3>1, PinnedFacts DEF Sound, Hosted
    <3>3. g # f
      <4> SUFFICES ASSUME g = f PROVE FALSE
        OBVIOUS
      <4>1. HalfAt(q).pfn # {} /\ Of(q) = owner[f] BY <3>1, <3>2, <1>4, FrameFacts DEF Hosted
      <4>2. pg = q BY <1>1, <1>3, <1>4, <4>1, OnlyPage DEF Sound
      <4> QED BY <2>2, <4>2
    <3> QED BY <1>5, <1>6, <2>2, <3>2, <3>3, LocatedAt
  <2>3. CASE q # pg /\ ~HalfAt(q).valid
    <3>1. disk' = disk BY DEF Store
    <3> QED BY <1>6, <2>3, <3>1, LocatedAt
  <2> QED BY <2>1, <2>2, <2>3
<1>8. Seen' = [Seen EXCEPT ![pg] = v] BY <1>7 DEF Seen
<1>9. last' = <<"write", pg, v>> BY <1>1 DEF Store
<1> QED BY <1>8, <1>9 DEF M!Write, Seen

LEMMA StepMaps ==
  ASSUME Fits PROVE TypeOK /\ Owned /\ Sound /\ TlbAgrees /\ [Next]_vars => [M!Next]_(M!vars)
<1> SUFFICES ASSUME TypeOK, Owned, Sound, TlbAgrees, [Next]_vars PROVE [M!Next]_(M!vars)
  OBVIOUS
<1>1. ASSUME SameMemory, last' = last PROVE UNCHANGED M!vars
  BY <1>1 DEF SameMemory, M!vars
<1>2. CASE UNCHANGED <<lo, content, disk, last>>
  <2>1. SameMemory BY <1>2 DEF SameMemory, Located, At
  <2> QED BY <1>1, <1>2, <2>1
<1>3. ASSUME NEW pg \in Touched, pg[1] <= numProcs, Access(Of(pg), pg[3]) PROVE [M!Next]_(M!vars)
  <2>1. pg \in Page /\ Of(pg) \in Entry /\ PageOf(Of(pg), pg[3]) = pg BY PageFacts
  <2>2. CASE TlbMiss(Of(pg), pg[3])
    <3>1. last' = last BY <2>2 DEF TlbMiss
    <3> QED BY <1>1, <1>3, <2>2, <3>1, MissSound
  <2>3. CASE Load(Of(pg), pg[3])
    <3>1. tlb[Of(pg)][pg[3]] = HalfAt(pg) /\ HalfAt(pg).valid
      BY <2>1, <2>3 DEF Load, Hit, TlbAgrees, HalfAt
    <3>2. last' = <<"read", pg, Located(pg)>>
      BY <2>1, <2>3, <3>1 DEF Load, Located, HalfAt, Of
    <3>3. SameMemory BY <2>3 DEF Load, SameMemory, Located, At
    <3>4. Seen[pg] = Located(pg) /\ Seen' = Seen BY <2>1, <3>3 DEF SameMemory, Seen
    <3>5. M!Read(pg) BY <3>2, <3>4 DEF M!Read, Seen
    <3> QED BY <2>1, <3>5 DEF M!Next
  <2>4. ASSUME NEW v \in Value, Store(Of(pg), pg[3], v) PROVE [M!Next]_(M!vars)
    BY <2>1, <2>4, StoreMaps DEF M!Next
  <2> QED BY <1>3, <2>2, <2>3, <2>4 DEF Access
<1>4. CASE SetupPageTable BY <1>2, <1>4 DEF SetupPageTable
<1>5. CASE UNCHANGED vars BY <1>2, <1>5 DEF vars
<1> QED BY <1>3, <1>4, <1>5 DEF Next, Stuck, Of

(* Paging is invisible: under the same conditions the pages behave as a    *)
(* memory, each holding what was last written to it. Every fault, swap-out *)
(* and refill is a stutter of that memory.                                 *)
THEOREM PagingInvisible == ASSUME Fits PROVE Spec => ImplementsMemory
<1>1. Init => Sound /\ M!Init BY InitSound, InitMaps
<1>2. TypeOK /\ Owned /\ Sound /\ [Next]_vars => Sound' BY StepSound
<1>3. TypeOK /\ Owned /\ Sound /\ TlbAgrees /\ [Next]_vars => [M!Next]_(M!vars) BY StepMaps
<1> QED BY <1>1, <1>2, <1>3, TypeCorrect, TlbNeverStale, PTL DEF Spec, ImplementsMemory, M!Spec

-----------------------------------------------------------------------------
(* Every set of natural numbers has a least one, and a greatest one if it  *)
(* has a bound.                                                            *)
LEMMA Least ==
  ASSUME NEW S \in SUBSET Nat, S # {}
  PROVE  Min(S) \in S /\ \A m \in S : Min(S) <= m
<1>1. \E n \in S : \A m \in S : ~ (<<m, n>> \in OpToRel(<, Nat))
  BY NatLessThanWellFounded, WFMin
<1>2. \A m, n \in S : <<m, n>> \in OpToRel(<, Nat) <=> m < n
  BY DEF OpToRel
<1>3. PICK n \in S : \A m \in S : ~ (<<m, n>> \in OpToRel(<, Nat)) BY <1>1
<1>4. \A m \in S : ~ (m < n) BY <1>2, <1>3
<1>5. n \in Nat /\ \A m \in S : m \in Nat OBVIOUS
<1>6. \A m \in S : n <= m BY <1>4, <1>5
<1> QED BY <1>6 DEF Min

LEMMA Greatest ==
  ASSUME NEW b \in Nat, NEW S \in SUBSET (0 .. b), S # {}
  PROVE  Max(S) \in S /\ \A m \in S : m <= Max(S)
<1> DEFINE R == {k \in Nat : b - k \in S}
<1>1. R # {}
  <2>1. PICK m \in S : TRUE OBVIOUS
  <2>2. b - m \in Nat /\ b - (b - m) = m BY <2>1
  <2>3. b - m \in R BY <2>1, <2>2
  <2> QED BY <2>3
<1>2. Min(R) \in R /\ \A k \in R : Min(R) <= k
  <2> HIDE DEF R
  <2>1. R \in SUBSET Nat BY DEF R
  <2> QED BY <1>1, <2>1, Least
<1> DEFINE n == Min(R)
<1>3. n \in Nat /\ b - n \in S BY <1>2
<1> HIDE DEF n
<1>4. ASSUME NEW m \in S PROVE m <= b - n
  <2>1. b - m \in Nat /\ b - (b - m) = m /\ m \in Nat OBVIOUS
  <2>2. b - m \in R BY <2>1
  <2>3. n <= b - m BY <1>2, <2>2 DEF n
  <2> QED BY <1>3, <2>1, <2>3
<1>5. \E x \in S : \A y \in S : x >= y
  <2>1. \A y \in S : b - n >= y BY <1>3, <1>4
  <2> QED BY <1>3, <2>1
<1>6. Max(S) \in S /\ \A y \in S : Max(S) >= y BY <1>5 DEF Max
<1>7. \A y \in S : y \in Int OBVIOUS
<1> QED BY <1>6, <1>7

-----------------------------------------------------------------------------
(* What a call of the scheduler works on, in the course of it: no task is  *)
(* queued twice, those in the ready queue have priority left, and it is in *)
(* order.                                                                  *)
CallState == [ready : Seq(Task), sleepq : Seq(Task), priority : [Task -> Nat], round : [Task -> Nat]]

InOrder(s) == \A i, j \in DOMAIN s.ready : i < j => ~Before(s, s.ready[j], s.ready[i])

Queued(s) ==
  /\ s \in CallState
  /\ IsInjective(s.ready) /\ IsInjective(s.sleepq)
  /\ ToSet(s.ready) \cap ToSet(s.sleepq) = {}
  /\ \A p \in Task : s.priority[p] <= OriPriority(p)
  /\ \A p \in ToSet(s.ready) : s.priority[p] >= 1
  /\ InOrder(s)

(* Tasks of P may have begun their next round, if they had used up the     *)
(* last one; nothing else is different about any task.                     *)
Renewed(s, t, P) ==
  \A p \in Task :
    \/ t.priority[p] = s.priority[p] /\ t.round[p] = s.round[p]
    \/ /\ p \in P /\ s.priority[p] = 0
       /\ t.priority[p] = OriPriority(p) /\ t.round[p] = s.round[p] + 1

LEMMA RenewedTwice ==
  ASSUME NEW s \in CallState, NEW t \in CallState, NEW u \in CallState, NEW P, NEW R,
         Renewed(s, t, P), Renewed(t, u, R)
  PROVE  Renewed(s, u, P \cup R)
<1> SUFFICES ASSUME NEW p \in Task
             PROVE  \/ u.priority[p] = s.priority[p] /\ u.round[p] = s.round[p]
                    \/ /\ p \in P \cup R /\ s.priority[p] = 0
                       /\ u.priority[p] = OriPriority(p) /\ u.round[p] = s.round[p] + 1
  BY DEF Renewed
<1>1. OriPriority(p) # 0 BY PriorityAssumption DEF Task, OriPriority
<1>2. \/ t.priority[p] = s.priority[p] /\ t.round[p] = s.round[p]
      \/ /\ p \in P /\ s.priority[p] = 0
         /\ t.priority[p] = OriPriority(p) /\ t.round[p] = s.round[p] + 1
  BY DEF Renewed
<1>3. \/ u.priority[p] = t.priority[p] /\ u.round[p] = t.round[p]
      \/ /\ p \in R /\ t.priority[p] = 0
         /\ u.priority[p] = OriPriority(p) /\ u.round[p] = t.round[p] + 1
  BY DEF Renewed
<1> QED BY <1>1, <1>2, <1>3

(* sortqueue() goes by a total order.                                      *)
LEMMA InTurn ==
  ASSUME NEW s \in CallState, NEW p \in Task, NEW q \in Task, NEW t \in Task
  PROVE  /\ ~Before(s, q, p) /\ ~Before(s, t, q) => ~Before(s, t, p)
         /\ Before(s, p, q) => ~Before(s, q, p)
<1>1. /\ s.round[p] \in Nat /\ s.round[q] \in Nat /\ s.round[t] \in Nat
      /\ s.priority[p] \in Nat /\ s.priority[q] \in Nat /\ s.priority[t] \in Nat
  BY DEF CallState
<1> QED BY <1>1 DEF Before

(* enqueue() and sortqueue() keep the ready queue in order.                *)
LEMMA InsertInOrder ==
  ASSUME NEW s \in CallState, InOrder(s), NEW p \in Task
  PROVE  LET r == Insert(s, p)
         IN  /\ r \in Seq(Task) /\ ToSet(r) = ToSet(s.ready) \cup {p}
             /\ IsInjective(s.ready) /\ p \notin ToSet(s.ready) => IsInjective(r)
             /\ \A i, j \in DOMAIN r : i < j => ~Before(s, r[j], r[i])
<1> DEFINE q == s.ready
           stop == {i \in DOMAIN q : ~Before(s, p, q[i])}
           behind == Max(stop \cup {0})
           k == 1 + behind
           r == Insert(s, p)
<1>1. /\ q \in Seq(Task) /\ Len(q) \in Nat /\ DOMAIN q = 1 .. Len(q)
      /\ \A i \in 1 .. Len(q) : q[i] \in Task
  <2>1. q \in Seq(Task) BY DEF CallState
  <2> QED BY <2>1, LenProperties, ElementOfSeq
<1>2. \A i, j \in 1 .. Len(q) : i < j => ~Before(s, q[j], q[i]) BY <1>1 DEF InOrder
<1>3. r = InsertAt(q, k, p) BY DEF Insert
<1> HIDE DEF q, r
<1>4. behind \in stop \cup {0} /\ \A m \in stop \cup {0} : m <= behind
  <2>1. stop \cup {0} \in SUBSET (0 .. Len(q)) BY <1>1
  <2> HIDE DEF stop
  <2> QED BY <1>1, <2>1, Greatest
<1> HIDE DEF behind, k
<1>5. k \in 1 .. Len(q) + 1 /\ k - 1 \in stop \cup {0} /\ \A m \in stop : m <= k - 1
  <2>1. stop \subseteq 1 .. Len(q) BY <1>1
  <2>2. behind \in 0 .. Len(q) BY <1>1, <1>4, <2>1
  <2>3. k \in 1 .. Len(q) + 1 /\ k - 1 = behind BY <1>1, <2>2 DEF k
  <2> QED BY <1>4, <2>3
<1>6. \A j \in k .. Len(q) : Before(s, p, q[j])
  <2> SUFFICES ASSUME NEW j \in k .. Len(q), ~Before(s, p, q[j]) PROVE FALSE OBVIOUS
  <2>1. j \in 1 .. Len(q) /\ ~(j <= k - 1) BY <1>1, <1>5
  <2> QED BY <1>1, <1>5, <2>1
<1>7. ASSUME NEW i \in 1 .. k - 1 PROVE ~Before(s, p, q[i])
  <2>1. i \in 1 .. Len(q) /\ k - 1 \in 1 .. Len(q) /\ k - 1 # 0 BY <1>1, <1>5
  <2>2. ~Before(s, p, q[k - 1]) BY <1>5, <2>1
  <2>3. CASE i = k - 1 BY <2>2, <2>3
  <2>4. CASE i # k - 1
    <3>1. i < k - 1 BY <1>5, <2>4
    <3>2. ~Before(s, q[k - 1], q[i]) BY <1>2, <2>1, <3>1
    <3> QED BY <1>1, <2>1, <2>2, <3>2, InTurn
  <2> QED BY <2>3, <2>4
<1>8. /\ r \in Seq(Task) /\ Len(r) = Len(q) + 1
      /\ \A j \in 1 .. Len(q) + 1 :
           r[j] = IF j < k THEN q[j] ELSE IF j = k THEN p ELSE q[j - 1]
      /\ ToSet(r) = ToSet(q) \cup {p}
      /\ IsInjective(q) /\ p \notin ToSet(q) => IsInjective(r)
  <2> HIDE DEF stop
  <2>1. k \in 1 .. Len(q) + 1 BY <1>5
  <2> DEFINE z == InsertAt(q, k, p)
  <2>2. /\ z \in Seq(Task) /\ Len(z) = Len(q) + 1
        /\ \A j \in 1 .. Len(q) + 1 :
             z[j] = IF j < k THEN q[j] ELSE IF j = k THEN p ELSE q[j - 1]
        /\ ToSet(z) = ToSet(q) \cup {p}
        /\ IsInjective(q) /\ p \notin ToSet(q) => IsInjective(z)
    BY <1>1, <2>1, InsertedAt
  <2>3. r = z BY <1>3
  <2> HIDE DEF z
  <2> QED BY <2>2, <2>3
<1>9. DOMAIN r = 1 .. Len(q) + 1
  <2>1. DOMAIN r = 1 .. Len(r) BY <1>8, LenProperties
  <2> QED BY <1>8, <2>1
<1>10. ASSUME NEW i \in 1 .. Len(q) + 1, NEW j \in 1 .. Len(q) + 1, i < j
       PROVE  ~Before(s, r[j], r[i])
  <2>1. CASE j < k
    <3>1. r[i] = q[i] /\ r[j] = q[j] BY <1>1, <1>5, <1>8, <1>10, <2>1
    <3>2. i \in 1 .. Len(q) /\ j \in 1 .. Len(q) BY <1>1, <1>5, <1>10, <2>1
    <3> QED BY <1>2, <1>10, <3>1, <3>2
  <2>2. CASE j = k
    <3>1. i < k /\ i \in 1 .. k - 1 /\ ~(j < k) BY <1>1, <1>5, <1>10, <2>2
    <3>2. r[i] = q[i] /\ r[j] = p BY <1>8, <2>2, <3>1
    <3> QED BY <1>7, <3>1, <3>2
  <2>3. CASE j > k
    <3>1. r[j] = q[j - 1] /\ j - 1 \in 1 .. Len(q) /\ j - 1 \in k .. Len(q)
      BY <1>1, <1>5, <1>8, <2>3
    <3>2. CASE i < k
      <4>1. r[i] = q[i] /\ i \in 1 .. Len(q) /\ i < j - 1 BY <1>1, <1>5, <1>8, <2>3, <3>2
      <4> QED BY <1>2, <3>1, <4>1
    <3>3. CASE i = k
      <4>1. r[i] = p BY <1>1, <1>5, <1>8, <3>3
      <4>2. Before(s, p, q[j - 1]) BY <1>6, <3>1
      <4> QED BY <1>1, <3>1, <4>1, <4>2, InTurn
    <3>4. CASE i > k
      <4>1. r[i] = q[i - 1] /\ i - 1 \in 1 .. Len(q) /\ i - 1 < j - 1
        BY <1>1, <1>5, <1>8, <1>10, <3>4
      <4> QED BY <1>2, <3>1, <4>1
    <3> QED BY <1>5, <3>2, <3>3, <3>4
  <2> QED BY <1>5, <2>1, <2>2, <2>3
<1> QED BY <1>8, <1>9, <1>10 DEF q, r

-----------------------------------------------------------------------------
(* A task in neither queue is made ready.                                  *)
LEMMA Readied ==
  ASSUME NEW s, Queued(s), NEW p \in Task, p \notin ToSet(s.ready), p \notin ToSet(s.sleepq)
  PROVE  LET t == MakeReady(s, p)
         IN  /\ Queued(t) /\ t.sleepq = s.sleepq /\ ToSet(t.ready) = ToSet(s.ready) \cup {p}
             /\ Renewed(s, t, {p})
<1> DEFINE r == Renew(s, p)
           t == MakeReady(s, p)
<1>1. /\ s \in CallState /\ s.ready \in Seq(Task) /\ s.sleepq \in Seq(Task)
      /\ s.priority \in [Task -> Nat] /\ s.round \in [Task -> Nat]
  BY DEF Queued, CallState
<1>2. OriPriority(p) \in Nat \ {0} BY PriorityAssumption DEF Task, OriPriority
<1>3. /\ r \in CallState /\ r.ready = s.ready /\ r.sleepq = s.sleepq
      /\ \A q \in Task \ {p} : r.priority[q] = s.priority[q] /\ r.round[q] = s.round[q]
      /\ \/ /\ s.priority[p] # 0
            /\ r.priority[p] = s.priority[p] /\ r.round[p] = s.round[p]
         \/ /\ s.priority[p] = 0
            /\ r.priority[p] = OriPriority(p) /\ r.round[p] = s.round[p] + 1
  <2>1. CASE s.priority[p] # 0
    <3>1. r = s BY <2>1 DEF Renew
    <3> QED BY <1>1, <2>1, <3>1
  <2>2. CASE s.priority[p] = 0
    <3> DEFINE o == OriPriority(p)
    <3>1. r = [s EXCEPT !.priority[p] = o, !.round[p] = @ + 1] BY <2>2 DEF Renew
    <3> HIDE DEF r, o
    <3>2. r = [ready |-> s.ready, sleepq |-> s.sleepq,
               priority |-> [s.priority EXCEPT ![p] = o],
               round |-> [s.round EXCEPT ![p] = @ + 1]]
      BY <1>1, <3>1 DEF CallState
    <3>3. o \in Nat BY <1>2 DEF o
    <3>4. /\ [s.priority EXCEPT ![p] = o] \in [Task -> Nat]
          /\ [s.round EXCEPT ![p] = @ + 1] \in [Task -> Nat]
      BY <1>1, <3>3
    <3>5. r \in CallState BY <1>1, <3>2, <3>4 DEF CallState
    <3> QED BY <1>1, <2>2, <3>2, <3>5 DEF o
  <2> QED BY <2>1, <2>2
<1> HIDE DEF r
<1>4. ToSet(s.ready) \subseteq Task /\ DOMAIN s.ready = 1 .. Len(s.ready)
      /\ \A i \in DOMAIN s.ready : s.ready[i] \in ToSet(s.ready)
  BY <1>1, SetOfSeq, LenProperties DEF ToSet
<1>5. InOrder(r)
  <2> SUFFICES ASSUME NEW i \in DOMAIN s.ready, NEW j \in DOMAIN s.ready, i < j
               PROVE  ~Before(r, s.ready[j], s.ready[i])
    BY <1>3 DEF InOrder
  <2>1. s.ready[i] \in Task \ {p} /\ s.ready[j] \in Task \ {p} BY <1>4
  <2>2. ~Before(s, s.ready[j], s.ready[i]) BY DEF Queued, InOrder
  <2> QED BY <1>3, <2>1, <2>2 DEF Before
<1> DEFINE n == Insert(r, p)
<1>6. /\ n \in Seq(Task) /\ ToSet(n) = ToSet(s.ready) \cup {p} /\ IsInjective(n)
      /\ \A i, j \in DOMAIN n : i < j => ~Before(r, n[j], n[i])
  BY <1>3, <1>5, InsertInOrder DEF Queued
<1>7. t = [r EXCEPT !.ready = n] BY DEF MakeReady, r
<1> HIDE DEF n, t
<1>8. /\ t \in CallState /\ t.ready = n /\ t.sleepq = s.sleepq
      /\ t.priority = r.priority /\ t.round = r.round
  BY <1>3, <1>6, <1>7 DEF CallState
<1>9. InOrder(t) BY <1>6, <1>8 DEF InOrder, Before
<1>10. Queued(t)
  <2>1. \A q \in Task : t.priority[q] <= OriPriority(q)
    <3>1. OriPriority(p) <= OriPriority(p) BY <1>2
    <3> QED BY <1>3, <1>8, <3>1 DEF Queued
  <2>2. \A q \in ToSet(t.ready) : t.priority[q] >= 1
    <3>1. t.priority[p] >= 1 BY <1>1, <1>2, <1>3, <1>8
    <3>2. \A q \in ToSet(s.ready) : q \in Task \ {p} BY <1>4
    <3> QED BY <1>3, <1>6, <1>8, <3>1, <3>2 DEF Queued
  <2> QED BY <1>6, <1>8, <1>9, <2>1, <2>2 DEF Queued
<1>11. Renewed(s, t, {p}) BY <1>3, <1>8 DEF Renewed
<1> QED BY <1>6, <1>8, <1>10, <1>11 DEF t

(* No sleeper falls back, and one that is due moves up or wakes.           *)
MovesUp(s, t, lf) ==
  \A i \in DOMAIN s.sleepq : s.sleepq[i] \in ToSet(t.sleepq) =>
    \E j \in DOMAIN t.sleepq : /\ t.sleepq[j] = s.sleepq[i]
                               /\ IF lf[s.sleepq[i]] = 0 THEN j < i ELSE j <= i

LEMMA MovesUpTwice ==
  ASSUME NEW s, NEW t, NEW u, NEW lf, s.sleepq \in Seq(Task), t.sleepq \in Seq(Task),
         u.sleepq \in Seq(Task), MovesUp(s, t, lf), MovesUp(t, u, lf),
         ToSet(u.sleepq) \subseteq ToSet(t.sleepq)
  PROVE  MovesUp(s, u, lf)
<1>1. /\ DOMAIN s.sleepq \subseteq Nat /\ DOMAIN t.sleepq \subseteq Nat /\ DOMAIN u.sleepq \subseteq Nat
  BY LenProperties
<1> SUFFICES ASSUME NEW i \in DOMAIN s.sleepq, s.sleepq[i] \in ToSet(u.sleepq)
             PROVE  \E j \in DOMAIN u.sleepq :
                      /\ u.sleepq[j] = s.sleepq[i]
                      /\ IF lf[s.sleepq[i]] = 0 THEN j < i ELSE j <= i
  BY DEF MovesUp
<1>2. PICK k \in DOMAIN t.sleepq : /\ t.sleepq[k] = s.sleepq[i]
                                   /\ IF lf[s.sleepq[i]] = 0 THEN k < i ELSE k <= i
  BY DEF MovesUp
<1>3. PICK j \in DOMAIN u.sleepq : /\ u.sleepq[j] = t.sleepq[k]
                                   /\ IF lf[t.sleepq[k]] = 0 THEN j < k ELSE j <= k
  BY <1>2 DEF MovesUp
<1>4. IF lf[s.sleepq[i]] = 0 THEN j < i ELSE j <= i BY <1>1, <1>2, <1>3
<1> QED BY <1>2, <1>3, <1>4

(* check_sleeping()                                                        *)
LEMMA Checked ==
  ASSUME NEW s, Queued(s), NEW lf \in [Task -> Nat]
  PROVE  LET t == CheckSleeping(s, lf)
         IN  /\ Queued(t) /\ ToSet(s.ready) \subseteq ToSet(t.ready)
             /\ ToSet(t.sleepq) \subseteq ToSet(s.sleepq)
             /\ ToSet(t.ready) \cup ToSet(t.sleepq) = ToSet(s.ready) \cup ToSet(s.sleepq)
             /\ Renewed(s, t, ToSet(s.sleepq)) /\ MovesUp(s, t, lf)
<1> DEFINE q == s.sleepq
           due == {i \in DOMAIN q : lf[q[i]] = 0}
           t == CheckSleeping(s, lf)
<1>1. /\ s \in CallState /\ q \in Seq(Task) /\ Len(q) \in Nat /\ DOMAIN q = 1 .. Len(q)
      /\ \A i \in 1 .. Len(q) : q[i] \in Task /\ q[i] \in ToSet(q)
  <2>1. q \in Seq(Task) BY DEF Queued, CallState
  <2>2. DOMAIN q = 1 .. Len(q) /\ Len(q) \in Nat BY <2>1, LenProperties
  <2>3. \A i \in 1 .. Len(q) : q[i] \in Task BY <2>1, ElementOfSeq
  <2> QED BY <2>1, <2>2, <2>3 DEF Queued, ToSet
<1>2. CASE due = {}
  <2>1. t = s BY <1>2 DEF CheckSleeping
  <2>2. Renewed(s, s, ToSet(q)) BY DEF Renewed
  <2>3. MovesUp(s, s, lf)
    <3>1. \A i \in DOMAIN q : lf[q[i]] # 0 /\ i <= i BY <1>1, <1>2
    <3> QED BY <3>1 DEF MovesUp
  <2> QED BY <2>1, <2>2, <2>3
<1>3. CASE due # {}
  <2> DEFINE k == Min(due)
             p == q[k]
             w == RemoveAt(q, k)
             u == [s EXCEPT !.sleepq = w]
  <2>1. k \in due /\ \A i \in due : k <= i
    <3>1. due \in SUBSET Nat BY <1>1
    <3> HIDE DEF due
    <3> QED BY <1>3, <3>1, Least
  <2>2. t = MakeReady(u, p) BY <1>3 DEF CheckSleeping
  <2> HIDE DEF k, t
  <2>3. k \in 1 .. Len(q) /\ lf[p] = 0 /\ \A i \in 1 .. Len(q) : lf[q[i]] = 0 => k <= i
    BY <1>1, <2>1
  <2>4. /\ w \in Seq(Task) /\ IsInjective(w) /\ ToSet(w) = ToSet(q) \ {p}
    BY <1>1, <2>3, RemoveAtQueue DEF Queued
  <2>5. /\ Len(w) = Len(q) - 1
        /\ \A j \in 1 .. Len(q) - 1 : w[j] = IF j < k THEN q[j] ELSE q[j + 1]
    BY <1>1, <2>3, RemovedAt
  <2>6. p \in Task /\ p \in ToSet(q) BY <1>1, <2>3
  <2> HIDE DEF w, p, q
  <2>7. /\ u \in CallState /\ u.ready = s.ready /\ u.sleepq = w
        /\ u.priority = s.priority /\ u.round = s.round
    BY <1>1, <2>4 DEF CallState, q
  <2> HIDE DEF u
  <2>8. Queued(u)
    <3>1. InOrder(u) BY <2>7 DEF Queued, InOrder, Before
    <3> QED BY <2>4, <2>7, <3>1 DEF Queued, q
  <2>9. p \notin ToSet(u.ready) /\ p \notin ToSet(u.sleepq) BY <2>4, <2>6, <2>7 DEF Queued, q
  <2>10. /\ Queued(t) /\ t.sleepq = w /\ ToSet(t.ready) = ToSet(s.ready) \cup {p}
         /\ Renewed(u, t, {p})
    BY <2>2, <2>6, <2>7, <2>8, <2>9, Readied
  <2>11. Renewed(s, t, ToSet(q)) BY <2>6, <2>7, <2>10 DEF Renewed
  <2>12. MovesUp(s, t, lf)
    <3> SUFFICES ASSUME NEW i \in 1 .. Len(q), q[i] \in ToSet(w)
                 PROVE  \E j \in DOMAIN w : /\ w[j] = q[i]
                                            /\ IF lf[q[i]] = 0 THEN j < i ELSE j <= i
      BY <1>1, <2>10 DEF MovesUp, q
    <3>1. DOMAIN w = 1 .. Len(q) - 1 BY <2>4, <2>5, LenProperties
    <3>2. i # k BY <2>4 DEF p
    <3>3. CASE i < k
      <4>1. i \in 1 .. Len(q) - 1 /\ w[i] = q[i] /\ lf[q[i]] # 0 /\ i <= i
        BY <1>1, <2>3, <2>5, <3>3
      <4> QED BY <3>1, <4>1
    <3>4. CASE i > k
      <4>1. i - 1 \in 1 .. Len(q) - 1 /\ ~(i - 1 < k) /\ (i - 1) + 1 = i /\ i - 1 < i /\ i - 1 <= i
        BY <1>1, <2>3, <3>4
      <4>2. w[i - 1] = q[i] BY <2>5, <4>1
      <4> QED BY <3>1, <4>1, <4>2
    <3> QED BY <1>1, <2>3, <3>2, <3>3, <3>4
  <2> QED BY <2>4, <2>6, <2>10, <2>11, <2>12 DEF q, t
<1> QED BY <1>2, <1>3

-----------------------------------------------------------------------------
(* Every task is in one place: it runs, is ready, sleeps or has exited.    *)
Placed ==
  /\ cur \notin ToSet(ready) \cup ToSet(sleepq) \cup exited
  /\ exited \cap (ToSet(ready) \cup ToSet(sleepq)) = {}
  /\ Task = ToSet(ready) \cup ToSet(sleepq) \cup exited \cup ({cur} \ {Nobody})
  /\ ToSet(sleepq) \subseteq slept

(* The task that runs is in no later round than those that wait.           *)
RunsFirst == cur # Nobody => \A q \in ToSet(ready) : round[cur] <= round[q]

P3Sound == Share /\ Queued(Queues) /\ Placed /\ RunsFirst /\ InStep

(* What a call has made of the queues when it comes to the dispatch.       *)
Prepared(s) ==
  /\ Queued(s)
  /\ Renewed(Queues, s, ToSet(sleepq) \cup {cur})
  /\ ToSet(ready) \subseteq ToSet(s.ready)
  /\ ToSet(s.ready) \cup ToSet(s.sleepq) = Task \ exited'
  /\ ToSet(s.sleepq) \subseteq slept'
  /\ MovesUp(Queues, s, left')
  /\ left' \in [Task -> 0 .. MaxSleep]
  /\ exited \subseteq exited' /\ exited' \subseteq Task
  /\ slept \subseteq slept' /\ slept' \subseteq Task

LEMMA QueuesAre ==
  ASSUME P3Sound
  PROVE  /\ Queues.ready = ready /\ Queues.sleepq = sleepq
         /\ Queues.priority = priority /\ Queues.round = round
         /\ ready \in Seq(Task) /\ sleepq \in Seq(Task)
         /\ priority \in [Task -> Nat] /\ round \in [Task -> Nat]
         /\ left \in [Task -> 0 .. MaxSleep] /\ left \in [Task -> Nat]
         /\ exited \subseteq Task /\ slept \subseteq Task /\ Queues \in CallState
         /\ ToSet(ready) \subseteq Task /\ ToSet(sleepq) \subseteq Task
         /\ cur \in Task \cup {Nobody}
<1>1. P3TypeOK BY DEF P3Sound, Share
<1>2. /\ Queues.ready = ready /\ Queues.sleepq = sleepq
      /\ Queues.priority = priority /\ Queues.round = round
  BY DEF Queues
<1>3. Queues \in CallState BY DEF P3Sound, Queued
<1>4. priority \in [Task -> Nat] /\ round \in [Task -> Nat] BY <1>2, <1>3 DEF CallState
<1>5. left \in [Task -> Nat]
  <2>1. 0 .. MaxSleep \subseteq Nat OBVIOUS
  <2> QED BY <1>1, <2>1 DEF P3TypeOK
<1> QED BY <1>1, <1>2, <1>3, <1>4, <1>5, SetOfSeq DEF P3TypeOK

(* A call that leaves the task ready.                                      *)
LEMMA RescheduleWorks ==
  ASSUME P3Sound, cur # Nobody, NEW lf \in [Task -> Nat], Reschedule(lf)
  PROVE  \E s : /\ Dispatch(s) /\ Queued(s)
                /\ Renewed(Queues, s, ToSet(sleepq) \cup {cur})
                /\ ToSet(ready) \subseteq ToSet(s.ready)
                /\ ToSet(s.ready) \cup ToSet(s.sleepq) = Task \ exited
                /\ ToSet(s.sleepq) \subseteq ToSet(sleepq)
                /\ MovesUp(Queues, s, lf)
<1> DEFINE a == CheckSleeping(Queues, lf)
           b == CheckSleeping(a, lf)
           c == MakeReady(b, cur)
<1>1. Dispatch(c) BY DEF Reschedule, PutCurrentRunning
<1>2. Queued(Queues) /\ Placed BY DEF P3Sound
<1>3. cur \in Task BY QueuesAre
<1>4. /\ Queued(a) /\ ToSet(ready) \subseteq ToSet(a.ready)
      /\ ToSet(a.sleepq) \subseteq ToSet(sleepq)
      /\ ToSet(a.ready) \cup ToSet(a.sleepq) = ToSet(ready) \cup ToSet(sleepq)
      /\ Renewed(Queues, a, ToSet(sleepq)) /\ MovesUp(Queues, a, lf)
  BY <1>2, Checked, QueuesAre
<1> HIDE DEF a
<1>5. /\ Queued(b) /\ ToSet(a.ready) \subseteq ToSet(b.ready)
      /\ ToSet(b.sleepq) \subseteq ToSet(a.sleepq)
      /\ ToSet(b.ready) \cup ToSet(b.sleepq) = ToSet(a.ready) \cup ToSet(a.sleepq)
      /\ Renewed(a, b, ToSet(a.sleepq)) /\ MovesUp(a, b, lf)
  BY <1>4, Checked
<1> HIDE DEF b
<1>6. cur \notin ToSet(b.ready) /\ cur \notin ToSet(b.sleepq)
  BY <1>2, <1>4, <1>5 DEF Placed
<1>7. /\ Queued(c) /\ c.sleepq = b.sleepq /\ ToSet(c.ready) = ToSet(b.ready) \cup {cur}
      /\ Renewed(b, c, {cur})
  BY <1>3, <1>5, <1>6, Readied
<1> HIDE DEF c
<1>8. Queues \in CallState /\ a \in CallState /\ b \in CallState /\ c \in CallState
  BY <1>2, <1>4, <1>5, <1>7 DEF Queued
<1>9. Renewed(Queues, c, ToSet(sleepq) \cup {cur})
  <2>1. Renewed(Queues, b, ToSet(sleepq) \cup ToSet(a.sleepq))
    BY <1>4, <1>5, <1>8, RenewedTwice
  <2>2. Renewed(Queues, c, (ToSet(sleepq) \cup ToSet(a.sleepq)) \cup {cur})
    BY <1>7, <1>8, <2>1, RenewedTwice
  <2>3. (ToSet(sleepq) \cup ToSet(a.sleepq)) \cup {cur} = ToSet(sleepq) \cup {cur} BY <1>4
  <2> QED BY <2>2, <2>3
<1>10. MovesUp(Queues, c, lf)
  <2>1. a.sleepq \in Seq(Task) /\ b.sleepq \in Seq(Task) BY <1>8 DEF CallState
  <2>2. MovesUp(Queues, b, lf) BY <1>4, <1>5, <2>1, QueuesAre, MovesUpTwice
  <2> QED BY <1>7, <2>2 DEF MovesUp
<1>11. ToSet(c.ready) \cup ToSet(c.sleepq) = Task \ exited
  BY <1>2, <1>3, <1>4, <1>5, <1>7 DEF Placed
<1>12. ToSet(ready) \subseteq ToSet(c.ready) /\ ToSet(c.sleepq) \subseteq ToSet(sleepq)
  BY <1>4, <1>5, <1>7
<1> QED BY <1>1, <1>7, <1>9, <1>10, <1>11, <1>12

LEMMA YieldPrepares == P3Sound /\ Yield => \E s : Dispatch(s) /\ Prepared(s)
<1> SUFFICES ASSUME P3Sound, Yield PROVE \E s : Dispatch(s) /\ Prepared(s) OBVIOUS
<1>1. cur # Nobody /\ Reschedule(left) /\ UNCHANGED <<left, exited, slept>> BY DEF Yield
<1>2. PICK s : /\ Dispatch(s) /\ Queued(s)
               /\ Renewed(Queues, s, ToSet(sleepq) \cup {cur})
               /\ ToSet(ready) \subseteq ToSet(s.ready)
               /\ ToSet(s.ready) \cup ToSet(s.sleepq) = Task \ exited
               /\ ToSet(s.sleepq) \subseteq ToSet(sleepq)
               /\ MovesUp(Queues, s, left)
  BY <1>1, QueuesAre, RescheduleWorks
<1>3. Prepared(s) BY <1>1, <1>2, QueuesAre DEF Prepared, P3Sound, Placed
<1> QED BY <1>2, <1>3

LEMMA TickPrepares == P3Sound /\ Tick => \E s : Dispatch(s) /\ Prepared(s)
<1> SUFFICES ASSUME P3Sound, Tick PROVE \E s : Dispatch(s) /\ Prepared(s) OBVIOUS
<1>1. /\ left' = [p \in Task |-> IF left[p] > 0 THEN left[p] - 1 ELSE 0]
      /\ UNCHANGED <<exited, slept>>
      /\ \/ cur # Nobody /\ Reschedule(left')
         \/ cur = Nobody /\ Dispatch(CheckSleeping(Queues, left'))
  BY DEF Tick
<1>2. left' \in [Task -> 0 .. MaxSleep] /\ left' \in [Task -> Nat]
  <2>1. \A p \in Task : left[p] \in 0 .. MaxSleep BY QueuesAre
  <2>2. MaxSleep \in Nat BY PriorityAssumption
  <2> QED BY <1>1, <2>1, <2>2
<1>3. CASE cur # Nobody
  <2>1. PICK s : /\ Dispatch(s) /\ Queued(s)
                 /\ Renewed(Queues, s, ToSet(sleepq) \cup {cur})
                 /\ ToSet(ready) \subseteq ToSet(s.ready)
                 /\ ToSet(s.ready) \cup ToSet(s.sleepq) = Task \ exited
                 /\ ToSet(s.sleepq) \subseteq ToSet(sleepq)
                 /\ MovesUp(Queues, s, left')
    BY <1>1, <1>2, <1>3, RescheduleWorks
  <2>2. Prepared(s) BY <1>1, <1>2, <2>1, QueuesAre DEF Prepared, P3Sound, Placed
  <2> QED BY <2>1, <2>2
<1>4. CASE cur = Nobody
  <2> DEFINE s == CheckSleeping(Queues, left')
  <2>1. /\ Queued(s) /\ ToSet(ready) \subseteq ToSet(s.ready)
        /\ ToSet(s.sleepq) \subseteq ToSet(sleepq)
        /\ ToSet(s.ready) \cup ToSet(s.sleepq) = ToSet(ready) \cup ToSet(sleepq)
        /\ Renewed(Queues, s, ToSet(sleepq)) /\ MovesUp(Queues, s, left')
    BY <1>2, Checked, QueuesAre DEF P3Sound
  <2>2. Dispatch(s) BY <1>1, <1>4
  <2> HIDE DEF s
  <2>3. Renewed(Queues, s, ToSet(sleepq) \cup {cur}) BY <2>1 DEF Renewed
  <2>4. ToSet(s.ready) \cup ToSet(s.sleepq) = Task \ exited
    BY <1>4, <2>1 DEF P3Sound, Placed
  <2>5. Prepared(s)
    BY <1>1, <1>2, <2>1, <2>3, <2>4, QueuesAre DEF Prepared, P3Sound, Placed
  <2> QED BY <2>2, <2>5
<1> QED BY <1>3, <1>4

LEMMA ExitPrepares == P3Sound /\ Exit => \E s : Dispatch(s) /\ Prepared(s)
<1> SUFFICES ASSUME P3Sound, Exit PROVE \E s : Dispatch(s) /\ Prepared(s) OBVIOUS
<1> DEFINE s == CheckSleeping(Queues, left)
<1>1. /\ cur # Nobody /\ exited' = exited \cup {cur} /\ UNCHANGED <<left, slept>> /\ Dispatch(s)
  BY DEF Exit
<1>2. /\ Queued(s) /\ ToSet(ready) \subseteq ToSet(s.ready)
      /\ ToSet(s.sleepq) \subseteq ToSet(sleepq)
      /\ ToSet(s.ready) \cup ToSet(s.sleepq) = ToSet(ready) \cup ToSet(sleepq)
      /\ Renewed(Queues, s, ToSet(sleepq)) /\ MovesUp(Queues, s, left)
  BY Checked, QueuesAre DEF P3Sound
<1> HIDE DEF s
<1>3. Renewed(Queues, s, ToSet(sleepq) \cup {cur}) BY <1>2 DEF Renewed
<1>4. ToSet(s.ready) \cup ToSet(s.sleepq) = Task \ exited'
  BY <1>1, <1>2 DEF P3Sound, Placed
<1>5. Prepared(s)
  BY <1>1, <1>2, <1>3, <1>4, QueuesAre DEF Prepared, P3Sound, Placed
<1> QED BY <1>1, <1>5

LEMMA SleepPrepares ==
  ASSUME P3Sound, NEW ticks \in 0 .. MaxSleep, Sleep(ticks)
  PROVE  \E s : Dispatch(s) /\ Prepared(s)
<1> DEFINE w == Append(sleepq, cur)
           q == [Queues EXCEPT !.sleepq = w]
           s == CheckSleeping(q, left')
<1>1. /\ cur # Nobody /\ left' = [left EXCEPT ![cur] = ticks] /\ slept' = slept \cup {cur}
      /\ exited' = exited /\ Dispatch(s)
  BY QueuesAre DEF Sleep
<1>2. cur \in Task BY <1>1, QueuesAre
<1>3. left' \in [Task -> 0 .. MaxSleep] /\ left' \in [Task -> Nat]
  <2>1. ticks \in Nat OBVIOUS
  <2> QED BY <1>1, <1>2, <2>1, QueuesAre
<1>4. /\ w \in Seq(Task) /\ ToSet(w) = ToSet(sleepq) \cup {cur} /\ IsInjective(w)
  BY <1>2, QueuesAre, AppendQueue DEF P3Sound, Queued, Placed
<1>5. DOMAIN sleepq \subseteq DOMAIN w /\ \A i \in DOMAIN sleepq : w[i] = sleepq[i]
  <2>1. Len(sleepq) \in Nat /\ DOMAIN sleepq = 1 .. Len(sleepq) BY QueuesAre, LenProperties
  <2>2. Len(w) = Len(sleepq) + 1 /\ \A i \in 1 .. Len(sleepq) : w[i] = sleepq[i]
    BY <1>2, QueuesAre
  <2>3. DOMAIN w = 1 .. Len(w) BY <1>4, LenProperties
  <2> QED BY <2>1, <2>2, <2>3
<1> HIDE DEF w
<1>6. /\ q \in CallState /\ q.ready = ready /\ q.sleepq = w
      /\ q.priority = priority /\ q.round = round
  BY <1>4, QueuesAre DEF CallState
<1> HIDE DEF q
<1>7. Queued(q)
  <2>1. InOrder(q) BY <1>6, QueuesAre DEF P3Sound, Queued, InOrder, Before
  <2> QED BY <1>4, <1>6, <2>1, QueuesAre DEF P3Sound, Queued, Placed
<1>8. /\ Queued(s) /\ ToSet(ready) \subseteq ToSet(s.ready)
      /\ ToSet(s.sleepq) \subseteq ToSet(w)
      /\ ToSet(s.ready) \cup ToSet(s.sleepq) = ToSet(ready) \cup ToSet(w)
      /\ Renewed(q, s, ToSet(w)) /\ MovesUp(q, s, left')
  BY <1>3, <1>6, <1>7, Checked
<1> HIDE DEF s
<1>9. Renewed(Queues, s, ToSet(sleepq) \cup {cur})
  BY <1>4, <1>6, <1>8, QueuesAre DEF Renewed
<1>10. MovesUp(Queues, s, left')
  <2> SUFFICES ASSUME NEW i \in DOMAIN sleepq, sleepq[i] \in ToSet(s.sleepq)
               PROVE  \E j \in DOMAIN s.sleepq :
                        /\ s.sleepq[j] = sleepq[i]
                        /\ IF left'[sleepq[i]] = 0 THEN j < i ELSE j <= i
    BY QueuesAre DEF MovesUp
  <2>1. i \in DOMAIN q.sleepq /\ q.sleepq[i] = sleepq[i] BY <1>5, <1>6
  <2> QED BY <1>8, <2>1 DEF MovesUp
<1>11. ToSet(s.ready) \cup ToSet(s.sleepq) = Task \ exited'
  BY <1>1, <1>2, <1>4, <1>8 DEF P3Sound, Placed
<1>12. ToSet(s.sleepq) \subseteq slept'
  BY <1>1, <1>4, <1>8 DEF P3Sound, Placed
<1>13. Prepared(s)
  BY <1>1, <1>2, <1>3, <1>8, <1>9, <1>10, <1>11, <1>12, QueuesAre DEF Prepared
<1> QED BY <1>1, <1>13

LEMMA CallsPrepare == P3Sound /\ (Call \/ Tick) => \E s : Dispatch(s) /\ Prepared(s)
BY YieldPrepares, TickPrepares, ExitPrepares, SleepPrepares DEF Call

-----------------------------------------------------------------------------
(* The dispatch that ends a call.                                          *)
Paid(p) == round[p] * OriPriority(p) + OriPriority(p) - priority[p]

LEMMA NextRoundPaid ==
  ASSUME NEW r \in Nat, NEW o \in Nat
  PROVE  (r + 1) * o = r * o + o /\ r * o \in Nat
OBVIOUS

(* The head of the ready queue, if there is one, and what is left of it.   *)
LEMMA Dispatched ==
  ASSUME P3Sound, NEW s, Dispatch(s), Prepared(s)
  PROVE  /\ Queued(Queues)' /\ RunsFirst' /\ cur' \in Task \cup {Nobody}
         /\ cur' \notin ToSet(ready') \cup ToSet(sleepq')
         /\ ToSet(s.ready) = ToSet(ready') \cup ({cur'} \ {Nobody})
         /\ sleepq' = s.sleepq /\ round' = s.round
         /\ priority' = [p \in Task |-> IF p = cur' THEN s.priority[p] - 1 ELSE s.priority[p]]
         /\ cur' \in Task => /\ s.priority[cur'] >= 1
                             /\ \A p \in ToSet(ready') :
                                  /\ s.round[cur'] <= s.round[p]
                                  /\ s.round[cur'] = s.round[p] => s.priority[cur'] >= s.priority[p]
         /\ entry_count' = [p \in Task |-> IF p = cur' THEN entry_count[p] + 1 ELSE entry_count[p]]
<1>1. /\ Queued(s) /\ s \in CallState /\ s.ready \in Seq(Task) /\ s.sleepq \in Seq(Task)
      /\ s.priority \in [Task -> Nat] /\ s.round \in [Task -> Nat]
  BY DEF Prepared, Queued, CallState
<1>2. /\ sleepq' = s.sleepq /\ round' = s.round
      /\ \/ /\ s.ready # <<>>
            /\ cur' = Head(s.ready) /\ ready' = Tail(s.ready)
            /\ entry_count' = [entry_count EXCEPT ![cur'] = @ + 1]
            /\ priority' = [s.priority EXCEPT ![cur'] = @ - 1]
         \/ /\ s.ready = <<>>
            /\ cur' = Nobody /\ ready' = <<>> /\ priority' = s.priority
            /\ entry_count' = entry_count
  BY DEF Dispatch
<1>3. entry_count \in [Task -> Nat] BY DEF P3Sound, Share, P3TypeOK
<1>4. Nobody \notin Task BY PriorityAssumption
<1>5. Queues' = [ready |-> ready', sleepq |-> sleepq', priority |-> priority', round |-> round']
  BY DEF Queues
<1>6. CASE s.ready # <<>>
  <2> DEFINE h == Head(s.ready)
             q == s.ready
  <2>1. /\ h \in Task /\ Tail(q) \in Seq(Task) /\ h \in ToSet(q)
        /\ ToSet(q) = ToSet(Tail(q)) \cup {h}
        /\ IsInjective(Tail(q)) /\ ToSet(Tail(q)) = ToSet(q) \ {h}
    BY <1>1, <1>6, TailQueue DEF Queued
  <2>2. /\ cur' = h /\ ready' = Tail(q)
        /\ entry_count' = [entry_count EXCEPT ![h] = @ + 1]
        /\ priority' = [s.priority EXCEPT ![h] = @ - 1]
    BY <1>2, <1>6
  <2>3. s.priority[h] >= 1 /\ s.priority[h] \in Nat BY <1>1, <2>1 DEF Queued
  <2>4. /\ priority' \in [Task -> Nat]
        /\ priority' = [p \in Task |-> IF p = cur' THEN s.priority[p] - 1 ELSE s.priority[p]]
        /\ entry_count' = [p \in Task |-> IF p = cur' THEN entry_count[p] + 1 ELSE entry_count[p]]
    <3> HIDE DEF h
    <3>1. priority' \in [Task -> Nat]
      <4>1. s.priority[h] - 1 \in Nat BY <2>3
      <4> QED BY <1>1, <2>1, <2>2, <4>1
    <3>2. priority' = [p \in Task |-> IF p = cur' THEN s.priority[p] - 1 ELSE s.priority[p]]
      BY <1>1, <2>1, <2>2
    <3>3. entry_count' = [p \in Task |-> IF p = cur' THEN entry_count[p] + 1 ELSE entry_count[p]]
      BY <1>3, <2>1, <2>2
    <3> QED BY <3>1, <3>2, <3>3
  <2>5. /\ Len(q) \in Nat /\ Len(q) >= 1 /\ DOMAIN q = 1 .. Len(q) /\ h = q[1]
        /\ DOMAIN Tail(q) = 1 .. Len(q) - 1
        /\ \A i \in 1 .. Len(q) - 1 : Tail(q)[i] = q[i + 1]
    <3>1. Len(q) \in Nat \ {0} BY <1>1, <1>6, EmptySeq
    <3>2. DOMAIN q = 1 .. Len(q) BY <1>1, LenProperties
    <3>3. Len(Tail(q)) = Len(q) - 1 /\ \A i \in 1 .. Len(Tail(q)) : Tail(q)[i] = q[i + 1]
      BY <1>1, <1>6, HeadTailProperties
    <3>4. DOMAIN Tail(q) = 1 .. Len(Tail(q)) BY <2>1, LenProperties
    <3>5. h = q[1] BY <1>1, <1>6
    <3> QED BY <3>1, <3>2, <3>3, <3>4, <3>5
  <2> HIDE DEF h, q
  <2>6. \A i, j \in 1 .. Len(q) : i < j => ~Before(s, q[j], q[i])
    BY <1>1, <2>5 DEF Queued, InOrder, q
  <2>7. \A p \in ToSet(Tail(q)) : ~Before(s, p, h)
    <3> SUFFICES ASSUME NEW i \in 1 .. Len(q) - 1 PROVE ~Before(s, q[i + 1], q[1])
      BY <2>5 DEF ToSet
    <3>1. i + 1 \in 1 .. Len(q) /\ 1 \in 1 .. Len(q) /\ 1 < i + 1 BY <2>5
    <3> QED BY <2>6, <3>1
  <2>8. \A p \in ToSet(Tail(q)) :
          /\ p \in Task /\ s.round[h] <= s.round[p]
          /\ s.round[h] = s.round[p] => s.priority[h] >= s.priority[p]
    <3> SUFFICES ASSUME NEW p \in ToSet(Tail(q))
                 PROVE  /\ p \in Task /\ s.round[h] <= s.round[p]
                        /\ s.round[h] = s.round[p] => s.priority[h] >= s.priority[p]
      OBVIOUS
    <3>1. p \in Task BY <2>1, SetOfSeq
    <3>2. ~Before(s, p, h) BY <2>7
    <3>3. /\ s.round[p] \in Nat /\ s.round[h] \in Nat
          /\ s.priority[p] \in Nat /\ s.priority[h] \in Nat
      BY <1>1, <2>1, <3>1
    <3> QED BY <3>1, <3>2, <3>3 DEF Before
  <2>9. Queued(Queues)'
    <3>1. Queues' \in CallState BY <1>1, <1>2, <1>5, <2>1, <2>2, <2>4 DEF CallState
    <3>2. \A p \in Task : priority'[p] <= OriPriority(p)
      <4> SUFFICES ASSUME NEW p \in Task PROVE priority'[p] <= OriPriority(p) OBVIOUS
      <4>1. s.priority[p] \in Nat /\ s.priority[p] <= OriPriority(p) BY <1>1 DEF Queued
      <4>2. priority'[p] = s.priority[p] - 1 \/ priority'[p] = s.priority[p] BY <2>4
      <4>3. OriPriority(p) \in Nat BY PriorityAssumption DEF OriPriority, Task
      <4> QED BY <4>1, <4>2, <4>3
    <3>3. \A p \in ToSet(Tail(q)) : p # h /\ p \in Task /\ priority'[p] = s.priority[p]
      BY <2>1, <2>2, <2>4, <2>8
    <3>4. \A p \in ToSet(Tail(q)) : priority'[p] >= 1
      BY <1>1, <2>1, <3>3 DEF Queued, q
    <3>5. \A i, j \in DOMAIN Tail(q) : i < j => ~Before(Queues', Tail(q)[j], Tail(q)[i])
      <4> SUFFICES ASSUME NEW i \in 1 .. Len(q) - 1, NEW j \in 1 .. Len(q) - 1, i < j
                   PROVE  ~Before(Queues', Tail(q)[j], Tail(q)[i])
        BY <2>5
      <4>1. Tail(q)[i] \in ToSet(Tail(q)) /\ Tail(q)[j] \in ToSet(Tail(q)) BY <2>5 DEF ToSet
      <4>2. /\ i + 1 \in 1 .. Len(q) /\ j + 1 \in 1 .. Len(q) /\ i + 1 < j + 1
            /\ Tail(q)[i] = q[i + 1] /\ Tail(q)[j] = q[j + 1]
        BY <2>5
      <4>3. ~Before(s, Tail(q)[j], Tail(q)[i]) BY <2>6, <4>2
      <4>4. /\ priority'[Tail(q)[j]] = s.priority[Tail(q)[j]]
            /\ priority'[Tail(q)[i]] = s.priority[Tail(q)[i]]
        BY <3>3, <4>1
      <4> QED BY <1>2, <1>5, <4>3, <4>4 DEF Before
    <3>6. /\ IsInjective(ready') /\ IsInjective(sleepq') /\ ToSet(ready') \cap ToSet(sleepq') = {}
      BY <1>1, <1>2, <2>1, <2>2 DEF Queued, q
    <3>7. /\ Queues'.ready = ready' /\ Queues'.sleepq = sleepq' /\ Queues'.priority = priority'
          /\ Queues'.round = round' /\ ready' = Tail(q)
      BY <1>5, <2>2
    <3>8. InOrder(Queues)'
      <4>1. \A i, j \in DOMAIN Queues'.ready :
              i < j => ~Before(Queues', Queues'.ready[j], Queues'.ready[i])
        BY <3>5, <3>7
      <4> QED BY <4>1 DEF InOrder, Before
    <3> QED BY <3>1, <3>2, <3>4, <3>6, <3>7, <3>8 DEF Queued
  <2>10. RunsFirst' BY <1>2, <2>2, <2>8 DEF RunsFirst
  <2>11. cur' \notin ToSet(ready') \cup ToSet(sleepq')
    BY <1>1, <1>2, <2>1, <2>2 DEF Queued, q
  <2>12. ToSet(s.ready) = ToSet(ready') \cup ({cur'} \ {Nobody})
    BY <1>4, <2>1, <2>2 DEF q
  <2> QED BY <1>2, <2>1, <2>2, <2>3, <2>4, <2>8, <2>9, <2>10, <2>11, <2>12
<1>7. CASE s.ready = <<>>
  <2>1. cur' = Nobody /\ ready' = <<>> /\ priority' = s.priority /\ entry_count' = entry_count
    BY <1>2, <1>7
  <2>2. ToSet(<<>>) = {} BY EmptyQueue
  <2>3. ToSet(s.sleepq) \subseteq Task BY <1>1, SetOfSeq
  <2>4. Queues' = s BY <1>1, <1>2, <1>5, <1>7, <2>1 DEF CallState
  <2>5. Queued(Queues)'
    <3>1. Queued(Queues') BY <1>1, <2>4
    <3> QED BY <3>1 DEF Queued, CallState, InOrder, Before
  <2> QED BY <1>1, <1>2, <1>3, <1>4, <2>1, <2>2, <2>3, <2>5 DEF RunsFirst
<1> QED BY <1>6, <1>7

LEMMA DispatchSound ==
  ASSUME P3Sound, NEW s, Dispatch(s), Prepared(s), \A p \in Task : round'[p] <= MaxRound
  PROVE  P3Sound'
<1>1. /\ Queued(Queues)' /\ RunsFirst' /\ cur' \in Task \cup {Nobody}
      /\ cur' \notin ToSet(ready') \cup ToSet(sleepq')
      /\ ToSet(s.ready) = ToSet(ready') \cup ({cur'} \ {Nobody})
      /\ sleepq' = s.sleepq /\ round' = s.round
      /\ priority' = [p \in Task |-> IF p = cur' THEN s.priority[p] - 1 ELSE s.priority[p]]
      /\ cur' \in Task => s.priority[cur'] >= 1
      /\ entry_count' = [p \in Task |-> IF p = cur' THEN entry_count[p] + 1 ELSE entry_count[p]]
  BY Dispatched
<1>2. /\ s \in CallState /\ s.priority \in [Task -> Nat] /\ s.round \in [Task -> Nat]
      /\ ToSet(s.ready) \cup ToSet(s.sleepq) = Task \ exited'
      /\ ToSet(s.ready) \cap ToSet(s.sleepq) = {}
      /\ ToSet(s.sleepq) \subseteq slept' /\ left' \in [Task -> 0 .. MaxSleep]
      /\ exited' \subseteq Task /\ slept' \subseteq Task
      /\ exited \subseteq exited' /\ slept \subseteq slept'
  BY DEF Prepared, Queued, CallState
<1>3. Nobody \notin Task BY PriorityAssumption
<1>4. \A p \in Task : OriPriority(p) \in Nat /\ OriPriority(p) <= NumTasks + 1
  BY PriorityAssumption DEF OriPriority, Task
<1>5. \A p \in Task :
        \/ s.priority[p] = priority[p] /\ s.round[p] = round[p]
        \/ /\ p \in ToSet(sleepq) \cup {cur} /\ priority[p] = 0
           /\ s.priority[p] = OriPriority(p) /\ s.round[p] = round[p] + 1
  BY QueuesAre DEF Prepared, Renewed
<1>6. P3TypeOK'
  <2>1. Queues' \in CallState BY <1>1 DEF Queued, CallState
  <2>2. /\ ready' \in Seq(Task) /\ sleepq' \in Seq(Task)
        /\ priority' \in [Task -> Nat] /\ round' \in [Task -> Nat]
    BY <2>1 DEF CallState, Queues
  <2>3. \A p \in Task : priority'[p] <= OriPriority(p) BY <1>1 DEF Queued, Queues, OriPriority
  <2>4. priority' \in [Task -> 0 .. NumTasks + 1]
    <3>1. \A p \in Task : priority'[p] \in 0 .. NumTasks + 1
      BY <1>4, <2>2, <2>3, PriorityAssumption
    <3> QED BY <2>2, <3>1
  <2>5. round' \in [Task -> 0 .. MaxRound]
    <3>1. \A p \in Task : round'[p] \in 0 .. MaxRound BY <2>2, PriorityAssumption
    <3> QED BY <2>2, <3>1
  <2>6. entry_count' \in [Task -> Nat] BY <1>1 DEF P3Sound, Share, P3TypeOK
  <2> QED BY <1>1, <1>2, <2>2, <2>4, <2>5, <2>6 DEF P3TypeOK
<1>7. ASSUME NEW p \in Task
      PROVE  entry_count'[p] = round'[p] * OriPriority(p) + OriPriority(p) - priority'[p]
  <2> DEFINE o == OriPriority(p)
             r == round[p]
  <2>1. entry_count[p] = r * o + o - priority[p] BY DEF P3Sound, Share
  <2>2. /\ r \in Nat /\ o \in Nat /\ priority[p] \in Nat /\ s.priority[p] \in Nat
    BY <1>2, <1>4, QueuesAre
  <2>3. \/ s.priority[p] = priority[p] /\ s.round[p] = r
        \/ priority[p] = 0 /\ s.priority[p] = o /\ s.round[p] = r + 1
    BY <1>5
  <2>4. (r + 1) * o = r * o + o /\ r * o \in Nat BY <2>2, NextRoundPaid
  <2>5. round'[p] = s.round[p] /\ OriPriority(p) = o BY <1>1
  <2> HIDE DEF o, r
  <2>6. entry_count[p] = s.round[p] * o + o - s.priority[p]
    <3>1. CASE s.priority[p] = priority[p] /\ s.round[p] = r BY <2>1, <3>1
    <3>2. CASE priority[p] = 0 /\ s.priority[p] = o /\ s.round[p] = r + 1
      <4> DEFINE m == r * o
      <4>1. m \in Nat /\ (r + 1) * o = m + o /\ entry_count[p] = m + o - priority[p]
        BY <2>1, <2>4
      <4> HIDE DEF m
      <4>2. entry_count[p] = (m + o) + o - o BY <2>2, <3>2, <4>1
      <4> QED BY <3>2, <4>1, <4>2
    <3> QED BY <2>3, <3>1, <3>2
  <2>7. s.round[p] * o \in Nat BY <1>2, <2>2, NextRoundPaid
  <2>8. CASE p = cur'
    <3>1. entry_count'[p] = entry_count[p] + 1 /\ priority'[p] = s.priority[p] - 1
      BY <1>1, <2>8
    <3> DEFINE m == s.round[p] * o
    <3>2. m \in Nat /\ entry_count[p] = m + o - s.priority[p] BY <2>6, <2>7
    <3> HIDE DEF m
    <3>3. entry_count'[p] = m + o - priority'[p] BY <2>2, <3>1, <3>2
    <3> QED BY <2>5, <3>3 DEF m
  <2>9. CASE p # cur'
    <3>1. entry_count'[p] = entry_count[p] /\ priority'[p] = s.priority[p] BY <1>1, <2>9
    <3> QED BY <2>5, <2>6, <3>1
  <2> QED BY <2>8, <2>9
<1>8. Share'
  <2>1. \A p \in Task : OriPriority(p)' = OriPriority(p) BY DEF OriPriority
  <2> QED BY <1>6, <1>7, <2>1 DEF Share, OriPriority
<1>9. Placed'
  <2>1. ToSet(sleepq)' = ToSet(sleepq') /\ ToSet(ready)' = ToSet(ready') BY DEF ToSet
  <2>2. cur' \notin exited' BY <1>1, <1>2, <1>3
  <2>3. exited' \cap (ToSet(ready') \cup ToSet(sleepq')) = {} BY <1>1, <1>2
  <2>4. Task = ToSet(ready') \cup ToSet(sleepq') \cup exited' \cup ({cur'} \ {Nobody})
    BY <1>1, <1>2
  <2>5. ToSet(sleepq') \subseteq slept' BY <1>1, <1>2
  <2> QED BY <1>1, <2>1, <2>2, <2>3, <2>4, <2>5 DEF Placed
<1>10. InStep'
  <2> SUFFICES ASSUME NEW p \in Task \ (slept' \cup exited'), NEW q \in Task \ (slept' \cup exited')
               PROVE  s.round[p] <= s.round[q] + 1
    BY <1>1 DEF InStep
  <2>1. p \in Task \ (slept \cup exited) /\ q \in Task \ (slept \cup exited) BY <1>2
  <2>2. /\ round[p] <= round[q] + 1 /\ round[p] \in Nat /\ round[q] \in Nat
        /\ s.round[p] \in Nat /\ s.round[q] \in Nat
    BY <1>2, <2>1, QueuesAre DEF P3Sound, InStep
  <2>3. p \notin ToSet(sleepq) /\ q \in ToSet(ready) \cup {cur}
    BY <2>1 DEF P3Sound, Placed
  <2>4. round[q] <= s.round[q] BY <1>5, <2>2
  <2>5. CASE s.round[p] = round[p] BY <2>2, <2>4, <2>5
  <2>6. CASE s.round[p] # round[p]
    <3>1. p = cur /\ s.round[p] = round[p] + 1 BY <1>5, <2>3, <2>6
    <3>2. CASE q = p BY <2>2, <3>2
    <3>3. CASE q # p
      <4>1. q \in ToSet(ready) BY <2>3, <3>1, <3>3
      <4>2. round[p] <= round[q] BY <1>3, <3>1, <4>1 DEF P3Sound, RunsFirst
      <4> QED BY <2>2, <2>4, <3>1, <4>2
    <3> QED BY <3>2, <3>3
  <2> QED BY <2>5, <2>6
<1> QED BY <1>1, <1>8, <1>9, <1>10 DEF P3Sound

(* _start()                                                                *)
LEMMA StartSound == P3Init => P3Sound
<1> SUFFICES ASSUME P3Init PROVE P3Sound OBVIOUS
<1> DEFINE n == NumTasks
           q == [i \in 1 .. n - 1 |-> n - i]
<1>1. /\ priority = [p \in Task |-> IF p = n THEN OriPriority(p) - 1 ELSE OriPriority(p)]
      /\ round = [p \in Task |-> 0] /\ left = [p \in Task |-> 0]
      /\ ready = q /\ sleepq = <<>> /\ cur = n
      /\ entry_count = [p \in Task |-> IF p = n THEN 1 ELSE 0]
      /\ exited = {} /\ slept = {}
  BY DEF P3Init
<1>2. n \in Nat \ {0} /\ Task = 1 .. n /\ MaxSleep \in Nat /\ MaxRound \in Nat /\ Nobody \notin Task
  BY PriorityAssumption DEF Task
<1>3. /\ q \in Seq(Task) /\ Len(q) = n - 1 /\ DOMAIN q = 1 .. n - 1
      /\ \A i \in 1 .. n - 1 : q[i] = n - i
  <2>1. n - 1 \in Nat /\ \A i \in 1 .. n - 1 : n - i \in 1 .. n BY <1>2
  <2>2. q \in [1 .. n - 1 -> Task] BY <1>2, <2>1
  <2>3. q \in Seq(Task) BY <2>1, <2>2
  <2>4. Len(q) = n - 1 BY <2>1, <2>2, <2>3, LenProperties
  <2> QED BY <2>3, <2>4
<1> HIDE DEF q, n
<1>4. ToSet(q) = 1 .. n - 1
  <2>1. ASSUME NEW k \in 1 .. n - 1 PROVE k \in ToSet(q)
    <3>1. n - k \in 1 .. n - 1 /\ n - (n - k) = k BY <1>2
    <3>2. q[n - k] = k BY <1>3, <3>1
    <3> QED BY <1>3, <3>1, <3>2 DEF ToSet
  <2>2. ASSUME NEW i \in 1 .. n - 1 PROVE q[i] \in 1 .. n - 1 BY <1>2, <1>3
  <2> QED BY <1>3, <2>1, <2>2 DEF ToSet
<1>5. ToSet(sleepq) = {} /\ IsInjective(sleepq) /\ sleepq \in Seq(Task) BY <1>1, EmptyQueue
<1>6. \A p \in Task : OriPriority(p) \in Nat /\ OriPriority(p) = p + 1 /\ OriPriority(p) <= n + 1
  BY <1>2 DEF OriPriority
<1>7. priority \in [Task -> Nat] /\ \A p \in Task : priority[p] <= OriPriority(p) /\ priority[p] >= 1
  <2>1. \A p \in Task : /\ priority[p] \in Nat /\ priority[p] <= OriPriority(p) /\ priority[p] >= 1
    BY <1>1, <1>2, <1>6
  <2>2. priority = [p \in Task |-> priority[p]] BY <1>1
  <2> QED BY <2>1, <2>2
<1>8. Share
  <2>1. P3TypeOK
    <3>1. \A p \in Task : priority[p] \in 0 .. n + 1 BY <1>2, <1>6, <1>7
    <3>2. priority \in [Task -> 0 .. n + 1] BY <1>7, <3>1
    <3>3. /\ round \in [Task -> 0 .. MaxRound] /\ left \in [Task -> 0 .. MaxSleep]
          /\ entry_count \in [Task -> Nat] /\ cur \in Task
      BY <1>1, <1>2
    <3> QED BY <1>1, <1>3, <1>5, <3>2, <3>3 DEF P3TypeOK, n
  <2>2. ASSUME NEW p \in Task
        PROVE  entry_count[p] = round[p] * OriPriority(p) + OriPriority(p) - priority[p]
    <3> DEFINE o == OriPriority(p)
    <3>1. o \in Nat /\ 0 * o = 0 BY <1>6
    <3>2. round[p] = 0 BY <1>1
    <3>3. round[p] * o = 0 BY <3>1, <3>2
    <3>4. /\ priority[p] = IF p = n THEN o - 1 ELSE o
          /\ entry_count[p] = IF p = n THEN 1 ELSE 0
      BY <1>1
    <3> HIDE DEF o
    <3>5. entry_count[p] = 0 + o - priority[p] BY <3>1, <3>4
    <3> QED BY <3>3, <3>5 DEF o
  <2> QED BY <2>1, <2>2 DEF Share
<1>9. Queued(Queues)
  <2>1. /\ Queues.ready = q /\ Queues.sleepq = sleepq
        /\ Queues.priority = priority /\ Queues.round = round /\ Queues \in CallState
    BY <1>1, <1>3, <1>5, <1>7 DEF Queues, CallState
  <2>2. IsInjective(q)
    <3> SUFFICES ASSUME NEW i \in 1 .. n - 1, NEW j \in 1 .. n - 1, q[i] = q[j] PROVE i = j
      BY <1>3 DEF IsInjective
    <3>1. q[i] = n - i /\ q[j] = n - j BY <1>3
    <3>2. n - i = n - j BY <3>1
    <3> QED BY <1>2, <3>2
  <2>3. InOrder(Queues)
    <3> SUFFICES ASSUME NEW i \in 1 .. n - 1, NEW j \in 1 .. n - 1, i < j
                 PROVE  ~Before(Queues, q[j], q[i])
      BY <1>3, <2>1 DEF InOrder
    <3>1. /\ q[i] \in Task /\ q[j] \in Task /\ q[i] = n - i /\ q[j] = n - j
          /\ q[i] # n /\ q[j] # n
      <4>1. \A k \in 1 .. n - 1 : n - k \in 1 .. n /\ n - k # n BY <1>2
      <4>2. q[i] = n - i /\ q[j] = n - j BY <1>3
      <4> QED BY <1>2, <4>1, <4>2
    <3>2. priority[q[i]] = (n - i) + 1 /\ priority[q[j]] = (n - j) + 1
      BY <1>1, <1>6, <3>1
    <3>3. round[q[i]] = 0 /\ round[q[j]] = 0 BY <1>1, <3>1
    <3>4. ~(priority[q[j]] > priority[q[i]]) BY <1>2, <3>2
    <3> QED BY <2>1, <3>3, <3>4 DEF Before
  <2>4. \A p \in ToSet(q) : priority[p] >= 1 BY <1>2, <1>4, <1>7
  <2> QED BY <1>5, <1>7, <2>1, <2>2, <2>3, <2>4 DEF Queued
<1>10. Placed BY <1>1, <1>2, <1>4, <1>5 DEF Placed
<1>11. RunsFirst
  <2>1. \A p \in ToSet(ready) \cup {cur} : p \in Task BY <1>1, <1>2, <1>4
  <2>2. \A p \in ToSet(ready) \cup {cur} : round[p] = 0 BY <1>1, <2>1
  <2> QED BY <2>2 DEF RunsFirst
<1>12. InStep BY <1>1 DEF InStep
<1> QED BY <1>8, <1>9, <1>10, <1>11, <1>12 DEF P3Sound

LEMMA P3Unchanged == P3Sound /\ UNCHANGED p3vars => P3Sound'
<1> SUFFICES ASSUME P3Sound, UNCHANGED p3vars PROVE P3Sound' OBVIOUS
<1>1. UNCHANGED <<priority, round, left, ready, sleepq, cur, entry_count, exited, slept>>
  BY DEF p3vars
<1>2. Share' BY <1>1 DEF P3Sound, Share, P3TypeOK
<1>3. Queued(Queues)' BY <1>1 DEF P3Sound, Queued, Queues, CallState, InOrder, Before
<1>4. Placed' /\ RunsFirst' /\ InStep' BY <1>1 DEF P3Sound, Placed, RunsFirst, InStep
<1> QED BY <1>2, <1>3, <1>4 DEF P3Sound

LEMMA P3StepSound == P3Sound /\ [P3Next]_p3vars => P3Sound'
<1> SUFFICES ASSUME P3Sound, P3Next PROVE P3Sound' BY P3Unchanged
<1>1. (Call \/ Tick \/ Stop) /\ \A p \in Task : round'[p] <= MaxRound BY DEF P3Next
<1>2. CASE Call \/ Tick BY <1>1, <1>2, CallsPrepare, DispatchSound
<1>3. CASE Stop BY <1>3, P3Unchanged DEF Stop
<1> QED BY <1>1, <1>2, <1>3

(* The places of the tasks and the order of the ready queue.               *)
THEOREM P3AlwaysSound == P3Spec => []P3Sound
<1>1. P3Init => P3Sound BY StartSound
<1>2. P3Sound /\ [P3Next]_p3vars => P3Sound' BY P3StepSound
<1> QED BY <1>1, <1>2, PTL DEF P3Spec

(* Every task has had exactly the dispatches its priority pays for.        *)
THEOREM FairShare == P3Spec => []Share
<1>1. P3Sound => Share BY DEF P3Sound
<1> QED BY <1>1, P3AlwaysSound, PTL

(* Tasks that never sleep are never more than one round apart.             *)
THEOREM WithinOneRound == P3Spec => []InStep
<1>1. P3Sound => InStep BY DEF P3Sound
<1> QED BY <1>1, P3AlwaysSound, PTL

(* check_sleeping() in every call: a sleeper that is due wakes or moves up. *)
THEOREM DueInTurn == P3Spec => WakesInTurn
<1> DEFINE A == \A i \in DOMAIN sleepq :
                  LET p == sleepq[i] IN
                    left'[p] = 0 /\ p \in ToSet(sleepq') => \E j \in 1 .. i - 1 : sleepq'[j] = p
<1>1. ASSUME P3Sound, [P3Next]_p3vars PROVE [A]_p3vars
  <2> SUFFICES ASSUME P3Next, ~UNCHANGED p3vars PROVE A BY <1>1
  <2>1. Call \/ Tick BY DEF P3Next, Stop
  <2>2. PICK s : Dispatch(s) /\ Prepared(s) BY <1>1, <2>1, CallsPrepare
  <2>3. MovesUp(Queues, s, left') /\ sleepq' = s.sleepq /\ s.sleepq \in Seq(Task)
    BY <2>2 DEF Prepared, Dispatch, Queued, CallState
  <2> SUFFICES ASSUME NEW i \in DOMAIN sleepq, left'[sleepq[i]] = 0, sleepq[i] \in ToSet(sleepq')
               PROVE  \E j \in 1 .. i - 1 : sleepq'[j] = sleepq[i]
    OBVIOUS
  <2>4. PICK j \in DOMAIN s.sleepq : s.sleepq[j] = sleepq[i] /\ j < i
    BY <1>1, <2>3, QueuesAre DEF MovesUp
  <2>5. j \in 1 .. i - 1
    <3>1. /\ DOMAIN s.sleepq = 1 .. Len(s.sleepq) /\ Len(s.sleepq) \in Nat
          /\ DOMAIN sleepq = 1 .. Len(sleepq) /\ Len(sleepq) \in Nat
      BY <1>1, <2>3, QueuesAre, LenProperties
    <3> QED BY <2>4, <3>1
  <2> QED BY <2>3, <2>4, <2>5
<1>2. P3Sound /\ [P3Next]_p3vars => [A]_p3vars BY <1>1
<1>3. WakesInTurn <=> [][A]_p3vars BY DEF WakesInTurn
<1> HIDE DEF A
<1> QED BY <1>2, <1>3, P3AlwaysSound, PTL DEF P3Spec

-----------------------------------------------------------------------------
(* MapThenSumSet adds up the elements of a set in some order.              *)
Picked(s) == CHOOSE x \in s : TRUE

Sums(I, f, S) ==
  I = [s \in SUBSET S |-> IF s = {} THEN 0 ELSE f[Picked(s)] + I[s \ {Picked(s)}]]

LEMMA Smallest ==
  ASSUME NEW S, IsFiniteSet(S), NEW B \in SUBSET (SUBSET S), B # {}
  PROVE  \E s \in B : \A x \in s : s \ {x} \notin B
<1> DEFINE K == {Cardinality(s) : s \in B}
<1>1. \A s \in B : IsFiniteSet(s) /\ Cardinality(s) \in Nat
  BY FS_Subset, FS_CardinalityType
<1>2. K # {} /\ K \in SUBSET Nat BY <1>1
<1>3. Min(K) \in K /\ \A m \in K : Min(K) <= m
  <2> HIDE DEF K
  <2> QED BY <1>2, Least
<1>4. PICK s \in B : Cardinality(s) = Min(K) BY <1>3
<1>5. ASSUME NEW x \in s, s \ {x} \in B PROVE FALSE
  <2>1. Cardinality(s \ {x}) = Cardinality(s) - 1 BY <1>1, FS_RemoveElement
  <2>2. Cardinality(s) <= Cardinality(s \ {x}) BY <1>3, <1>4, <1>5
  <2> QED BY <1>1, <2>1, <2>2
<1> QED BY <1>5

LEMMA SumsExist ==
  ASSUME NEW S, IsFiniteSet(S), NEW f \in [S -> Nat]
  PROVE  \E I : Sums(I, f, S)
<1> DEFINE Rhs(I, s) == IF s = {} THEN 0 ELSE f[Picked(s)] + I[s \ {Picked(s)}]
           Upto(k, I) == \A s \in SUBSET S : Cardinality(s) <= k => I[s] = Rhs(I, s)
           T == {k \in Nat : ~ \E I \in [SUBSET S -> Nat] : Upto(k, I)}
<1>1. \A s \in SUBSET S : IsFiniteSet(s) /\ Cardinality(s) \in Nat
  BY FS_Subset, FS_CardinalityType
<1>2. \A s \in SUBSET S : s # {} => Picked(s) \in s BY DEF Picked
<1>3. \A I \in [SUBSET S -> Nat] : \A s \in SUBSET S : Rhs(I, s) \in Nat
  <2> SUFFICES ASSUME NEW I \in [SUBSET S -> Nat], NEW s \in SUBSET S, s # {}
               PROVE  f[Picked(s)] + I[s \ {Picked(s)}] \in Nat
    OBVIOUS
  <2>1. f[Picked(s)] \in Nat BY <1>2
  <2>2. I[s \ {Picked(s)}] \in Nat OBVIOUS
  <2> QED BY <2>1, <2>2
<1>4. T = {}
  <2> SUFFICES ASSUME T # {} PROVE FALSE OBVIOUS
  <2> DEFINE k == Min(T)
  <2>1. k \in T /\ \A m \in T : k <= m
    <3>1. T \in SUBSET Nat OBVIOUS
    <3> HIDE DEF T
    <3> QED BY <3>1, Least
  <2> HIDE DEF k
  <2>2. k \in Nat /\ ~ \E I \in [SUBSET S -> Nat] : Upto(k, I) BY <2>1
  <2>3. k # 0
    <3> SUFFICES ASSUME k = 0 PROVE FALSE OBVIOUS
    <3> DEFINE I == [s \in SUBSET S |-> 0]
    <3>1. I \in [SUBSET S -> Nat] OBVIOUS
    <3>2. ASSUME NEW s \in SUBSET S, Cardinality(s) <= 0 PROVE I[s] = Rhs(I, s)
      <4>1. s = {} BY <1>1, <3>2, FS_EmptySet
      <4> QED BY <4>1
    <3>3. Upto(0, I) BY <3>2
    <3> HIDE DEF I, Upto
    <3> QED BY <2>2, <3>1, <3>3
  <2>4. k - 1 \in Nat /\ k - 1 \notin T
    <3>1. k - 1 \in Nat /\ ~(k <= k - 1) BY <2>2, <2>3
    <3> HIDE DEF T
    <3> QED BY <2>1, <3>1
  <2>5. PICK I \in [SUBSET S -> Nat] : Upto(k - 1, I) BY <2>4
  <2> DEFINE J == [s \in SUBSET S |-> IF Cardinality(s) = k THEN Rhs(I, s) ELSE I[s]]
  <2>6. J \in [SUBSET S -> Nat]
    <3> HIDE DEF Rhs
    <3> QED BY <1>3
  <2>7. ASSUME NEW s \in SUBSET S, Cardinality(s) <= k PROVE J[s] = Rhs(J, s)
    <3>1. Rhs(J, s) = Rhs(I, s)
      <4> SUFFICES ASSUME s # {} PROVE J[s \ {Picked(s)}] = I[s \ {Picked(s)}] OBVIOUS
      <4> DEFINE r == s \ {Picked(s)}
      <4>1. Picked(s) \in s BY <1>2
      <4>2. Cardinality(r) = Cardinality(s) - 1 /\ r \in SUBSET S BY <1>1, <4>1, FS_RemoveElement
      <4>3. Cardinality(r) # k BY <1>1, <2>2, <2>7, <4>2
      <4> HIDE DEF r, Rhs
      <4>4. J[r] = I[r] BY <4>2, <4>3
      <4> QED BY <4>4 DEF r
    <3>2. Cardinality(s) # k => I[s] = Rhs(I, s) BY <1>1, <2>2, <2>5, <2>7
    <3> HIDE DEF Rhs
    <3> QED BY <3>1, <3>2
  <2> HIDE DEF J, Rhs
  <2> QED BY <2>2, <2>6, <2>7
<1>5. PICK I \in [SUBSET S -> Nat] : Upto(Cardinality(S), I)
  <2>1. Cardinality(S) \in Nat BY FS_CardinalityType
  <2> HIDE DEF Upto
  <2> QED BY <1>4, <2>1
<1>6. \A s \in SUBSET S : Cardinality(s) <= Cardinality(S) BY FS_Subset
<1>7. \A s \in SUBSET S : I[s] = Rhs(I, s) BY <1>5, <1>6
<1>8. I = [s \in SUBSET S |-> Rhs(I, s)]
  <2> HIDE DEF Rhs
  <2> QED BY <1>7
<1> QED BY <1>8 DEF Sums

(* In whatever order.                                                      *)
LEMMA SumsUp ==
  ASSUME NEW S, IsFiniteSet(S), NEW f \in [S -> Nat], NEW I, Sums(I, f, S)
  PROVE  /\ I[{}] = 0
         /\ \A s \in SUBSET S : I[s] \in Nat /\ \A x \in s : I[s] = f[x] + I[s \ {x}]
<1>1. \A t \in SUBSET S : I[t] = IF t = {} THEN 0 ELSE f[Picked(t)] + I[t \ {Picked(t)}]
  BY DEF Sums
<1>2. \A t \in SUBSET S : t # {} => Picked(t) \in t BY DEF Picked
<1>3. \A t \in SUBSET S : I[t] \in Nat
  <2> DEFINE B == {t \in SUBSET S : I[t] \notin Nat}
  <2> SUFFICES ASSUME B # {} PROVE FALSE OBVIOUS
  <2>1. PICK t \in B : \A x \in t : t \ {x} \notin B
    <3>1. B \in SUBSET (SUBSET S) OBVIOUS
    <3> HIDE DEF B
    <3> QED BY <3>1, Smallest
  <2>2. t \in SUBSET S /\ t # {}
    <3>1. {} \in SUBSET S /\ I[{}] = 0 BY <1>1
    <3> QED BY <3>1
  <2>3. Picked(t) \in t /\ I[t] = f[Picked(t)] + I[t \ {Picked(t)}] BY <1>1, <1>2, <2>2
  <2>4. I[t \ {Picked(t)}] \in Nat BY <2>1, <2>3
  <2> QED BY <2>2, <2>3, <2>4
<1>4. \A t \in SUBSET S : \A x \in t : I[t] = f[x] + I[t \ {x}]
  <2> DEFINE Good(t) == \A x \in t : I[t] = f[x] + I[t \ {x}]
             B == {t \in SUBSET S : ~Good(t)}
  <2> SUFFICES ASSUME B # {} PROVE FALSE OBVIOUS
  <2>1. PICK t \in B : \A x \in t : t \ {x} \notin B
    <3>1. B \in SUBSET (SUBSET S) OBVIOUS
    <3> HIDE DEF B
    <3> QED BY <3>1, Smallest
  <2>2. t \in SUBSET S /\ ~Good(t) /\ \A x \in t : Good(t \ {x}) BY <2>1
  <2>3. PICK x \in t : I[t] # f[x] + I[t \ {x}] BY <2>2
  <2> DEFINE c == Picked(t)
             r == (t \ {x}) \ {c}
  <2>4. c \in t /\ I[t] = f[c] + I[t \ {c}] BY <1>1, <1>2, <2>2
  <2> HIDE DEF c
  <2>5. x # c BY <2>3, <2>4
  <2>6. I[t \ {x}] = f[c] + I[r] BY <2>2, <2>4, <2>5
  <2>7. I[t \ {c}] = f[x] + I[r]
    <3>1. (t \ {c}) \ {x} = r OBVIOUS
    <3>2. x \in t \ {c} /\ Good(t \ {c}) BY <2>2, <2>4, <2>5
    <3> QED BY <3>1, <3>2
  <2>8. f[x] \in Nat /\ f[c] \in Nat /\ I[r] \in Nat BY <1>3, <2>2, <2>4
  <2> HIDE DEF r
  <2> QED BY <2>3, <2>4, <2>6, <2>7, <2>8
<1> QED BY <1>1, <1>3, <1>4

(* A sum of fewer elements, none greater and one less than before.         *)
LEMMA SumsLess ==
  ASSUME NEW S, IsFiniteSet(S), NEW R \in SUBSET S, NEW f \in [S -> Nat], NEW g \in [R -> Nat],
         NEW I, NEW J, Sums(I, f, S), Sums(J, g, R), \A x \in R : g[x] <= f[x],
         NEW h \in R, g[h] < f[h]
  PROVE  J[R] < I[S]
<1> DEFINE Good(s) == J[s \cap R] <= I[s] /\ (h \in s => J[s \cap R] < I[s])
           B == {s \in SUBSET S : ~Good(s)}
<1>1. /\ I[{}] = 0
      /\ \A s \in SUBSET S : I[s] \in Nat /\ \A x \in s : I[s] = f[x] + I[s \ {x}]
  BY SumsUp
<1>2. /\ J[{}] = 0
      /\ \A s \in SUBSET R : J[s] \in Nat /\ \A x \in s : J[s] = g[x] + J[s \ {x}]
  <2>1. IsFiniteSet(R) BY FS_Subset
  <2>2. \A T : IsFiniteSet(T) => \A u \in [T -> Nat] : \A L : Sums(L, u, T) =>
          /\ L[{}] = 0
          /\ \A s \in SUBSET T : L[s] \in Nat /\ \A x \in s : L[s] = u[x] + L[s \ {x}]
    BY SumsUp
  <2>3. \A u \in [R -> Nat] : \A L : Sums(L, u, R) =>
          /\ L[{}] = 0
          /\ \A s \in SUBSET R : L[s] \in Nat /\ \A x \in s : L[s] = u[x] + L[s \ {x}]
    BY <2>1, <2>2
  <2>4. g \in [R -> Nat] /\ Sums(J, g, R) OBVIOUS
  <2> QED BY <2>3, <2>4
<1>3. B = {}
  <2> SUFFICES ASSUME B # {} PROVE FALSE OBVIOUS
  <2>1. PICK s \in B : \A x \in s : s \ {x} \notin B
    <3>1. B \in SUBSET (SUBSET S) OBVIOUS
    <3> HIDE DEF B
    <3> QED BY <3>1, Smallest
  <2>2. s \in SUBSET S /\ ~Good(s) /\ \A x \in s : Good(s \ {x}) BY <2>1
  <2>3. s # {}
    <3>1. {} \cap R = {} /\ h \notin {} OBVIOUS
    <3>2. J[{} \cap R] = 0 /\ I[{}] = 0 BY <1>1, <1>2, <3>1
    <3>3. Good({}) BY <3>1, <3>2
    <3> QED BY <2>2, <3>3
  <2>4. PICK x \in s : TRUE BY <2>3
  <2> DEFINE t == s \ {x}
  <2>5. /\ J[t \cap R] <= I[t] /\ (h \in t => J[t \cap R] < I[t]) BY <2>2, <2>4
  <2>6. I[s] = f[x] + I[t] /\ I[t] \in Nat /\ f[x] \in Nat BY <1>1, <2>2, <2>4
  <2>7. CASE x \in R
    <3>1. (s \cap R) \ {x} = t \cap R OBVIOUS
    <3>2. J[s \cap R] = g[x] + J[t \cap R] /\ J[t \cap R] \in Nat /\ g[x] \in Nat
      <4>1. s \cap R \in SUBSET R /\ x \in s \cap R /\ t \cap R \in SUBSET R BY <2>7
      <4>2. J[s \cap R] = g[x] + J[(s \cap R) \ {x}] BY <1>2, <4>1
      <4>3. J[t \cap R] \in Nat /\ g[x] \in Nat BY <1>2, <2>7, <4>1
      <4> QED BY <3>1, <4>2, <4>3
    <3>3. g[x] <= f[x] /\ (x = h => g[x] < f[x]) BY <2>7
    <3>4. h \in s => h \in t \/ x = h OBVIOUS
    <3> HIDE DEF t
    <3> QED BY <2>2, <2>5, <2>6, <3>2, <3>3, <3>4
  <2>8. CASE x \notin R
    <3>1. s \cap R = t \cap R /\ (h \in s => h \in t) BY <2>8
    <3>2. J[t \cap R] \in Nat BY <1>2
    <3>3. J[s \cap R] = J[t \cap R] BY <3>1
    <3> HIDE DEF t
    <3>4. J[s \cap R] <= I[s] BY <2>5, <2>6, <3>2, <3>3
    <3>5. h \in s => J[s \cap R] < I[s] BY <2>5, <2>6, <3>1, <3>2, <3>3
    <3> QED BY <2>2, <3>4, <3>5
  <2> QED BY <2>7, <2>8
<1>4. S \cap R = R /\ h \in S /\ Good(S) BY <1>3
<1> QED BY <1>4

-----------------------------------------------------------------------------
(* What can still come before p, by the priorities and rounds given.       *)
Owing(pr, rd, q, p) ==
  IF rd[q] > rd[p] THEN 0 ELSE pr[q] + OriPriority(q) * (rd[p] - rd[q])

OwingAll(pr, rd, p, S) == MapThenSumSet(LAMBDA q : Owing(pr, rd, q, p), S)

LEMMA OwingNat ==
  ASSUME NEW pr \in [Task -> Nat], NEW rd \in [Task -> Nat], NEW p \in Task, NEW q \in Task
  PROVE  Owing(pr, rd, q, p) \in Nat
<1>1. pr[q] \in Nat /\ rd[q] \in Nat /\ rd[p] \in Nat OBVIOUS
<1> DEFINE o == OriPriority(q)
           d == rd[p] - rd[q]
<1>2. o \in Nat BY PriorityAssumption DEF OriPriority, Task
<1>3. ~(rd[q] > rd[p]) => d \in Nat BY <1>1
<1> HIDE DEF o, d
<1>4. d \in Nat => o * d \in Nat BY <1>2
<1>5. Owing(pr, rd, q, p) = IF rd[q] > rd[p] THEN 0 ELSE pr[q] + o * d BY DEF Owing, o, d
<1> QED BY <1>1, <1>3, <1>4, <1>5

(* f lists what is owing, task by task.                                    *)
Lists(f, pr, rd, p, S) == f \in [S -> Nat] /\ \A q \in S : f[q] = Owing(pr, rd, q, p)

SumOf(f, S) == CHOOSE I : Sums(I, f, S)

LEMMA OwingSums ==
  ASSUME NEW pr, NEW rd, NEW p, NEW S \in SUBSET Task, NEW f, Lists(f, pr, rd, p, S)
  PROVE  Sums(SumOf(f, S), f, S) /\ OwingAll(pr, rd, p, S) = SumOf(f, S)[S]
<1> DEFINE Is(I) == I = [s \in SUBSET S |->
                           IF s = {} THEN 0
                           ELSE Owing(pr, rd, CHOOSE x \in s : TRUE, p)
                                  + I[s \ {CHOOSE x \in s : TRUE}]]
<1>1. IsFiniteSet(S)
  <2>1. IsFiniteSet(Task) BY PriorityAssumption, FS_Interval DEF Task
  <2> QED BY <2>1, FS_Subset
<1>3. f \in [S -> Nat] BY DEF Lists
<1>4. PICK I : Sums(I, f, S) BY <1>1, <1>3, SumsExist
<1>5. ASSUME NEW J PROVE Sums(J, f, S) <=> Is(J)
  <2>1. \A s \in SUBSET S : s # {} =>
          /\ Picked(s) \in S /\ Picked(s) = CHOOSE x \in s : TRUE
          /\ f[Picked(s)] = Owing(pr, rd, CHOOSE x \in s : TRUE, p)
    <3> SUFFICES ASSUME NEW s \in SUBSET S, s # {}
                 PROVE  /\ Picked(s) \in S /\ Picked(s) = CHOOSE x \in s : TRUE
                        /\ f[Picked(s)] = Owing(pr, rd, CHOOSE x \in s : TRUE, p)
      OBVIOUS
    <3>1. Picked(s) \in s /\ Picked(s) = CHOOSE x \in s : TRUE BY DEF Picked
    <3>2. \A q \in S : f[q] = Owing(pr, rd, q, p) BY DEF Lists
    <3> QED BY <3>1, <3>2
  <2>2. \A s \in SUBSET S :
          (IF s = {} THEN 0 ELSE f[Picked(s)] + J[s \ {Picked(s)}])
            = (IF s = {} THEN 0
               ELSE Owing(pr, rd, CHOOSE x \in s : TRUE, p) + J[s \ {CHOOSE x \in s : TRUE}])
    BY <2>1
  <2>3. [s \in SUBSET S |-> IF s = {} THEN 0 ELSE f[Picked(s)] + J[s \ {Picked(s)}]]
          = [s \in SUBSET S |->
               IF s = {} THEN 0
               ELSE Owing(pr, rd, CHOOSE x \in s : TRUE, p) + J[s \ {CHOOSE x \in s : TRUE}]]
    BY <2>2
  <2> QED BY <2>3 DEF Sums
<1>6. Sums(SumOf(f, S), f, S) BY <1>4 DEF SumOf
<1>7. OwingAll(pr, rd, p, S) = (CHOOSE J : Is(J))[S]
  BY DEF OwingAll, MapThenSumSet, MapThenFoldSet
<1> HIDE DEF Is
<1>8. \A J : Sums(J, f, S) <=> Is(J) BY <1>5
<1>9. (CHOOSE J : Sums(J, f, S)) = CHOOSE J : Is(J) BY <1>8
<1> QED BY <1>6, <1>7, <1>9 DEF SumOf

(* A round begun costs what it brings.                                     *)
LEMMA OwingRenewed ==
  ASSUME NEW s \in CallState, NEW t \in CallState, NEW P, Renewed(s, t, P),
         NEW p \in Task, NEW q \in Task, t.round[p] = s.round[p]
  PROVE  Owing(t.priority, t.round, q, p) = Owing(s.priority, s.round, q, p)
<1> DEFINE o == OriPriority(q)
           r == s.round[q]
           rp == s.round[p]
<1>1. /\ r \in Nat /\ rp \in Nat /\ s.priority[q] \in Nat BY DEF CallState
<1>2. o \in Nat BY PriorityAssumption DEF OriPriority, Task
<1>3. \/ t.priority[q] = s.priority[q] /\ t.round[q] = r
      \/ s.priority[q] = 0 /\ t.priority[q] = o /\ t.round[q] = r + 1
  BY DEF Renewed
<1>4. CASE t.priority[q] = s.priority[q] /\ t.round[q] = r BY <1>4 DEF Owing
<1>5. CASE s.priority[q] = 0 /\ t.priority[q] = o /\ t.round[q] = r + 1
  <2>1. /\ Owing(t.priority, t.round, q, p) = IF r + 1 > rp THEN 0 ELSE o + o * (rp - (r + 1))
        /\ Owing(s.priority, s.round, q, p) = IF r > rp THEN 0 ELSE 0 + o * (rp - r)
    BY <1>5 DEF Owing
  <2> HIDE DEF o, r, rp
  <2>2. CASE r > rp BY <1>1, <2>1, <2>2
  <2>3. CASE r = rp
    <3>1. rp - r = 0 /\ r + 1 > rp /\ ~(r > rp) BY <1>1, <2>3
    <3>2. o * 0 = 0 BY <1>2
    <3> QED BY <2>1, <3>1, <3>2
  <2>4. CASE r < rp
    <3> DEFINE d == rp - (r + 1)
    <3>1. d \in Nat /\ rp - r = d + 1 /\ ~(r + 1 > rp) /\ ~(r > rp) BY <1>1, <2>4
    <3> HIDE DEF d
    <3>2. (d + 1) * o = d * o + o /\ d * o \in Nat BY <1>2, <3>1, NextRoundPaid
    <3>3. o * (d + 1) = (d + 1) * o /\ o * d = d * o BY <1>2, <3>1
    <3>4. o * (d + 1) = o + o * d
      <4> DEFINE m == d * o
      <4>1. (d + 1) * o = m + o /\ m \in Nat /\ o * d = m BY <3>2, <3>3
      <4> HIDE DEF m
      <4>2. m + o = o + m BY <1>2, <4>1
      <4> QED BY <3>3, <4>1, <4>2
    <3>5. 0 + o * (d + 1) = o + o * d
      <4> DEFINE m == o * (d + 1)
      <4>1. m \in Nat BY <1>2, <3>2, <3>3
      <4>2. m = o + o * d BY <3>4
      <4> HIDE DEF m
      <4>3. 0 + m = m BY <4>1
      <4> QED BY <4>2, <4>3 DEF m
    <3> QED BY <2>1, <3>1, <3>5 DEF d
  <2> QED BY <1>1, <2>2, <2>3, <2>4
<1> QED BY <1>3, <1>4, <1>5

(* The dispatch takes from what is owing, for it is of one that p is after. *)
LEMMA DebtFalls ==
  ASSUME P3Sound, P3Sound', NEW s, Dispatch(s), Prepared(s),
         NEW p \in ToSet(ready) \cap ToSet(ready')
  PROVE  Debt(p)' < Debt(p)
<1> DEFINE S == Task \ (exited \cup {p})
           R == Task \ (exited' \cup {p})
           h == cur'
<1>1. /\ p \in Task /\ p \notin ToSet(sleepq) \cup {cur} /\ ready \in Seq(Task)
  BY QueuesAre DEF P3Sound, Queued, Placed
<1>2. /\ ToSet(s.ready) = ToSet(ready') \cup ({cur'} \ {Nobody}) /\ round' = s.round
      /\ cur' \in Task \cup {Nobody} /\ cur' \notin ToSet(ready')
      /\ priority' = [q \in Task |-> IF q = h THEN s.priority[q] - 1 ELSE s.priority[q]]
      /\ cur' \in Task => s.priority[h] >= 1 /\ \A q \in ToSet(ready') : s.round[h] <= s.round[q]
  BY Dispatched
<1>3. h \in Task /\ h # p
  <2>1. s.ready # <<>>
    <3> SUFFICES ASSUME s.ready = <<>> PROVE FALSE OBVIOUS
    <3>1. ToSet(s.ready) = {} BY EmptyQueue
    <3> QED BY <1>2, <3>1
  <2>2. s.ready \in Seq(Task) BY DEF Prepared, Queued, CallState
  <2>3. cur' = Head(s.ready) BY <2>1 DEF Dispatch
  <2> QED BY <1>2, <2>1, <2>2, <2>3, TailQueue
<1>4. /\ s \in CallState /\ Queues \in CallState
      /\ s.priority \in [Task -> Nat] /\ s.round \in [Task -> Nat]
      /\ priority \in [Task -> Nat] /\ round \in [Task -> Nat]
      /\ Renewed(Queues, s, ToSet(sleepq) \cup {cur})
      /\ Queues.priority = priority /\ Queues.round = round
      /\ exited \subseteq exited' /\ ToSet(s.ready) \subseteq Task \ exited'
  BY QueuesAre DEF Prepared, Queued, CallState
<1>5. s.round[p] = round[p] BY <1>1, <1>4 DEF Renewed
<1>6. priority' \in [Task -> Nat]
  <2>1. s.priority[h] - 1 \in Nat BY <1>2, <1>3, <1>4
  <2>2. \A q \in Task : priority'[q] \in Nat BY <1>2, <1>4, <2>1
  <2> QED BY <1>2, <2>2
<1>7. h \in R /\ R \in SUBSET S /\ S \in SUBSET Task /\ R \in SUBSET Task
  BY <1>2, <1>3, <1>4, PriorityAssumption
<1>8. IsFiniteSet(S)
  <2>1. IsFiniteSet(Task) BY PriorityAssumption, FS_Interval DEF Task
  <2> QED BY <2>1, FS_Subset
<1> HIDE DEF S, R
<1>9. \A q \in Task : Owing(s.priority, s.round, q, p) = Owing(priority, round, q, p)
  <2> SUFFICES ASSUME NEW q \in Task
               PROVE  Owing(s.priority, s.round, q, p) = Owing(priority, round, q, p)
    OBVIOUS
  <2>1. s.round[p] = Queues.round[p] BY <1>4, <1>5
  <2>2. Owing(s.priority, s.round, q, p) = Owing(Queues.priority, Queues.round, q, p)
    <3> DEFINE z == Queues
               P == ToSet(sleepq) \cup {cur}
    <3>1. /\ z \in CallState /\ s \in CallState /\ Renewed(z, s, P) /\ p \in Task /\ q \in Task
          /\ s.round[p] = z.round[p]
      BY <1>1, <1>4, <2>1
    <3> HIDE DEF z, P
    <3>2. Owing(s.priority, s.round, q, p) = Owing(z.priority, z.round, q, p)
      BY <3>1, OwingRenewed
    <3> QED BY <3>2 DEF z
  <2> QED BY <1>4, <2>2
<1> DEFINE f == [q \in S |-> Owing(priority, round, q, p)]
           g == [q \in R |-> Owing(priority', round', q, p)]
           I == SumOf(f, S)
           J == SumOf(g, R)
<1>10. f \in [S -> Nat] /\ Sums(I, f, S) /\ OwingAll(priority, round, p, S) = I[S]
  <2>1. f \in [S -> Nat] /\ \A q \in S : f[q] = Owing(priority, round, q, p)
    <3>1. \A q \in S : Owing(priority, round, q, p) \in Nat BY <1>1, <1>4, <1>7, OwingNat
    <3> QED BY <3>1
  <2> HIDE DEF f
  <2>2. Lists(f, priority, round, p, S) BY <2>1 DEF Lists
  <2>3. Sums(I, f, S) /\ OwingAll(priority, round, p, S) = I[S] BY <1>7, <2>2, OwingSums
  <2> QED BY <2>1, <2>3
<1>11. g \in [R -> Nat] /\ Sums(J, g, R) /\ OwingAll(priority', round', p, R) = J[R]
  <2> DEFINE pr == priority'
             rd == round'
  <2>1. rd \in [Task -> Nat] /\ pr \in [Task -> Nat] BY <1>2, <1>4, <1>6
  <2>2. g \in [R -> Nat] /\ \A q \in R : g[q] = Owing(pr, rd, q, p)
    <3> HIDE DEF pr, rd
    <3>1. \A q \in R : Owing(pr, rd, q, p) \in Nat BY <1>1, <1>7, <2>1, OwingNat
    <3> QED BY <3>1 DEF pr, rd
  <2> HIDE DEF g, pr, rd
  <2>3. Sums(J, g, R) /\ OwingAll(pr, rd, p, R) = J[R]
    <3>1. Lists(g, pr, rd, p, R) BY <2>2 DEF Lists
    <3> QED BY <1>7, <3>1, OwingSums
  <2> QED BY <2>2, <2>3 DEF pr, rd
<1>12. ASSUME NEW q \in R PROVE g[q] <= f[q] /\ (q = h => g[q] < f[q])
  <2>1. f[q] = Owing(s.priority, s.round, q, p) /\ f[q] \in Nat
    <3>1. q \in S /\ q \in Task BY <1>7
    <3>2. f[q] \in Nat BY <1>10, <3>1
    <3> QED BY <1>9, <3>1, <3>2
  <2>2. g[q] = Owing(priority', s.round, q, p) BY <1>2
  <2>3. CASE q # h
    <3>1. q \in Task /\ priority'[q] = s.priority[q] BY <1>2, <1>7, <2>3
    <3>2. g[q] = f[q] BY <2>1, <2>2, <3>1 DEF Owing
    <3> QED BY <2>1, <2>3, <3>2
  <2>4. CASE q = h
    <3> DEFINE m == OriPriority(h) * (s.round[p] - s.round[h])
    <3>1. ~(s.round[h] > s.round[p])
      <4>1. s.round[h] <= s.round[p] /\ s.round[h] \in Nat /\ s.round[p] \in Nat
        BY <1>1, <1>2, <1>3, <1>4
      <4> QED BY <4>1
    <3>2. priority'[h] = s.priority[h] - 1 /\ s.priority[h] \in Nat BY <1>2, <1>3, <1>4
    <3>3. f[q] = s.priority[h] + m /\ g[q] = (s.priority[h] - 1) + m
      BY <2>1, <2>2, <2>4, <3>1, <3>2 DEF Owing
    <3>4. m \in Nat
      <4> DEFINE d == s.round[p] - s.round[h]
                 o == OriPriority(h)
      <4>1. d \in Nat
        <5>1. s.round[p] \in Nat /\ s.round[h] \in Nat BY <1>1, <1>3, <1>4
        <5> QED BY <3>1, <5>1
      <4>2. o \in Nat
        <5>1. \A q_1 \in Task : OriPriority(q_1) \in Nat
          BY PriorityAssumption DEF OriPriority, Task
        <5> QED BY <1>3, <5>1
      <4> HIDE DEF d, o
      <4>3. o * d \in Nat BY <4>1, <4>2
      <4> QED BY <4>3 DEF d, o
    <3> HIDE DEF m
    <3> QED BY <3>2, <3>3, <3>4
  <2> QED BY <2>3, <2>4
<1> HIDE DEF f, g, I, J
<1>15. J[R] < I[S]
  <2>1. h \in R /\ g[h] < f[h] BY <1>7, <1>12
  <2>2. \A q \in R : g[q] <= f[q] BY <1>12
  <2> QED BY <1>7, <1>8, <1>10, <1>11, <2>1, <2>2, SumsLess
<1>16. Debt(p) = OwingAll(priority, round, p, S)
  BY DEF Debt, OwingAll, Owed, Owing, S
<1>17. Debt(p)' = OwingAll(priority', round', p, R)
  BY DEF Debt, OwingAll, Owed, Owing, R, OriPriority, MapThenSumSet, MapThenFoldSet
<1> QED BY <1>10, <1>11, <1>15, <1>16, <1>17

(* Each dispatch brings every task that waits closer to its own.           *)
THEOREM NobodyStarves == P3Spec => NoStarvation
<1> DEFINE A == \A p \in ToSet(ready) \cap ToSet(ready)' : Debt(p)' < Debt(p)
<1>1. ASSUME P3Sound, P3Sound', [P3Next]_p3vars PROVE [A]_p3vars
  <2> SUFFICES ASSUME P3Next, ~UNCHANGED p3vars,
                      NEW p \in ToSet(ready) \cap ToSet(ready')
               PROVE  Debt(p)' < Debt(p)
    BY <1>1 DEF ToSet
  <2>1. Call \/ Tick BY DEF P3Next, Stop
  <2>2. PICK s : Dispatch(s) /\ Prepared(s) BY <1>1, <2>1, CallsPrepare
  <2> QED BY <1>1, <2>2, DebtFalls
<1>2. P3Sound /\ P3Sound' /\ [P3Next]_p3vars => [A]_p3vars BY <1>1
<1>3. NoStarvation <=> [][A]_p3vars BY DEF NoStarvation
<1> HIDE DEF A
<1> QED BY <1>2, <1>3, P3AlwaysSound, PTL DEF P3Spec
=============================================================================
