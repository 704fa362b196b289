----------------------------- MODULE SchedProofs ----------------------------
(***************************************************************************)
(* What the queue operations of queue.c do to the set of tasks in a queue, *)
(* and what scheduler(), block(), do_sleep() and unblock_one() do to the   *)
(* queues, whatever calls them: the lemmas that the proofs about Kernel,   *)
(* Barrier, Mailbox, Monitor and Philosophers rest on. Those about queues  *)
(* alone also serve the kernels of the other projects.                     *)
(***************************************************************************)
EXTENDS Sched, SequenceTheorems, FiniteSetTheorems, TLAPS

(* queue_init()                                                            *)
LEMMA EmptyQueue == ToSet(<<>>) = {} /\ IsInjective(<<>>)
<1>1. DOMAIN <<>> = {} OBVIOUS
<1> QED BY <1>1 DEF ToSet, IsInjective

(* Only elements of T are in a queue over T.                               *)
LEMMA SetOfSeq ==
  ASSUME NEW T, NEW s \in Seq(T)
  PROVE  ToSet(s) \subseteq T
<1>1. \A i \in 1 .. Len(s) : s[i] \in T /\ DOMAIN s = 1 .. Len(s)
  BY LenProperties, ElementOfSeq
<1> QED BY <1>1, LenProperties DEF ToSet

(* The search that do_kill() makes for a node.                             *)
LEMMA ContainsQueue ==
  ASSUME NEW T, NEW s \in Seq(T), NEW x
  PROVE  Contains(s, x) <=> x \in ToSet(s)
<1>1. DOMAIN s = 1 .. Len(s) BY LenProperties
<1> QED BY <1>1 DEF Contains, ToSet

(* enqueue()                                                               *)
LEMMA AppendQueue ==
  ASSUME NEW T, NEW s \in Seq(T), NEW x \in T
  PROVE  /\ Append(s, x) \in Seq(T)
         /\ ToSet(Append(s, x)) = ToSet(s) \cup {x}
         /\ IsInjective(s) /\ x \notin ToSet(s) => IsInjective(Append(s, x))
<1> DEFINE a == Append(s, x)
<1>1. /\ a \in Seq(T) /\ Len(a) = Len(s) + 1
      /\ \A i \in 1 .. Len(s) : a[i] = s[i]
      /\ a[Len(s) + 1] = x
  BY AppendProperties
<1>2. DOMAIN a = 1 .. Len(s) + 1 /\ DOMAIN s = 1 .. Len(s) /\ Len(s) \in Nat
  BY <1>1, LenProperties
<1> HIDE DEF a
<1>3. ToSet(a) = ToSet(s) \cup {x}
  BY <1>1, <1>2 DEF ToSet
<1>4. ASSUME IsInjective(s), x \notin ToSet(s) PROVE IsInjective(a)
  BY <1>1, <1>2, <1>4 DEF ToSet, IsInjective
<1> QED BY <1>1, <1>3, <1>4 DEF a

(* dequeue()                                                               *)
LEMMA TailQueue ==
  ASSUME NEW T, NEW s \in Seq(T), s # <<>>
  PROVE  /\ Head(s) \in T /\ Tail(s) \in Seq(T)
         /\ Head(s) \in ToSet(s)
         /\ ToSet(s) = ToSet(Tail(s)) \cup {Head(s)}
         /\ IsInjective(s) => /\ IsInjective(Tail(s))
                              /\ ToSet(Tail(s)) = ToSet(s) \ {Head(s)}
<1> DEFINE t == Tail(s)
<1>1. /\ Head(s) \in T /\ t \in Seq(T) /\ Len(t) = Len(s) - 1
      /\ \A i \in 1 .. Len(t) : t[i] = s[i + 1]
      /\ Head(s) = s[1] /\ Len(s) \in Nat /\ Len(s) > 0
  BY HeadTailProperties, LenProperties, EmptySeq
<1>2. DOMAIN t = 1 .. Len(s) - 1 /\ DOMAIN s = 1 .. Len(s)
  BY <1>1, LenProperties
<1> HIDE DEF t
<1>3. Head(s) \in ToSet(s)
  BY <1>1, <1>2 DEF ToSet
<1>4. ToSet(t) \subseteq ToSet(s)
  <2> SUFFICES ASSUME NEW i \in 1 .. Len(s) - 1 PROVE \E j \in 1 .. Len(s) : s[j] = t[i]
    BY <1>2 DEF ToSet
  <2>1. i + 1 \in 1 .. Len(s) BY <1>1
  <2> QED BY <1>1, <2>1
<1>5. \A y \in ToSet(s) : y = Head(s) \/ y \in ToSet(t)
  <2> SUFFICES ASSUME NEW i \in 1 .. Len(s) PROVE s[i] = Head(s) \/ s[i] \in ToSet(t)
    BY <1>2 DEF ToSet
  <2>1. CASE i = 1 BY <2>1, <1>1
  <2>2. CASE i # 1
    <3>1. i - 1 \in 1 .. Len(s) - 1 /\ t[i - 1] = s[i] BY <2>2, <1>1
    <3> QED BY <3>1, <1>2 DEF ToSet
  <2> QED BY <2>1, <2>2
<1>6. ASSUME IsInjective(s) PROVE IsInjective(t) /\ Head(s) \notin ToSet(t)
  <2>1. \A i \in 1 .. Len(s) - 1 : i + 1 \in 1 .. Len(s) /\ t[i] = s[i + 1]
    BY <1>1
  <2>2. \A i, j \in 1 .. Len(s) : s[i] = s[j] => i = j
    BY <1>2, <1>6 DEF IsInjective
  <2>3. ASSUME NEW i \in 1 .. Len(s) - 1, NEW j \in 1 .. Len(s) - 1, t[i] = t[j] PROVE i = j
    <3>1. i + 1 = j + 1 BY <2>1, <2>2, <2>3
    <3> QED BY <3>1
  <2>4. ASSUME NEW i \in 1 .. Len(s) - 1, t[i] = Head(s) PROVE FALSE
    <3>1. 1 \in 1 .. Len(s) /\ s[i + 1] = s[1] BY <1>1, <2>1, <2>4
    <3>2. i + 1 = 1 BY <3>1, <2>1, <2>2
    <3> QED BY <3>2
  <2>5. IsInjective(t) BY <2>3, <1>2 DEF IsInjective
  <2>6. Head(s) \notin ToSet(t) BY <2>4, <1>2 DEF ToSet
  <2> QED BY <2>5, <2>6
<1> QED BY <1>1, <1>3, <1>4, <1>5, <1>6 DEF t

(* Every element of one queue after those of another.                      *)
LEMMA ConcatQueue ==
  ASSUME NEW T, NEW r \in Seq(T), NEW s \in Seq(T)
  PROVE  /\ r \o s \in Seq(T)
         /\ ToSet(r \o s) = ToSet(r) \cup ToSet(s)
         /\ IsInjective(r) /\ IsInjective(s) /\ ToSet(r) \cap ToSet(s) = {} => IsInjective(r \o s)
<1> DEFINE c == r \o s
<1>1. /\ c \in Seq(T) /\ Len(c) = Len(r) + Len(s)
      /\ \A i \in 1 .. Len(r) + Len(s) : c[i] = IF i <= Len(r) THEN r[i] ELSE s[i - Len(r)]
  BY ConcatProperties
<1>2. /\ DOMAIN c = 1 .. Len(r) + Len(s) /\ DOMAIN r = 1 .. Len(r) /\ DOMAIN s = 1 .. Len(s)
      /\ Len(r) \in Nat /\ Len(s) \in Nat
  BY <1>1, LenProperties
<1> HIDE DEF c
<1>3. \A i \in 1 .. Len(r) : c[i] = r[i] /\ i \in DOMAIN c
  BY <1>1, <1>2
<1>4. \A i \in 1 .. Len(s) : c[i + Len(r)] = s[i] /\ i + Len(r) \in DOMAIN c
  BY <1>1, <1>2
<1>5. \A i \in DOMAIN c : (i \in 1 .. Len(r) /\ c[i] = r[i])
                          \/ (i - Len(r) \in 1 .. Len(s) /\ c[i] = s[i - Len(r)])
  BY <1>1, <1>2
<1>6. ToSet(c) = ToSet(r) \cup ToSet(s)
  <2>1. ToSet(c) \subseteq ToSet(r) \cup ToSet(s) BY <1>2, <1>5 DEF ToSet
  <2>2. ToSet(r) \subseteq ToSet(c) BY <1>2, <1>3 DEF ToSet
  <2>3. ToSet(s) \subseteq ToSet(c) BY <1>2, <1>4 DEF ToSet
  <2> QED BY <2>1, <2>2, <2>3
<1>7. ASSUME IsInjective(r), IsInjective(s), ToSet(r) \cap ToSet(s) = {} PROVE IsInjective(c)
  <2> SUFFICES ASSUME NEW i \in DOMAIN c, NEW j \in DOMAIN c, c[i] = c[j] PROVE i = j
    BY DEF IsInjective
  <2>1. CASE i <= Len(r) /\ j <= Len(r) BY <2>1, <1>1, <1>2, <1>7 DEF IsInjective
  <2>2. CASE i > Len(r) /\ j > Len(r)
    <3>1. s[i - Len(r)] = s[j - Len(r)] /\ i - Len(r) \in DOMAIN s /\ j - Len(r) \in DOMAIN s
      BY <2>2, <1>1, <1>2
    <3> QED BY <3>1, <2>2, <1>2, <1>7 DEF IsInjective
  <2>3. CASE i <= Len(r) /\ j > Len(r)
    <3>1. i \in DOMAIN r /\ c[i] = r[i] BY <2>3, <1>1, <1>2
    <3>2. j - Len(r) \in DOMAIN s /\ c[j] = s[j - Len(r)] BY <2>3, <1>1, <1>2
    <3>3. c[i] \in ToSet(r) /\ c[j] \in ToSet(s) BY <3>1, <3>2 DEF ToSet
    <3> QED BY <3>3, <1>7
  <2>4. CASE i > Len(r) /\ j <= Len(r)
    <3>1. j \in DOMAIN r /\ c[j] = r[j] BY <2>4, <1>1, <1>2
    <3>2. i - Len(r) \in DOMAIN s /\ c[i] = s[i - Len(r)] BY <2>4, <1>1, <1>2
    <3>3. c[j] \in ToSet(r) /\ c[i] \in ToSet(s) BY <3>1, <3>2 DEF ToSet
    <3> QED BY <3>3, <1>7
  <2> QED BY <2>1, <2>2, <2>3, <2>4, <1>2
<1> QED BY <1>1, <1>6, <1>7 DEF c

(* The first k elements of a queue, and the others.                        *)
LEMMA SplitQueue ==
  ASSUME NEW T, NEW s \in Seq(T), NEW k \in 0 .. Len(s)
  PROVE  LET a == SubSeq(s, 1, k)
             b == SubSeq(s, k + 1, Len(s))
         IN  /\ a \in Seq(T) /\ b \in Seq(T)
             /\ ToSet(a) \cup ToSet(b) = ToSet(s)
             /\ IsInjective(s) => /\ IsInjective(a) /\ IsInjective(b)
                                  /\ ToSet(a) \cap ToSet(b) = {}
<1> DEFINE a == SubSeq(s, 1, k)
           b == SubSeq(s, k + 1, Len(s))
<1>0. Len(s) \in Nat /\ DOMAIN s = 1 .. Len(s) /\ k \in Int /\ \A i \in 1 .. Len(s) : s[i] \in T
  BY LenProperties, ElementOfSeq
<1>1. a \in Seq(T) /\ Len(a) = k /\ \A i \in 1 .. k : a[i] = s[i]
  <2>1. \A i \in 1 .. k : s[i] \in T BY <1>0
  <2> HIDE DEF a
  <2> QED BY <2>1, <1>0, SubSeqProperties DEF a
<1>2. b \in Seq(T) /\ Len(b) = Len(s) - k /\ \A i \in 1 .. Len(s) - k : b[i] = s[k + i]
  <2>1. \A i \in k + 1 .. Len(s) : s[i] \in T BY <1>0
  <2>2. k + 1 \in Int /\ Len(s) \in Int BY <1>0
  <2> HIDE DEF b
  <2>3. /\ b \in Seq(T)
        /\ Len(b) = IF k + 1 <= Len(s) THEN Len(s) - (k + 1) + 1 ELSE 0
        /\ \A i \in 1 .. Len(s) - (k + 1) + 1 : b[i] = s[(k + 1) + i - 1]
    BY <2>1, <2>2, SubSeqProperties DEF b
  <2>4. Len(b) = Len(s) - k
    <3>1. k \in 0 .. Len(s) /\ Len(s) \in Nat BY <1>0
    <3>2. (IF k + 1 <= Len(s) THEN Len(s) - (k + 1) + 1 ELSE 0) = Len(s) - k BY <3>1
    <3> QED BY <3>2, <2>3
  <2>5. ASSUME NEW i \in 1 .. Len(s) - k PROVE b[i] = s[k + i]
    <3>1. (k + 1) + i - 1 = k + i /\ i \in 1 .. Len(s) - (k + 1) + 1 BY <1>0
    <3>2. b[i] = s[(k + 1) + i - 1] BY <3>1, <2>3
    <3> QED BY <3>1, <3>2
  <2> QED BY <2>3, <2>4, <2>5
<1>3. DOMAIN a = 1 .. k /\ DOMAIN b = 1 .. Len(s) - k
  BY <1>1, <1>2, LenProperties
<1> HIDE DEF a, b
<1>4. ToSet(a) \subseteq ToSet(s) BY <1>0, <1>1, <1>3 DEF ToSet
<1>5. ToSet(b) \subseteq ToSet(s)
  <2>1. \A i \in 1 .. Len(s) - k : k + i \in 1 .. Len(s) BY <1>0
  <2> QED BY <2>1, <1>0, <1>2, <1>3 DEF ToSet
<1>6. ToSet(s) \subseteq ToSet(a) \cup ToSet(b)
  <2> SUFFICES ASSUME NEW i \in 1 .. Len(s) PROVE s[i] \in ToSet(a) \cup ToSet(b)
    BY <1>0 DEF ToSet
  <2>1. CASE i <= k BY <2>1, <1>0, <1>1, <1>3 DEF ToSet
  <2>2. CASE i > k
    <3>1. i - k \in 1 .. Len(s) - k /\ b[i - k] = s[i] BY <2>2, <1>0, <1>2
    <3> QED BY <3>1, <1>3 DEF ToSet
  <2> QED BY <2>1, <2>2, <1>0
<1>7. ASSUME IsInjective(s) PROVE IsInjective(a)
  BY <1>0, <1>1, <1>3, <1>7 DEF IsInjective
<1>8. ASSUME IsInjective(s) PROVE IsInjective(b)
  <2> SUFFICES ASSUME NEW i \in 1 .. Len(s) - k, NEW j \in 1 .. Len(s) - k, b[i] = b[j] PROVE i = j
    BY <1>3 DEF IsInjective
  <2>1. s[k + i] = s[k + j] /\ k + i \in 1 .. Len(s) /\ k + j \in 1 .. Len(s) BY <1>0, <1>2
  <2>2. k + i = k + j BY <2>1, <1>0, <1>8 DEF IsInjective
  <2> QED BY <2>2, <1>0
<1>9. ASSUME IsInjective(s) PROVE ToSet(a) \cap ToSet(b) = {}
  <2> SUFFICES ASSUME NEW i \in 1 .. k, NEW j \in 1 .. Len(s) - k, a[i] = b[j] PROVE FALSE
    BY <1>3 DEF ToSet
  <2>1. s[i] = s[k + j] /\ i \in 1 .. Len(s) /\ k + j \in 1 .. Len(s) BY <1>0, <1>1, <1>2
  <2>2. i = k + j BY <2>1, <1>0, <1>9 DEF IsInjective
  <2> QED BY <2>2, <1>0
<1> QED BY <1>1, <1>2, <1>4, <1>5, <1>6, <1>7, <1>8, <1>9 DEF a, b

(* dequeue(p->prev): the element at position i is unlinked.                *)
LEMMA RemoveAtQueue ==
  ASSUME NEW T, NEW s \in Seq(T), NEW i \in 1 .. Len(s)
  PROVE  /\ RemoveAt(s, i) \in Seq(T)
         /\ ToSet(RemoveAt(s, i)) \subseteq ToSet(s)
         /\ IsInjective(s) => /\ IsInjective(RemoveAt(s, i))
                              /\ ToSet(RemoveAt(s, i)) = ToSet(s) \ {s[i]}
<1> DEFINE a == SubSeq(s, 1, i - 1)
           b == SubSeq(s, i, Len(s))
           c == SubSeq(s, i + 1, Len(s))
<1>0. Len(s) \in Nat /\ i - 1 \in 0 .. Len(s) /\ i \in 0 .. Len(s) /\ (i - 1) + 1 = i
  BY LenProperties
<1>1. /\ a \in Seq(T) /\ b \in Seq(T) /\ ToSet(a) \cup ToSet(b) = ToSet(s)
      /\ IsInjective(s) => IsInjective(a) /\ IsInjective(b) /\ ToSet(a) \cap ToSet(b) = {}
  BY <1>0, SplitQueue
<1>2. b # <<>> /\ Head(b) = s[i] /\ Tail(b) = c
  <2>1. /\ i \in 1 .. Len(s) /\ Len(s) \in i .. Len(s) BY <1>0
  <2>2. Head(b) = s[i] /\ Tail(b) = c BY <2>1, HeadTailOfSubSeq
  <2>3. Len(b) = Len(s) - i + 1
    <3>1. \A j \in i .. Len(s) : s[j] \in T BY <1>0, ElementOfSeq
    <3> HIDE DEF b
    <3> QED BY <3>1, <1>0, SubSeqProperties DEF b
  <2>4. Len(b) # 0 BY <2>3, <1>0
  <2>5. b # <<>> BY <2>4, EmptySeq
  <2> QED BY <2>2, <2>5
<1> HIDE DEF a, b, c
<1>3. /\ c \in Seq(T) /\ ToSet(b) = ToSet(c) \cup {s[i]}
      /\ IsInjective(b) => IsInjective(c) /\ ToSet(c) = ToSet(b) \ {s[i]}
  BY <1>1, <1>2, TailQueue
<1>4. /\ a \o c \in Seq(T) /\ ToSet(a \o c) = ToSet(a) \cup ToSet(c)
      /\ IsInjective(a) /\ IsInjective(c) /\ ToSet(a) \cap ToSet(c) = {} => IsInjective(a \o c)
  BY <1>1, <1>3, ConcatQueue
<1>5. RemoveAt(s, i) = a \o c BY DEF RemoveAt, a, c
<1> QED BY <1>1, <1>3, <1>4, <1>5

LEMMA StatusNames ==
  /\ "FIRST_TIME" \in Status /\ "READY" \in Status /\ "EXITED" \in Status
  /\ "KILLED" \in Status /\ "BLOCKED" \in Status /\ "SLEEPING" \in Status
  /\ Runnable \cap Dead = {} /\ "BLOCKED" \notin Runnable \cup Dead
  /\ "SLEEPING" \notin Runnable \cup Dead /\ "READY" \in Runnable /\ "FIRST_TIME" \in Runnable
BY DEF Status, Runnable, Dead

(* check_sleeping() takes off no more than there is.                       *)
LEMMA DueBound ==
  ASSUME NEW s \in Seq(Task), NEW lf
  PROVE  Due(s, lf) \in 0 .. Len(s)
<1> DEFINE I == {i \in 1 .. Len(s) : \A j \in 1 .. i : lf[s[j]] = 0}
<1>1. Len(s) \in Nat BY LenProperties
<1>2. IsFiniteSet(1 .. Len(s)) /\ Cardinality(1 .. Len(s)) = Len(s)
  <2>1. /\ IsFiniteSet(1 .. Len(s))
        /\ Cardinality(1 .. Len(s)) = IF 1 > Len(s) THEN 0 ELSE Len(s) - 1 + 1
    BY <1>1, FS_Interval
  <2>2. (IF 1 > Len(s) THEN 0 ELSE Len(s) - 1 + 1) = Len(s) BY <1>1
  <2> QED BY <2>1, <2>2
<1>3. I \in SUBSET (1 .. Len(s)) OBVIOUS
<1> HIDE DEF I
<1>4. IsFiniteSet(I) /\ Cardinality(I) <= Len(s) BY <1>2, <1>3, FS_Subset
<1>5. Cardinality(I) \in Nat BY <1>4, FS_CardinalityType
<1> QED BY <1>1, <1>4, <1>5 DEF Due, I

(* scheduler() keeps the types of what it writes.                          *)
LEMMA ScheduleTyped ==
  ASSUME NEW r \in Seq(Task), NEW s \in Seq(Task), NEW lf \in [Task -> Nat],
         NEW st \in [Task -> Status], mode \in Mode, Schedule(r, s, lf, st)
  PROVE  /\ left' \in [Task -> Nat] /\ sleepq' \in Seq(Task)
         /\ status' \in [Task -> Status] /\ ready' \in Seq(Task)
         /\ cur' \in Task \cup {NULL} /\ mode' \in Mode
<1> DEFINE k == Due(s, lf)
           woken == SubSeq(s, 1, k)
           rest == SubSeq(s, k + 1, Len(s))
           q == r \o woken
<1>1. k \in 0 .. Len(s) BY DueBound
<1>2. woken \in Seq(Task) /\ rest \in Seq(Task) BY <1>1, SplitQueue
<1>3. q \in Seq(Task) BY <1>2, ConcatQueue
<1>4. /\ left' = lf /\ sleepq' = rest
      /\ status' = [t \in Task |-> IF t \in ToSet(woken) THEN "READY" ELSE st[t]]
      /\ \/ q # <<>> /\ cur' = Head(q) /\ ready' = Tail(q) /\ mode' = mode
         \/ /\ q = <<>> /\ cur' = NULL /\ ready' = <<>>
            /\ mode' = IF cur \in Task /\ type[cur] = "PROCESS" THEN "masked" ELSE mode
  BY DEF Schedule
<1> HIDE DEF k, woken, rest, q
<1>5. status' \in [Task -> Status]
  <2> "READY" \in Status BY DEF Status, Runnable
  <2> QED BY <1>4
<1>6. ready' \in Seq(Task) /\ cur' \in Task \cup {NULL} /\ mode' \in Mode
  <2>1. CASE q # <<>> /\ cur' = Head(q) /\ ready' = Tail(q) /\ mode' = mode
    BY <2>1, <1>3, TailQueue
  <2>2. CASE ready' = <<>> /\ cur' = NULL
             /\ mode' = IF cur \in Task /\ type[cur] = "PROCESS" THEN "masked" ELSE mode
    BY <2>2, EmptySeq DEF Mode
  <2> QED BY <1>4, <2>1, <2>2
<1> QED BY <1>2, <1>4, <1>5, <1>6

(* The ready queue r and the sleep queue s hold nobody twice and agree     *)
(* with the statuses st.                                                   *)
QueuesAgree(r, s, st) ==
  /\ IsInjective(r) /\ \A t \in ToSet(r) : st[t] \in Runnable
  /\ IsInjective(s) /\ \A t \in ToSet(s) : st[t] = "SLEEPING"

(* The task c that runs, if any, is runnable and not in the ready queue r. *)
RunsAlone(c, r, st) == c # NULL => st[c] \in Runnable /\ c \notin ToSet(r)

(* The queues w of blocked tasks hold nobody twice and agree with st and   *)
(* with pcb.wait_in.                                                       *)
WaitsAgree(w, in, st) ==
  \A q \in Queue : IsInjective(w[q]) /\ \A t \in ToSet(w[q]) : st[t] = "BLOCKED" /\ in[t] = q

(* Only sleepers change status between s and t, and only to READY.         *)
OnlyWakes(s, t) == \A u \in Task : t[u] = s[u] \/ (s[u] = "SLEEPING" /\ t[u] = "READY")

(* scheduler(), entered with queues that agree with the statuses, leaves   *)
(* queues that do, picks a runnable task that is in neither, wakes only    *)
(* sleepers, and loses nobody.                                             *)
LEMMA SchedulePlaces ==
  ASSUME NEW r \in Seq(Task), NEW s \in Seq(Task), NEW lf \in [Task -> Nat],
         NEW st \in [Task -> Status], Schedule(r, s, lf, st), QueuesAgree(r, s, st)
  PROVE  /\ QueuesAgree(ready', sleepq', status')
         /\ RunsAlone(cur', ready', status')
         /\ OnlyWakes(st, status')
         /\ ToSet(ready') \cup (IF cur' = NULL THEN {} ELSE {cur'}) \cup ToSet(sleepq')
              = ToSet(r) \cup ToSet(s)
<1> DEFINE k == Due(s, lf)
           woken == SubSeq(s, 1, k)
           rest == SubSeq(s, k + 1, Len(s))
           q == r \o woken
<1>1. k \in 0 .. Len(s) BY DueBound
<1>2. /\ woken \in Seq(Task) /\ rest \in Seq(Task)
      /\ ToSet(woken) \cup ToSet(rest) = ToSet(s)
      /\ IsInjective(woken) /\ IsInjective(rest) /\ ToSet(woken) \cap ToSet(rest) = {}
  BY <1>1, SplitQueue DEF QueuesAgree
<1>3. ToSet(r) \cap ToSet(s) = {} BY DEF Runnable, QueuesAgree
<1>4. q \in Seq(Task) /\ IsInjective(q) /\ ToSet(q) = ToSet(r) \cup ToSet(woken)
  <2>1. ToSet(r) \cap ToSet(woken) = {} BY <1>2, <1>3
  <2> HIDE DEF woken
  <2>2. /\ r \o woken \in Seq(Task) /\ ToSet(r \o woken) = ToSet(r) \cup ToSet(woken)
        /\ IsInjective(r) /\ IsInjective(woken) /\ ToSet(r) \cap ToSet(woken) = {}
             => IsInjective(r \o woken)
    BY <1>2, ConcatQueue
  <2> QED BY <1>2, <2>1, <2>2 DEF QueuesAgree
<1>5. /\ sleepq' = rest
      /\ status' = [t \in Task |-> IF t \in ToSet(woken) THEN "READY" ELSE st[t]]
      /\ \/ q # <<>> /\ cur' = Head(q) /\ ready' = Tail(q)
         \/ q = <<>> /\ cur' = NULL /\ ready' = <<>>
  BY DEF Schedule
<1> HIDE DEF k, woken, rest, q
<1>6. ToSet(q) \subseteq Task /\ ToSet(rest) \subseteq Task
  BY <1>2, <1>4, SetOfSeq
<1>7. \A t \in Task : status'[t] = IF t \in ToSet(woken) THEN "READY" ELSE st[t]
  BY <1>5
<1>8. \A t \in ToSet(q) : status'[t] \in Runnable
  BY <1>4, <1>6, <1>7 DEF Runnable, QueuesAgree
<1>9. \A t \in ToSet(rest) : status'[t] = "SLEEPING"
  BY <1>2, <1>6, <1>7 DEF QueuesAgree
<1>10. OnlyWakes(st, status')
  BY <1>2, <1>7 DEF QueuesAgree, OnlyWakes
<1>11. CASE q # <<>> /\ cur' = Head(q) /\ ready' = Tail(q)
  <2>1. /\ Head(q) \in Task /\ Head(q) \in ToSet(q)
        /\ IsInjective(Tail(q)) /\ ToSet(Tail(q)) = ToSet(q) \ {Head(q)}
    BY <1>4, <1>11, TailQueue
  <2>2. ToSet(ready') = ToSet(q) \ {cur'} /\ IsInjective(ready') /\ cur' \in ToSet(q)
    BY <2>1, <1>11
  <2>3. cur' # NULL BY <2>1, <1>11, SchedAssumption
  <2>4. ToSet(ready') \cup {cur'} \cup ToSet(sleepq') = ToSet(r) \cup ToSet(s)
    <3>1. ToSet(ready') \cup {cur'} = ToSet(q) BY <2>2
    <3>2. ToSet(sleepq') = ToSet(rest) BY <1>5
    <3>3. ToSet(q) \cup ToSet(rest) = ToSet(r) \cup ToSet(s) BY <1>2, <1>4
    <3> QED BY <3>1, <3>2, <3>3
  <2>5. QueuesAgree(ready', sleepq', status') BY <2>2, <1>2, <1>5, <1>8, <1>9 DEF QueuesAgree
  <2>6. RunsAlone(cur', ready', status') BY <2>2, <1>8 DEF RunsAlone
  <2> QED BY <2>3, <2>4, <2>5, <2>6, <1>10
<1>12. CASE q = <<>> /\ cur' = NULL /\ ready' = <<>>
  <2>1. ToSet(<<>>) = {} /\ IsInjective(<<>>) BY EmptyQueue
  <2>2. QueuesAgree(ready', sleepq', status')
    BY <2>1, <1>2, <1>5, <1>9, <1>12 DEF QueuesAgree
  <2>3. RunsAlone(cur', ready', status') BY <1>12 DEF RunsAlone
  <2>4. ToSet(q) \cup ToSet(rest) = ToSet(r) \cup ToSet(s) BY <1>2, <1>4
  <2> QED BY <2>1, <2>2, <2>3, <2>4, <1>5, <1>10, <1>12
<1> QED BY <1>5, <1>11, <1>12

(* A task that is in no queue may change status: the queues still agree.   *)
LEMMA AgreeExcept ==
  ASSUME NEW r \in Seq(Task), NEW s \in Seq(Task), NEW st \in [Task -> Status],
         NEW p \in Task, NEW x, QueuesAgree(r, s, st), p \notin ToSet(r), p \notin ToSet(s)
  PROVE  QueuesAgree(r, s, [st EXCEPT ![p] = x])
<1>1. ToSet(r) \subseteq Task /\ ToSet(s) \subseteq Task BY SetOfSeq
<1> QED BY <1>1 DEF QueuesAgree

LEMMA WaitsExcept ==
  ASSUME NEW w \in [Queue -> Seq(Task)], NEW in, NEW st \in [Task -> Status],
         NEW p \in Task, NEW x, WaitsAgree(w, in, st), \A q \in Queue : p \notin ToSet(w[q])
  PROVE  WaitsAgree(w, in, [st EXCEPT ![p] = x])
<1>1. \A q \in Queue : ToSet(w[q]) \subseteq Task BY SetOfSeq
<1> QED BY <1>1 DEF WaitsAgree

(* p, in no queue, joins the ready queue.                                  *)
LEMMA AgreeReady ==
  ASSUME NEW r \in Seq(Task), NEW s \in Seq(Task), NEW st \in [Task -> Status],
         NEW p \in Task, NEW x \in Runnable, QueuesAgree(r, s, st),
         p \notin ToSet(r), p \notin ToSet(s)
  PROVE  QueuesAgree(Append(r, p), s, [st EXCEPT ![p] = x])
<1>1. ToSet(r) \subseteq Task /\ ToSet(s) \subseteq Task BY SetOfSeq
<1>2. ToSet(Append(r, p)) = ToSet(r) \cup {p} BY AppendQueue
<1>3. IsInjective(Append(r, p)) BY AppendQueue DEF QueuesAgree
<1> QED BY <1>1, <1>2, <1>3 DEF QueuesAgree

(* A queue that holds nobody twice is no longer than there are tasks.      *)
LEMMA QueueBound ==
  ASSUME IsFiniteSet(Task), NEW s \in Seq(Task), IsInjective(s)
  PROVE  Len(s) <= Cardinality(Task) /\ Cardinality(Task) \in Nat /\ Len(s) \in Nat
<1>1. Len(s) \in Nat /\ s \in [1 .. Len(s) -> Task] BY LenProperties
<1>2. s \in Injection(1 .. Len(s), Task) BY <1>1 DEF Injection
<1>3. Cardinality(1 .. Len(s)) <= Cardinality(Task) BY <1>2, FS_Injection
<1>4. Cardinality(1 .. Len(s)) = IF 1 > Len(s) THEN 0 ELSE Len(s) - 1 + 1
  <2>1. 1 \in Int /\ Len(s) \in Int BY <1>1
  <2> QED BY <2>1, FS_Interval
<1>5. Cardinality(Task) \in Nat BY FS_CardinalityType
<1> QED BY <1>1, <1>3, <1>4, <1>5

(* The tasks in some order: one runs, the others are ready.                *)
LEMMA OrderPlaces ==
  ASSUME IsFiniteSet(Task), Task # {}, NEW order \in SetToSeqs(Task),
         NEW st \in [Task -> Runnable]
  PROVE  /\ Head(order) \in Task /\ Tail(order) \in Seq(Task)
         /\ QueuesAgree(Tail(order), <<>>, st) /\ RunsAlone(Head(order), Tail(order), st)
<1> DEFINE n == Cardinality(Task)
<1>1. n \in Nat /\ n # 0 BY FS_CardinalityType, FS_EmptySet
<1> HIDE DEF n
<1>2. order \in [1 .. n -> Task] /\ \A i, j \in 1 .. n : i # j => order[i] # order[j]
  BY DEF SetToSeqs, n
<1>3. order \in Seq(Task) /\ Len(order) = n BY <1>1, <1>2, SeqDef, LenProperties
<1>4. order # <<>> BY <1>1, <1>3, EmptySeq
<1>5. IsInjective(order) BY <1>2 DEF IsInjective
<1>6. /\ Head(order) \in Task /\ Tail(order) \in Seq(Task)
      /\ IsInjective(Tail(order)) /\ ToSet(Tail(order)) = ToSet(order) \ {Head(order)}
  BY <1>3, <1>4, <1>5, TailQueue
<1>7. ToSet(Tail(order)) \subseteq Task BY <1>6, SetOfSeq
<1>8. ToSet(<<>>) = {} /\ IsInjective(<<>>) BY EmptyQueue
<1> QED BY <1>6, <1>7, <1>8 DEF QueuesAgree, RunsAlone

-----------------------------------------------------------------------------
(* Every task is in one place at most: what the kernel threads and the     *)
(* system calls over this scheduler keep.                                  *)
InPlace ==
  /\ SchedTypeOK
  /\ QueuesAgree(ready, sleepq, status)
  /\ RunsAlone(cur, ready, status)
  /\ WaitsAgree(wq, waitIn, status)

LEMMA PlaceFacts ==
  ASSUME InPlace
  PROVE  /\ ready \in Seq(Task) /\ sleepq \in Seq(Task) /\ wq \in [Queue -> Seq(Task)]
         /\ ToSet(ready) \subseteq Task /\ ToSet(sleepq) \subseteq Task
         /\ \A q \in Queue : ToSet(wq[q]) \subseteq Task /\ wq[q] \in Seq(Task) /\ IsInjective(wq[q])
         /\ status \in [Task -> Status] /\ left \in [Task -> Nat]
         /\ waitIn \in [Task -> Queue \cup {NULL}] /\ mode \in Mode /\ cur \in Task \cup {NULL}
         /\ NULL \notin Task
<1>1. ready \in Seq(Task) /\ sleepq \in Seq(Task) /\ wq \in [Queue -> Seq(Task)]
  BY DEF InPlace, SchedTypeOK
<1>2. \A q \in Queue : wq[q] \in Seq(Task) BY <1>1
<1>3. /\ ToSet(ready) \subseteq Task /\ ToSet(sleepq) \subseteq Task
      /\ \A q \in Queue : ToSet(wq[q]) \subseteq Task
  BY <1>1, <1>2, SetOfSeq
<1> QED BY <1>1, <1>2, <1>3, SchedAssumption DEF InPlace, SchedTypeOK, WaitsAgree

(* The running task can run, and is in no queue.                           *)
LEMMA PlaceOutside ==
  ASSUME InPlace, NEW p \in Task, cur = p
  PROVE  /\ status[p] \in Runnable /\ p \notin ToSet(ready) /\ p \notin ToSet(sleepq)
         /\ \A q \in Queue : p \notin ToSet(wq[q])
BY PlaceFacts, StatusNames DEF InPlace, RunsAlone, QueuesAgree, WaitsAgree

LEMMA PlaceScheduled ==
  ASSUME InPlace, NEW r \in Seq(Task), NEW s \in Seq(Task), NEW lf \in [Task -> Nat],
         NEW st \in [Task -> Status], Schedule(r, s, lf, st), QueuesAgree(r, s, st),
         WaitsAgree(wq', waitIn', st), wq' \in [Queue -> Seq(Task)],
         waitIn' \in [Task -> Queue \cup {NULL}], type' = type
  PROVE  InPlace' /\ OnlyWakes(st, status')
<1>1. SchedTypeOK'
  <2>1. mode \in Mode /\ type \in [Task -> TaskType] BY DEF InPlace, SchedTypeOK
  <2> QED BY <2>1, ScheduleTyped DEF SchedTypeOK
<1>2. /\ QueuesAgree(ready', sleepq', status') /\ RunsAlone(cur', ready', status')
      /\ OnlyWakes(st, status')
  BY SchedulePlaces
<1>3. \A q \in Queue : ToSet(wq'[q]) \subseteq Task BY SetOfSeq
<1>4. WaitsAgree(wq', waitIn', status') BY <1>2, <1>3 DEF WaitsAgree, OnlyWakes
<1> QED BY <1>1, <1>2, <1>4 DEF InPlace

(* p goes back to the ready queue, in do_yield() or preempted.             *)
LEMMA RequeueInPlace ==
  ASSUME InPlace, NEW p \in Task, cur = p, NEW lf \in [Task -> Nat],
         Schedule(Append(ready, p), sleepq, lf, [status EXCEPT ![p] = "READY"]),
         UNCHANGED <<type, waitIn, wq>>
  PROVE  InPlace' /\ OnlyWakes([status EXCEPT ![p] = "READY"], status')
<1> DEFINE st == [status EXCEPT ![p] = "READY"]
           r == Append(ready, p)
<1>1. st \in [Task -> Status] /\ r \in Seq(Task) BY PlaceFacts, StatusNames, AppendQueue
<1>2. QueuesAgree(r, sleepq, st)
  BY PlaceFacts, PlaceOutside, StatusNames, AgreeReady DEF InPlace
<1>3. WaitsAgree(wq, waitIn, st) BY PlaceFacts, PlaceOutside, WaitsExcept DEF InPlace
<1>4. wq' \in [Queue -> Seq(Task)] /\ waitIn' \in [Task -> Queue \cup {NULL}] BY PlaceFacts
<1>5. WaitsAgree(wq', waitIn', st) BY <1>3
<1>6. Schedule(r, sleepq, lf, st) /\ type' = type OBVIOUS
<1> HIDE DEF st, r
<1>7. InPlace' /\ OnlyWakes(st, status')
  BY <1>1, <1>2, <1>4, <1>5, <1>6, PlaceFacts, PlaceScheduled
<1> QED BY <1>7 DEF st

LEMMA YieldInPlace ==
  ASSUME InPlace, NEW p \in Task, cur = p, DoYield(p)
  PROVE  InPlace' /\ OnlyWakes([status EXCEPT ![p] = "READY"], status')
BY PlaceFacts, RequeueInPlace DEF DoYield

(* do_sleep() puts the task in the sleep queue, if it sleeps at all.       *)
LEMMA SleepInPlace ==
  ASSUME InPlace, NEW p \in Task, cur = p, NEW ms \in Nat, DoSleep(p, ms)
  PROVE  InPlace' /\ wq' = wq /\ (ms < 1000 => cur' = cur)
<1> DEFINE ticks == ms \div 1000
<1>1. ticks \in Nat /\ (ms < 1000 => ticks = 0) OBVIOUS
<1> HIDE DEF ticks
<1>2. wq' = wq /\ UNCHANGED <<type, waitIn>>
  BY DEF DoSleep
<1>3. InPlace' /\ (ms < 1000 => cur' = cur)
  <2>1. CASE /\ ticks > 0
             /\ Schedule(ready, Append(sleepq, p), [left EXCEPT ![p] = ticks],
                         [status EXCEPT ![p] = "SLEEPING"])
    <3> DEFINE st == [status EXCEPT ![p] = "SLEEPING"]
               s == Append(sleepq, p)
               lf == [left EXCEPT ![p] = ticks]
    <3>1. /\ status \in [Task -> Status] /\ left \in [Task -> Nat] /\ sleepq \in Seq(Task)
          /\ ready \in Seq(Task) /\ ToSet(ready) \subseteq Task /\ ToSet(sleepq) \subseteq Task
      BY <1>2, PlaceFacts
    <3>2. /\ p \notin ToSet(ready) /\ p \notin ToSet(sleepq)
          /\ \A q \in Queue : p \notin ToSet(wq[q])
      BY <1>2, PlaceOutside
    <3>3. IsInjective(sleepq) BY <1>2 DEF InPlace, QueuesAgree
    <3>4. s \in Seq(Task) /\ ToSet(s) = ToSet(sleepq) \cup {p} /\ IsInjective(s)
      BY <3>1, <3>2, <3>3, AppendQueue
    <3>5. st \in [Task -> Status] /\ lf \in [Task -> Nat] BY <1>1, <3>1, StatusNames
    <3>6. QueuesAgree(ready, s, st)
      BY <1>2, <3>1, <3>2, <3>4 DEF InPlace, QueuesAgree
    <3>7. WaitsAgree(wq, waitIn, st) BY <1>2, <3>1, <3>2, PlaceFacts, WaitsExcept DEF InPlace
    <3>8. /\ WaitsAgree(wq', waitIn', st) /\ wq' \in [Queue -> Seq(Task)]
          /\ waitIn' \in [Task -> Queue \cup {NULL}] /\ type' = type
      BY <1>2, <3>7, PlaceFacts
    <3>9. Schedule(ready, s, lf, st) BY <2>1
    <3> HIDE DEF st, s, lf
    <3>10. InPlace' BY <1>2, <3>1, <3>4, <3>5, <3>6, <3>8, <3>9, PlaceScheduled
    <3> QED BY <1>1, <2>1, <3>10
  <2>2. CASE left' = [left EXCEPT ![p] = 0] /\ UNCHANGED <<status, ready, sleepq, cur, mode>>
    <3>1. left' \in [Task -> Nat] BY <1>2, <2>2, PlaceFacts
    <3> QED BY <1>2, <2>2, <3>1 DEF InPlace, SchedTypeOK
  <2> QED BY <1>1, <2>1, <2>2 DEF DoSleep, ticks
<1> QED BY <1>2, <1>3

LEMMA BlockInPlace ==
  ASSUME InPlace, NEW p \in Task, cur = p, NEW q \in Queue, Block(p, q), type' = type
  PROVE  /\ InPlace' /\ OnlyWakes([status EXCEPT ![p] = "BLOCKED"], status')
         /\ wq' = [wq EXCEPT ![q] = Append(@, p)]
         /\ ToSet(wq'[q]) = ToSet(wq[q]) \cup {p} /\ Len(wq'[q]) = Len(wq[q]) + 1
<1> DEFINE st == [status EXCEPT ![p] = "BLOCKED"]
<1>1. st \in [Task -> Status] BY PlaceFacts, StatusNames
<1>2. QueuesAgree(ready, sleepq, st) BY PlaceFacts, PlaceOutside, AgreeExcept DEF InPlace
<1>3. WaitsAgree(wq, waitIn, st) BY PlaceFacts, PlaceOutside, WaitsExcept DEF InPlace
<1>4. waitIn' = [waitIn EXCEPT ![p] = q] /\ wq' = [wq EXCEPT ![q] = Append(@, p)]
  BY DEF Block
<1>5. /\ Append(wq[q], p) \in Seq(Task) /\ IsInjective(Append(wq[q], p))
      /\ ToSet(Append(wq[q], p)) = ToSet(wq[q]) \cup {p}
  BY PlaceFacts, PlaceOutside, AppendQueue
<1>6. wq'[q] = Append(wq[q], p) /\ \A u \in Queue : u # q => wq'[u] = wq[u]
  BY <1>4, PlaceFacts
<1>7. wq' \in [Queue -> Seq(Task)] /\ waitIn' \in [Task -> Queue \cup {NULL}]
  BY <1>4, <1>5, PlaceFacts
<1>8. WaitsAgree(wq', waitIn', st)
  <2> SUFFICES ASSUME NEW u \in Queue
               PROVE IsInjective(wq'[u]) /\ \A t \in ToSet(wq'[u]) : st[t] = "BLOCKED" /\ waitIn'[t] = u
    BY DEF WaitsAgree
  <2>1. /\ IsInjective(wq[u]) /\ ToSet(wq[u]) \subseteq Task /\ p \notin ToSet(wq[u])
        /\ \A t \in ToSet(wq[u]) : st[t] = "BLOCKED" /\ waitIn[t] = u
    BY <1>3, PlaceFacts, PlaceOutside DEF WaitsAgree
  <2>2. \A t \in ToSet(wq[u]) : waitIn'[t] = u BY <1>4, <2>1, PlaceFacts
  <2>3. st[p] = "BLOCKED" /\ waitIn'[p] = q BY <1>4, PlaceFacts
  <2>4. CASE u # q BY <1>6, <2>1, <2>2, <2>4
  <2>5. CASE u = q
    <3>1. IsInjective(wq'[q]) /\ ToSet(wq'[q]) = ToSet(wq[q]) \cup {p} BY <1>5, <1>6
    <3> QED BY <2>1, <2>2, <2>3, <2>5, <3>1
  <2> QED BY <2>4, <2>5
<1>9. Schedule(ready, sleepq, left, st) /\ type' = type BY DEF Block
<1> HIDE DEF st
<1>10. InPlace' /\ OnlyWakes(st, status')
  BY <1>1, <1>2, <1>7, <1>8, <1>9, PlaceFacts, PlaceScheduled
<1>11. Len(wq'[q]) = Len(wq[q]) + 1 BY <1>6, PlaceFacts, AppendProperties
<1> QED BY <1>4, <1>5, <1>6, <1>10, <1>11 DEF st

LEMMA UnblockOneInPlace ==
  ASSUME InPlace, NEW q \in Queue, wq[q] # <<>>, UnblockOne(q),
         UNCHANGED <<type, left, waitIn, sleepq, cur, mode>>
  PROVE  LET t == Head(wq[q])
         IN  /\ InPlace' /\ t \in Task /\ t \in ToSet(wq[q]) /\ status[t] = "BLOCKED"
             /\ status' = [status EXCEPT ![t] = "READY"]
             /\ wq' = [wq EXCEPT ![q] = Tail(@)]
             /\ ToSet(wq'[q]) = ToSet(wq[q]) \ {t} /\ Len(wq'[q]) = Len(wq[q]) - 1
<1> DEFINE t == Head(wq[q])
<1>1. wq[q] \in Seq(Task) /\ IsInjective(wq[q]) BY PlaceFacts
<1>2. /\ t \in Task /\ t \in ToSet(wq[q]) /\ Tail(wq[q]) \in Seq(Task)
      /\ IsInjective(Tail(wq[q])) /\ ToSet(Tail(wq[q])) = ToSet(wq[q]) \ {t}
  BY <1>1, TailQueue
<1>3. Len(Tail(wq[q])) = Len(wq[q]) - 1 BY <1>1, HeadTailProperties
<1>4. /\ status' = [status EXCEPT ![t] = "READY"] /\ ready' = Append(ready, t)
      /\ wq' = [wq EXCEPT ![q] = Tail(@)]
  BY DEF UnblockOne
<1> HIDE DEF t
<1>5. status[t] = "BLOCKED" /\ waitIn[t] = q BY <1>2 DEF InPlace, WaitsAgree
<1>6. t \notin ToSet(ready) /\ t \notin ToSet(sleepq) /\ t # cur
  BY <1>2, <1>5, PlaceFacts, StatusNames DEF InPlace, QueuesAgree, RunsAlone
<1>7. \A u \in Queue : t \in ToSet(wq[u]) => u = q BY <1>5 DEF InPlace, WaitsAgree
<1>8. wq'[q] = Tail(wq[q]) /\ \A u \in Queue : u # q => wq'[u] = wq[u]
  BY <1>4, PlaceFacts
<1>9. /\ status' \in [Task -> Status] /\ ready' \in Seq(Task) /\ wq' \in [Queue -> Seq(Task)]
  BY <1>2, <1>4, PlaceFacts, StatusNames, AppendQueue
<1>10. SchedTypeOK' BY <1>9 DEF InPlace, SchedTypeOK
<1>11. QueuesAgree(ready', sleepq', status')
  BY <1>2, <1>4, <1>6, PlaceFacts, StatusNames, AgreeReady DEF InPlace
<1>12. RunsAlone(cur', ready', status')
  <2>1. ToSet(ready') = ToSet(ready) \cup {t} BY <1>2, <1>4, PlaceFacts, AppendQueue
  <2>2. cur # NULL => cur \in Task /\ status[cur] \in Runnable /\ cur \notin ToSet(ready)
    BY PlaceFacts DEF InPlace, RunsAlone
  <2> QED BY <1>4, <1>6, <2>1, <2>2, PlaceFacts DEF RunsAlone
<1>13. WaitsAgree(wq', waitIn', status')
  <2> SUFFICES ASSUME NEW u \in Queue
               PROVE IsInjective(wq'[u]) /\ \A x \in ToSet(wq'[u]) : status'[x] = "BLOCKED" /\ waitIn'[x] = u
    BY DEF WaitsAgree
  <2>1. IsInjective(wq'[u]) /\ ToSet(wq'[u]) = ToSet(wq[u]) \ {t}
    BY <1>2, <1>7, <1>8, PlaceFacts
  <2>2. \A x \in ToSet(wq[u]) : x \in Task /\ status[x] = "BLOCKED" /\ waitIn[x] = u
    BY PlaceFacts DEF InPlace, WaitsAgree
  <2> QED BY <1>4, <2>1, <2>2, PlaceFacts
<1>14. InPlace' BY <1>10, <1>11, <1>12, <1>13 DEF InPlace
<1> QED BY <1>2, <1>3, <1>4, <1>5, <1>8, <1>14 DEF t

(* timer_irq(): only a task that is preempted changes status, besides the  *)
(* sleepers.                                                               *)
LEMMA TimerInPlace ==
  ASSUME InPlace, NEW nested, TimerIrq(nested)
  PROVE  /\ InPlace' /\ wq' = wq
         /\ \/ OnlyWakes(status, status')
            \/ cur \in Task /\ ~nested /\ OnlyWakes([status EXCEPT ![cur] = "READY"], status')
<1>1. Ticked \in [Task -> Nat] BY PlaceFacts DEF Ticked
<1>2. UNCHANGED <<type, waitIn, wq>> BY DEF TimerIrq
<1>3. CASE left' = Ticked /\ UNCHANGED <<status, ready, sleepq, cur, mode>>
  BY <1>1, <1>2, <1>3 DEF InPlace, SchedTypeOK, OnlyWakes
<1>4. CASE /\ cur # NULL /\ ~nested
           /\ Schedule(Append(ready, cur), sleepq, Ticked, [status EXCEPT ![cur] = "READY"])
  BY <1>1, <1>2, <1>4, PlaceFacts, RequeueInPlace
<1>5. CASE Schedule(ready, sleepq, Ticked, status)
  <2>1. /\ WaitsAgree(wq', waitIn', status) /\ wq' \in [Queue -> Seq(Task)]
        /\ waitIn' \in [Task -> Queue \cup {NULL}] /\ QueuesAgree(ready, sleepq, status)
    BY <1>2, PlaceFacts DEF InPlace
  <2> QED BY <1>1, <1>2, <1>5, <2>1, PlaceFacts, PlaceScheduled
<1> QED BY <1>2, <1>3, <1>4, <1>5 DEF TimerIrq
=============================================================================
