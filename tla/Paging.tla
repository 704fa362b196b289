------------------------------- MODULE Paging -------------------------------
(***************************************************************************)
(* The virtual memory of the Project 5 kernel (task 2: memory.c, and the   *)
(* TLB handlers of entry.S): page tables in pinned frames, a TLB, faults,  *)
(* and the replacement of frames in the order of their arrival.            *)
(*                                                                         *)
(* Handlers run with interrupts off, so each is one step. Between steps    *)
(* any process may run: the faulting access is tried again only when its   *)
(* process goes on, and may fault again.                                   *)
(***************************************************************************)
EXTENDS Integers, Sequences, FiniteSets, SequencesExt

CONSTANTS
  ProcCounts,     \* how many processes task[] may have (besides a thread, pid 0)
  PageablePages,  \* PAGEABLE_PAGES
  FirstFrame,     \* MEM_START, as a frame number
  Touched,        \* the pages that the programs use
  Value, Image,   \* contents of pages, and what each page starts with
  NULL            \* no entry

Frame == 0 .. PageablePages - 1

(* A page is half (0 or 1) of an entry of a process's page table.          *)
Entry == {<<pg[1], pg[2]>> : pg \in Touched}
Half  == {0, 1}
Page  == {<<e[1], e[2], h>> : e \in Entry, h \in Half}

ASSUME PagingAssumption ==
  /\ ProcCounts \subseteq Nat /\ PageablePages \in Nat \ {0} /\ FirstFrame \in Nat
  /\ Touched \subseteq Nat \X Nat \X Half /\ IsFiniteSet(Touched)
  /\ Image \in [Page -> Value]
  /\ NULL \notin Entry /\ NULL \notin Value

VARIABLES
  fifo,     \* the list from head to tail: the frames in use
  pin,      \* page_map[].pin
  owner,    \* page_map[].pte: the entry whose page is in the frame
  numProcs, \* the processes of task[]; their pids are 1 .. numProcs
  booted,   \* the processes whose page table is set up
  lo,       \* entrylo_0 and entrylo_1 of each entry: frame number and PE_V
  tlb,      \* what the TLB holds of each entry, or NULL
  content,  \* the contents of the frames
  disk,     \* the contents of the pages at daddr
  hung,     \* page_alloc() looks for a frame that is not pinned, for ever
  last      \* the last access of a program

mapVars == <<fifo, pin, owner>>
vars == <<mapVars, numProcs, booted, lo, tlb, content, disk, hung, last>>

(* A frame number is the set of its one bits: faults OR them into entries. *)
PfnBit  == 0 .. 19
Bits(n) == {b \in PfnBit : (n \div 2^b) % 2 = 1}
Pfn(f)  == Bits(FirstFrame + f)

ASSUME FrameAssumption ==  \* frame numbers have 20 bits, and 0 is no frame's
  \A f \in Frame : Pfn(f) # {} /\ \A g \in Frame : Pfn(f) = Pfn(g) => f = g

NoFrame == [h \in Half |-> [pfn |-> {}, valid |-> FALSE]]
HalfOf  == [pfn : SUBSET PfnBit, valid : BOOLEAN]

InUse(f) == Contains(fifo, f)

TypeOK ==
  /\ fifo    \in Seq(Frame) /\ IsInjective(fifo)
  /\ pin     \in [Frame -> BOOLEAN]
  /\ owner   \in [Frame -> Entry \cup {NULL}]
  /\ numProcs \in ProcCounts /\ booted \in 0 .. numProcs
  /\ lo      \in [Entry -> [Half -> HalfOf]]
  /\ tlb     \in [Entry -> [Half -> HalfOf] \cup {NULL}]
  /\ content \in [Frame -> Value \cup {NULL}]
  /\ disk    \in [Page -> Value]
  /\ hung    \in BOOLEAN
  /\ last    \in {<<>>} \cup ({"read", "write"} \X Page \X (Value \cup {NULL}))

(* init_memory()                                                           *)
Init ==
  /\ fifo    = <<>>
  /\ pin     = [f \in Frame |-> FALSE]
  /\ owner   = [f \in Frame |-> NULL]
  /\ numProcs \in ProcCounts
  /\ booted  = 0
  /\ lo      = [e \in Entry |-> NoFrame]
  /\ tlb     = [e \in Entry |-> NULL]
  /\ content = [f \in Frame |-> NULL]
  /\ disk    = Image
  /\ hung    = FALSE
  /\ last    = <<>>

-----------------------------------------------------------------------------
\* Version: nothing is pinned.
TakeUnusedUnpinned(f, pinned, e) ==
  /\ ~InUse(f) /\ \A g \in Frame : ~InUse(g) => f <= g
  /\ fifo'  = Append(fifo, f)
  /\ owner' = [owner EXCEPT ![f] = e]
  /\ UNCHANGED pin

(* page_alloc() of a frame nobody has used: the first such one.            *)
TakeUnused(f, pinned, e) ==
  /\ ~InUse(f) /\ \A g \in Frame : ~InUse(g) => f <= g
  /\ fifo'  = Append(fifo, f)
  /\ pin'   = [pin EXCEPT ![f] = pinned]
  /\ owner' = [owner EXCEPT ![f] = e]

(* page_alloc() with every frame in use: the first one that is not pinned, *)
(* after the pinned ones before it have gone to the end of the list.       *)
TakeUsed(f, pinned, e) ==
  /\ \A g \in Frame : InUse(g)
  /\ \E i \in DOMAIN fifo :
       /\ fifo[i] = f /\ ~pin[f] /\ \A j \in 1 .. i - 1 : pin[fifo[j]]
       /\ fifo' = SubSeq(fifo, i + 1, Len(fifo)) \o SubSeq(fifo, 1, i)
  /\ pin'   = [pin EXCEPT ![f] = pinned]
  /\ owner' = [owner EXCEPT ![f] = e]

AllPinned == \A f \in Frame : InUse(f) /\ pin[f]

(* Which half of its entry the page in frame f is taken for: the even one  *)
(* if the even half names this frame, valid or not.                        *)
EvictedHalf(f) == IF lo[owner[f]][0].pfn = Pfn(f) THEN 0 ELSE 1

PageOf(e, h) == <<e[1], e[2], h>>

\* Version: the frame is taken without writing it back.
SwapOutUnsaved(f) ==
  [lo |-> [lo EXCEPT ![owner[f]][EvictedHalf(f)].valid = FALSE],
   disk |-> disk,
   tlb |-> [tlb EXCEPT ![owner[f]] = NULL]]

\* Version: the TLB is not flushed.
SwapOutUnflushed(f) ==
  [lo |-> [lo EXCEPT ![owner[f]][EvictedHalf(f)].valid = FALSE],
   disk |-> [disk EXCEPT ![PageOf(owner[f], EvictedHalf(f))] = content[f]],
   tlb |-> tlb]

(* The swap-out in page_alloc(): entries, disk and TLB after it.           *)
SwapOut(f) ==
  [lo |-> [lo EXCEPT ![owner[f]][EvictedHalf(f)].valid = FALSE],
   disk |-> [disk EXCEPT ![PageOf(owner[f], EvictedHalf(f))] = content[f]],
   tlb |-> [tlb EXCEPT ![owner[f]] = NULL]]

Kept == [lo |-> lo, disk |-> disk, tlb |-> tlb]

(* setup_page_table(), called for the processes in turn: a pinned frame,   *)
(* and entries without pages.                                              *)
SetupPageTable ==
  /\ ~hung /\ booted < numProcs
  /\ \/ /\ \E f \in Frame : TakeUnused(f, TRUE, NULL)
        /\ booted' = booted + 1
        /\ UNCHANGED hung
     \/ /\ AllPinned
        /\ hung' = TRUE
        /\ UNCHANGED <<mapVars, booted>>
  /\ UNCHANGED <<numProcs, lo, tlb, content, disk, last>>

-----------------------------------------------------------------------------
Running == ~hung /\ booted = numProcs

(* tlbwr: entry e is written, over at most one other.                      *)
Refilled(t, e, halves) ==
  {[t EXCEPT ![e] = halves]} \cup {[t EXCEPT ![e] = halves, ![d] = NULL] : d \in Entry \ {e}}

(* do_page_fault() in frame f, after the swap-out that has left s, and the *)
(* refill: the page comes in from the disk, and its frame number is ORed   *)
(* into the entry.                                                         *)
PageIn(f, e, h, s) ==
  LET entry == [s.lo[e] EXCEPT ![h] = [pfn |-> @.pfn \cup Pfn(f), valid |-> TRUE]]
  IN  /\ content' = [content EXCEPT ![f] = s.disk[PageOf(e, h)]]
      /\ lo'      = [s.lo EXCEPT ![e] = entry]
      /\ tlb'     \in Refilled(s.tlb, e, entry)
      /\ disk'    = s.disk

(* do_tlb_miss() for a page that is not in memory.                         *)
PageFault(e, h) ==
  /\ ~lo[e][h].valid
  /\ \/ /\ \E f \in Frame : \/ TakeUnused(f, FALSE, e) /\ PageIn(f, e, h, Kept)
                            \/ TakeUsed(f, FALSE, e) /\ PageIn(f, e, h, SwapOut(f))
        /\ UNCHANGED hung
     \/ /\ AllPinned
        /\ hung' = TRUE
        /\ UNCHANGED <<mapVars, lo, tlb, content, disk>>

(* do_tlb_miss() for a page that is.                                       *)
Refill(e, h) ==
  /\ lo[e][h].valid
  /\ tlb' \in Refilled(tlb, e, lo[e])
  /\ UNCHANGED <<mapVars, lo, content, disk, hung>>

Hit(e, h) == tlb[e] # NULL /\ tlb[e][h].valid

(* handle_tlb: the TLB does not have the page, or has it invalid.          *)
TlbMiss(e, h) ==
  /\ Running /\ ~Hit(e, h)
  /\ PageFault(e, h) \/ Refill(e, h)
  /\ UNCHANGED <<numProcs, booted, last>>

(* What is at a frame number. One that is no pageable frame's leads        *)
(* elsewhere, to what is not modelled.                                     *)
At(pfn) ==
  IF \E f \in Frame : Pfn(f) = pfn THEN content[CHOOSE f \in Frame : Pfn(f) = pfn] ELSE NULL

(* A program reads or writes a page that the TLB has.                      *)
Load(e, h) ==
  /\ Running /\ Hit(e, h)
  /\ last' = <<"read", PageOf(e, h), At(tlb[e][h].pfn)>>
  /\ UNCHANGED <<mapVars, numProcs, booted, lo, tlb, content, disk, hung>>

Store(e, h, v) ==
  /\ Running /\ Hit(e, h)
  /\ content' = [f \in Frame |-> IF Pfn(f) = tlb[e][h].pfn THEN v ELSE content[f]]
  /\ last' = <<"write", PageOf(e, h), v>>
  /\ UNCHANGED <<mapVars, numProcs, booted, lo, tlb, disk, hung>>

Access(e, h) == TlbMiss(e, h) \/ Load(e, h) \/ \E v \in Value : Store(e, h, v)

Stuck == hung /\ UNCHANGED vars

Next ==
  \/ SetupPageTable \/ Stuck
  \/ \E pg \in Touched : pg[1] <= numProcs /\ Access(<<pg[1], pg[2]>>, pg[3])

Spec == Init /\ [][Next]_vars

-----------------------------------------------------------------------------
(* What do_page_fault() and the choice of EvictedHalf rely on, and the     *)
(* kernel as built grants: a program uses one page of an entry, and with n *)
(* processes there is a frame for each page, or one frame for all of them. *)
(* Otherwise a page that returns to another frame has both numbers ORed.   *)
Fits ==
  /\ \A p, q \in Touched : p[1] = q[1] /\ p[2] = q[2] => p = q
  /\ \A n \in ProcCounts :
       \/ n + Cardinality({pg \in Touched : pg[1] <= n}) <= PageablePages
       \/ n >= PageablePages - 1

(* Where a page is: in the frame its entry names, or at its place on disk. *)
Located(pg) ==
  LET half == lo[<<pg[1], pg[2]>>][pg[3]] IN IF half.valid THEN At(half.pfn) ELSE disk[pg]

M == INSTANCE Memory WITH mem <- [pg \in Page |-> Located(pg)]

(* Paging is invisible: faults, swaps and refills change no page, a store  *)
(* changes its own, a load returns it. "Swap out a page if no space is     *)
(* available" (memory.c:73) promises no less.                              *)
ImplementsMemory == M!Spec

(* A frame holds one page, that of the entry it is noted for; a frame that *)
(* holds a page table is never given away or mapped.                       *)
FramesOwned ==
  /\ TypeOK
  /\ \A pg \in Page : LET half == lo[<<pg[1], pg[2]>>][pg[3]] IN
       half.valid => \E f \in Frame : /\ half.pfn = Pfn(f) /\ ~pin[f]
                                      /\ owner[f] = <<pg[1], pg[2]>>
  /\ \A f \in Frame : InUse(f) /\ ~pin[f] =>
       /\ owner[f] \in Entry
       /\ Cardinality({h \in Half : lo[owner[f]][h] = [pfn |-> Pfn(f), valid |-> TRUE]}) = 1
  /\ Cardinality({f \in Frame : pin[f]}) = booted

(* The TLB never knows better than the page table.                         *)
TlbAgrees == \A e \in Entry : tlb[e] # NULL => tlb[e] = lo[e]
=============================================================================
