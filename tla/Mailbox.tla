------------------------------- MODULE Mailbox ------------------------------
(***************************************************************************)
(* The message boxes of the Project 4 kernel (mbox.c) and the semaphores   *)
(* they are built on (sync.c), over its scheduler.                         *)
(*                                                                         *)
(* Processes open boxes by name, send their pid and receive, as the        *)
(* programs of test_sanguo and test_kill do, next to the clock thread that *)
(* those tests keep running. A system call runs without preemption until   *)
(* it blocks, so the mutexes of the boxes and of the semaphores are never  *)
(* contended: what is left of them is that they are free.                  *)
(***************************************************************************)
EXTENDS Semaphore

CONSTANTS
  Clock,      \* clock_thread, one of the tasks
  NumBoxes,   \* MAX_MBOXEN
  MaxLength,  \* MAX_MBOX_LENGTH
  Name,       \* the names that programs open
  NameLength, \* strlen() of each
  Openers,    \* the tasks that open the box of each name
  Readers,    \* the tasks that may receive from a box of each name
  Closes      \* may a box be closed?

Box == 0 .. NumBoxes - 1

ASSUME MailboxAssumption ==
  /\ IsFiniteSet(Task)
  /\ Obj = Box \X {"full", "empty"}
  /\ Clock \in Task
  /\ NumBoxes \in Nat /\ MaxLength \in Nat \ {0}
  /\ NameLength \in [Name -> Nat]
  /\ Openers \in [Name -> SUBSET Task]
  /\ Readers \in [Name -> SUBSET Task]
  /\ Closes \in BOOLEAN

(* message_num counts the receivers that wait, too: below 0 it wraps, and  *)
(* buf[message_num] is so many entries before the buffer, in name[].       *)
Slot == -Cardinality(Task) .. MaxLength

VARIABLES
  used,     \* status of each box
  name,     \* name[] of each box: the text, and how much of it is written
  num,      \* message_num, as a signed number
  buf,      \* buf[], with the entries before and after it that calls reach
  call,     \* the send or receive that p's kernel stack is blocked in
  opened,   \* history: the boxes each task has got from open() and may use
  wanted,   \* history: the name each box was created for
  unread,   \* history: for each box and pid, the messages sent and not received
  wrong,    \* history: a receiver of this box has got something else
  overlap,  \* history: a sender, or a second receiver, has waited on this box
  wild      \* a send has written past the buffer, on message_num and ID

boxVars == <<used, name, num, buf, value, wild>>
seen    == <<opened, wanted, unread, wrong, overlap>>
vars    == <<schedVars, boxVars, call, seen>>

NoMessages == [t \in Task |-> 0]

Mixed  == "mixed"   \* a name[] that is the text of two names, one over the other
NoCall == [op |-> "none"]
Calls  == {NoCall} \cup [op : {"send", "recv"}, box : Box, slot : Slot]

TypeOK ==
  /\ SchedTypeOK
  /\ used   \in [Box -> BOOLEAN]
  /\ name   \in [Box -> [text : Name \cup {Mixed, NULL}, len : Nat]]
  /\ num    \in [Box -> Slot]
  /\ buf    \in [Box -> [Slot -> Task \cup {NULL}]]
  /\ value  \in [Obj -> 0 .. MaxLength]
  /\ call   \in [Task -> Calls]
  /\ opened \in [Task -> SUBSET Box]
  /\ wanted \in [Box -> Name \cup {NULL}]
  /\ unread \in [Box -> [Task -> Nat]]
  /\ wrong  \in [Box -> BOOLEAN]
  /\ overlap \in [Box -> BOOLEAN]
  /\ wild   \in BOOLEAN

(* init_mbox(), and the programs just spawned: one runs, the others are    *)
(* ready in some order.                                                    *)
Init ==
  /\ \E order \in SetToSeqs(Task) : cur = Head(order) /\ ready = Tail(order)
  /\ status = [t \in Task |-> "FIRST_TIME"]
  /\ type   = [t \in Task |-> IF t = Clock THEN "KERNEL_THREAD" ELSE "PROCESS"]
  /\ left   = [t \in Task |-> 0]
  /\ waitIn = [t \in Task |-> NULL]
  /\ sleepq = <<>>
  /\ wq     = [q \in Queue |-> <<>>]
  /\ mode   = "run"
  /\ used   = [b \in Box |-> FALSE]
  /\ name   = [b \in Box |-> [text |-> NULL, len |-> 0]]
  /\ num    = [b \in Box |-> 0]
  /\ buf    = [b \in Box |-> [s \in Slot |-> NULL]]
  /\ value  = [o \in Obj |-> 0]
  /\ call   = [t \in Task |-> NoCall]
  /\ opened = [t \in Task |-> {}]
  /\ wanted = [b \in Box |-> NULL]
  /\ unread = [b \in Box |-> NoMessages]
  /\ wrong  = [b \in Box |-> FALSE]
  /\ overlap = [b \in Box |-> FALSE]
  /\ wild   = FALSE

Running(p) == mode = "run" /\ ~wild /\ cur = p
User(p)    == Running(p) /\ type[p] = "PROCESS" /\ call[p] = NoCall

(* Task t is in a call on box b that has waited.                           *)
Inside(t, b) == call[t] # NoCall /\ call[t].box = b

-----------------------------------------------------------------------------
(* The copy of n over old leaves what is behind the end of n.              *)
Copied(n, old) ==
  IF NameLength[n] >= old.len THEN [text |-> n, len |-> NameLength[n]]
                              ELSE [text |-> Mixed, len |-> old.len]

\* Version: the search ends at the first unused box.
NamedBefore(n) == {b \in Box : name[b].text = n /\ \A c \in Box : c <= b => used[c]}

Named(n) == {b \in Box : used[b] /\ name[b].text = n}
Unused   == {b \in Box : ~used[b]}

Got(p, b) == opened' = [opened EXCEPT ![p] = @ \cup {b}]

(* Box b becomes a box named n. Its semaphores are new, whoever is in      *)
(* their queues; its buffer is as it was.                                  *)
Create(b, n) ==
  /\ used'   = [used EXCEPT ![b] = TRUE]
  /\ name'   = [name EXCEPT ![b] = Copied(n, @)]
  /\ num'    = [num EXCEPT ![b] = 0]
  /\ value'  = [value EXCEPT ![<<b, "full">>] = 0, ![<<b, "empty">>] = MaxLength]
  /\ wq'     = [wq EXCEPT ![<<b, "full">>] = <<>>, ![<<b, "empty">>] = <<>>]
  /\ wanted' = [wanted EXCEPT ![b] = n]
  /\ unread' = [unread EXCEPT ![b] = NoMessages]
  /\ wrong'   = [wrong EXCEPT ![b] = FALSE]
  /\ overlap' = [overlap EXCEPT ![b] = FALSE]
  /\ UNCHANGED <<buf, wild>>

(* do_mbox_open(): the first box with this name, else the first unused     *)
(* one, else -1.                                                           *)
Open(p, n) ==
  /\ User(p) /\ p \in Openers[n]
  /\ \/ \E b \in Named(n) :
          /\ \A c \in Named(n) : b <= c
          /\ Got(p, b)
          /\ UNCHANGED <<boxVars, wanted, unread, wrong, overlap, wq>>
     \/ \E b \in Unused :
          /\ Named(n) = {} /\ \A c \in Unused : b <= c
          /\ Got(p, b)
          /\ Create(b, n)
     \/ /\ Named(n) = {} /\ Unused = {}
        /\ UNCHANGED <<boxVars, seen, wq>>
  /\ UNCHANGED <<status, type, left, waitIn, ready, sleepq, cur, mode, call>>

(* do_mbox_close(), by the only task that has the box open.                *)
Close(p, b) ==
  /\ Closes
  /\ User(p)
  /\ b \in opened[p] /\ \A t \in Task \ {p} : b \notin opened[t]
  /\ used'   = [used EXCEPT ![b] = FALSE]
  /\ opened' = [opened EXCEPT ![p] = @ \ {b}]
  /\ UNCHANGED <<schedVars, name, num, buf, value, wild, call, wanted, unread, wrong, overlap>>

-----------------------------------------------------------------------------
(* The end of do_mbox_send(): p's pid goes in the slot, the message is     *)
(* counted. The slot after the last one is message_num itself.             *)
Deliver(p, b, slot, val) ==
  /\ Up(val, <<b, "full">>)
  /\ unread' = IF wrong[b] THEN unread ELSE [unread EXCEPT ![b][p] = @ + 1]
  /\ \/ /\ slot < MaxLength
        /\ buf' = [buf EXCEPT ![b][slot] = p]
        /\ num' = [num EXCEPT ![b] = @ + 1]
        /\ UNCHANGED wild
     \/ /\ slot = MaxLength
        /\ wild' = TRUE
        /\ UNCHANGED <<buf, num>>

MaySend(p, b) == User(p) /\ b \in opened[p]

(* do_mbox_send(): the slot is chosen before the call waits for room.      *)
SendNow(p, b) ==
  /\ MaySend(p, b)
  /\ value[<<b, "empty">>] > 0
  /\ Deliver(p, b, num[b], [value EXCEPT ![<<b, "empty">>] = @ - 1])
  /\ UNCHANGED <<type, left, waitIn, sleepq, cur, mode, used, name, call, opened, wanted, wrong, overlap>>

SendWait(p, b) ==
  /\ MaySend(p, b)
  /\ DownWait(p, <<b, "empty">>)
  /\ call' = [call EXCEPT ![p] = [op |-> "send", box |-> b, slot |-> num[b]]]
  /\ overlap' = [overlap EXCEPT ![b] = TRUE]
  /\ UNCHANGED <<type, boxVars, opened, wanted, unread, wrong>>

SendResume(p) ==
  /\ Running(p) /\ call[p].op = "send"
  /\ Deliver(p, call[p].box, call[p].slot, value)
  /\ call' = [call EXCEPT ![p] = NoCall]
  /\ UNCHANGED <<type, left, waitIn, sleepq, cur, mode, used, name, opened, wanted, wrong, overlap>>

-----------------------------------------------------------------------------
(* m was sent to b and is still to be received.                            *)
Fresh(b, m) == ~wrong[b] /\ m # NULL /\ unread[b][m] > 0

(* The end of do_mbox_recv(): the caller gets what is in the slot.         *)
Collect(b, slot, val) ==
  /\ Up(val, <<b, "empty">>)
  /\ LET m == buf[b][slot]
     IN  \/ /\ Fresh(b, m)
            /\ unread' = [unread EXCEPT ![b][m] = @ - 1]
            /\ UNCHANGED wrong
         \/ /\ ~Fresh(b, m)
            /\ unread' = [unread EXCEPT ![b] = NoMessages]
            /\ wrong'  = [wrong EXCEPT ![b] = TRUE]

MayRecv(p, b) == User(p) /\ b \in opened[p] /\ p \in Readers[wanted[b]]

\* Version of do_mbox_recv(): it takes the slot that is still free.
RecvAbove(p, b) ==
  /\ MayRecv(p, b)
  /\ value[<<b, "full">>] > 0
  /\ num' = [num EXCEPT ![b] = @ - 1]
  /\ Collect(b, num[b], [value EXCEPT ![<<b, "full">>] = @ - 1])
  /\ UNCHANGED <<type, left, waitIn, sleepq, cur, mode, used, name, buf, wild, call, opened, wanted, overlap>>

(* do_mbox_recv(): message_num goes down and the slot is chosen before the *)
(* call waits for a message.                                               *)
RecvNow(p, b) ==
  /\ MayRecv(p, b)
  /\ value[<<b, "full">>] > 0
  /\ num' = [num EXCEPT ![b] = @ - 1]
  /\ Collect(b, num[b] - 1, [value EXCEPT ![<<b, "full">>] = @ - 1])
  /\ UNCHANGED <<type, left, waitIn, sleepq, cur, mode, used, name, buf, wild, call, opened, wanted, overlap>>

RecvWait(p, b) ==
  /\ MayRecv(p, b)
  /\ num' = [num EXCEPT ![b] = @ - 1]
  /\ DownWait(p, <<b, "full">>)
  /\ call' = [call EXCEPT ![p] = [op |-> "recv", box |-> b, slot |-> num[b] - 1]]
  /\ overlap' = [overlap EXCEPT ![b] = @ \/ \E t \in Task : Inside(t, b)]
  /\ UNCHANGED <<type, used, name, buf, wild, opened, wanted, unread, wrong>>

RecvResume(p) ==
  /\ Running(p) /\ call[p].op = "recv"
  /\ Collect(call[p].box, call[p].slot, value)
  /\ call' = [call EXCEPT ![p] = NoCall]
  /\ UNCHANGED <<type, left, waitIn, sleepq, cur, mode, used, name, num, buf, wild, opened, wanted, overlap>>

-----------------------------------------------------------------------------
Yield(p) ==
  /\ Running(p) /\ call[p] = NoCall
  /\ DoYield(p)
  /\ UNCHANGED <<boxVars, call, seen>>

Tick ==
  /\ mode = "run" /\ ~wild
  /\ TimerIrq(cur # NULL => type[cur] = "KERNEL_THREAD" \/ call[cur] # NoCall)
  /\ UNCHANGED <<boxVars, call, seen>>

Stuck == (mode # "run" \/ wild) /\ UNCHANGED vars

Step(p) ==
  \/ \E n \in Name : Open(p, n)
  \/ \E b \in Box : \/ Close(p, b)
                    \/ SendNow(p, b) \/ SendWait(p, b)
                    \/ RecvNow(p, b) \/ RecvWait(p, b)
  \/ SendResume(p) \/ RecvResume(p) \/ Yield(p)

Next == (\E p \in Task : Step(p)) \/ Tick \/ Stuck

Spec == Init /\ [][Next]_vars

-----------------------------------------------------------------------------
(* The tasks a semaphore has let through that have not run since.          *)
Granted(b, op) ==
  {t \in Task : Inside(t, b) /\ call[t].op = op /\ status[t] = "READY"}

(* The room in a box: MAX_MBOX_LENGTH is split between the two semaphores  *)
(* and the calls they have let through.                                    *)
RoomConserved ==
  /\ TypeOK
  /\ \A b \in Box : used[b] =>
       value[<<b, "full">>] + value[<<b, "empty">>]
         + Cardinality(Granted(b, "send")) + Cardinality(Granted(b, "recv")) = MaxLength

(* No call waits for what is there: no receiver while a message is free,   *)
(* no sender while there is room.                                          *)
NoneWaitsInVain == \A o \in Obj : wq[o] # <<>> => value[o] = 0

(* "The message is copied into 'msg'" (mbox.c:166-167): what a receiver    *)
(* gets was sent to this box, and nobody has received it before, as long   *)
(* as no sender has waited for room and no receiver has waited beside      *)
(* another one: a slot chosen before the wait is then still the right one. *)
DeliveredAlone == \A b \in Box : wrong[b] => overlap[b]

(* do_mbox_open(): all who open a name get the same box, unless its name   *)
(* was written over a longer one that was there before.                    *)
OneBoxPerName ==
  \A b, c \in Box :
    used[b] /\ used[c] /\ wanted[b] = wanted[c] => b = c \/ Mixed \in {name[b].text, name[c].text}
=============================================================================
