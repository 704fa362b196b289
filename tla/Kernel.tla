------------------------------- MODULE Kernel -------------------------------
(***************************************************************************)
(* Tasks and mutexes of the Project 4 kernel: spawn, kill, wait, exit,     *)
(* yield, sleep, the timer, and the mutexes mux[] with the deadlock        *)
(* detector of lock_acquire() (kernel.c, sync.c, scheduler.c).             *)
(*                                                                         *)
(* Tasks call whatever they like whenever they run in user mode, within    *)
(* the rules sync.c and lock.c write down for callers: a task releases     *)
(* only what it holds and does not acquire what it holds. Kernel threads   *)
(* (clock_thread) only yield, sleep and exit: spawn, kill, wait and the    *)
(* mutexes are reachable by system call only.                              *)
(***************************************************************************)
EXTENDS Sched

CONSTANTS
  Lock,           \* the mutexes
  FileType,       \* the task types of the programs on the ram disk
  SleepArg,       \* arguments of sleep()
  Calls,          \* the system calls the programs make
  MaxHeld,        \* bound: entries of held_lock[] a task may fill
  KillLockUsers   \* may the victim of a kill hold, or wait for, a mutex?

NumPcbs == Cardinality(Task)

ASSUME KernelAssumption ==
  /\ NumPcbs \in Nat \ {0} /\ Task = 0 .. NumPcbs - 1
  /\ Lock = Obj
  /\ FileType \subseteq TaskType
  /\ SleepArg \subseteq Nat
  /\ Calls \subseteq {"yield", "sleep", "exit", "spawn", "wait", "kill", "mutex"}
  /\ MaxHeld \in Nat
  /\ KillLockUsers \in BOOLEAN

VARIABLES
  lockStatus,  \* lock.status
  heldTask,    \* lock.held_task: what the detector believes, seldom who holds it
  blocking,    \* pcb.blocking_lock
  heldLock,    \* pcb.held_lock[0 .. lock_num - 1]
  acquiring,   \* the lock_acquire() that p's kernel stack is blocked in, or NULL
  victim,      \* the task a do_kill() in progress is killing, or NULL
  toRelease,   \* the mutexes that do_kill() has still to release
  holders      \* history: who returned 0 from lock_acquire() and has not released

lockVars == <<lockStatus, heldTask, blocking, heldLock, acquiring, holders>>
killVars == <<victim, toRelease>>
vars     == <<schedVars, lockVars, killVars>>

TypeOK ==
  /\ SchedTypeOK
  /\ lockStatus \in [Lock -> {"UNLOCKED", "LOCKED"}]
  /\ heldTask   \in [Lock -> Task \cup {NULL}]
  /\ blocking   \in [Task -> Lock \cup {NULL}]
  /\ heldLock   \in [Task -> Seq(Lock)]
  /\ acquiring  \in [Task -> Lock \cup {NULL}]
  /\ holders    \in [Lock -> SUBSET Task]
  /\ victim     \in Task \cup {NULL}
  /\ toRelease  \in Seq(Lock)

(* _start(): every slot is EXITED, then do_spawn("init") takes slot 0 and  *)
(* scheduler_entry() runs it. The mutexes are initialised (do_lock_init)   *)
(* before their first use.                                                 *)
Init ==
  /\ status     = [t \in Task |-> IF t = 0 THEN "FIRST_TIME" ELSE "EXITED"]
  /\ type       = [t \in Task |-> "PROCESS"]
  /\ left       = [t \in Task |-> 0]
  /\ waitIn     = [t \in Task |-> NULL]
  /\ ready      = <<>>
  /\ sleepq     = <<>>
  /\ wq         = [q \in Queue |-> <<>>]
  /\ cur        = 0
  /\ mode       = "run"
  /\ lockStatus = [l \in Lock |-> "UNLOCKED"]
  /\ heldTask   = [l \in Lock |-> NULL]
  /\ blocking   = [t \in Task |-> NULL]
  /\ heldLock   = [t \in Task |-> <<>>]
  /\ acquiring  = [t \in Task |-> NULL]
  /\ holders    = [l \in Lock |-> {}]
  /\ victim     = NULL
  /\ toRelease  = <<>>

(* p runs outside the kernel and may call it.                              *)
User(p)    == mode = "run" /\ cur = p /\ victim = NULL /\ acquiring[p] = NULL
Process(p) == User(p) /\ type[p] = "PROCESS"

-----------------------------------------------------------------------------
Yield(p) == User(p) /\ DoYield(p) /\ UNCHANGED <<lockVars, killVars>>

Sleep(p, ms) == User(p) /\ DoSleep(p, ms) /\ UNCHANGED <<lockVars, killVars>>

(* do_exit() forgets the mutexes p holds: they stay locked.                *)
Exit(p) ==
  /\ User(p)
  /\ DoExit(p)
  /\ holders' = [l \in Lock |-> holders[l] \ {p}]
  /\ UNCHANGED <<lockStatus, heldTask, blocking, heldLock, acquiring, killVars>>

(* do_wait(pid): block until pid exits or is killed, even if it already    *)
(* has.                                                                    *)
Wait(p, pid) ==
  /\ Process(p)
  /\ Block(p, pid)
  /\ UNCHANGED <<type, lockVars, killVars>>

(* initialize_pcb(): a new task of type ft in slot s. Its wait queue is    *)
(* emptied, whoever was in it; blocking_lock stays as it was.              *)
InitializePcb(s, ft) ==
  /\ status'    = [status EXCEPT ![s] = "FIRST_TIME"]
  /\ type'      = [type EXCEPT ![s] = ft]
  /\ waitIn'    = [waitIn EXCEPT ![s] = NULL]
  /\ wq'        = [wq EXCEPT ![s] = <<>>]
  /\ heldLock'  = [heldLock EXCEPT ![s] = <<>>]
  /\ acquiring' = [acquiring EXCEPT ![s] = NULL]

(* do_spawn(): the first EXITED or KILLED slot is made anew. The caller    *)
(* gets 0 even when every slot is taken.                                   *)
Spawn(p, ft) ==
  LET free == {t \in Task : status[t] \in Dead}
  IN  /\ Process(p)
      /\ \/ \E s \in free :
              /\ \A u \in free : s <= u
              /\ InitializePcb(s, ft)
              /\ ready' = Append(ready, s)
              /\ UNCHANGED <<left, sleepq, cur, mode, lockStatus, heldTask, blocking, holders>>
         \/ /\ free = {}
            /\ UNCHANGED <<schedVars, lockVars>>
      /\ UNCHANGED killVars

-----------------------------------------------------------------------------
(* The task the detector visits after t: who is noted as holding the lock  *)
(* that t is noted as blocked on, given the notes b.                       *)
NextHolder(t, b) == IF t = NULL \/ b[t] = NULL THEN NULL ELSE heldTask[b[t]]

(* The first NumPcbs + 1 tasks of the walk in lock_acquire_helper(): a     *)
(* walk that long without meeting NULL or p has met some task twice.       *)
Walk(p, b) ==
  LET w[n \in 0 .. NumPcbs] == IF n = 0 THEN p ELSE NextHolder(w[n - 1], b)
  IN  [n \in 1 .. NumPcbs |-> w[n]]

\* Version: p is compared with the direct holder only.
FindsNeighbour(p, b) == NextHolder(p, b) = p

FindsDeadlock(p, b) == \E n \in 1 .. NumPcbs : Walk(p, b)[n] = p
Diverges(p, b)      == ~FindsDeadlock(p, b) /\ Walk(p, b)[NumPcbs] # NULL

(* do_lock_acquire(l): l goes on held_lock[] first, whatever comes of it.  *)
(* A free mutex is taken, and held_task is left as it is.                  *)
Request(p, l) ==
  /\ Process(p)
  /\ p \notin holders[l]
  /\ Len(heldLock[p]) < MaxHeld
  /\ heldLock' = [heldLock EXCEPT ![p] = Append(@, l)]
  /\ UNCHANGED <<heldTask, type, killVars>>

AcquireFree(p, l) ==
  /\ Request(p, l)
  /\ lockStatus[l] = "UNLOCKED"
  /\ lockStatus' = [lockStatus EXCEPT ![l] = "LOCKED"]
  /\ holders'    = [holders EXCEPT ![l] = @ \cup {p}]
  /\ UNCHANGED <<schedVars, blocking, acquiring>>

(* A taken mutex: note what p wants, follow the notes, and return 1, loop  *)
(* for ever, or block.                                                     *)
AcquireTaken(p, l) ==
  LET noted == [blocking EXCEPT ![p] = l]
  IN  /\ Request(p, l)
      /\ lockStatus[l] = "LOCKED"
      /\ \/ /\ FindsDeadlock(p, noted)
            /\ blocking' = [blocking EXCEPT ![p] = NULL]
            /\ UNCHANGED <<schedVars, acquiring>>
         \/ /\ Diverges(p, noted)
            /\ blocking' = noted
            /\ mode'     = "hang"
            /\ UNCHANGED <<status, left, waitIn, ready, sleepq, wq, cur, acquiring>>
         \/ /\ ~FindsDeadlock(p, noted) /\ ~Diverges(p, noted)
            /\ blocking'  = noted
            /\ acquiring' = [acquiring EXCEPT ![p] = l]
            /\ Block(p, l)
      /\ UNCHANGED <<lockStatus, holders>>

(* The rest of lock_acquire_helper() once p, unblocked, runs again.        *)
AcquireReturn(p) ==
  /\ mode = "run" /\ cur = p /\ acquiring[p] # NULL
  /\ blocking'  = [blocking EXCEPT ![p] = NULL]
  /\ acquiring' = [acquiring EXCEPT ![p] = NULL]
  /\ holders'   = [holders EXCEPT ![acquiring[p]] = @ \cup {p}]
  /\ UNCHANGED <<schedVars, lockStatus, heldTask, heldLock, killVars>>

\* Versions: the mutex is UNLOCKED although it passes to a waiter; the note
\* of the last holder stays when it is UNLOCKED.
ReleaseOpens(l) ==
  /\ lockStatus' = [lockStatus EXCEPT ![l] = "UNLOCKED"]
  /\ heldTask'   = [heldTask EXCEPT ![l] = NULL]
  /\ IF wq[l] # <<>> THEN UnblockOne(l) ELSE UNCHANGED <<status, ready, wq>>

ReleaseKeepsNote(l) ==
  \/ /\ wq[l] # <<>>
     /\ UnblockOne(l)
     /\ heldTask' = [heldTask EXCEPT ![l] = Last(ready')]
     /\ UNCHANGED lockStatus
  \/ /\ wq[l] = <<>>
     /\ lockStatus' = [lockStatus EXCEPT ![l] = "UNLOCKED"]
     /\ UNCHANGED <<status, ready, wq, heldTask>>

(* lock_release_helper(l): the lock passes, still LOCKED, to the first     *)
(* waiter, the one that is now last in the ready queue.                    *)
ReleaseHelper(l) ==
  \/ /\ wq[l] # <<>>
     /\ UnblockOne(l)
     /\ heldTask' = [heldTask EXCEPT ![l] = Last(ready')]
     /\ UNCHANGED lockStatus
  \/ /\ wq[l] = <<>>
     /\ lockStatus' = [lockStatus EXCEPT ![l] = "UNLOCKED"]
     /\ heldTask'   = [heldTask EXCEPT ![l] = NULL]
     /\ UNCHANGED <<status, ready, wq>>

(* do_lock_release(l): the first l on held_lock[] goes (NotesTrue says   *)
(* that there is one).                                                     *)
Release(p, l) ==
  /\ Process(p)
  /\ p \in holders[l]
  /\ \E i \in DOMAIN heldLock[p] :
       /\ heldLock[p][i] = l /\ \A j \in 1 .. i - 1 : heldLock[p][j] # l
       /\ heldLock' = [heldLock EXCEPT ![p] = RemoveAt(@, i)]
  /\ ReleaseHelper(l)
  /\ holders' = [holders EXCEPT ![l] = @ \ {p}]
  /\ UNCHANGED <<type, left, waitIn, sleepq, cur, mode, blocking, acquiring, killVars>>

-----------------------------------------------------------------------------
(* do_kill(v) looks for v's node in the ready queue, the sleep queue or    *)
(* the queue it blocked in, after it has woken those that wait for v.      *)
Linked(v) ==
  \/ status[v] \in Runnable  /\ Contains(ready, v)
  \/ status[v] = "SLEEPING"  /\ Contains(sleepq, v)
  \/ status[v] = "BLOCKED"   /\ waitIn[v] # v /\ Contains(wq[waitIn[v]], v)

MayKill(p, v) ==
  /\ Process(p)
  /\ KillLockUsers \/ heldLock[v] = <<>>

(* An EXITED or KILLED victim: do_kill() returns inside its critical       *)
(* section, and the enter_critical() of system_call_helper() panics.       *)
KillDead(p, v) ==
  /\ MayKill(p, v)
  /\ status[v] \in Dead
  /\ mode' = "panic"
  /\ UNCHANGED <<status, type, left, waitIn, ready, sleepq, wq, cur, lockVars, killVars>>

(* A victim that is in no queue (the caller itself, or a task whose queue  *)
(* was emptied under it): the search never ends.                           *)
KillLost(p, v) ==
  /\ MayKill(p, v)
  /\ status[v] \notin Dead /\ ~Linked(v)
  /\ mode'   = "hang"
  /\ wq'     = [wq EXCEPT ![v] = <<>>]
  /\ status' = Unblocked(wq[v])
  /\ ready'  = ready \o wq[v]
  /\ UNCHANGED <<type, left, waitIn, sleepq, cur, lockVars, killVars>>

KillTake(p, v) ==
  /\ MayKill(p, v)
  /\ status[v] \notin Dead /\ Linked(v)
  /\ status' = Unblocked(wq[v])
  /\ LET woken == [wq EXCEPT ![v] = <<>>]
     IN  \/ /\ status[v] \in Runnable
            /\ ready' = Unlink(ready \o wq[v], v)
            /\ wq'    = woken
            /\ UNCHANGED sleepq
         \/ /\ status[v] = "SLEEPING"
            /\ sleepq' = Unlink(sleepq, v)
            /\ ready'  = ready \o wq[v]
            /\ wq'     = woken
         \/ /\ status[v] = "BLOCKED"
            /\ wq'    = [woken EXCEPT ![waitIn[v]] = Unlink(@, v)]
            /\ ready' = ready \o wq[v]
            /\ UNCHANGED sleepq
  /\ victim'    = v
  /\ toRelease' = heldLock[v]
  /\ UNCHANGED <<type, left, waitIn, cur, mode, lockVars>>

(* One turn of the loop over held_lock[], a critical section of its own.   *)
KillRelease ==
  /\ mode = "run" /\ victim # NULL /\ toRelease # <<>>
  /\ ReleaseHelper(Head(toRelease))
  /\ toRelease' = Tail(toRelease)
  /\ UNCHANGED <<type, left, waitIn, sleepq, cur, mode, blocking, heldLock, acquiring, holders, victim>>

KillDone ==
  /\ mode = "run" /\ victim # NULL /\ toRelease = <<>>
  /\ status'  = [status EXCEPT ![victim] = "KILLED"]
  /\ holders' = [l \in Lock |-> holders[l] \ {victim}]
  /\ victim'  = NULL
  /\ UNCHANGED <<type, left, waitIn, ready, sleepq, wq, cur, mode, lockStatus,
                 heldTask, blocking, heldLock, acquiring, toRelease>>

Kill(p, v) == KillDead(p, v) \/ KillLost(p, v) \/ KillTake(p, v)

(* The timer interrupt. During do_kill(), a system call that has not been  *)
(* switched away from, it stays pending.                                   *)
Tick ==
  /\ mode = "run" /\ victim = NULL
  /\ TimerIrq(cur # NULL => type[cur] = "KERNEL_THREAD" \/ acquiring[cur] # NULL)
  /\ UNCHANGED <<lockVars, killVars>>

(* panic() and the loops that never end keep the CPU.                      *)
Stuck == mode # "run" /\ UNCHANGED vars

-----------------------------------------------------------------------------
Call(p) ==
  \/ "yield" \in Calls /\ Yield(p)
  \/ "sleep" \in Calls /\ \E ms \in SleepArg : Sleep(p, ms)
  \/ "exit"  \in Calls /\ Exit(p)
  \/ "spawn" \in Calls /\ \E ft \in FileType : Spawn(p, ft)
  \/ "wait"  \in Calls /\ \E t \in Task : Wait(p, t)
  \/ "kill"  \in Calls /\ \E t \in Task : Kill(p, t)
  \/ "mutex" \in Calls /\ \E l \in Lock : AcquireFree(p, l) \/ AcquireTaken(p, l) \/ Release(p, l)

KernelStep == KillRelease \/ KillDone \/ \E p \in Task : AcquireReturn(p)

Next == (\E p \in Task : Call(p)) \/ KernelStep \/ Tick \/ Stuck

Spec == Init /\ [][Next]_vars

-----------------------------------------------------------------------------
(* Every queued task is in one queue, once, and its status names that      *)
(* queue; the running task is in none. The lists are intrusive (pcb.node), *)
(* so a task enqueued twice would corrupt both lists.                      *)
ReadyOK  == /\ IsInjective(ready)
            /\ \A t \in ToSet(ready) : status[t] \in Runnable /\ t # cur /\ t # victim
SleepOK  == /\ IsInjective(sleepq)
            /\ \A t \in ToSet(sleepq) : status[t] = "SLEEPING" /\ t # victim
WaitOK   == \A q \in Queue :
              /\ IsInjective(wq[q])
              /\ \A t \in ToSet(wq[q]) : status[t] = "BLOCKED" /\ waitIn[t] = q /\ t # victim
RunOK    == /\ cur # NULL => status[cur] \in Runnable
            /\ victim # NULL => victim # cur /\ cur # NULL /\ status[victim] \notin Dead
            /\ victim = NULL => toRelease = <<>>
OnePlace == ReadyOK /\ SleepOK /\ WaitOK /\ RunOK

(* No task is dropped: one that could run is running or in the ready       *)
(* queue, a sleeper is in the sleep queue, one blocked on a mutex is in    *)
(* that mutex's queue, and only the victim of a kill in progress is in     *)
(* none. (A task that waits for another one may be dropped: do_spawn()     *)
(* empties the wait queue of the slot it takes.)                           *)
Placed(t) ==
  \/ t = victim \/ status[t] \in Dead
  \/ status[t] \in Runnable /\ (t = cur \/ t \in ToSet(ready))
  \/ status[t] = "SLEEPING" /\ t \in ToSet(sleepq)
  \/ status[t] = "BLOCKED"  /\ (waitIn[t] \in Task \/ \E l \in Lock : t \in ToSet(wq[l]))
NoTaskLost == \A t \in Task : Placed(t)

(* A wait for a task ends because that task exits or is killed, never      *)
(* otherwise, unless the waiter is killed or the slot is made anew: the    *)
(* tasks that leave the wait queue of pid do so in these steps only.       *)
WaitEndsWithTarget ==
  [][\A pid \in Task : \A t \in ToSet(wq[pid]) \ ToSet(wq'[pid]) :
       \/ status'[pid] \in Dead \/ victim' \in {pid, t} \/ mode' = "hang"
       \/ status[pid] \in Dead /\ status'[pid] = "FIRST_TIME"]_vars

(* A killed or exited task runs again only as a new task: do_yield() and   *)
(* the scheduler never pick it up.                                         *)
DeadStayDead ==
  [][\A t \in Task : status[t] \in Dead =>
       status'[t] = status[t] \/ (status'[t] = "FIRST_TIME" /\ Last(ready') = t)]_vars

-----------------------------------------------------------------------------
(* The task that the release of l has passed it to and that has not run    *)
(* since: it is still inside lock_acquire(), with blocking_lock = l.       *)
Granted(l) == {t \in Task : acquiring[t] = l /\ t \notin ToSet(wq[l]) /\ status[t] # "KILLED"}
Owners(l)  == holders[l] \cup Granted(l)

(* Mutual exclusion, and what each task may rely on: at most one owner,    *)
(* and a mutex that is UNLOCKED has neither owner nor waiters.             *)
MutualExclusion ==
  \A l \in Lock :
    /\ \A t, u \in Owners(l) : t = u
    /\ lockStatus[l] = "UNLOCKED" => Owners(l) = {} /\ wq[l] = <<>>

(* The notes tell the truth: the one the detector follows names no task    *)
(* while another one owns the mutex, and the one do_kill() releases        *)
(* mutexes by, held_lock[], has every mutex that a live task holds or      *)
(* waits for, whatever it acquired, was refused or released before.        *)
NotesTrue ==
  /\ \A l \in Lock : heldTask[l] # NULL => Owners(l) \subseteq {heldTask[l]}
  /\ \A t \in Task, l \in Lock :
       t \in holders[l] \/ (acquiring[t] = l /\ status[t] \notin Dead) => l \in ToSet(heldLock[t])

(* lock_acquire() ends with a 0, a 1 or a block (sync.c:64-65), unless its *)
(* walk comes to a task that a release has handed a mutex and that has not *)
(* run since: it is noted both as blocked on the mutex and as holding it,  *)
(* and the walk stays there. No other cycle holds up a caller outside it.  *)
DetectorEnds ==
  mode = "hang" => \E l \in Lock : heldTask[l] # NULL /\ blocking[heldTask[l]] = l

(* A mutex is granted in the order of the requests: it passes to the first *)
(* waiter, and nobody who did not wait gets it while somebody waits.       *)
FifoGrant ==
  [][\A l \in Lock :
       /\ \A t \in Granted(l)' \ Owners(l) : wq[l] # <<>> /\ t = Head(wq[l])
       /\ \A t \in holders'[l] \ Owners(l) : wq[l] = <<>>]_vars

(* lock_acquire(): "Return 1 on failure due to deadlock" (sync.c:65). No   *)
(* set of tasks in which each waits for a mutex another of them holds.     *)
DeadlockIsRefused ==
  ~ \E S \in SUBSET Task \ {{}} :
      \A t \in S : \E l \in Lock : t \in ToSet(wq[l]) /\ holders[l] \cap S # {}

-----------------------------------------------------------------------------
(* Fairness. The CPU goes on executing kernel code and the timer goes on   *)
(* interrupting. A kernel thread is not preempted: clock_thread, the one   *)
(* thread of the tests, yields in an endless loop. Nothing is assumed of   *)
(* processes.                                                              *)
ThreadYields == \E p \in Task : type[p] = "KERNEL_THREAD" /\ Yield(p)

Fairness == WF_vars(KernelStep) /\ WF_vars(Tick) /\ WF_vars(ThreadYields)

FairSpec == Spec /\ Fairness

(* Round robin starves nobody: a task in the ready queue runs, unless it   *)
(* is killed first or the machine stops.                                   *)
ReadyRuns ==
  \A t \in Task : (t \in ToSet(ready)) ~> (cur = t \/ victim = t \/ mode # "run")

(* A sleeping task wakes, although the sleep queue is not sorted and       *)
(* check_sleeping() stops at the first sleeper that is not due.            *)
SleepersWake ==
  \A t \in Task : (status[t] = "SLEEPING") ~> (status[t] # "SLEEPING" \/ mode # "run")
=============================================================================
