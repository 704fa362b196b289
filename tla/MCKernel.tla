------------------------------ MODULE MCKernel ------------------------------
(* Instances of Kernel for TLC.                                            *)
EXTENDS Kernel

CONSTANTS l1, l2

ThreeTasks == 0 .. 2
OneLock    == {l1}
TwoLocks   == {l1, l2}
AnyFile    == TaskType
NoLocks    == {}
Processes  == {"PROCESS"}
Sleeps     == {500, 1000}
LongSleeps == {1000, 2000}

LifeCalls  == {"yield", "sleep", "exit", "spawn", "wait", "kill", "mutex"}
SleepCalls == {"yield", "sleep", "exit", "spawn"}
LockCalls  == {"exit", "spawn", "mutex"}

(* Two states that differ only in fields no code reads again are one: the  *)
(* fields of a dead slot that do_spawn() sets anew, wait_in of a task that *)
(* is not blocked, the deadline of one that does not sleep.                *)
View ==
  LET live(t) == status[t] \notin Dead
  IN  <<status, ready, sleepq, wq, cur, mode, lockStatus, heldTask, blocking, victim, toRelease,
        holders,
        [t \in Task |-> IF live(t) THEN <<type[t], heldLock[t], acquiring[t]>> ELSE <<>>],
        [t \in Task |-> IF status[t] = "BLOCKED" THEN waitIn[t] ELSE NULL],
        [t \in Task |-> IF status[t] = "SLEEPING" THEN left[t] ELSE 0]>>
=============================================================================
