----------------------------- MODULE MCPriority -----------------------------
(* The three tasks of tasks.c: clock_thread, process1 and process2.        *)
EXTENDS Priority
=============================================================================
