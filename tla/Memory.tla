------------------------------- MODULE Memory -------------------------------
(***************************************************************************)
(* The memory that a paged process believes it has (Project 5): each page  *)
(* holds what was last written to it, and nothing else changes it.         *)
(***************************************************************************)
CONSTANTS
  Page,   \* every page of every process
  Value,  \* what a page may hold
  Image   \* what each page holds at the start

VARIABLES
  mem,  \* what each page holds
  last  \* the last access: what was read or written, and the page

vars == <<mem, last>>

Init == mem = Image /\ last = <<>>

Read(pg) == last' = <<"read", pg, mem[pg]>> /\ UNCHANGED mem

Write(pg, v) == last' = <<"write", pg, v>> /\ mem' = [mem EXCEPT ![pg] = v]

Next == \E pg \in Page : Read(pg) \/ \E v \in Value : Write(pg, v)

Spec == Init /\ [][Next]_vars
=============================================================================
