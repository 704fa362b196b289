------------------------------ MODULE MCPaging ------------------------------
(* Instances of Paging for TLC.                                            *)
EXTENDS Paging

CONSTANTS v0, v1, v2, v3

Values == {v0, v1, v2, v3}

(* As built: every program fits in the first page of its first entry.      *)
OnePageEach == {<<p, 0, 0>> : p \in 1 .. 4}

(* A page starts with its own content.                                     *)
OwnImage == [pg \in Page |-> IF pg[1] % 2 = 1 THEN (IF pg[3] = 0 THEN v0 ELSE v1)
                                              ELSE (IF pg[3] = 0 THEN v2 ELSE v3)]

ASSUME AsBuilt == Fits
=============================================================================
