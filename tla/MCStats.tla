------------------------------ MODULE MCStats -------------------------------
(***************************************************************************)
(* Small instances of Stats for TLC.                                       *)
(***************************************************************************)
EXTENDS Stats

CONSTANTS d1, d2, i1, i2, c1, c2, c3

MCFirstId == [d \in Daemon |-> IF d = d1 THEN i1 ELSE i2]

MCClient == [d \in Daemon |-> IF d = d1 THEN {c1, c2} ELSE {c3}]

=============================================================================
