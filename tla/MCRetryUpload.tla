--------------------------- MODULE MCRetryUpload ----------------------------
(***************************************************************************)
(* A small instance of RetryUpload for TLC: two uploads of one metadata    *)
(* database, each with its own content, and two uploads of one content to  *)
(* its data file.                                                          *)
(***************************************************************************)
EXTENDS RetryUpload, TLC

CONSTANTS u1, u2, v1, v2, db, file, c1, c2

Databases == [u \in Call |-> IF u \in {u1, u2} THEN db ELSE file]

Contents == [u \in Call |-> IF u = u2 THEN c2 ELSE c1]

EqualSizes == [c \in Content |-> 1]

=============================================================================
