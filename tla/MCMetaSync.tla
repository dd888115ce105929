---------------------------- MODULE MCMetaSync ------------------------------
(***************************************************************************)
(* Small instances of MetaSync for TLC.                                    *)
(***************************************************************************)
EXTENDS MetaSync, TLC

CONSTANTS b1, b2

\* When the buckets were made, in this order.
MCCreatedAt == [b \in Bucket |-> IF b = b1 THEN 1 ELSE 2]

Symmetry == Permutations(Client) \cup Permutations(Row) \cup Permutations(File)

=============================================================================
