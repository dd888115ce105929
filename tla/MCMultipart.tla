---------------------------- MODULE MCMultipart -----------------------------
(***************************************************************************)
(* Small instances of Multipart for TLC.                                   *)
(***************************************************************************)
EXTENDS Multipart, TLC

Symmetry == Permutations(Client) \cup Permutations(Key)
                \cup Permutations(Upload) \cup Permutations(Content)

=============================================================================
