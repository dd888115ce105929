------------------------ MODULE MCGarbageCollection -------------------------
(***************************************************************************)
(* A small instance of GarbageCollection for TLC.                          *)
(***************************************************************************)
EXTENDS GarbageCollection, TLC

CONSTANTS MCSize    \* size of every content, in this instance

\* Sizes by content: all equal, so that contents stay interchangeable.
EqualSizes == [h \in Hash |-> MCSize]

\* One WebDAV location for every bucket: the dedup guard spans them all.
OneLocation == [b \in Bucket |-> CHOOSE l \in Location : TRUE]

Symmetry == Permutations(Client) \cup Permutations(Key) \cup Permutations(Hash)
                \cup Permutations(Bucket)

=============================================================================
