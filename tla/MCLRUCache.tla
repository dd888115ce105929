----------------------------- MODULE MCLRUCache -----------------------------
(***************************************************************************)
(* Small instances of LRUCache for TLC.                                    *)
(***************************************************************************)
EXTENDS LRUCache

Symmetry == Permutations(Counting) \cup Permutations(Request \ Counting)
                \cup Permutations(Id) \cup Permutations(Entry)

Used == {idOf[e] : e \in Entry} \ {NoId}

\* Entries, buckets and, if all of them count, requests differ in nothing but
\* their names.  Of the behaviours that differ in names only, TLC follows the one
\* that uses them in order: no symmetry set may be given with a liveness property.
InOrder ==
    \A e \in Entry :
        db[e] = Unopened /\ db'[e] = Open =>
            /\ e = CHOOSE x \in Entry : db[x] = Unopened
            /\ idOf'[e] \in Used \/ idOf'[e] = CHOOSE id \in Id \ Used : TRUE
            /\ Used = {} /\ Counting = Request
                  => outer'[CHOOSE t \in Request : TRUE] = e

=============================================================================
