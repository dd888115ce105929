--------------------------- MODULE MCProvisioning ---------------------------
(***************************************************************************)
(* Small instances of Provisioning and Structure for TLC.                  *)
(***************************************************************************)
EXTENDS Provisioning

CONSTANTS A, x, k1, n1, s1

MCFilePlace == [s \in Slug |-> [server |-> A, base |-> x]]

\* Every location of the file has a base directory of its own, and its bucket is
\* not at the first.
MCOwnBases ==
    CHOOSE f \in [Slug -> Place] :
        \A s, t \in Slug : f[s].server = A /\ (f[s] = f[t] => s = t)

MCBucketElsewhere ==
    {[name |-> n1, owner |-> k1,
      slug |-> CHOOSE s \in Slug : MCOwnBases[s].base # x]}

MCFileBucket == {[name |-> n1, owner |-> k1, slug |-> s1]}

=============================================================================
