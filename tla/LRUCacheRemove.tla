--------------------------- MODULE LRUCacheRemove ---------------------------
(***************************************************************************)
(* LRUCache with what was open when a sync called Remove, LRUCache.Remove  *)
(* in internal/meta/lru.go: not every database of the bucket is closed     *)
(* when it returns.                                                        *)
(***************************************************************************)
EXTENDS LRUCache

VARIABLE seen     \* history: what was open for the bucket when Remove began

RemoveInit == Init /\ seen = [t \in Syncer |-> {}]

RemoveNext ==
    \/ \E t \in Syncer, id \in Id :
          /\ RemoveStart(t, id)
          /\ seen' = [seen EXCEPT ![t] =
                        {e \in Entry : db[e] = Open /\ idOf[e] = id}]
    \/ /\ Next
       /\ \A t \in Syncer : pc'[t] = "removing" => pc[t] = "removing"
       /\ UNCHANGED seen

RemoveSpec == RemoveInit /\ [][RemoveNext]_<<vars, seen>>

\* The sync evicts "open bucket databases before replacing their local files"
\* (sync.go:103): what was open of the bucket when Remove was called is closed
\* when it returns.
RemoveClosesBucket ==
    [][\A t \in Syncer :
          pc[t] = "removing" /\ pc'[t] = "idle"
              => \A e \in seen[t] : db'[e] = Closed]_<<vars, seen>>

=============================================================================
