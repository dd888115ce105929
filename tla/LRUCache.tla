------------------------------ MODULE LRUCache ------------------------------
(***************************************************************************)
(* The cache of open bucket databases, internal/meta/lru.go, and the       *)
(* threads that use it.  Get answers a database with a read lock on its    *)
(* entry; a thread that evicts or removes an entry takes the write lock    *)
(* before it closes the database.                                          *)
(*                                                                         *)
(* A critical section of the cache's mutex is one step.  Get gives the     *)
(* mutex up in the middle when it evicts: what it read before may be stale *)
(* when it goes on.  Inside a critical section only RLock could block;     *)
(* CachedIsUncontended says that it never does.                            *)
(***************************************************************************)
EXTENDS Integers, FiniteSets, SequencesExt

CONSTANTS
    Request,      \* request goroutines
    Counting,     \* those that delete an object and count its references
    Syncer,       \* metadata syncs
    Main,         \* the main goroutine, which shuts the daemon down
    Id,           \* bucket ids
    Entry,        \* cache entries; a finite set bounds how many are ever made
    NoEntry,
    NoId,
    Cap           \* capacity; main.go makes it positive

Thread == Request \cup Syncer \cup {Main}

ASSUME CacheAssumption ==
    /\ IsFiniteSet(Request) /\ Request # {}
    /\ Counting \subseteq Request
    /\ Request \cap Syncer = {}
    /\ Main \notin Request \cup Syncer
    /\ NoEntry \notin Entry
    /\ NoId \notin Id
    /\ Cap \in Nat \ {0}

VARIABLES
    items,        \* items[id]: the entry found under id
    order,        \* the entries listed, most recently used first
    idOf,         \* idOf[e]: the bucket entry e was made for
    db,           \* db[e]: the database handle of e
    pc,           \* pc[t]: the call of the cache t is in
    outer,        \* outer[t]: the entry t holds for the whole request
    inner,        \* inner[t]: the entry t counts references in
    fresh,        \* fresh[t]: the entry Get has opened and not listed yet
    victim,       \* victim[t]: the entry t closes once nobody reads it
    toClose       \* toClose[t]: the entries CloseAll has still to close

callVars == <<pc, fresh, victim, toClose>>
vars == <<items, order, idOf, db, pc, outer, inner, fresh, victim, toClose>>

Unopened == "unopened"
Open     == "open"
Closed   == "closed"

TypeOK ==
    /\ items \in [Id -> Entry \cup {NoEntry}]
    /\ order \in Seq(Entry)
    /\ idOf \in [Entry -> Id \cup {NoId}]
    /\ db \in [Entry -> {Unopened, Open, Closed}]
    /\ pc \in [Thread -> {"idle", "evicting", "inserting", "removing",
                          "closing", "closed"}]
    /\ outer \in [Thread -> Entry \cup {NoEntry}]
    /\ inner \in [Thread -> Entry \cup {NoEntry}]
    /\ fresh \in [Thread -> Entry \cup {NoEntry}]
    /\ victim \in [Thread -> Entry \cup {NoEntry}]
    /\ toClose \in [Thread -> SUBSET Entry]

Init ==
    /\ items = [id \in Id |-> NoEntry]
    /\ order = <<>>
    /\ idOf = [e \in Entry |-> NoId]
    /\ db = [e \in Entry |-> Unopened]
    /\ pc = [t \in Thread |-> "idle"]
    /\ outer = [t \in Thread |-> NoEntry]
    /\ inner = [t \in Thread |-> NoEntry]
    /\ fresh = [t \in Thread |-> NoEntry]
    /\ victim = [t \in Thread |-> NoEntry]
    /\ toClose = [t \in Thread |-> {}]

-----------------------------------------------------------------------------

Reads(t, e) == outer[t] = e \/ inner[t] = e

NoReaders(e) == \A t \in Thread : ~Reads(t, e)

\* A request holds its own bucket; a Delete gets the others of its location
\* as well, one at a time, to count references.
MayGet(t, id) ==
    /\ pc[t] = "idle"
    /\ inner[t] = NoEntry
    /\ outer[t] # NoEntry => t \in Counting /\ id # idOf[outer[t]]

RLock(t, e) ==
    IF outer[t] = NoEntry
    THEN outer' = [outer EXCEPT ![t] = e] /\ UNCHANGED inner
    ELSE inner' = [inner EXCEPT ![t] = e] /\ UNCHANGED outer

\* The factory opens the database of a new entry.
Opened(e, id) ==
    /\ db[e] = Unopened
    /\ db' = [db EXCEPT ![e] = Open]
    /\ idOf' = [idOf EXCEPT ![e] = id]

-----------------------------------------------------------------------------
(***************************************************************************)
(* Get                                                                     *)
(***************************************************************************)

GetHit(t, id) ==
    /\ MayGet(t, id)
    /\ items[id] # NoEntry
    /\ \E i \in 1..Len(order) :
          /\ order[i] = items[id]
          /\ order' = Cons(order[i], RemoveAt(order, i))
    /\ RLock(t, items[id])
    /\ UNCHANGED <<items, idOf, db, callVars>>

\* There is room: the entry is made and listed in one critical section.
GetMiss(t, id, e) ==
    /\ MayGet(t, id)
    /\ items[id] = NoEntry
    /\ Len(order) < Cap
    /\ Opened(e, id)
    /\ order' = Cons(e, order)
    /\ items' = [items EXCEPT ![id] = e]
    /\ RLock(t, e)
    /\ UNCHANGED callVars

\* Wrong variant: the last entry leaves the list, but can still be found.
GetEvictFindable(t, id, e) ==
    /\ MayGet(t, id)
    /\ items[id] = NoEntry
    /\ Len(order) >= Cap
    /\ Opened(e, id)
    /\ order' = Front(order)
    /\ victim' = [victim EXCEPT ![t] = Last(order)]
    /\ fresh' = [fresh EXCEPT ![t] = e]
    /\ pc' = [pc EXCEPT ![t] = "evicting"]
    /\ UNCHANGED <<items, outer, inner, toClose>>

\* Wrong variant: the last entry is found and listed until it is closed.
GetEvictListed(t, id, e) ==
    /\ MayGet(t, id)
    /\ items[id] = NoEntry
    /\ Len(order) >= Cap
    /\ Opened(e, id)
    /\ victim' = [victim EXCEPT ![t] = Last(order)]
    /\ fresh' = [fresh EXCEPT ![t] = e]
    /\ pc' = [pc EXCEPT ![t] = "evicting"]
    /\ UNCHANGED <<items, order, outer, inner, toClose>>

\* There is none: the last entry leaves the list.  Whatever is found under its
\* bucket, the same entry or a later one, is found no more.
GetEvict(t, id, e) ==
    /\ MayGet(t, id)
    /\ items[id] = NoEntry
    /\ Len(order) >= Cap
    /\ Opened(e, id)
    /\ order' = Front(order)
    /\ items' = [items EXCEPT ![idOf[Last(order)]] = NoEntry]
    /\ victim' = [victim EXCEPT ![t] = Last(order)]
    /\ fresh' = [fresh EXCEPT ![t] = e]
    /\ pc' = [pc EXCEPT ![t] = "evicting"]
    /\ UNCHANGED <<outer, inner, toClose>>

\* Wrong variant: the victim is closed under its readers.
CloseVictimAtOnce(t) ==
    /\ pc[t] = "evicting"
    /\ db' = [db EXCEPT ![victim[t]] = Closed]
    /\ victim' = [victim EXCEPT ![t] = NoEntry]
    /\ pc' = [pc EXCEPT ![t] = "inserting"]
    /\ UNCHANGED <<items, order, idOf, outer, inner, fresh, toClose>>

\* The write lock waits for the readers of the victim, whose database is then
\* closed.  The mutex is not held.
CloseVictim(t) ==
    /\ pc[t] = "evicting"
    /\ NoReaders(victim[t])
    /\ db' = [db EXCEPT ![victim[t]] = Closed]
    /\ victim' = [victim EXCEPT ![t] = NoEntry]
    /\ pc' = [pc EXCEPT ![t] = "inserting"]
    /\ UNCHANGED <<items, order, idOf, outer, inner, fresh, toClose>>

\* Wrong variant: the new entry is forgotten before it is listed.
InsertForgotten(t) ==
    /\ pc[t] = "inserting"
    /\ fresh' = [fresh EXCEPT ![t] = NoEntry]
    /\ order' = Cons(fresh'[t], order)
    /\ items' = [items EXCEPT ![idOf[fresh[t]]] = fresh[t]]
    /\ RLock(t, fresh[t])
    /\ pc' = [pc EXCEPT ![t] = "idle"]
    /\ UNCHANGED <<idOf, db, victim, toClose>>

\* The mutex is taken again and the new entry listed, whatever has been listed
\* under its bucket meanwhile.
Insert(t) ==
    /\ pc[t] = "inserting"
    /\ order' = Cons(fresh[t], order)
    /\ items' = [items EXCEPT ![idOf[fresh[t]]] = fresh[t]]
    /\ RLock(t, fresh[t])
    /\ fresh' = [fresh EXCEPT ![t] = NoEntry]
    /\ pc' = [pc EXCEPT ![t] = "idle"]
    /\ UNCHANGED <<idOf, db, victim, toClose>>

\* The caller is done: with a bucket it counted in, or with its own.
Release(t) ==
    /\ pc[t] = "idle"
    /\ \/ /\ inner[t] # NoEntry
          /\ inner' = [inner EXCEPT ![t] = NoEntry]
          /\ UNCHANGED outer
       \/ /\ inner[t] = NoEntry
          /\ outer[t] # NoEntry
          /\ outer' = [outer EXCEPT ![t] = NoEntry]
          /\ UNCHANGED inner
    /\ UNCHANGED <<items, order, idOf, db, callVars>>

-----------------------------------------------------------------------------
(***************************************************************************)
(* Remove and CloseAll                                                     *)
(***************************************************************************)

\* A sync drops the entry found under a bucket, if there is one.
RemoveStart(t, id) ==
    /\ pc[t] = "idle"
    /\ IF items[id] = NoEntry
       THEN UNCHANGED order
       ELSE \E i \in 1..Len(order) :
               order[i] = items[id] /\ order' = RemoveAt(order, i)
    /\ items' = [items EXCEPT ![id] = NoEntry]
    /\ victim' = [victim EXCEPT ![t] = items[id]]
    /\ pc' = [pc EXCEPT ![t] = "removing"]
    /\ UNCHANGED <<idOf, db, outer, inner, fresh, toClose>>

\* It returns once the entry has no reader and is closed.
RemoveEnd(t) ==
    /\ pc[t] = "removing"
    /\ IF victim[t] = NoEntry
       THEN UNCHANGED db
       ELSE /\ NoReaders(victim[t])
            /\ db' = [db EXCEPT ![victim[t]] = Closed]
    /\ victim' = [victim EXCEPT ![t] = NoEntry]
    /\ pc' = [pc EXCEPT ![t] = "idle"]
    /\ UNCHANGED <<items, order, idOf, outer, inner, fresh, toClose>>

\* The entries that can be found are taken out, in an order of Go's choice;
\* the list is emptied.
CloseAllStart(t) ==
    /\ pc[t] = "idle"
    /\ toClose' = [toClose EXCEPT ![t] = {items[id] : id \in Id} \ {NoEntry}]
    /\ items' = [id \in Id |-> NoEntry]
    /\ order' = <<>>
    /\ pc' = [pc EXCEPT ![t] = "closing"]
    /\ UNCHANGED <<idOf, db, outer, inner, fresh, victim>>

\* The next entry is chosen and waited for.
CloseAllNext(t) ==
    /\ pc[t] = "closing"
    /\ victim[t] = NoEntry
    /\ \E e \in toClose[t] : victim' = [victim EXCEPT ![t] = e]
    /\ UNCHANGED <<items, order, idOf, db, pc, outer, inner, fresh, toClose>>

CloseAllClose(t) ==
    /\ pc[t] = "closing"
    /\ victim[t] # NoEntry
    /\ NoReaders(victim[t])
    /\ db' = [db EXCEPT ![victim[t]] = Closed]
    /\ toClose' = [toClose EXCEPT ![t] = toClose[t] \ {victim[t]}]
    /\ victim' = [victim EXCEPT ![t] = NoEntry]
    /\ UNCHANGED <<items, order, idOf, pc, outer, inner, fresh>>

CloseAllEnd(t) ==
    /\ pc[t] = "closing"
    /\ toClose[t] = {}
    /\ pc' = [pc EXCEPT ![t] = "closed"]
    /\ UNCHANGED <<items, order, idOf, db, outer, inner, fresh, victim,
                   toClose>>

-----------------------------------------------------------------------------

RequestStep(t) ==
    \/ \E id \in Id : GetHit(t, id)
    \/ \E id \in Id, e \in Entry : GetMiss(t, id, e) \/ GetEvict(t, id, e)
    \/ CloseVictim(t)
    \/ Insert(t)
    \/ Release(t)

SyncerStep(t) ==
    \/ \E id \in Id : RemoveStart(t, id)
    \/ RemoveEnd(t)

MainStep ==
    \/ CloseAllStart(Main)
    \/ CloseAllNext(Main) \/ CloseAllClose(Main)
    \/ CloseAllEnd(Main)

Next ==
    \/ \E t \in Request : RequestStep(t)
    \/ \E t \in Syncer : SyncerStep(t)
    \/ MainStep

Spec == Init /\ [][Next]_vars

\* A call that can go on goes on, and a request that holds a database finishes
\* with it: nothing makes it wait but calls of the cache.  References are
\* counted in each bucket once, so that a Delete stops getting more of them.
Fairness ==
    /\ \A t \in Request :
          /\ WF_vars(CloseVictim(t)) /\ WF_vars(Insert(t))
          /\ WF_vars(Release(t))
          /\ SF_vars(Release(t) /\ inner[t] = NoEntry)
    /\ \A t \in Syncer : WF_vars(RemoveEnd(t))
    /\ WF_vars(CloseAllNext(Main)) /\ WF_vars(CloseAllClose(Main))
    /\ WF_vars(CloseAllEnd(Main))

FairSpec == Spec /\ Fairness

-----------------------------------------------------------------------------
(***************************************************************************)
(* Properties                                                              *)
(***************************************************************************)

\* "allow safe eviction" (lru.go:39): a database is not closed while a caller
\* of Get has not released it.
NoUseAfterClose == \A t \in Thread, e \in Entry : Reads(t, e) => db[e] = Open

\* Get takes the read lock inside the critical section: an entry that can be
\* found is listed, open, and no thread has or waits for its write lock, so
\* the mutex of the cache is never held while waiting.
CachedIsUncontended ==
    \A id \in Id :
        items[id] # NoEntry =>
            /\ db[items[id]] = Open
            /\ idOf[items[id]] = id
            /\ items[id] \in ToSet(order)
            /\ \A t \in Thread :
                  victim[t] # items[id] /\ items[id] \notin toClose[t]

\* The capacity holds up to concurrent evictions: each request but one can
\* push the list one entry beyond it.
OvershootBounded ==
    Len(order) + Cardinality({t \in Request : fresh[t] # NoEntry})
        <= Cap + Cardinality(Request) - 1

\* A Get waits for whoever reads the entry that it evicts.
WaitsFor(t, u) == pc[t] = "evicting" /\ Reads(u, victim[t])

\* Request t is one of several, or waits for one of several, that all wait for
\* each other; or for itself.
Deadlocked(t) ==
    \E S \in SUBSET Request :
        t \in S /\ \A u \in S : \E v \in S : WaitsFor(u, v)

\* "to avoid deadlock" (lru.go:68): a Get that evicts comes to its end, unless
\* it waits for a request that waits for itself, or for a circle of requests.
EvictionEnds ==
    \A t \in Request : pc[t] = "evicting" ~> pc[t] = "idle" \/ Deadlocked(t)

\* "to avoid deadlock" (lru.go:68): no request waits for itself.
NobodyWaitsForItself == \A t \in Request : ~WaitsFor(t, t)

\* "to avoid deadlock" (lru.go:68): no two requests wait for each other.
NoTwoWaitForEachOther ==
    \A t, u \in Request : t # u => ~(WaitsFor(t, u) /\ WaitsFor(u, t))

-----------------------------------------------------------------------------
(***************************************************************************)
(* An inductive strengthening of the invariants                            *)
(***************************************************************************)

\* Some thread has taken e out of the cache to close it.
Condemned(e) == \E t \in Thread : victim[t] = e \/ e \in toClose[t]

Usable(e) == db[e] = Open /\ idOf[e] \in Id /\ ~Condemned(e)

CallsInv ==
    \A t \in Thread :
        /\ pc[t] = "evicting" => victim[t] # NoEntry
        /\ pc[t] \in {"evicting", "inserting"} <=> fresh[t] # NoEntry

\* An entry is listed once, and a listed entry is usable.
ListedInv ==
    /\ IsInjective(order)
    /\ \A e \in ToSet(order) : Usable(e) /\ \A t \in Thread : fresh[t] # e

\* So is an entry on its way into the list, which one thread only brings.
FreshInv ==
    \A t \in Thread :
        fresh[t] # NoEntry =>
            /\ Usable(fresh[t])
            /\ \A u \in Thread : fresh[u] = fresh[t] => u = t

FoundInv ==
    \A id \in Id :
        items[id] # NoEntry =>
            items[id] \in ToSet(order) /\ idOf[items[id]] = id

CondemnedInv == \A e \in Entry : Condemned(e) => db[e] # Unopened

CacheInv ==
    /\ CallsInv
    /\ ListedInv
    /\ FreshInv
    /\ FoundInv
    /\ CondemnedInv
    /\ NoUseAfterClose

=============================================================================
