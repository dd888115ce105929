--------------------------- MODULE LRUCacheProofs ---------------------------
(***************************************************************************)
(* Proofs about LRUCache, for any number of threads, buckets and entries   *)
(* and any capacity.                                                       *)
(***************************************************************************)
EXTENDS LRUCache, FiniteSetTheorems, SequenceTheorems, TLAPS

-----------------------------------------------------------------------------
(***************************************************************************)
(* The list                                                                *)
(***************************************************************************)

\* Listing an entry in front.
LEMMA ConsList ==
    ASSUME NEW S, NEW s \in Seq(S), NEW e \in S
    PROVE  /\ Cons(e, s) \in Seq(S)
           /\ Len(Cons(e, s)) = Len(s) + 1
           /\ ToSet(Cons(e, s)) = ToSet(s) \cup {e}
           /\ IsInjective(s) /\ e \notin ToSet(s) => IsInjective(Cons(e, s))
<1> DEFINE c == Cons(e, s)
<1>1. /\ c \in Seq(S)
      /\ Len(c) = Len(s) + 1
      /\ \A i \in 1..Len(c) : c[i] = IF i = 1 THEN e ELSE s[i-1]
  BY DEF Cons
<1>2. ToSet(c) = ToSet(s) \cup {e}
  <2>1. \A i \in 1..Len(s) : c[i+1] = s[i] /\ i+1 \in 1..Len(c)
    BY <1>1
  <2>2. c[1] = e /\ 1 \in 1..Len(c)
    BY <1>1
  <2>3. ToSet(c) \subseteq ToSet(s) \cup {e}
    BY <1>1 DEF ToSet
  <2> HIDE DEF c
  <2>4. ToSet(s) \cup {e} \subseteq ToSet(c)
    <3>1. ASSUME NEW i \in 1..Len(s)
          PROVE  s[i] \in ToSet(c)
      BY <1>1, <2>1 DEF ToSet
    <3>2. e \in ToSet(c)
      BY <1>1, <2>2 DEF ToSet
    <3> QED
      BY <3>1, <3>2 DEF ToSet
  <2> QED
    BY <2>3, <2>4
<1>3. ASSUME IsInjective(s), e \notin ToSet(s),
             NEW i \in 1..Len(c), NEW j \in 1..Len(c), c[i] = c[j]
      PROVE  i = j
  BY <1>1, <1>3 DEF IsInjective, ToSet
<1> HIDE DEF c
<1>4. IsInjective(s) /\ e \notin ToSet(s) => IsInjective(c)
  BY <1>1, <1>3 DEF IsInjective
<1> QED
  BY <1>1, <1>2, <1>4 DEF c

\* The list before position i.
LEMMA PrefixList ==
    ASSUME NEW S, NEW s \in Seq(S), NEW i \in 1..Len(s)
    PROVE  /\ SubSeq(s, 1, i-1) \in Seq(S)
           /\ Len(SubSeq(s, 1, i-1)) = i-1
           /\ \A j \in 1..(i-1) : SubSeq(s, 1, i-1)[j] = s[j]
  OBVIOUS

\* Taking the entry at position i out of the list.
LEMMA RemoveAtList ==
    ASSUME NEW S, NEW s \in Seq(S), NEW i \in 1..Len(s)
    PROVE  /\ RemoveAt(s, i) \in Seq(S)
           /\ Len(RemoveAt(s, i)) = Len(s) - 1
           /\ IsInjective(s) =>
                /\ ToSet(RemoveAt(s, i)) = ToSet(s) \ {s[i]}
                /\ IsInjective(RemoveAt(s, i))
<1> DEFINE r == RemoveAt(s, i)
<1>1. /\ r \in Seq(S)
      /\ Len(r) = Len(s) - 1
      /\ \A j \in 1..Len(r) : r[j] = IF j < i THEN s[j] ELSE s[j+1]
  <2> DEFINE a == SubSeq(s, 1, i-1)
             b == SubSeq(s, i+1, Len(s))
  <2>1. /\ a \in Seq(S) /\ Len(a) = i-1
        /\ \A j \in 1..(i-1) : a[j] = s[j]
    BY PrefixList
  <2>2. /\ b \in Seq(S) /\ Len(b) = Len(s) - i
        /\ \A j \in 1..(Len(s) - i) : b[j] = s[i+j]
    OBVIOUS
  <2> HIDE DEF a, b
  <2>3. /\ a \o b \in Seq(S)
        /\ Len(a \o b) = Len(s) - 1
        /\ \A j \in 1..Len(s)-1 :
              (a \o b)[j] = IF j <= Len(a) THEN a[j] ELSE b[j - Len(a)]
    <3>1. /\ a \o b \in Seq(S)
          /\ Len(a \o b) = Len(a) + Len(b)
          /\ \A j \in 1..Len(a) + Len(b) :
                (a \o b)[j] = IF j <= Len(a) THEN a[j] ELSE b[j - Len(a)]
      BY <2>1, <2>2, ConcatProperties, Zenon
    <3>2. Len(a) + Len(b) = Len(s) - 1
      BY <2>1, <2>2
    <3> QED
      BY <3>1, <3>2, Zenon
  <2>4. ASSUME NEW j \in 1..Len(s)-1
        PROVE  (a \o b)[j] = IF j < i THEN s[j] ELSE s[j+1]
    BY <2>1, <2>2, <2>3
  <2>5. r = a \o b
    BY DEF RemoveAt, a, b
  <2> QED
    BY <2>3, <2>4, <2>5
<1>2. ASSUME IsInjective(s)
      PROVE  ToSet(r) = ToSet(s) \ {s[i]}
  <2>1. ASSUME NEW j \in 1..Len(r)
        PROVE  r[j] \in ToSet(s) /\ r[j] # s[i]
    <3>1. PICK k \in 1..Len(s) : k # i /\ r[j] = s[k]
      BY <1>1, <2>1
    <3> QED
      BY <1>2, <3>1 DEF IsInjective, ToSet
  <2>2. ASSUME NEW j \in 1..Len(s), j # i
        PROVE  \E k \in 1..Len(r) : r[k] = s[j]
    <3>1. CASE j < i
      <4>1. j \in 1..Len(r) /\ r[j] = s[j]
        BY <1>1, <3>1
      <4> QED
        BY <4>1
    <3>2. CASE j > i
      <4>1. j-1 \in 1..Len(r) /\ r[j-1] = s[j]
        BY <1>1, <3>2
      <4> QED
        BY <4>1
    <3> QED
      BY <2>2, <3>1, <3>2
  <2> HIDE DEF r
  <2>3. ToSet(r) \subseteq ToSet(s) \ {s[i]}
    BY <1>1, <2>1 DEF ToSet
  <2>4. ToSet(s) \ {s[i]} \subseteq ToSet(r)
    BY <1>1, <2>2 DEF ToSet
  <2> QED
    BY <2>3, <2>4
<1>3. ASSUME IsInjective(s), NEW j \in 1..Len(r), NEW k \in 1..Len(r),
             r[j] = r[k]
      PROVE  j = k
  BY <1>1, <1>3 DEF IsInjective
<1> HIDE DEF r
<1>4. IsInjective(s) => IsInjective(r)
  BY <1>1, <1>3 DEF IsInjective
<1> QED
  BY <1>1, <1>2, <1>4 DEF r

\* Taking the last entry out of the list.
LEMMA FrontList ==
    ASSUME NEW S, NEW s \in Seq(S), s # <<>>
    PROVE  /\ Last(s) \in ToSet(s)
           /\ Last(s) \in S
           /\ Front(s) \in Seq(S)
           /\ Len(Front(s)) = Len(s) - 1
           /\ IsInjective(s) =>
                /\ ToSet(Front(s)) = ToSet(s) \ {Last(s)}
                /\ IsInjective(Front(s))
<1> DEFINE f == Front(s)
<1>1. /\ f \in Seq(S)
      /\ Len(f) = Len(s) - 1
      /\ \A j \in 1..Len(f) : f[j] = s[j]
      /\ Len(s) \in 1..Len(s)
      /\ Last(s) = s[Len(s)]
  <2>1. Len(s) \in 1..Len(s)
    OBVIOUS
  <2>2. /\ SubSeq(s, 1, Len(s)-1) \in Seq(S)
        /\ Len(SubSeq(s, 1, Len(s)-1)) = Len(s) - 1
        /\ \A j \in 1..Len(s)-1 : SubSeq(s, 1, Len(s)-1)[j] = s[j]
    BY <2>1, PrefixList
  <2> QED
    BY <2>1, <2>2 DEF Front, Last
<1>2. ASSUME IsInjective(s)
      PROVE  ToSet(f) = ToSet(s) \ {Last(s)}
  <2>1. ToSet(f) \subseteq ToSet(s) \ {Last(s)}
    BY <1>1, <1>2 DEF ToSet, IsInjective
  <2>2. ASSUME NEW j \in 1..Len(s), j # Len(s)
        PROVE  \E k \in 1..Len(f) : f[k] = s[j]
    <3>1. j \in 1..Len(f) /\ f[j] = s[j]
      BY <1>1, <2>2
    <3> QED
      BY <3>1
  <2> HIDE DEF f
  <2>3. ToSet(s) \ {Last(s)} \subseteq ToSet(f)
    BY <1>1, <2>2 DEF ToSet
  <2> QED
    BY <2>1, <2>3
<1> HIDE DEF f
<1>3. IsInjective(s) => IsInjective(f)
  BY <1>1 DEF IsInjective
<1>4. Last(s) \in ToSet(s) /\ Last(s) \in S
  BY <1>1 DEF ToSet
<1> QED
  BY <1>1, <1>2, <1>3, <1>4 DEF f

\* Moving an entry to the front keeps the list as a set.
LEMMA MoveToFrontList ==
    ASSUME NEW S, NEW s \in Seq(S), NEW i \in 1..Len(s)
    PROVE  /\ Cons(s[i], RemoveAt(s, i)) \in Seq(S)
           /\ Len(Cons(s[i], RemoveAt(s, i))) = Len(s)
           /\ IsInjective(s) =>
                /\ ToSet(Cons(s[i], RemoveAt(s, i))) = ToSet(s)
                /\ IsInjective(Cons(s[i], RemoveAt(s, i)))
<1> DEFINE r == RemoveAt(s, i)
<1>1. s[i] \in S /\ s[i] \in ToSet(s)
  BY DEF ToSet
<1>2. /\ r \in Seq(S)
      /\ Len(r) = Len(s) - 1
      /\ IsInjective(s) => ToSet(r) = ToSet(s) \ {s[i]} /\ IsInjective(r)
  BY RemoveAtList
<1> HIDE DEF r
<1>3. /\ Cons(s[i], r) \in Seq(S)
      /\ Len(Cons(s[i], r)) = Len(r) + 1
      /\ ToSet(Cons(s[i], r)) = ToSet(r) \cup {s[i]}
      /\ IsInjective(r) /\ s[i] \notin ToSet(r) => IsInjective(Cons(s[i], r))
  BY <1>1, <1>2, ConsList
<1>4. Len(r) + 1 = Len(s)
  BY <1>2
<1> QED
  BY <1>1, <1>2, <1>3, <1>4 DEF r

-----------------------------------------------------------------------------
(***************************************************************************)
(* Type correctness                                                        *)
(***************************************************************************)

LEMMA RequestsAreThreads ==
    Request \subseteq Thread /\ Syncer \subseteq Thread /\ Main \in Thread
  BY DEF Thread

LEMMA TypeInit == Init => TypeOK
  BY DEF Init, TypeOK, Unopened

\* A read lock is added to those of its thread, nothing else changes.
LEMMA RLockLemma ==
    ASSUME TypeOK, NEW t \in Thread, NEW e \in Entry, RLock(t, e)
    PROVE  /\ outer' \in [Thread -> Entry \cup {NoEntry}]
           /\ inner' \in [Thread -> Entry \cup {NoEntry}]
           /\ \A u \in Thread, f \in Entry :
                 Reads(u, f)' => Reads(u, f) \/ (u = t /\ f = e)
  BY DEF TypeOK, RLock, Reads

LEMMA TypeRequest ==
    ASSUME TypeOK, CallsInv, NEW t \in Request, RequestStep(t)
    PROVE  TypeOK'
<1>0. t \in Thread
  BY RequestsAreThreads
<1>1. ASSUME NEW id \in Id, GetHit(t, id)
      PROVE  TypeOK'
  <2>1. items[id] \in Entry
    BY <1>1 DEF GetHit, TypeOK
  <2>2. order' \in Seq(Entry)
    BY <1>1, MoveToFrontList DEF GetHit, TypeOK
  <2>3. RLock(t, items[id])
    BY <1>1 DEF GetHit
  <2> QED
    BY <1>0, <1>1, <2>1, <2>2, <2>3, RLockLemma DEF GetHit, callVars, TypeOK
<1>2. ASSUME NEW id \in Id, NEW e \in Entry, GetMiss(t, id, e)
      PROVE  TypeOK'
  <2>1. order' \in Seq(Entry)
    BY <1>2, ConsList DEF GetMiss, TypeOK
  <2>2. RLock(t, e)
    BY <1>2 DEF GetMiss
  <2> QED
    BY <1>0, <1>2, <2>1, <2>2, RLockLemma
    DEF GetMiss, Opened, callVars, TypeOK
<1>3. ASSUME NEW id \in Id, NEW e \in Entry, GetEvict(t, id, e)
      PROVE  TypeOK'
  <2>1. order # <<>>
    BY <1>3, CacheAssumption DEF GetEvict, TypeOK
  <2>2. Front(order) \in Seq(Entry) /\ Last(order) \in Entry
    BY <2>1, FrontList DEF TypeOK
  <2> QED
    BY <1>0, <1>3, <2>2 DEF GetEvict, Opened, TypeOK
<1>4. CASE CloseVictim(t)
  BY <1>0, <1>4 DEF CloseVictim, TypeOK
<1>5. CASE Insert(t)
  <2>1. fresh[t] \in Entry
    BY <1>0, <1>5 DEF Insert, CallsInv, TypeOK
  <2>2. order' \in Seq(Entry)
    BY <1>5, <2>1, ConsList DEF Insert, TypeOK
  <2>3. RLock(t, fresh[t])
    BY <1>5 DEF Insert
  <2> QED
    BY <1>0, <1>5, <2>1, <2>2, <2>3, RLockLemma DEF Insert, TypeOK
<1>6. CASE Release(t)
  BY <1>0, <1>6 DEF Release, callVars, TypeOK
<1> QED
  BY <1>1, <1>2, <1>3, <1>4, <1>5, <1>6 DEF RequestStep

LEMMA TypeSyncer ==
    ASSUME TypeOK, NEW t \in Syncer, SyncerStep(t)
    PROVE  TypeOK'
<1>0. t \in Thread
  BY RequestsAreThreads
<1>1. ASSUME NEW id \in Id, RemoveStart(t, id)
      PROVE  TypeOK'
  <2>1. order' \in Seq(Entry)
    BY <1>1, RemoveAtList DEF RemoveStart, TypeOK
  <2> QED
    BY <1>0, <1>1, <2>1 DEF RemoveStart, TypeOK
<1>2. CASE RemoveEnd(t)
  BY <1>0, <1>2 DEF RemoveEnd, TypeOK
<1> QED
  BY <1>1, <1>2 DEF SyncerStep

LEMMA TypeMain ==
    ASSUME TypeOK, MainStep
    PROVE  TypeOK'
<1>1. CASE CloseAllStart(Main)
  <2>1. {items[id] : id \in Id} \ {NoEntry} \in SUBSET Entry
    BY DEF TypeOK
  <2>2. <<>> \in Seq(Entry)
    OBVIOUS
  <2> QED
    BY <1>1, <2>1, <2>2, RequestsAreThreads DEF CloseAllStart, TypeOK
<1>2. CASE CloseAllNext(Main) \/ CloseAllClose(Main) \/ CloseAllEnd(Main)
  BY <1>2, RequestsAreThreads
  DEF CloseAllNext, CloseAllClose, CloseAllEnd, TypeOK
<1> QED
  BY <1>1, <1>2 DEF MainStep

LEMMA TypeNext == TypeOK /\ CacheInv /\ [Next]_vars => TypeOK'
<1>1. TypeOK /\ UNCHANGED vars => TypeOK'
  BY DEF TypeOK, vars
<1> QED
  BY <1>1, TypeRequest, TypeSyncer, TypeMain DEF Next, CacheInv

-----------------------------------------------------------------------------
(***************************************************************************)
(* The inductive invariant                                                 *)
(***************************************************************************)

LEMMA CacheInit == Init => CacheInv
<1> SUFFICES ASSUME Init PROVE CacheInv
  OBVIOUS
<1>1. ToSet(order) = {} /\ IsInjective(order)
  BY DEF Init, ToSet, IsInjective
<1>2. \A e \in Entry : ~Condemned(e)
  BY CacheAssumption DEF Init, Condemned
<1> QED
  BY <1>1, <1>2, CacheAssumption
  DEF Init, CacheInv, CallsInv, ListedInv, FreshInv, FoundInv, CondemnedInv,
      NoUseAfterClose, Reads

\* A new entry is not in use anywhere.
LEMMA UnopenedIsNew ==
    ASSUME TypeOK, CacheInv, NEW e \in Entry, db[e] = Unopened
    PROVE  /\ e \notin ToSet(order)
           /\ \A t \in Thread : fresh[t] # e
           /\ \A id \in Id : items[id] # e
           /\ ~Condemned(e)
  BY CacheAssumption
  DEF CacheInv, ListedInv, FreshInv, FoundInv, CondemnedInv, Usable, TypeOK,
      Unopened, Open

\* What is found or listed is an entry.
LEMMA ListedIsEntry ==
    ASSUME TypeOK
    PROVE  ToSet(order) \subseteq Entry
  BY DEF TypeOK, ToSet

\* Closing a condemned entry without readers disturbs nothing.
LEMMA CloseKeeps ==
    ASSUME TypeOK, CacheInv, NEW e \in Entry, Condemned(e), NoReaders(e),
           db' = [db EXCEPT ![e] = Closed],
           \A f \in Entry : Condemned(f)' => Condemned(f),
           UNCHANGED <<items, order, idOf, outer, inner, fresh>>
    PROVE  ListedInv' /\ FreshInv' /\ FoundInv' /\ CondemnedInv'
              /\ NoUseAfterClose'
<1>1. ASSUME NEW f \in Entry, Usable(f)
      PROVE  Usable(f)'
  BY <1>1 DEF Usable, TypeOK
<1>2. ListedInv'
  BY <1>1, ListedIsEntry DEF CacheInv, ListedInv
<1>3. FreshInv'
  BY <1>1 DEF CacheInv, FreshInv, TypeOK
<1>4. FoundInv'
  BY DEF CacheInv, FoundInv
<1>5. CondemnedInv'
  BY DEF CacheInv, CondemnedInv, TypeOK, Unopened, Closed
<1>6. NoUseAfterClose'
  BY DEF CacheInv, NoUseAfterClose, NoReaders, Reads, TypeOK
<1> QED
  BY <1>2, <1>3, <1>4, <1>5, <1>6

LEMMA HitKeeps ==
    ASSUME TypeOK, CacheInv, NEW t \in Request, NEW id \in Id, GetHit(t, id)
    PROVE  CacheInv'
<1>0. t \in Thread
  BY RequestsAreThreads
<1>1. items[id] \in Entry /\ db[items[id]] = Open
  BY ListedIsEntry DEF GetHit, CacheInv, FoundInv, ListedInv, Usable
<1>2. ToSet(order') = ToSet(order) /\ IsInjective(order')
  BY MoveToFrontList DEF GetHit, TypeOK, CacheInv, ListedInv
<1>3. \A e : Condemned(e)' <=> Condemned(e)
  BY DEF GetHit, callVars, Condemned
<1>4. ListedInv'
  BY <1>2, <1>3 DEF GetHit, callVars, CacheInv, ListedInv, Usable
<1>5. CallsInv' /\ FreshInv' /\ FoundInv' /\ CondemnedInv'
  BY <1>2, <1>3
  DEF GetHit, callVars, CacheInv, CallsInv, FreshInv, FoundInv, CondemnedInv,
      Usable
<1>6. NoUseAfterClose'
  <2>1. RLock(t, items[id]) /\ db' = db
    BY DEF GetHit
  <2> QED
    BY <1>0, <1>1, <2>1, RLockLemma DEF CacheInv, NoUseAfterClose
<1> QED
  BY <1>4, <1>5, <1>6 DEF CacheInv

LEMMA MissKeeps ==
    ASSUME TypeOK, CacheInv, NEW t \in Request, NEW id \in Id, NEW e \in Entry,
           GetMiss(t, id, e)
    PROVE  CacheInv'
<1>0. t \in Thread
  BY RequestsAreThreads
<1>1. /\ db[e] = Unopened
      /\ db' = [db EXCEPT ![e] = Open]
      /\ idOf' = [idOf EXCEPT ![e] = id]
      /\ order' = Cons(e, order)
      /\ items' = [items EXCEPT ![id] = e]
      /\ UNCHANGED callVars
  BY DEF GetMiss, Opened
<1>2. /\ e \notin ToSet(order)
      /\ \A u \in Thread : fresh[u] # e
      /\ \A i \in Id : items[i] # e
      /\ ~Condemned(e)
  BY <1>1, UnopenedIsNew
<1>3. ToSet(order') = ToSet(order) \cup {e} /\ IsInjective(order')
  <2>1. order \in Seq(Entry) /\ IsInjective(order)
    BY DEF TypeOK, CacheInv, ListedInv
  <2>2. /\ ToSet(Cons(e, order)) = ToSet(order) \cup {e}
        /\ IsInjective(Cons(e, order))
    BY <1>2, <2>1, ConsList
  <2> QED
    BY <1>1, <2>2
<1>4. \A f : Condemned(f)' <=> Condemned(f)
  BY <1>1 DEF callVars, Condemned
<1>5. Usable(e)'
  BY <1>1, <1>2, <1>4 DEF Usable, TypeOK
<1>6. ASSUME NEW f \in Entry, Usable(f)
      PROVE  Usable(f)'
  BY <1>1, <1>4, <1>6 DEF Usable, TypeOK
<1>7. CallsInv'
  BY <1>1 DEF CacheInv, CallsInv, callVars
<1>8. ListedInv'
  BY <1>1, <1>2, <1>3, <1>5, <1>6, ListedIsEntry
  DEF CacheInv, ListedInv, callVars
<1>9. FreshInv'
  <2>1. \A u \in Thread :
           fresh[u] # NoEntry => fresh[u] \in Entry /\ Usable(fresh[u])'
    BY <1>1, <1>6 DEF CacheInv, FreshInv, TypeOK, callVars
  <2> QED
    BY <1>1, <2>1 DEF CacheInv, FreshInv, callVars
<1>10. FoundInv'
  <2>1. ASSUME NEW i \in Id, items'[i] # NoEntry
        PROVE  items'[i] \in ToSet(order') /\ idOf'[items'[i]] = i
    <3>1. CASE i = id
      BY <1>1, <1>3, <3>1 DEF TypeOK
    <3>2. CASE i # id
      <4>1. items'[i] = items[i]
        BY <1>1, <3>2 DEF TypeOK
      <4>2. items[i] \in ToSet(order) /\ idOf[items[i]] = i
        BY <2>1, <4>1 DEF CacheInv, FoundInv
      <4>3. idOf'[items[i]] = idOf[items[i]]
        BY <1>1, <1>2, <4>2, ListedIsEntry DEF TypeOK
      <4> QED
        BY <1>3, <4>1, <4>2, <4>3
    <3> QED
      BY <3>1, <3>2
  <2> QED
    BY <2>1 DEF FoundInv
<1>11. CondemnedInv'
  BY <1>1, <1>2, <1>4 DEF CacheInv, CondemnedInv, TypeOK
<1>12. NoUseAfterClose'
  <2>1. RLock(t, e)
    BY DEF GetMiss
  <2> QED
    BY <1>0, <1>1, <2>1, RLockLemma DEF CacheInv, NoUseAfterClose, TypeOK
<1> QED
  BY <1>7, <1>8, <1>9, <1>10, <1>11, <1>12 DEF CacheInv

LEMMA EvictKeeps ==
    ASSUME TypeOK, CacheInv, NEW t \in Request, NEW id \in Id, NEW e \in Entry,
           GetEvict(t, id, e)
    PROVE  CacheInv'
<1> DEFINE v == Last(order)
<1>0. t \in Thread
  BY RequestsAreThreads
<1>1. /\ db[e] = Unopened
      /\ db' = [db EXCEPT ![e] = Open]
      /\ idOf' = [idOf EXCEPT ![e] = id]
      /\ order' = Front(order)
      /\ items' = [items EXCEPT ![idOf[v]] = NoEntry]
      /\ victim' = [victim EXCEPT ![t] = v]
      /\ fresh' = [fresh EXCEPT ![t] = e]
      /\ pc' = [pc EXCEPT ![t] = "evicting"]
      /\ UNCHANGED <<outer, inner, toClose>>
  BY DEF GetEvict, Opened
<1>2. order # <<>>
  BY CacheAssumption DEF GetEvict, TypeOK
<1>3. /\ e \notin ToSet(order)
      /\ \A u \in Thread : fresh[u] # e
      /\ \A i \in Id : items[i] # e
      /\ ~Condemned(e)
  BY <1>1, UnopenedIsNew
<1>4. /\ v \in ToSet(order) /\ v \in Entry
      /\ ToSet(order') = ToSet(order) \ {v}
      /\ IsInjective(order')
  BY <1>1, <1>2, FrontList DEF TypeOK, CacheInv, ListedInv
<1> HIDE DEF v
<1>5. /\ v # e /\ Usable(v)
      /\ \A u \in Thread : fresh[u] # v
  BY <1>3, <1>4 DEF CacheInv, ListedInv
<1>6. \A f : Condemned(f)' => Condemned(f) \/ f = v
  BY <1>0, <1>1 DEF Condemned, TypeOK
<1>7. Usable(e)'
  BY <1>1, <1>3, <1>5, <1>6 DEF Usable, TypeOK
<1>8. ASSUME NEW f \in Entry, Usable(f), f # v
      PROVE  Usable(f)'
  BY <1>1, <1>6, <1>8 DEF Usable, TypeOK
<1>9. CallsInv'
  BY <1>0, <1>1, <1>4, CacheAssumption DEF CacheInv, CallsInv, TypeOK
<1>10. ListedInv'
  BY <1>0, <1>1, <1>3, <1>4, <1>8, ListedIsEntry DEF CacheInv, ListedInv, TypeOK
<1>11. FreshInv'
  <2>1. ASSUME NEW u \in Thread, fresh'[u] # NoEntry
        PROVE  /\ Usable(fresh[u])'
               /\ \A w \in Thread : fresh'[w] = fresh'[u] => w = u
    <3>1. CASE u = t
      BY <1>0, <1>1, <1>3, <1>7, <2>1, <3>1 DEF TypeOK
    <3>2. CASE u # t
      <4>1. fresh'[u] = fresh[u] /\ fresh[u] \in Entry /\ Usable(fresh[u])
        BY <1>1, <2>1, <3>2 DEF CacheInv, FreshInv, TypeOK
      <4>2. Usable(fresh[u])'
        BY <1>5, <1>8, <4>1
      <4>3. \A w \in Thread : fresh'[w] = fresh'[u] => w = u
        BY <1>0, <1>1, <1>3, <2>1, <4>1 DEF CacheInv, FreshInv, TypeOK
      <4> QED
        BY <4>2, <4>3
    <3> QED
      BY <3>1, <3>2
  <2> QED
    BY <2>1 DEF FreshInv
<1>12. FoundInv'
  <2>1. ASSUME NEW i \in Id, items'[i] # NoEntry
        PROVE  items'[i] \in ToSet(order') /\ idOf'[items'[i]] = i
    <3>1. i # idOf[v] /\ items'[i] = items[i]
      BY <1>1, <2>1 DEF TypeOK
    <3>2. items[i] \in ToSet(order) /\ idOf[items[i]] = i
      BY <2>1, <3>1 DEF CacheInv, FoundInv
    <3> QED
      BY <1>1, <1>3, <1>4, <3>1, <3>2, ListedIsEntry DEF TypeOK
  <2> QED
    BY <2>1 DEF FoundInv
<1>13. CondemnedInv'
  BY <1>1, <1>5, <1>6
  DEF CacheInv, CondemnedInv, Usable, TypeOK, Open, Unopened
<1>14. NoUseAfterClose'
  BY <1>1 DEF CacheInv, NoUseAfterClose, Reads, TypeOK
<1> QED
  BY <1>9, <1>10, <1>11, <1>12, <1>13, <1>14 DEF CacheInv

LEMMA InsertKeeps ==
    ASSUME TypeOK, CacheInv, NEW t \in Request, Insert(t)
    PROVE  CacheInv'
<1> DEFINE e == fresh[t]
<1>0. t \in Thread
  BY RequestsAreThreads
<1>1. /\ order' = Cons(e, order)
      /\ items' = [items EXCEPT ![idOf[e]] = e]
      /\ RLock(t, e)
      /\ fresh' = [fresh EXCEPT ![t] = NoEntry]
      /\ pc' = [pc EXCEPT ![t] = "idle"]
      /\ UNCHANGED <<idOf, db, victim, toClose>>
  BY DEF Insert
<1>2. e \in Entry /\ Usable(e) /\ e \notin ToSet(order)
  BY <1>0 DEF Insert, CacheInv, CallsInv, FreshInv, ListedInv, TypeOK
<1>3. \A u \in Thread : u # t => fresh[u] # e
  BY <1>0, <1>2, CacheAssumption DEF CacheInv, FreshInv
<1>4. ToSet(order') = ToSet(order) \cup {e} /\ IsInjective(order')
  <2>1. order \in Seq(Entry) /\ IsInjective(order)
    BY DEF TypeOK, CacheInv, ListedInv
  <2>2. /\ ToSet(Cons(e, order)) = ToSet(order) \cup {e}
        /\ IsInjective(Cons(e, order))
    <3>1. \A S, x : \A q \in Seq(S) : x \in S =>
             /\ ToSet(Cons(x, q)) = ToSet(q) \cup {x}
             /\ IsInjective(q) /\ x \notin ToSet(q) => IsInjective(Cons(x, q))
      BY ConsList
    <3> HIDE DEF e
    <3> QED
      BY <1>2, <2>1, <3>1, Zenon
  <2> QED
    BY <1>1, <2>2
<1>5. \A f : Condemned(f)' <=> Condemned(f)
  BY <1>1 DEF Condemned
<1>6. \A f : Usable(f)' <=> Usable(f)
  BY <1>1, <1>5 DEF Usable
<1>7. CallsInv'
  BY <1>0, <1>1 DEF CacheInv, CallsInv, TypeOK
<1>8. ListedInv'
  BY <1>0, <1>1, <1>2, <1>3, <1>4, <1>6, ListedIsEntry, CacheAssumption
  DEF CacheInv, ListedInv, TypeOK
<1>9. FreshInv'
  BY <1>0, <1>1, <1>6 DEF CacheInv, FreshInv, TypeOK
<1>10. FoundInv'
  <2>1. ASSUME NEW i \in Id, items'[i] # NoEntry
        PROVE  items'[i] \in ToSet(order') /\ idOf'[items'[i]] = i
    <3>1. CASE i = idOf[e]
      BY <1>1, <1>4, <3>1 DEF TypeOK
    <3>2. CASE i # idOf[e]
      <4>1. items'[i] = items[i]
        BY <1>1, <3>2 DEF TypeOK
      <4> QED
        BY <1>1, <1>4, <2>1, <4>1 DEF CacheInv, FoundInv
    <3> QED
      BY <3>1, <3>2
  <2> QED
    BY <2>1 DEF FoundInv
<1>11. CondemnedInv'
  BY <1>1, <1>5 DEF CacheInv, CondemnedInv
<1>12. NoUseAfterClose'
  BY <1>0, <1>1, <1>2, RLockLemma DEF CacheInv, NoUseAfterClose, Usable
<1> QED
  BY <1>7, <1>8, <1>9, <1>10, <1>11, <1>12 DEF CacheInv

\* A step that only gives read locks back.
LEMMA ReleaseKeeps ==
    ASSUME TypeOK, CacheInv, NEW t \in Request, Release(t)
    PROVE  CacheInv'
<1>1. \A u \in Thread, f \in Entry : Reads(u, f)' => Reads(u, f)
  BY CacheAssumption DEF Release, Reads, TypeOK
<1>2. \A f : Usable(f)' <=> Usable(f)
  BY DEF Release, callVars, Usable, Condemned
<1> QED
  BY <1>1, <1>2
  DEF Release, callVars, CacheInv, CallsInv, ListedInv, FreshInv, FoundInv,
      CondemnedInv, Condemned, NoUseAfterClose

LEMMA CloseVictimKeeps ==
    ASSUME TypeOK, CacheInv, NEW t \in Request, CloseVictim(t)
    PROVE  CacheInv'
<1>0. t \in Thread
  BY RequestsAreThreads
<1>1. victim[t] \in Entry /\ Condemned(victim[t])
  BY <1>0 DEF CloseVictim, CacheInv, CallsInv, Condemned, TypeOK
<1>2. \A f \in Entry : Condemned(f)' => Condemned(f)
  BY <1>0, CacheAssumption DEF CloseVictim, Condemned, TypeOK
<1>3. CallsInv'
  BY <1>0 DEF CloseVictim, CacheInv, CallsInv, TypeOK
<1> QED
  BY <1>1, <1>2, <1>3, CloseKeeps DEF CloseVictim, CacheInv

LEMMA RemoveStartKeeps ==
    ASSUME TypeOK, CacheInv, NEW t \in Syncer, NEW id \in Id,
           RemoveStart(t, id)
    PROVE  CacheInv'
<1> DEFINE v == items[id]
<1>0. t \in Thread
  BY RequestsAreThreads
<1>1. /\ pc[t] = "idle"
      /\ items' = [items EXCEPT ![id] = NoEntry]
      /\ victim' = [victim EXCEPT ![t] = v]
      /\ pc' = [pc EXCEPT ![t] = "removing"]
      /\ UNCHANGED <<idOf, db, outer, inner, fresh, toClose>>
  BY DEF RemoveStart
<1>2. ToSet(order') = ToSet(order) \ {v} /\ IsInjective(order')
  <2>1. CASE v = NoEntry
    <3>1. order' = order /\ v \notin ToSet(order)
      BY <2>1, ListedIsEntry, CacheAssumption DEF RemoveStart
    <3> QED
      BY <3>1 DEF CacheInv, ListedInv
  <2>2. CASE v # NoEntry
    <3>1. PICK i \in 1..Len(order) :
             order[i] = v /\ order' = RemoveAt(order, i)
      BY <2>2 DEF RemoveStart
    <3> QED
      BY <3>1, RemoveAtList DEF TypeOK, CacheInv, ListedInv
  <2> QED
    BY <2>1, <2>2
<1>3. v # NoEntry => v \in ToSet(order) /\ v \in Entry /\ idOf[v] = id
  BY ListedIsEntry DEF CacheInv, FoundInv
<1> HIDE DEF v
<1>4. \A f : Condemned(f)' => Condemned(f) \/ f = v
  BY <1>0, <1>1 DEF Condemned, TypeOK
<1>5. ASSUME NEW f \in Entry, Usable(f), f # v
      PROVE  Usable(f)'
  BY <1>1, <1>4, <1>5 DEF Usable
<1>6. CallsInv'
  BY <1>0, <1>1 DEF CacheInv, CallsInv, TypeOK
<1>7. ListedInv'
  BY <1>1, <1>2, <1>5, ListedIsEntry DEF CacheInv, ListedInv
<1>8. FreshInv'
  <2>1. ASSUME NEW u \in Thread, fresh[u] # NoEntry
        PROVE  fresh[u] \in Entry /\ Usable(fresh[u]) /\ fresh[u] # v
    BY <1>3, <2>1 DEF CacheInv, FreshInv, ListedInv, TypeOK
  <2> QED
    BY <1>1, <1>5, <2>1 DEF CacheInv, FreshInv
<1>9. FoundInv'
  <2>1. ASSUME NEW i \in Id, items'[i] # NoEntry
        PROVE  items'[i] \in ToSet(order') /\ idOf'[items'[i]] = i
    <3>1. i # id /\ items'[i] = items[i]
      BY <1>1, <2>1 DEF TypeOK
    <3>2. items[i] \in ToSet(order) /\ idOf[items[i]] = i
      BY <2>1, <3>1 DEF CacheInv, FoundInv
    <3>3. items[i] # v
      BY <1>3, <2>1, <3>1, <3>2
    <3> QED
      BY <1>1, <1>2, <3>1, <3>2, <3>3
  <2> QED
    BY <2>1 DEF FoundInv
<1>10. CondemnedInv'
  BY <1>1, <1>3, <1>4, CacheAssumption
  DEF CacheInv, CondemnedInv, ListedInv, Usable, Open, Unopened
<1>11. NoUseAfterClose'
  BY <1>1 DEF CacheInv, NoUseAfterClose, Reads
<1> QED
  BY <1>6, <1>7, <1>8, <1>9, <1>10, <1>11 DEF CacheInv

LEMMA RemoveEndKeeps ==
    ASSUME TypeOK, CacheInv, NEW t \in Syncer, RemoveEnd(t)
    PROVE  CacheInv'
<1>0. t \in Thread
  BY RequestsAreThreads
<1>1. \A f \in Entry : Condemned(f)' => Condemned(f)
  BY <1>0, CacheAssumption DEF RemoveEnd, Condemned, TypeOK
<1>2. CallsInv'
  BY <1>0 DEF RemoveEnd, CacheInv, CallsInv, TypeOK
<1>3. CASE victim[t] = NoEntry
  <2>1. UNCHANGED <<items, order, idOf, db, outer, inner, fresh>>
    BY <1>3 DEF RemoveEnd
  <2>2. \A f \in Entry : Usable(f) => Usable(f)'
    BY <1>1, <2>1 DEF Usable
  <2>3. ListedInv'
    BY <2>1, <2>2, ListedIsEntry DEF CacheInv, ListedInv
  <2>4. FreshInv'
    <3>1. \A u \in Thread :
             fresh[u] # NoEntry => fresh[u] \in Entry /\ Usable(fresh[u])'
      BY <2>1, <2>2 DEF CacheInv, FreshInv, TypeOK
    <3> QED
      BY <2>1, <3>1 DEF CacheInv, FreshInv
  <2> QED
    BY <1>1, <1>2, <2>1, <2>3, <2>4
    DEF CacheInv, FoundInv, CondemnedInv, NoUseAfterClose, Reads
<1>4. CASE victim[t] # NoEntry
  <2>1. victim[t] \in Entry /\ Condemned(victim[t])
    BY <1>0, <1>4 DEF Condemned, TypeOK
  <2> QED
    BY <1>1, <1>2, <1>4, <2>1, CloseKeeps DEF RemoveEnd, CacheInv
<1> QED
  BY <1>3, <1>4

\* Everything found is condemned at once; nothing stays listed.
LEMMA CloseAllStartKeeps ==
    ASSUME TypeOK, CacheInv, CloseAllStart(Main)
    PROVE  CacheInv'
<1>1. /\ pc[Main] = "idle"
      /\ toClose' = [toClose EXCEPT ![Main] = {items[id] : id \in Id} \ {NoEntry}]
      /\ items' = [id \in Id |-> NoEntry]
      /\ order' = <<>>
      /\ pc' = [pc EXCEPT ![Main] = "closing"]
      /\ UNCHANGED <<idOf, db, outer, inner, fresh, victim>>
  BY DEF CloseAllStart
<1>2. \A f \in Entry : Condemned(f)' => Condemned(f) \/ f \in ToSet(order)
  BY <1>1, RequestsAreThreads DEF Condemned, TypeOK, CacheInv, FoundInv
<1>3. CallsInv'
  BY <1>1, RequestsAreThreads DEF CacheInv, CallsInv, TypeOK
<1>4. ListedInv'
  BY <1>1 DEF ListedInv, ToSet, IsInjective
<1>5. FreshInv'
  <2>1. ASSUME NEW u \in Thread, fresh[u] # NoEntry
        PROVE  /\ fresh[u] \in Entry /\ Usable(fresh[u])
               /\ fresh[u] \notin ToSet(order)
    BY <2>1 DEF CacheInv, FreshInv, ListedInv, TypeOK
  <2>2. \A u \in Thread : fresh[u] # NoEntry => Usable(fresh[u])'
    BY <1>1, <1>2, <2>1 DEF Usable
  <2> QED
    BY <1>1, <2>2 DEF CacheInv, FreshInv
<1>6. FoundInv'
  BY <1>1 DEF FoundInv
<1>7. CondemnedInv'
  BY <1>1, <1>2 DEF CacheInv, CondemnedInv, ListedInv, Usable, Open, Unopened
<1>8. NoUseAfterClose'
  BY <1>1 DEF CacheInv, NoUseAfterClose, Reads
<1> QED
  BY <1>3, <1>4, <1>5, <1>6, <1>7, <1>8 DEF CacheInv

\* Choosing the next entry and returning condemn nothing new.
LEMMA CloseAllWalkKeeps ==
    ASSUME TypeOK, CacheInv, CloseAllNext(Main) \/ CloseAllEnd(Main)
    PROVE  CacheInv'
<1>1. /\ UNCHANGED <<items, order, idOf, db, outer, inner, fresh, toClose>>
      /\ pc[Main] = "closing"
      /\ pc' = pc \/ pc' = [pc EXCEPT ![Main] = "closed"]
  BY DEF CloseAllNext, CloseAllEnd
<1>2. \A f \in Entry : Condemned(f)' => Condemned(f)
  BY RequestsAreThreads DEF CloseAllNext, CloseAllEnd, Condemned, TypeOK
<1>3. CallsInv'
  <2>1. \A t \in Thread : victim'[t] = victim[t] \/ t = Main
    BY DEF CloseAllNext, CloseAllEnd, TypeOK
  <2> QED
    BY <1>1, <2>1, RequestsAreThreads DEF CacheInv, CallsInv, TypeOK
<1>4. \A f \in Entry : Usable(f) => Usable(f)'
  BY <1>1, <1>2 DEF Usable
<1>5. ListedInv'
  BY <1>1, <1>4, ListedIsEntry DEF CacheInv, ListedInv
<1>6. FreshInv'
  <2>1. \A u \in Thread :
           fresh[u] # NoEntry => fresh[u] \in Entry /\ Usable(fresh[u])'
    BY <1>1, <1>4 DEF CacheInv, FreshInv, TypeOK
  <2> QED
    BY <1>1, <2>1 DEF CacheInv, FreshInv
<1> QED
  BY <1>1, <1>2, <1>3, <1>5, <1>6
  DEF CacheInv, FoundInv, CondemnedInv, NoUseAfterClose, Reads

LEMMA CloseAllCloseKeeps ==
    ASSUME TypeOK, CacheInv, CloseAllClose(Main)
    PROVE  CacheInv'
<1>1. victim[Main] \in Entry /\ Condemned(victim[Main])
  BY RequestsAreThreads DEF CloseAllClose, Condemned, TypeOK
<1>2. \A f \in Entry : Condemned(f)' => Condemned(f)
  BY RequestsAreThreads, CacheAssumption DEF CloseAllClose, Condemned, TypeOK
<1>3. CallsInv'
  BY RequestsAreThreads DEF CloseAllClose, CacheInv, CallsInv, TypeOK
<1> QED
  BY <1>1, <1>2, <1>3, CloseKeeps DEF CloseAllClose, CacheInv

LEMMA CacheNext == TypeOK /\ CacheInv /\ [Next]_vars => CacheInv'
<1> SUFFICES ASSUME TypeOK, CacheInv, [Next]_vars
             PROVE  CacheInv'
  OBVIOUS
<1>1. CASE UNCHANGED vars
  <2>1. \A f : Condemned(f)' <=> Condemned(f)
    BY <1>1 DEF vars, Condemned
  <2>2. \A f : Usable(f)' <=> Usable(f)
    BY <1>1, <2>1 DEF vars, Usable
  <2> QED
    BY <1>1, <2>1, <2>2
    DEF vars, CacheInv, CallsInv, ListedInv, FreshInv, FoundInv, CondemnedInv,
        NoUseAfterClose, Reads
<1>2. ASSUME NEW t \in Request, RequestStep(t)
      PROVE  CacheInv'
  BY <1>2, HitKeeps, MissKeeps, EvictKeeps, CloseVictimKeeps, InsertKeeps,
     ReleaseKeeps
  DEF RequestStep
<1>3. ASSUME NEW t \in Syncer, SyncerStep(t)
      PROVE  CacheInv'
  BY <1>3, RemoveStartKeeps, RemoveEndKeeps DEF SyncerStep
<1>4. CASE MainStep
  BY <1>4, CloseAllStartKeeps, CloseAllWalkKeeps, CloseAllCloseKeeps
  DEF MainStep
<1> QED
  BY <1>1, <1>2, <1>3, <1>4 DEF Next

LEMMA CacheCorrect == Spec => [](TypeOK /\ CacheInv)
<1>1. Init => TypeOK /\ CacheInv
  BY TypeInit, CacheInit
<1>2. TypeOK /\ CacheInv /\ [Next]_vars => (TypeOK /\ CacheInv)'
  BY TypeNext, CacheNext
<1> QED
  BY <1>1, <1>2, PTL DEF Spec

\* The maps, the list and the entries of the cache (lru.go:15) keep their
\* shape: what is listed are entries, and every call that runs has its entry.
THEOREM CacheTypes == Spec => []TypeOK
  BY CacheCorrect, PTL

\* For any number of threads, buckets and entries and any capacity: nobody
\* uses a database that eviction, Remove or CloseAll has closed.
THEOREM SafeEviction == Spec => []NoUseAfterClose
  BY CacheCorrect, PTL DEF CacheInv

\* An entry that can be found has no writer, so Get never waits for a read
\* lock while it holds the mutex of the cache.
THEOREM MutexNeverWaits == Spec => []CachedIsUncontended
<1>1. CacheInv => CachedIsUncontended
  BY DEF CacheInv, FoundInv, ListedInv, Usable, Condemned, CachedIsUncontended
<1> QED
  BY <1>1, CacheCorrect, PTL

-----------------------------------------------------------------------------
(***************************************************************************)
(* The overshoot                                                           *)
(***************************************************************************)

Evictors == {t \in Request : fresh[t] # NoEntry}

LEMMA EvictorsFinite ==
    /\ IsFiniteSet(Evictors)
    /\ Cardinality(Evictors) \in Nat
    /\ Cardinality(Request) \in Nat
    /\ \A t \in Request \ Evictors :
          Cardinality(Evictors) <= Cardinality(Request) - 1
<1>1. Evictors \subseteq Request /\ IsFiniteSet(Request)
  BY CacheAssumption DEF Evictors
<1>2. IsFiniteSet(Evictors)
  BY <1>1, FS_Subset
<1>3. ASSUME NEW t \in Request \ Evictors
      PROVE  Cardinality(Evictors) <= Cardinality(Request) - 1
  <2>1. /\ IsFiniteSet(Request \ {t})
        /\ Cardinality(Request \ {t}) = Cardinality(Request) - 1
    BY <1>1, <1>3, FS_RemoveElement
  <2>2. Evictors \subseteq Request \ {t}
    BY <1>1, <1>3
  <2> QED
    BY <2>1, <2>2, FS_Subset
<1> QED
  BY <1>1, <1>2, <1>3, FS_CardinalityType

LEMMA OvershootNext ==
    TypeOK /\ CacheInv /\ OvershootBounded /\ [Next]_vars => OvershootBounded'
<1> SUFFICES ASSUME TypeOK, CacheInv, OvershootBounded, [Next]_vars
             PROVE  OvershootBounded'
  OBVIOUS
<1>0. /\ Len(order) \in Nat /\ Cap \in Nat
      /\ Cardinality(Evictors) \in Nat /\ Cardinality(Request) \in Nat
      /\ Len(order) + Cardinality(Evictors) <= Cap + Cardinality(Request) - 1
  BY EvictorsFinite, CacheAssumption DEF OvershootBounded, Evictors, TypeOK
<1>1. SUFFICES /\ Len(order') \in Nat
               /\ Cardinality(Evictors') \in Nat
               /\ Len(order') + Cardinality(Evictors')
                     <= Cap + Cardinality(Request) - 1
  BY DEF OvershootBounded, Evictors
<1>2. ASSUME fresh' = fresh, Len(order') \in Nat, Len(order') <= Len(order)
      PROVE  /\ Len(order') \in Nat
             /\ Cardinality(Evictors') \in Nat
             /\ Len(order') + Cardinality(Evictors')
                   <= Cap + Cardinality(Request) - 1
  <2>1. Evictors' = Evictors
    BY <1>2 DEF Evictors
  <2> QED
    BY <1>0, <1>2, <2>1
<1>3. CASE UNCHANGED vars
  BY <1>0, <1>2, <1>3 DEF vars
<1>4. ASSUME NEW t \in Request, NEW id \in Id, GetHit(t, id)
      PROVE  Len(order') = Len(order) /\ fresh' = fresh
  BY <1>4, MoveToFrontList DEF GetHit, callVars, TypeOK
<1>5. ASSUME NEW t \in Request, NEW id \in Id, NEW e \in Entry,
             GetMiss(t, id, e)
      PROVE  /\ Len(order') \in Nat
             /\ Cardinality(Evictors') \in Nat
             /\ Len(order') + Cardinality(Evictors')
                   <= Cap + Cardinality(Request) - 1
  <2>1. Len(order') = Len(order) + 1 /\ Len(order) < Cap
    BY <1>5, ConsList DEF GetMiss, TypeOK
  <2>2. t \notin Evictors
    BY <1>5, RequestsAreThreads
    DEF GetMiss, MayGet, CacheInv, CallsInv, Evictors
  <2>3. Cardinality(Evictors) <= Cardinality(Request) - 1
    BY <2>2, EvictorsFinite
  <2>4. Evictors' = Evictors
    BY <1>5 DEF GetMiss, callVars, Evictors
  <2> QED
    BY <1>0, <2>1, <2>3, <2>4
<1>6. ASSUME NEW t \in Request, NEW id \in Id, NEW e \in Entry,
             GetEvict(t, id, e)
      PROVE  /\ Len(order') \in Nat
             /\ Cardinality(Evictors') \in Nat
             /\ Len(order') + Cardinality(Evictors')
                   <= Cap + Cardinality(Request) - 1
  <2>1. order # <<>>
    BY <1>6, CacheAssumption DEF GetEvict, TypeOK
  <2>2. Len(order') = Len(order) - 1 /\ Len(order') \in Nat
    BY <1>6, <2>1, FrontList DEF GetEvict, TypeOK
  <2>3. t \notin Evictors
    BY <1>6, RequestsAreThreads
    DEF GetEvict, MayGet, CacheInv, CallsInv, Evictors
  <2>4. Evictors' = Evictors \cup {t}
    BY <1>6, RequestsAreThreads, CacheAssumption DEF GetEvict, Evictors, TypeOK
  <2>5. Cardinality(Evictors') = Cardinality(Evictors) + 1
    BY <2>3, <2>4, EvictorsFinite, FS_AddElement
  <2> QED
    BY <1>0, <2>2, <2>5
<1>7. ASSUME NEW t \in Request, Insert(t)
      PROVE  /\ Len(order') \in Nat
             /\ Cardinality(Evictors') \in Nat
             /\ Len(order') + Cardinality(Evictors')
                   <= Cap + Cardinality(Request) - 1
  <2>1. t \in Evictors /\ fresh[t] \in Entry
    BY <1>7, RequestsAreThreads
    DEF Insert, CacheInv, CallsInv, Evictors, TypeOK
  <2>2. Len(order') = Len(order) + 1
    BY <1>7, <2>1, ConsList DEF Insert, TypeOK
  <2>3. Evictors' = Evictors \ {t}
    BY <1>7, RequestsAreThreads DEF Insert, Evictors, TypeOK
  <2>4. Cardinality(Evictors') = Cardinality(Evictors) - 1
    BY <2>1, <2>3, EvictorsFinite, FS_RemoveElement
  <2>5. Cardinality(Evictors') \in Nat
    BY <2>3, EvictorsFinite, FS_RemoveElement, FS_CardinalityType
  <2> QED
    BY <1>0, <2>2, <2>4, <2>5
<1>8. ASSUME NEW t \in Request, CloseVictim(t) \/ Release(t)
      PROVE  order' = order /\ fresh' = fresh
  BY <1>8 DEF CloseVictim, Release, callVars
<1>9. ASSUME NEW t \in Syncer, SyncerStep(t)
      PROVE  Len(order') \in Nat /\ Len(order') <= Len(order) /\ fresh' = fresh
  <2>1. CASE RemoveEnd(t)
    BY <1>0, <2>1 DEF RemoveEnd
  <2>2. ASSUME NEW id \in Id, RemoveStart(t, id)
        PROVE  /\ Len(order') \in Nat /\ Len(order') <= Len(order)
               /\ fresh' = fresh
    <3>1. \/ order' = order
          \/ \E i \in 1..Len(order) : order' = RemoveAt(order, i)
      BY <2>2 DEF RemoveStart
    <3>2. ASSUME NEW i \in 1..Len(order), order' = RemoveAt(order, i)
          PROVE  Len(order') \in Nat /\ Len(order') <= Len(order)
      BY <1>0, <3>2, RemoveAtList DEF TypeOK
    <3> QED
      BY <1>0, <2>2, <3>1, <3>2 DEF RemoveStart
  <2> QED
    BY <1>9, <2>1, <2>2 DEF SyncerStep
<1>10. ASSUME MainStep
       PROVE  Len(order') \in Nat /\ Len(order') <= Len(order) /\ fresh' = fresh
  BY <1>0, <1>10
  DEF MainStep, CloseAllStart, CloseAllNext, CloseAllClose, CloseAllEnd
<1> QED
  BY <1>0, <1>2, <1>3, <1>4, <1>5, <1>6, <1>7, <1>8, <1>9, <1>10
  DEF Next, RequestStep

\* The list never exceeds the capacity by more than one entry for each request
\* but one.
THEOREM OvershootIsBounded == Spec => []OvershootBounded
<1>1. Init => OvershootBounded
  <2> SUFFICES ASSUME Init PROVE OvershootBounded
    OBVIOUS
  <2>1. Evictors = {} /\ Len(order) = 0
    BY RequestsAreThreads DEF Init, Evictors
  <2>2. Cardinality(Request) \in Nat \ {0}
    BY CacheAssumption, FS_CardinalityType, FS_EmptySet
  <2>3. Len(order) + Cardinality(Evictors) <= Cap + Cardinality(Request) - 1
    <3>1. Cardinality(Evictors) = 0
      BY <2>1, FS_EmptySet
    <3>2. Cap \in Nat \ {0}
      BY CacheAssumption
    <3> QED
      BY <2>1, <2>2, <3>1, <3>2
  <2> QED
    BY <2>3 DEF OvershootBounded, Evictors
<1> QED
  BY <1>1, CacheCorrect, OvershootNext, PTL DEF Spec

=============================================================================
