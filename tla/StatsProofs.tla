----------------------------- MODULE StatsProofs -----------------------------
(***************************************************************************)
(* Proofs about Stats: types, that no change is counted twice, and how far *)
(* the quota is passed.                                                    *)
(***************************************************************************)
EXTENDS Stats, FiniteSetTheorems, WellFoundedInduction, TLAPS

Distinct(rows) == \A r, s \in rows : r.by = s.by => r = s

\* A local table: the rows of the daemon itself are numbered from 1, and the
\* others name the file they come from, which is not the daemon's own.
GoodTable(rows, own) ==
    /\ IsFiniteSet(rows)
    /\ Distinct(rows)
    /\ \A r \in rows :
          \/ /\ r.file = Own
             /\ r.by = <<own, r.row>>
             /\ r.row <= Cardinality(rows)
          \/ /\ r.file \in Id \ {own}
             /\ r.by = <<r.file, r.row>>

\* A file that was flushed under name i.
GoodFile(rows, i) ==
    /\ IsFiniteSet(rows)
    /\ Distinct(rows)
    /\ \A r \in rows : r.file = Own /\ r.by = <<i, r.row>>

TableInv == \A d \in Daemon : GoodTable(table[d], id[d])

RemoteInv == \A i \in Id : remote[i] # NoFile => GoodFile(remote[i], i)

FlushInv == \A d \in Daemon : flush[d] # NoFile => GoodFile(flush[d], id[d])

PassInv ==
    \A d \in Daemon : \A i \in pass[d] : i # id[d] /\ remote[i] # NoFile

UsageInv == TypeOK /\ TableInv /\ RemoteInv /\ FlushInv /\ PassInv

-----------------------------------------------------------------------------
(***************************************************************************)
(* What the operations do to one table                                     *)
(***************************************************************************)

LEMMA OneMore ==
  ASSUME NEW rows, IsFiniteSet(rows), NEW r
  PROVE  /\ IsFiniteSet(rows \cup {r})
         /\ Cardinality(rows) \in Nat
         /\ Cardinality(rows \cup {r}) \in Nat
         /\ Cardinality(rows) <= Cardinality(rows \cup {r})
         /\ r \notin rows => Cardinality(rows \cup {r}) = Cardinality(rows) + 1
  BY FS_AddElement, FS_CardinalityType

LEMMA AddedRow ==
  ASSUME NEW rows \in SUBSET Row, NEW own \in Id, GoodTable(rows, own),
         NEW bytes \in Int, NEW checked \in BOOLEAN,
         NEW r, r = [file |-> Own, row |-> Cardinality(rows) + 1,
                     bytes |-> bytes, checked |-> checked,
                     by |-> <<own, Cardinality(rows) + 1>>]
  PROVE  rows \cup {r} \in SUBSET Row /\ GoodTable(rows \cup {r}, own)
  <1> DEFINE n == Cardinality(rows)
             more == rows \cup {r}
  <1>1. /\ IsFiniteSet(more)
        /\ n \in Nat /\ Cardinality(more) \in Nat
        /\ n <= Cardinality(more)
        /\ r \notin rows => Cardinality(more) = n + 1
    BY OneMore DEF GoodTable
  <1>2. r \in Row
    BY <1>1 DEF Row
  <1>3. \A s \in rows : s.by # r.by
    <2> SUFFICES ASSUME NEW s \in rows, s.by = r.by PROVE FALSE
      OBVIOUS
    <2>1. s.row \in Nat /\ r.by = <<own, n + 1>>
      BY DEF Row
    <2>2. CASE s.file = Own
      <3>1. s.by = <<own, s.row>> /\ s.row <= n
        BY <2>2, StatsAssumption DEF GoodTable
      <3>2. QED
        BY <3>1, <2>1, <1>1
    <2>3. CASE s.file # Own
      <3>1. s.by = <<s.file, s.row>> /\ s.file # own
        BY <2>3 DEF GoodTable
      <3>2. QED
        BY <3>1, <2>1
    <2>4. QED
      BY <2>2, <2>3
  <1>4. Cardinality(more) = n + 1
    BY <1>1, <1>3
  <1>5. Distinct(more)
    BY <1>3 DEF GoodTable, Distinct
  <1>6. ASSUME NEW s \in more
        PROVE  \/ /\ s.file = Own
                  /\ s.by = <<own, s.row>>
                  /\ s.row <= Cardinality(more)
               \/ /\ s.file \in Id \ {own}
                  /\ s.by = <<s.file, s.row>>
    <2>1. CASE s = r
      BY <2>1, <1>1, <1>4
    <2>2. CASE s \in rows
      <3>1. s.row \in Nat
        BY <2>2 DEF Row
      <3>2. QED
        BY <2>2, <3>1, <1>1 DEF GoodTable
    <2>3. QED
      BY <2>1, <2>2
  <1>7. QED
    BY <1>1, <1>2, <1>5, <1>6 DEF GoodTable

\* The copy a flush uploads.
LEMMA CopiedRows ==
  ASSUME NEW rows, NEW own \in Id, GoodTable(rows, own)
  PROVE  GoodFile({r \in rows : r.file = Own}, own)
  <1>1. IsFiniteSet({r \in rows : r.file = Own})
    BY FS_Subset DEF GoodTable
  <1>2. QED
    BY <1>1, StatsAssumption DEF GoodTable, GoodFile, Distinct

LEMMA MergedRows ==
  ASSUME NEW rows \in SUBSET Row, NEW own \in Id, GoodTable(rows, own),
         NEW i \in Id \ {own}, NEW file \in SUBSET Row, GoodFile(file, i),
         NEW new, new = {r \in Merged(i, file) :
                           \A s \in rows : s.file = i => s.row # r.row}
  PROVE  rows \cup new \in SUBSET Row /\ GoodTable(rows \cup new, own)
  <1>1. ASSUME NEW r \in new
        PROVE  /\ r \in Row
               /\ r.file = i /\ r.by = <<i, r.row>>
               /\ \A s \in rows : s.file = i => s.row # r.row
               /\ \E q \in file : r = [q EXCEPT !.file = i] /\ q.by = r.by
    <2>1. PICK q \in file : r = [q EXCEPT !.file = i]
      BY DEF Merged
    <2>2. q \in Row /\ q.by = <<i, q.row>>
      BY DEF GoodFile
    <2>3. r \in Row /\ r.file = i /\ r.row = q.row /\ r.by = q.by
      BY <2>1, <2>2 DEF Row
    <2>4. QED
      BY <2>1, <2>2, <2>3
  <1>2. IsFiniteSet(new)
    <2> DEFINE mark == [r \in file |-> [r EXCEPT !.file = i]]
    <2>1. mark \in Surjection(file, Merged(i, file))
      BY DEF Merged, Surjection
    <2>2. IsFiniteSet(Merged(i, file))
      BY <2>1, FS_Surjection DEF GoodFile, ExistsSurjection
    <2>3. QED
      BY <2>2, FS_Subset
  <1>3. IsFiniteSet(rows \cup new)
    BY <1>2, FS_Union DEF GoodTable
  <1>4. Cardinality(rows) <= Cardinality(rows \cup new)
    BY <1>3, FS_Subset
  <1>5. /\ Cardinality(rows) \in Nat
        /\ Cardinality(rows \cup new) \in Nat
    BY <1>3, FS_CardinalityType DEF GoodTable
  <1>6. \A r, s \in new : r.by = s.by => r = s
    BY <1>1 DEF GoodFile, Distinct
  <1>7. ASSUME NEW s \in rows, NEW r \in new, s.by = r.by
        PROVE  FALSE
    <2>1. r.by = <<i, r.row>> /\ (s.file = i => s.row # r.row)
      BY <1>1
    <2>2. CASE s.file = Own
      BY <2>1, <2>2, <1>7, StatsAssumption DEF GoodTable
    <2>3. CASE s.file # Own
      BY <2>1, <2>3, <1>7 DEF GoodTable
    <2>4. QED
      BY <2>2, <2>3
  <1>8. Distinct(rows \cup new)
    BY <1>6, <1>7 DEF GoodTable, Distinct
  <1>9. ASSUME NEW s \in rows \cup new
        PROVE  \/ /\ s.file = Own
                  /\ s.by = <<own, s.row>>
                  /\ s.row <= Cardinality(rows \cup new)
               \/ /\ s.file \in Id \ {own}
                  /\ s.by = <<s.file, s.row>>
    <2>1. CASE s \in new
      BY <2>1, <1>1
    <2>2. CASE s \in rows
      <3>1. s.row \in Nat
        BY <2>2 DEF Row
      <3>2. QED
        BY <2>2, <3>1, <1>4, <1>5 DEF GoodTable
    <2>3. QED
      BY <2>1, <2>2
  <1>10. QED
    BY <1>1, <1>3, <1>8, <1>9 DEF GoodTable

\* The table of a fresh daemon.
LEMMA EmptyTable == \A own : GoodTable({}, own)
  BY FS_EmptySet DEF GoodTable, Distinct

-----------------------------------------------------------------------------
(***************************************************************************)
(* The steps                                                               *)
(***************************************************************************)

LEMMA InitInv == Init => UsageInv
  <1> SUFFICES ASSUME Init PROVE UsageInv
    OBVIOUS
  <1>1. structure \in BOOLEAN
    BY Zenon DEF Init
  <1>2. TypeOK
    BY <1>1, StatsAssumption DEF Init, TypeOK, Idle
  <1>3. TableInv /\ RemoteInv /\ FlushInv /\ PassInv
    BY EmptyTable DEF Init, TableInv, RemoteInv, FlushInv, PassInv
  <1>4. QED
    BY <1>2, <1>3 DEF UsageInv

\* What the other steps keep when only a table grows.
LEMMA TableGrows ==
  ASSUME UsageInv, NEW d \in Daemon, NEW rows \in SUBSET Row,
         GoodTable(rows, id[d]), table' = [table EXCEPT ![d] = rows],
         UNCHANGED <<id, remote, flush>>
  PROVE  /\ table' \in [Daemon -> SUBSET Row]
         /\ TableInv' /\ RemoteInv' /\ FlushInv'
  <1>1. \A e \in Daemon : table'[e] = IF e = d THEN rows ELSE table[e]
    BY DEF UsageInv, TypeOK
  <1>2. TableInv'
    <2> SUFFICES ASSUME NEW e \in Daemon PROVE GoodTable(table'[e], id[e])
      BY DEF TableInv
    <2>1. QED
      BY <1>1 DEF UsageInv, TableInv
  <1>3. RemoteInv' /\ FlushInv'
    BY DEF UsageInv, RemoteInv, FlushInv
  <1>4. QED
    BY <1>2, <1>3 DEF UsageInv, TypeOK

LEMMA AddDeltaInv ==
  ASSUME UsageInv, NEW d \in Daemon, NEW bytes \in Int,
         NEW checked \in BOOLEAN, AddDelta(d, bytes, checked),
         UNCHANGED <<id, remote, flush>>
  PROVE  /\ table' \in [Daemon -> SUBSET Row]
         /\ TableInv' /\ RemoteInv' /\ FlushInv'
  <1> DEFINE n == Cardinality(table[d]) + 1
             row == [file |-> Own, row |-> n, bytes |-> bytes,
                     checked |-> checked, by |-> <<id[d], n>>]
  <1>1. table' = [table EXCEPT ![d] = table[d] \cup {row}]
    BY DEF AddDelta
  <1>2. id[d] \in Id /\ table[d] \in SUBSET Row /\ GoodTable(table[d], id[d])
    BY DEF UsageInv, TypeOK, TableInv
  <1>3. table[d] \cup {row} \in SUBSET Row /\ GoodTable(table[d] \cup {row}, id[d])
    BY <1>2, AddedRow
  <1>4. QED
    BY <1>1, <1>3, TableGrows

\* When no table, file or copy is changed.
LEMMA RowsUnchanged ==
  ASSUME UsageInv, UNCHANGED <<id, table, remote, flush>>
  PROVE  TableInv' /\ RemoteInv' /\ FlushInv'
  BY DEF UsageInv, TableInv, RemoteInv, FlushInv

LEMMA RequestInv ==
  ASSUME UsageInv, NEW d \in Daemon, RequestStep(d)
  PROVE  UsageInv'
  <1> USE StatsAssumption
  <1>1. PassInv'
    BY DEF RequestStep, PutStart, PutEnd, PutFails, Delete, UsageInv, PassInv
  <1>2. ASSUME NEW c \in Client[d], NEW size \in Sizes, NEW checked \in BOOLEAN,
               PutStart(d, c, size, checked)
        PROVE  UsageInv'
    <2>1. TypeOK'
      BY <1>2 DEF PutStart, Operation, UsageInv, TypeOK, Put
    <2>2. TableInv' /\ RemoteInv' /\ FlushInv'
      BY <1>2, RowsUnchanged DEF PutStart
    <2>3. QED
      BY <1>1, <2>1, <2>2 DEF UsageInv
  <1>3. ASSUME NEW c \in Client[d], PutEnd(d, c)
        PROVE  UsageInv'
    <2>1. put[d][c] \in Put
      BY <1>3 DEF PutEnd, UsageInv, TypeOK
    <2>2. put[d][c].size \in Nat /\ put[d][c].checked \in BOOLEAN
      BY <2>1 DEF Put
    <2>3. /\ table' \in [Daemon -> SUBSET Row]
          /\ TableInv' /\ RemoteInv' /\ FlushInv'
      BY <1>3, <2>2, AddDeltaInv DEF PutEnd
    <2>4. TypeOK'
      <3>1. stored' \in Nat
        BY <1>3, <2>2 DEF PutEnd, UsageInv, TypeOK
      <3>2. /\ DOMAIN put' = Daemon
            /\ \A e \in Daemon : put'[e] \in [Client[e] -> Put \cup {Idle}]
        BY <1>3 DEF PutEnd, UsageInv, TypeOK
      <3>3. QED
        BY <1>3, <2>3, <3>1, <3>2 DEF PutEnd, UsageInv, TypeOK
    <2>5. QED
      BY <1>1, <2>3, <2>4 DEF UsageInv
  <1>4. ASSUME NEW c \in Client[d], PutFails(d, c)
        PROVE  UsageInv'
    <2>1. put[d][c] \in Put
      BY <1>4 DEF PutFails, UsageInv, TypeOK
    <2>2. put[d][c].size \in Nat
      BY <2>1 DEF Put
    <2>3. TypeOK'
      BY <1>4, <2>2 DEF PutFails, Fault, UsageInv, TypeOK
    <2>4. TableInv' /\ RemoteInv' /\ FlushInv'
      BY <1>4, RowsUnchanged DEF PutFails
    <2>5. QED
      BY <1>1, <2>3, <2>4 DEF UsageInv
  <1>5. ASSUME NEW size \in Sizes, Delete(d, size)
        PROVE  UsageInv'
    <2>1. -size \in Int /\ FALSE \in BOOLEAN
      OBVIOUS
    <2>2. /\ table' \in [Daemon -> SUBSET Row]
          /\ TableInv' /\ RemoteInv' /\ FlushInv'
      BY <1>5, <2>1, AddDeltaInv DEF Delete
    <2>3. TypeOK'
      BY <1>5, <2>2 DEF Delete, Operation, UsageInv, TypeOK
    <2>4. QED
      BY <1>1, <2>2, <2>3 DEF UsageInv
  <1>6. QED
    BY <1>2, <1>3, <1>4, <1>5 DEF RequestStep

LEMMA FlushStepInv ==
  ASSUME UsageInv, NEW d \in Daemon, FlushStep(d)
  PROVE  UsageInv'
  <1> USE StatsAssumption
  <1>1. TableInv'
    BY DEF FlushStep, FlushCopy, FlushUpload, FlushFails, UsageInv, TableInv
  <1>2. TypeOK'
    <2>1. CASE FlushCopy(d)
      BY <2>1 DEF FlushCopy, UsageInv, TypeOK
    <2>2. CASE FlushUpload(d)
      BY <2>2 DEF FlushUpload, UsageInv, TypeOK
    <2>3. CASE FlushFails(d)
      BY <2>3 DEF FlushFails, Fault, UsageInv, TypeOK
    <2>4. QED
      BY <2>1, <2>2, <2>3 DEF FlushStep
  <1>3. PassInv'
    <2>1. CASE FlushCopy(d)
      BY <2>1 DEF FlushCopy, UsageInv, PassInv
    <2>2. CASE FlushUpload(d) \/ FlushFails(d)
      BY <2>2 DEF FlushUpload, FlushFails, UsageInv, TypeOK, PassInv
    <2>3. QED
      BY <2>1, <2>2 DEF FlushStep
  <1>4. CASE FlushCopy(d)
    <2> DEFINE copy == {r \in table[d] : r.file = Own}
    <2>1. GoodFile(copy, id[d])
      BY CopiedRows DEF UsageInv, TypeOK, TableInv
    <2>2. /\ \A e \in Daemon : flush'[e] = IF e = d THEN copy ELSE flush[e]
          /\ UNCHANGED <<id, remote>>
      BY <1>4 DEF FlushCopy, UsageInv, TypeOK
    <2>3. FlushInv'
      <3> SUFFICES ASSUME NEW e \in Daemon, flush'[e] # NoFile
                   PROVE  GoodFile(flush'[e], id[e])
        BY <2>2 DEF FlushInv
      <3>1. QED
        BY <2>1, <2>2 DEF UsageInv, FlushInv
    <2>4. RemoteInv'
      BY <2>2 DEF UsageInv, RemoteInv
    <2>5. QED
      BY <1>1, <1>2, <1>3, <2>3, <2>4 DEF UsageInv
  <1>5. CASE FlushUpload(d) \/ FlushFails(d)
    <2>1. /\ flush[d] # NoFile
          /\ \A i \in Id : remote'[i] = remote[i]
                              \/ (i = id[d] /\ remote'[i] = flush[d])
          /\ \A e \in Daemon : flush'[e] = NoFile \/ flush'[e] = flush[e]
          /\ UNCHANGED id
      BY <1>5 DEF FlushUpload, FlushFails, UsageInv, TypeOK
    <2>2. RemoteInv'
      BY <2>1 DEF UsageInv, RemoteInv, FlushInv
    <2>3. FlushInv'
      BY <2>1 DEF UsageInv, FlushInv
    <2>4. QED
      BY <1>1, <1>2, <1>3, <2>2, <2>3 DEF UsageInv
  <1>6. QED
    BY <1>4, <1>5 DEF FlushStep

LEMMA MergeInv ==
  ASSUME UsageInv, NEW d \in Daemon, NEW i \in Id, Merge(d, i)
  PROVE  UsageInv'
  <1> DEFINE new == {r \in Merged(i, remote[i]) :
                       \A s \in table[d] : s.file = i => s.row # r.row}
  <1>1. /\ i \in Id \ {id[d]}
        /\ remote[i] \in SUBSET Row /\ GoodFile(remote[i], i)
        /\ id[d] \in Id
        /\ table[d] \in SUBSET Row /\ GoodTable(table[d], id[d])
    BY DEF Merge, UsageInv, TypeOK, TableInv, RemoteInv, PassInv
  <1>2. table[d] \cup new \in SUBSET Row /\ GoodTable(table[d] \cup new, id[d])
    BY <1>1, MergedRows
  <1>3. table' = [table EXCEPT ![d] = table[d] \cup new]
    BY DEF Merge
  <1>4. /\ table' \in [Daemon -> SUBSET Row]
        /\ TableInv' /\ RemoteInv' /\ FlushInv'
    BY <1>2, <1>3, TableGrows DEF Merge
  <1>5. TypeOK'
    BY <1>4 DEF Merge, UsageInv, TypeOK
  <1>6. PassInv'
    BY DEF Merge, UsageInv, TypeOK, PassInv
  <1>7. QED
    BY <1>4, <1>5, <1>6 DEF UsageInv

LEMMA SyncStepInv ==
  ASSUME UsageInv, NEW d \in Daemon, SyncStep(d)
  PROVE  UsageInv'
  <1>1. CASE SyncList(d) \/ MergeFails(d)
    <2>1. TypeOK'
      BY <1>1, StatsAssumption DEF SyncList, MergeFails, Fault, UsageInv, TypeOK
    <2>2. PassInv'
      BY <1>1 DEF SyncList, MergeFails, UsageInv, TypeOK, PassInv
    <2>3. TableInv' /\ RemoteInv' /\ FlushInv'
      BY <1>1, RowsUnchanged DEF SyncList, MergeFails
    <2>4. QED
      BY <2>1, <2>2, <2>3 DEF UsageInv
  <1>2. QED
    BY <1>1, MergeInv DEF SyncStep

\* What the earlier parts of a sync do leaves the usage alone.
LEMMA EarlierInv ==
  ASSUME UsageInv,
         FlushStructure \/ \E d \in Daemon : Refuse(d) \/ Accept(d)
  PROVE  UsageInv'
  <1>1. TypeOK'
    <2>1. CASE FlushStructure
      <3>1. structure' \in BOOLEAN
        BY <2>1, Zenon DEF FlushStructure
      <3>2. QED
        BY <2>1, <3>1 DEF FlushStructure, UsageInv, TypeOK
    <2>2. CASE \E d \in Daemon : Refuse(d) \/ Accept(d)
      BY <2>2, StatsAssumption DEF Refuse, Accept, Fault, UsageInv, TypeOK
    <2>3. QED
      BY <2>1, <2>2
  <1>2. TableInv' /\ RemoteInv' /\ FlushInv' /\ PassInv'
    BY DEF FlushStructure, Refuse, Accept, UsageInv, TableInv, RemoteInv,
           FlushInv, PassInv
  <1>3. QED
    BY <1>1, <1>2 DEF UsageInv

LEMMA RestartInv ==
  ASSUME UsageInv, NEW d \in Daemon, Restart(d)
  PROVE  UsageInv'
  <1>1. TypeOK'
    BY StatsAssumption DEF Restart, Stop, UsageInv, TypeOK
  <1>2. PassInv' /\ FlushInv'
    BY DEF Restart, Stop, UsageInv, TypeOK, PassInv, FlushInv
  <1>3. TableInv' /\ RemoteInv'
    BY DEF Restart, UsageInv, TableInv, RemoteInv
  <1>4. QED
    BY <1>1, <1>2, <1>3 DEF UsageInv

LEMMA RestartFreshInv ==
  ASSUME UsageInv, NEW d \in Daemon, NEW i \in Id, RestartFresh(d, i)
  PROVE  UsageInv'
  <1>1. TypeOK'
    BY StatsAssumption DEF RestartFresh, Stop, UsageInv, TypeOK
  <1>2. PassInv' /\ FlushInv'
    BY DEF RestartFresh, Stop, UsageInv, TypeOK, PassInv, FlushInv
  <1>3. \A e \in Daemon : \/ table'[e] = {}
                          \/ table'[e] = table[e] /\ id'[e] = id[e]
    BY DEF RestartFresh, UsageInv, TypeOK
  <1>4. TableInv'
    <2> SUFFICES ASSUME NEW e \in Daemon PROVE GoodTable(table'[e], id'[e])
      BY DEF TableInv
    <2>1. QED
      BY <1>3, EmptyTable DEF UsageInv, TableInv
  <1>5. RemoteInv'
    BY DEF RestartFresh, UsageInv, RemoteInv
  <1>6. QED
    BY <1>1, <1>2, <1>4, <1>5 DEF UsageInv

LEMMA NextInv == UsageInv /\ [Next]_vars => UsageInv'
  <1> SUFFICES ASSUME UsageInv, [Next]_vars PROVE UsageInv'
    OBVIOUS
  <1>1. CASE UNCHANGED vars
    BY <1>1
    DEF vars, UsageInv, TypeOK, TableInv, RemoteInv, FlushInv, PassInv
  <1>2. QED
    BY <1>1, RequestInv, FlushStepInv, SyncStepInv, EarlierInv, RestartInv,
       RestartFreshInv
    DEF Next

LEMMA InvHolds == Spec => []UsageInv
  BY InitInv, NextInv, PTL DEF Spec

-----------------------------------------------------------------------------

\* Types: in particular no more is deleted than was stored.
THEOREM TypesCorrect == Spec => []TypeOK
  <1>1. UsageInv => TypeOK
    BY DEF UsageInv
  <1>2. QED
    BY <1>1, InvHolds, PTL

\* No change is twice in the usage of a daemon (the unique index over the
\* source file and row, stats.go:71-75, together with the pruning of merged
\* rows before a flush and with the skipped own file of a sync), for any
\* number of daemons, ids, changes, faults and restarts.
THEOREM CountedOnceHolds == Spec => []CountedOnce
  <1>1. UsageInv => CountedOnce
    BY DEF UsageInv, TableInv, GoodTable, Distinct, CountedOnce
  <1>2. QED
    BY <1>1, InvHolds, PTL

-----------------------------------------------------------------------------
(***************************************************************************)
(* Sums over finite sets                                                   *)
(***************************************************************************)

LEMMA SmallestNumber ==
  ASSUME NEW S \in SUBSET Nat, S # {}
  PROVE  \E m \in S : \A n \in S : m <= n
  <1> DEFINE R == OpToRel(<, Nat)
  <1>1. IsWellFoundedOn(R, Nat)
    BY NatLessThanWellFounded
  <1>2. R = {ss \in Nat \X Nat : ss[1] < ss[2]}
    BY DEF OpToRel
  <1> HIDE DEF R
  <1>3. PICK m \in S : \A n \in S : ~(<<n, m>> \in R)
    BY <1>1, WFMin
  <1>4. ASSUME NEW n \in S PROVE m <= n
    <2>1. <<n, m>> \in Nat \X Nat
      OBVIOUS
    <2>2. ~(n < m)
      BY <1>2, <1>3, <2>1
    <2> QED
      BY <2>2
  <1> QED
    BY <1>4

\* Induction over the subsets of a finite set: a smallest one outside P would
\* have all its subsets in P.
LEMMA SubsetInduction ==
  ASSUME NEW S, IsFiniteSet(S), NEW P,
         \A T \in SUBSET S : (\A U \in SUBSET T : U # T => U \in P) => T \in P
  PROVE  SUBSET S \subseteq P
  <1> SUFFICES ASSUME NEW T0 \in SUBSET S, T0 \notin P PROVE FALSE
    OBVIOUS
  <1> DEFINE N == {Cardinality(T) : T \in (SUBSET S) \ P}
  <1>1. \A T \in SUBSET S : IsFiniteSet(T) /\ Cardinality(T) \in Nat
    BY FS_Subset, FS_CardinalityType
  <1>2. N \in SUBSET Nat /\ N # {}
    BY <1>1
  <1> HIDE DEF N
  <1>3. PICK m \in N : \A n \in N : m <= n
    BY <1>2, SmallestNumber
  <1>4. PICK T \in (SUBSET S) \ P : m = Cardinality(T)
    BY <1>3 DEF N
  <1>5. ASSUME NEW U \in SUBSET T, U # T PROVE U \in P
    <2>1. Cardinality(U) <= Cardinality(T) /\ Cardinality(U) # Cardinality(T)
      BY <1>1, <1>4, <1>5, FS_Subset
    <2>2. U \in SUBSET S /\ Cardinality(U) \in Nat /\ Cardinality(T) \in Nat
      BY <1>1, <1>4
    <2>3. U \notin P => Cardinality(U) \in N
      BY <2>2 DEF N
    <2> QED
      BY <1>3, <1>4, <2>1, <2>2, <2>3
  <1> QED
    BY <1>4, <1>5

Choice(s) == CHOOSE x \in s : TRUE

LEMMA ChoiceIsIn == \A s : s # {} => Choice(s) \in s
  BY DEF Choice

\* The function adds up w over every subset of S, as the fold does.
IsFold(it, w, S) ==
    it = [s \in SUBSET S |->
            IF s = {} THEN 0 ELSE w[Choice(s)] + it[s \ {Choice(s)}]]

Sum(w, S) == (CHOOSE it : IsFold(it, w, S))[S]

LEMMA FoldAt ==
  ASSUME NEW it, NEW w, NEW S, IsFold(it, w, S), NEW s \in SUBSET S,
         NEW c, c = Choice(s), NEW t, t = s \ {c}
  PROVE  /\ s = {} => it[s] = 0
         /\ s # {} => it[s] = w[c] + it[t]
  BY DEF IsFold

LEMMA FoldsAgree ==
  ASSUME NEW S, NEW T, IsFiniteSet(S), NEW v, NEW w,
         \A x \in S \cap T : v[x] = w[x],
         NEW f, IsFold(f, v, S), NEW g, IsFold(g, w, T)
  PROVE  \A u \in SUBSET (S \cap T) : f[u] = g[u]
  <1> DEFINE P == {u \in SUBSET (S \cap T) : f[u] = g[u]}
  <1>1. IsFiniteSet(S \cap T)
    BY FS_Subset
  <1>2. ASSUME NEW u \in SUBSET (S \cap T),
               \A t \in SUBSET u : t # u => t \in P
        PROVE  u \in P
    <2>1. u \in SUBSET S /\ u \in SUBSET T
      OBVIOUS
    <2>2. CASE u = {}
      <3>1. f[u] = 0 /\ g[u] = 0
        BY <2>1, <2>2, FoldAt
      <3> QED
        BY <3>1
    <2>3. CASE u # {}
      <3>1. PICK c : c = Choice(u)
        OBVIOUS
      <3>2. PICK t : t = u \ {c}
        OBVIOUS
      <3>3. c \in u
        BY <2>3, <3>1, ChoiceIsIn
      <3>4. t \in P
        BY <1>2, <3>2, <3>3
      <3> HIDE DEF P
      <3>5. f[u] = v[c] + f[t]
        BY <2>1, <2>3, <3>1, <3>2, FoldAt
      <3>6. g[u] = w[c] + g[t]
        BY <2>1, <2>3, <3>1, <3>2, FoldAt
      <3>7. v[c] = w[c]
        BY <3>3
      <3>8. f[t] = g[t]
        BY <3>4 DEF P
      <3> QED
        BY <3>5, <3>6, <3>7, <3>8 DEF P
    <2> QED
      BY <2>2, <2>3
  <1> HIDE DEF P
  <1>3. SUBSET (S \cap T) \subseteq P
    <2>1. PICK I : I = S \cap T
      OBVIOUS
    <2>2. IsFiniteSet(I)
          /\ \A u \in SUBSET I : (\A t \in SUBSET u : t # u => t \in P) => u \in P
      BY <1>1, <1>2, <2>1
    <2>3. SUBSET I \subseteq P
      BY <2>2, SubsetInduction
    <2> QED
      BY <2>1, <2>3
  <1> QED
    BY <1>3 DEF P

LEMMA FoldExists ==
  ASSUME NEW S, IsFiniteSet(S), NEW w
  PROVE  \E it : IsFold(it, w, S)
  <1> DEFINE F(U) == CHOOSE it : IsFold(it, w, U)
             P == {T \in SUBSET S : IsFold(F(T), w, T)}
  <1>1. ASSUME NEW T \in SUBSET S, \A U \in SUBSET T : U # T => U \in P
        PROVE  T \in P
    <2> DEFINE h == [s \in SUBSET T |->
                       IF s = {} THEN 0
                       ELSE w[Choice(s)]
                              + F(s \ {Choice(s)})[s \ {Choice(s)}]]
    <2>1. \A U \in SUBSET T : U # T => IsFold(F(U), w, U)
      BY <1>1
    <2>2. \A U \in SUBSET T : IsFiniteSet(U)
      BY FS_Subset
    <2> HIDE DEF F
    <2>3. ASSUME NEW u \in SUBSET T, u # T PROVE h[u] = F(u)[u]
      <3>1. /\ u = {} => F(u)[u] = 0
            /\ u # {} => F(u)[u] = w[Choice(u)] + F(u)[u \ {Choice(u)}]
        <4>1. IsFold(F(u), w, u) /\ u \in SUBSET u
          BY <2>1, <2>3
        <4> QED
          BY <4>1, FoldAt
      <3>2. CASE u # {}
        <4>1. PICK t : t = u \ {Choice(u)}
          OBVIOUS
        <4>2. t \in SUBSET T /\ t # T /\ t \in SUBSET (u \cap t)
          BY <2>3, <3>2, <4>1, ChoiceIsIn
        <4>3. F(u)[t] = F(t)[t]
          BY <2>1, <2>2, <2>3, <4>2, FoldsAgree
        <4> QED
          BY <3>1, <3>2, <4>1, <4>3
      <3> QED
        BY <3>1, <3>2
    <2>4. IsFold(h, w, T)
      <3>1. ASSUME NEW s \in SUBSET T, s # {}
            PROVE  h[s] = w[Choice(s)] + h[s \ {Choice(s)}]
        <4>1. Choice(s) \in s
          BY <3>1, ChoiceIsIn
        <4>2. h[s \ {Choice(s)}] = F(s \ {Choice(s)})[s \ {Choice(s)}]
          <5>1. s \ {Choice(s)} \in SUBSET T /\ s \ {Choice(s)} # T
            BY <4>1
          <5> QED
            BY <2>3, <5>1
        <4> QED
          BY <3>1, <4>2
      <3>2. h[{}] = 0
        OBVIOUS
      <3>3. h = [s \in SUBSET T |-> h[s]]
        OBVIOUS
      <3> HIDE DEF h
      <3>4. h = [s \in SUBSET T |->
                   IF s = {} THEN 0 ELSE w[Choice(s)] + h[s \ {Choice(s)}]]
        BY <3>1, <3>2, <3>3
      <3> QED
        BY <3>4 DEF IsFold
    <2> HIDE DEF h
    <2>5. IsFold(F(T), w, T)
      BY <2>4 DEF F
    <2> QED
      BY <2>5
  <1> HIDE DEF F, P
  <1>2. SUBSET S \subseteq P
    BY <1>1, SubsetInduction
  <1> QED
    BY <1>2 DEF P

-----------------------------------------------------------------------------

LEMMA SumIsFold ==
  ASSUME NEW S, IsFiniteSet(S), NEW w, NEW it, IsFold(it, w, S)
  PROVE  \A T \in SUBSET S : Sum(w, T) = it[T]
  <1> SUFFICES ASSUME NEW T \in SUBSET S PROVE Sum(w, T) = it[T]
    OBVIOUS
  <1>1. IsFiniteSet(T) /\ T \in SUBSET (T \cap S)
    BY FS_Subset
  <1>2. PICK f : f = CHOOSE g : IsFold(g, w, T)
    OBVIOUS
  <1>3. IsFold(f, w, T)
    BY <1>1, <1>2, FoldExists
  <1>4. f[T] = it[T]
    BY <1>1, <1>3, FoldsAgree
  <1> QED
    BY <1>2, <1>4 DEF Sum

\* What is left of the definition of a sum.
LEMMA SumSteps ==
  ASSUME NEW S, IsFiniteSet(S), NEW w
  PROVE  /\ Sum(w, {}) = 0
         /\ \A T \in SUBSET S : T # {} =>
               Sum(w, T) = w[Choice(T)] + Sum(w, T \ {Choice(T)})
  <1>1. PICK it : IsFold(it, w, S)
    BY FoldExists
  <1>2. \A T \in SUBSET S : Sum(w, T) = it[T]
    BY <1>1, SumIsFold
  <1>3. Sum(w, {}) = 0
    <2>1. {} \in SUBSET S /\ it[{}] = 0
      BY <1>1, FoldAt
    <2> QED
      BY <1>2, <2>1
  <1>4. ASSUME NEW T \in SUBSET S, T # {}
        PROVE  Sum(w, T) = w[Choice(T)] + Sum(w, T \ {Choice(T)})
    <2>1. PICK c : c = Choice(T)
      OBVIOUS
    <2>2. PICK t : t = T \ {c}
      OBVIOUS
    <2>3. it[T] = w[c] + it[t]
      BY <1>1, <1>4, <2>1, <2>2, FoldAt
    <2>4. Sum(w, T) = it[T] /\ Sum(w, t) = it[t]
      BY <1>2, <2>2
    <2> QED
      BY <2>1, <2>2, <2>3, <2>4
  <1> QED
    BY <1>3, <1>4

LEMMA SumOfNone == \A w : Sum(w, {}) = 0
  BY SumSteps, FS_EmptySet

LEMMA SumIsInt ==
  ASSUME NEW S, IsFiniteSet(S), NEW w, \A x \in S : w[x] \in Int
  PROVE  Sum(w, S) \in Int
  <1> DEFINE P == {T \in SUBSET S : Sum(w, T) \in Int}
  <1>1. ASSUME NEW T \in SUBSET S, \A U \in SUBSET T : U # T => U \in P
        PROVE  T \in P
    <2>1. CASE T = {}
      BY <2>1, SumOfNone
    <2>2. CASE T # {}
      <3>1. PICK c : c = Choice(T)
        OBVIOUS
      <3>2. c \in T /\ w[c] \in Int
        BY <2>2, <3>1, ChoiceIsIn
      <3>3. Sum(w, T \ {c}) \in Int
        BY <1>1, <3>2
      <3>4. Sum(w, T) = w[c] + Sum(w, T \ {c})
        BY <2>2, <3>1, SumSteps
      <3> QED
        BY <3>2, <3>3, <3>4
    <2> QED
      BY <2>1, <2>2
  <1> HIDE DEF P
  <1>2. SUBSET S \subseteq P
    BY <1>1, SubsetInduction
  <1> QED
    BY <1>2 DEF P

\* A sum does not depend on the order.
LEMMA SumLess ==
  ASSUME NEW S, IsFiniteSet(S), NEW w, \A x \in S : w[x] \in Int, NEW x \in S
  PROVE  Sum(w, S) = w[x] + Sum(w, S \ {x})
  <1> DEFINE P == {T \in SUBSET S :
                     \A y \in T : Sum(w, T) = w[y] + Sum(w, T \ {y})}
  <1>1. ASSUME NEW T \in SUBSET S, \A U \in SUBSET T : U # T => U \in P
        PROVE  T \in P
    <2> SUFFICES ASSUME NEW y \in T PROVE Sum(w, T) = w[y] + Sum(w, T \ {y})
      OBVIOUS
    <2>1. PICK c : c = Choice(T)
      OBVIOUS
    <2>2. c \in T
      BY <2>1, ChoiceIsIn
    <2>3. Sum(w, T) = w[c] + Sum(w, T \ {c})
      BY <2>1, SumSteps
    <2>4. CASE y # c
      <3>1. PICK t : t = (T \ {c}) \ {y}
        OBVIOUS
      <3>2. t = (T \ {y}) \ {c}
        BY <3>1
      <3>3. T \ {c} \in P /\ y \in T \ {c}
        BY <1>1, <2>2, <2>4
      <3>4. Sum(w, T \ {c}) = w[y] + Sum(w, t)
        BY <3>1, <3>3
      <3>5. T \ {y} \in P /\ c \in T \ {y}
        BY <1>1, <2>2, <2>4
      <3>6. Sum(w, T \ {y}) = w[c] + Sum(w, t)
        BY <3>2, <3>5
      <3>7. w[y] \in Int /\ w[c] \in Int /\ Sum(w, t) \in Int
        <4>1. t \in SUBSET S /\ IsFiniteSet(t)
          BY <3>1, FS_Subset
        <4> QED
          BY <2>2, <4>1, SumIsInt
      <3> QED
        BY <2>3, <3>4, <3>6, <3>7
    <2> QED
      BY <2>3, <2>4
  <1> HIDE DEF P
  <1>2. SUBSET S \subseteq P
    BY <1>1, SubsetInduction
  <1>3. S \in P
    BY <1>2
  <1> QED
    BY <1>3 DEF P

LEMMA SumMore ==
  ASSUME NEW S, IsFiniteSet(S), NEW x, x \notin S, NEW w,
         w[x] \in Int, \A y \in S : w[y] \in Int
  PROVE  Sum(w, S \cup {x}) = w[x] + Sum(w, S)
  <1>1. PICK T : T = S \cup {x}
    OBVIOUS
  <1>2. IsFiniteSet(T) /\ T \ {x} = S /\ x \in T /\ \A y \in T : w[y] \in Int
    BY <1>1, FS_AddElement
  <1>3. Sum(w, T) = w[x] + Sum(w, T \ {x})
    BY <1>2, SumLess
  <1> QED
    BY <1>1, <1>2, <1>3

LEMMA SumSame ==
  ASSUME NEW S, IsFiniteSet(S), NEW v, NEW w, \A x \in S : v[x] = w[x]
  PROVE  Sum(v, S) = Sum(w, S)
  <1>1. PICK f : IsFold(f, v, S)
    BY FoldExists
  <1>2. PICK g : IsFold(g, w, S)
    BY FoldExists
  <1>3. Sum(v, S) = f[S] /\ Sum(w, S) = g[S]
    BY <1>1, <1>2, SumIsFold
  <1>4. \A x \in S \cap S : v[x] = w[x]
    OBVIOUS
  <1>5. \A u \in SUBSET (S \cap S) : f[u] = g[u]
    BY <1>1, <1>2, <1>4, FoldsAgree
  <1>6. f[S] = g[S]
    BY <1>5
  <1> QED
    BY <1>3, <1>6

\* Leaving out what is not negative makes no sum larger, ...
LEMMA SumOfPart ==
  ASSUME NEW S, IsFiniteSet(S), NEW w, \A x \in S : w[x] \in Int,
         NEW R \in SUBSET S, \A x \in S \ R : w[x] >= 0
  PROVE  Sum(w, R) <= Sum(w, S)
  <1> DEFINE P == {T \in SUBSET S : Sum(w, T \cap R) <= Sum(w, T)}
  <1>1. ASSUME NEW T \in SUBSET S, \A U \in SUBSET T : U # T => U \in P
        PROVE  T \in P
    <2>1. CASE T = {}
      <3>1. T \cap R = T
        BY <2>1
      <3>2. Sum(w, T) = 0
        BY <2>1, SumOfNone
      <3> QED
        BY <3>1, <3>2
    <2>2. CASE T # {}
      <3>1. PICK x : x \in T
        BY <2>2
      <3>2. PICK t : t = T \ {x}
        OBVIOUS
      <3>3. IsFiniteSet(T) /\ IsFiniteSet(T \cap R)
            /\ IsFiniteSet(t) /\ IsFiniteSet(t \cap R)
        BY <3>2, FS_Subset
      <3>4. Sum(w, t \cap R) <= Sum(w, t)
        BY <1>1, <3>1, <3>2
      <3>5. /\ \A y \in T : w[y] \in Int
            /\ \A y \in t : w[y] \in Int
            /\ \A y \in T \cap R : w[y] \in Int
            /\ \A y \in t \cap R : w[y] \in Int
        BY <3>2
      <3>6. Sum(w, t) \in Int /\ Sum(w, t \cap R) \in Int /\ w[x] \in Int
        BY <3>1, <3>3, <3>5, SumIsInt
      <3>7. Sum(w, T) = w[x] + Sum(w, t)
        BY <3>1, <3>2, <3>3, <3>5, SumLess
      <3>8. CASE x \in R
        <4>1. x \in T \cap R /\ (T \cap R) \ {x} = t \cap R
          BY <3>1, <3>2, <3>8
        <4>2. Sum(w, T \cap R) = w[x] + Sum(w, t \cap R)
          BY <3>3, <3>5, <4>1, SumLess
        <4> QED
          BY <3>4, <3>6, <3>7, <4>2
      <3>9. CASE x \notin R
        <4>1. T \cap R = t \cap R /\ w[x] >= 0
          BY <3>1, <3>2, <3>9
        <4>2. Sum(w, T \cap R) = Sum(w, t \cap R)
          BY <4>1
        <4> QED
          BY <3>4, <3>6, <3>7, <4>1, <4>2
      <3> QED
        BY <3>8, <3>9
    <2> QED
      BY <2>1, <2>2
  <1> HIDE DEF P
  <1>2. SUBSET S \subseteq P
    BY <1>1, SubsetInduction
  <1>3. S \in P
    BY <1>2
  <1>4. S \cap R = R
    OBVIOUS
  <1> QED
    BY <1>3, <1>4 DEF P

LEMMA SumOfNegated ==
  ASSUME NEW S, IsFiniteSet(S), NEW w, \A x \in S : w[x] \in Int,
         NEW v, \A x \in S : v[x] = -w[x]
  PROVE  Sum(v, S) = -Sum(w, S)
  <1> DEFINE P == {T \in SUBSET S : Sum(v, T) = -Sum(w, T)}
  <1>1. ASSUME NEW T \in SUBSET S, \A U \in SUBSET T : U # T => U \in P
        PROVE  T \in P
    <2>1. CASE T = {}
      BY <2>1, SumOfNone
    <2>2. CASE T # {}
      <3>1. PICK c : c = Choice(T)
        OBVIOUS
      <3>2. PICK t : t = T \ {c}
        OBVIOUS
      <3>3. c \in T /\ t \in P
        BY <1>1, <2>2, <3>1, <3>2, ChoiceIsIn
      <3>4. Sum(w, T) = w[c] + Sum(w, t) /\ Sum(v, T) = v[c] + Sum(v, t)
        BY <2>2, <3>1, <3>2, SumSteps
      <3>5. Sum(w, t) \in Int /\ w[c] \in Int
        <4>1. IsFiniteSet(t) /\ t \in SUBSET S
          BY <3>2, FS_Subset
        <4> QED
          BY <3>3, <4>1, SumIsInt
      <3> QED
        BY <3>3, <3>4, <3>5
    <2> QED
      BY <2>1, <2>2
  <1> HIDE DEF P
  <1>2. SUBSET S \subseteq P
    BY <1>1, SubsetInduction
  <1>3. S \in P
    BY <1>2
  <1> QED
    BY <1>3 DEF P

\* ... and leaving out what is not positive makes none smaller.
LEMMA SumOfRest ==
  ASSUME NEW S, IsFiniteSet(S), NEW w, \A x \in S : w[x] \in Int,
         NEW R \in SUBSET S, \A x \in S \ R : w[x] <= 0
  PROVE  Sum(w, S) <= Sum(w, R)
  <1>1. PICK v : v = [x \in S |-> -w[x]]
    OBVIOUS
  <1>2. /\ \A x \in S : v[x] \in Int /\ v[x] = -w[x]
        /\ \A x \in S \ R : v[x] >= 0
    BY <1>1
  <1>3. Sum(v, R) <= Sum(v, S)
    BY <1>2, SumOfPart
  <1>4. IsFiniteSet(R)
    BY FS_Subset
  <1>5. Sum(v, R) = -Sum(w, R) /\ Sum(v, S) = -Sum(w, S)
    BY <1>2, <1>4, SumOfNegated
  <1>6. Sum(w, R) \in Int /\ Sum(w, S) \in Int
    BY <1>4, SumIsInt
  <1> QED
    BY <1>3, <1>5, <1>6

LEMMA SumIsBounded ==
  ASSUME NEW S, IsFiniteSet(S), NEW w, NEW m \in Nat,
         \A x \in S : w[x] \in Int /\ w[x] <= m
  PROVE  Sum(w, S) <= Cardinality(S) * m
  <1> DEFINE P == {T \in SUBSET S : Sum(w, T) <= Cardinality(T) * m}
  <1>1. ASSUME NEW T \in SUBSET S, \A U \in SUBSET T : U # T => U \in P
        PROVE  T \in P
    <2>1. CASE T = {}
      BY <2>1, SumOfNone, FS_EmptySet
    <2>2. CASE T # {}
      <3>1. PICK c : c = Choice(T)
        OBVIOUS
      <3>2. PICK t : t = T \ {c}
        OBVIOUS
      <3>3. c \in T /\ t \in P
        BY <1>1, <2>2, <3>1, <3>2, ChoiceIsIn
      <3>4. Sum(w, T) = w[c] + Sum(w, t)
        BY <2>2, <3>1, <3>2, SumSteps
      <3>5. IsFiniteSet(T) /\ IsFiniteSet(t) /\ t \in SUBSET S
        BY <3>2, FS_Subset
      <3>6. Sum(w, t) \in Int /\ w[c] \in Int /\ w[c] <= m
        BY <3>3, <3>5, SumIsInt
      <3>7. Cardinality(T) \in Nat /\ Cardinality(t) = Cardinality(T) - 1
        BY <3>2, <3>3, <3>5, FS_CardinalityType, FS_RemoveElement
      <3>8. PICK n : n = Cardinality(T)
        OBVIOUS
      <3>9. n \in Nat /\ (n - 1) * m + m = n * m
        BY <3>7, <3>8
      <3>10. Sum(w, t) <= (n - 1) * m
        BY <3>3, <3>7, <3>8
      <3>11. (n - 1) * m \in Int /\ n * m \in Int
        BY <3>9
      <3>12. Sum(w, T) <= n * m
        BY <3>4, <3>6, <3>9, <3>10, <3>11
      <3> QED
        BY <3>8, <3>12
    <2> QED
      BY <2>1, <2>2
  <1> HIDE DEF P
  <1>2. SUBSET S \subseteq P
    BY <1>1, SubsetInduction
  <1>3. S \in P
    BY <1>2
  <1> QED
    BY <1>3 DEF P

-----------------------------------------------------------------------------
(***************************************************************************)
(* The quota                                                               *)
(***************************************************************************)

Bytes == [r \in Row |-> r.bytes]

LEMMA BytesAreSum ==
  ASSUME NEW rows \in SUBSET Row, IsFiniteSet(rows)
  PROVE  BytesOf(rows) = Sum(Bytes, rows)
  <1> DEFINE G(it) == it = [s \in SUBSET rows |->
                             IF s = {} THEN 0
                             ELSE LET x == CHOOSE x \in s : TRUE
                                  IN  x.bytes + it[s \ {x}]]
  <1>1. BytesOf(rows) = (CHOOSE it : G(it))[rows]
    BY DEF BytesOf, MapThenSumSet, MapThenFoldSet
  <1>2. \A s \in SUBSET rows : s # {} => Bytes[Choice(s)] = Choice(s).bytes
    BY ChoiceIsIn DEF Bytes
  <1>3. \A it : G(it) <=> it = [s \in SUBSET rows |->
                             IF s = {} THEN 0
                             ELSE Choice(s).bytes + it[s \ {Choice(s)}]]
    BY DEF Choice
  <1> HIDE DEF G
  <1>4. ASSUME NEW it PROVE G(it) <=> IsFold(it, Bytes, rows)
    BY <1>2, <1>3 DEF IsFold
  <1>5. PICK it : it = CHOOSE f : G(f)
    OBVIOUS
  <1>6. G(it)
    BY <1>4, <1>5, FoldExists
  <1>7. Sum(Bytes, rows) = it[rows]
    BY <1>4, <1>6, SumIsFold
  <1> QED
    BY <1>1, <1>5, <1>7

\* The sizes of the uploads of a daemon.
SizeOf(calls) == [c \in DOMAIN calls |-> calls[c].size]

Checked(calls) == {c \in DOMAIN calls : calls[c] # Idle /\ calls[c].checked}

LEMMA InFlightAreSum ==
  ASSUME NEW d \in Daemon, IsFiniteSet(Client[d]), DOMAIN put[d] = Client[d]
  PROVE  MapThenSumSet(LAMBDA c : put[d][c].size, InFlight(d))
           = Sum(SizeOf(put[d]), Checked(put[d]))
  <1>1. PICK calls : calls = put[d]
    OBVIOUS
  <1>2. PICK S : S = Checked(calls)
    OBVIOUS
  <1>3. S = InFlight(d) /\ S \in SUBSET Client[d] /\ IsFiniteSet(S)
        /\ \A x \in S : SizeOf(calls)[x] = calls[x].size
    BY <1>1, <1>2, FS_Subset DEF InFlight, Checked, SizeOf
  <1> DEFINE G(it) == it = [s \in SUBSET S |->
                             IF s = {} THEN 0
                             ELSE LET x == CHOOSE x \in s : TRUE
                                  IN  calls[x].size + it[s \ {x}]]
  <1>4. MapThenSumSet(LAMBDA c : put[d][c].size, InFlight(d)) = (CHOOSE it : G(it))[S]
    BY <1>1, <1>3 DEF MapThenSumSet, MapThenFoldSet
  <1>5. \A s \in SUBSET S : s # {} =>
           SizeOf(calls)[Choice(s)] = calls[Choice(s)].size
    BY <1>3, ChoiceIsIn
  <1>6. \A it : G(it) <=> it = [s \in SUBSET S |->
                             IF s = {} THEN 0
                             ELSE calls[Choice(s)].size + it[s \ {Choice(s)}]]
    BY DEF Choice
  <1> HIDE DEF G
  <1>7. ASSUME NEW it PROVE G(it) <=> IsFold(it, SizeOf(calls), S)
    BY <1>5, <1>6 DEF IsFold
  <1>8. PICK it : it = CHOOSE f : G(f)
    OBVIOUS
  <1>9. G(it)
    BY <1>3, <1>7, <1>8, FoldExists
  <1>10. Sum(SizeOf(calls), S) = it[S]
    BY <1>3, <1>7, <1>9, SumIsFold
  <1> QED
    BY <1>1, <1>2, <1>4, <1>8, <1>10

\* The rows of a table that count as admitted, and what daemon d has admitted,
\* as sums.
Counting(rows) == {r \in rows : r.bytes < 0 \/ (r.file = Own /\ r.checked)}

Load(rows, calls) ==
    Sum(Bytes, Counting(rows)) + Sum(SizeOf(calls), Checked(calls))

LEMMA CountingRows ==
  ASSUME NEW rows \in SUBSET Row, IsFiniteSet(rows)
  PROVE  /\ Counting(rows) \in SUBSET rows /\ IsFiniteSet(Counting(rows))
         /\ \A r \in rows : Bytes[r] = r.bytes /\ Bytes[r] \in Int
         /\ Sum(Bytes, Counting(rows)) \in Int
         /\ Sum(Bytes, rows) \in Int
         /\ Sum(Bytes, Counting(rows)) <= Sum(Bytes, rows)
  <1>1. Counting(rows) \in SUBSET rows /\ IsFiniteSet(Counting(rows))
    BY FS_Subset DEF Counting
  <1>2. \A r \in rows : Bytes[r] = r.bytes /\ Bytes[r] \in Int
    BY DEF Bytes, Row
  <1>3. \A r \in rows \ Counting(rows) : Bytes[r] >= 0
    BY <1>2 DEF Counting
  <1>4. Sum(Bytes, Counting(rows)) \in Int /\ Sum(Bytes, rows) \in Int
    BY <1>1, <1>2, SumIsInt
  <1>5. Sum(Bytes, Counting(rows)) <= Sum(Bytes, rows)
    BY <1>1, <1>2, <1>3, SumOfPart
  <1> QED
    BY <1>1, <1>2, <1>4, <1>5

LEMMA CheckedCalls ==
  ASSUME NEW C, IsFiniteSet(C), NEW calls \in [C -> Put \cup {Idle}]
  PROVE  /\ Checked(calls) \in SUBSET C /\ IsFiniteSet(Checked(calls))
         /\ \A c \in C : calls[c] # Idle => calls[c].size \in Sizes
                                            /\ calls[c].checked \in BOOLEAN
         /\ \A c \in Checked(calls) :
               SizeOf(calls)[c] = calls[c].size /\ SizeOf(calls)[c] \in Nat
         /\ Sum(SizeOf(calls), Checked(calls)) \in Int
         /\ 0 <= Sum(SizeOf(calls), Checked(calls))
  <1>1. Checked(calls) \in SUBSET C /\ IsFiniteSet(Checked(calls))
    BY FS_Subset DEF Checked
  <1>2. \A c \in C : calls[c] # Idle => calls[c].size \in Sizes
                                       /\ calls[c].checked \in BOOLEAN
    BY DEF Put
  <1>3. \A c \in Checked(calls) :
           SizeOf(calls)[c] = calls[c].size /\ SizeOf(calls)[c] \in Nat
    BY <1>2, StatsAssumption DEF Checked, SizeOf
  <1>4. Sum(SizeOf(calls), Checked(calls)) \in Int
    BY <1>1, <1>3, SumIsInt
  <1>5. Sum(SizeOf(calls), {}) <= Sum(SizeOf(calls), Checked(calls))
    BY <1>1, <1>3, SumOfPart
  <1> QED
    BY <1>1, <1>2, <1>3, <1>4, <1>5, SumOfNone

LEMMA MoreTimes ==
  ASSUME NEW a \in Nat, NEW b \in Nat, a <= b, NEW m \in Nat
  PROVE  a * m <= b * m
  <1>1. PICK k \in Nat : b = a + k
    <2>1. b - a \in Nat /\ b = a + (b - a)
      OBVIOUS
    <2> QED
      BY <2>1
  <1>2. b * m = a * m + k * m /\ k * m \in Nat /\ a * m \in Nat
    BY <1>1
  <1> QED
    BY <1>2

\* Bounds of the theorem: there is a largest size, and daemons have clients.
LargestExists == \E s \in Sizes : \A t \in Sizes : t <= s

Bound(C) == Quota + (Cardinality(C) - 1) * LargestSize

LEMMA LargestIsLargest ==
  ASSUME LargestExists
  PROVE  /\ LargestSize \in Sizes /\ LargestSize \in Nat
         /\ \A s \in Sizes : s <= LargestSize
  BY StatsAssumption DEF LargestExists, LargestSize

LEMMA BoundIsEnough ==
  ASSUME LargestExists, NEW C, IsFiniteSet(C), C # {}
  PROVE  Bound(C) \in Int /\ 0 <= Bound(C)
  <1>1. Cardinality(C) \in Nat /\ Cardinality(C) # 0
    BY FS_CardinalityType, FS_EmptySet
  <1>2. PICK n \in Nat : n = Cardinality(C) - 1
    BY <1>1
  <1>3. n * LargestSize \in Nat
    BY LargestIsLargest
  <1> QED
    BY <1>2, <1>3, StatsAssumption DEF Bound

\* An upload that was checked comes to those under way.
LEMMA LoadOfChecked ==
  ASSUME LargestExists,
         NEW C, IsFiniteSet(C), NEW calls \in [C -> Put \cup {Idle}],
         NEW rows \in SUBSET Row, IsFiniteSet(rows),
         NEW c \in C, calls[c] = Idle, NEW size \in Sizes,
         Sum(Bytes, rows) + size <= Quota,
         NEW more, more = [calls EXCEPT ![c] = [pc |-> "put", size |-> size,
                                                checked |-> TRUE]]
  PROVE  Load(rows, more) <= Bound(C)
  <1>1. PICK S : S = Checked(calls)
    OBVIOUS
  <1>2. S \in SUBSET C /\ IsFiniteSet(S) /\ c \notin S
        /\ \A x \in S : SizeOf(calls)[x] = calls[x].size /\ SizeOf(calls)[x] \in Nat
                          /\ SizeOf(calls)[x] <= LargestSize
    <2>1. c \notin S
      BY <1>1 DEF Checked
    <2>2. \A x \in S : x \in C /\ calls[x] # Idle
      BY <1>1 DEF Checked
    <2>3. \A x \in S : calls[x].size <= LargestSize
      BY <2>2, CheckedCalls, LargestIsLargest
    <2> QED
      BY <1>1, <2>1, <2>3, CheckedCalls
  <1>3. size \in Nat
    BY StatsAssumption
  <1>4. Checked(more) = S \cup {c}
    <2>1. [pc |-> "put", size |-> size, checked |-> TRUE] # Idle
      BY DEF Idle
    <2> QED
      BY <1>1, <2>1 DEF Checked
  <1>5. PICK w : w = SizeOf(more)
    OBVIOUS
  <1>6. w[c] = size /\ w[c] \in Int
        /\ \A x \in S : w[x] \in Int /\ w[x] <= LargestSize
    <2>1. w[c] = size
      BY <1>5 DEF SizeOf
    <2>2. \A x \in S : w[x] = calls[x].size
      BY <1>2, <1>5 DEF SizeOf
    <2> QED
      BY <1>2, <1>3, <2>1, <2>2
  <1>7. Sum(w, S \cup {c}) = size + Sum(w, S)
    BY <1>2, <1>6, SumMore
  <1>8. Sum(w, S) <= Cardinality(S) * LargestSize /\ Sum(w, S) \in Int
    BY <1>2, <1>6, LargestIsLargest, SumIsBounded, SumIsInt
  <1>9. PICK n \in Nat : n = Cardinality(C) - 1 /\ Cardinality(S) <= n
                        /\ Cardinality(S) \in Nat
    <2>1. S \in SUBSET (C \ {c}) /\ IsFiniteSet(C \ {c})
          /\ Cardinality(C \ {c}) = Cardinality(C) - 1
      BY <1>2, FS_RemoveElement
    <2>2. Cardinality(S) <= Cardinality(C \ {c}) /\ Cardinality(C \ {c}) \in Nat
          /\ Cardinality(S) \in Nat
      BY <1>2, <2>1, FS_Subset, FS_CardinalityType
    <2> QED
      BY <2>1, <2>2
  <1>10. Cardinality(S) * LargestSize <= n * LargestSize
    BY <1>9, LargestIsLargest, MoreTimes
  <1>11. n * LargestSize \in Int /\ Cardinality(S) * LargestSize \in Int
    BY <1>9, LargestIsLargest
  <1>12. Sum(w, S \cup {c}) <= size + n * LargestSize /\ Sum(w, S \cup {c}) \in Int
    BY <1>3, <1>7, <1>8, <1>10, <1>11
  <1>13. Sum(Bytes, Counting(rows)) + size <= Quota
         /\ Sum(Bytes, Counting(rows)) \in Int
    <2>1. Quota \in Int
      BY StatsAssumption
    <2> QED
      BY <1>3, <2>1, CountingRows
  <1>14. Load(rows, more) = Sum(Bytes, Counting(rows)) + Sum(w, S \cup {c})
    BY <1>4, <1>5 DEF Load
  <1>15. Bound(C) = Quota + n * LargestSize /\ Quota \in Int
    BY <1>9, StatsAssumption DEF Bound
  <1> QED
    BY <1>3, <1>11, <1>12, <1>13, <1>14, <1>15

\* One that was not makes the load no larger.
LEMMA LoadOfUnchecked ==
  ASSUME NEW C, IsFiniteSet(C), NEW calls \in [C -> Put \cup {Idle}],
         NEW rows \in SUBSET Row, IsFiniteSet(rows),
         NEW c \in C, calls[c] = Idle, NEW call, ~call.checked,
         NEW more, more = [calls EXCEPT ![c] = call]
  PROVE  Load(rows, more) <= Load(rows, calls)
  <1>1. PICK S : S = Checked(calls)
    OBVIOUS
  <1>2. Checked(more) = S
    BY <1>1 DEF Checked
  <1>3. \A x \in S : SizeOf(more)[x] = SizeOf(calls)[x]
    BY <1>1 DEF SizeOf, Checked
  <1>4. IsFiniteSet(S)
    BY <1>1, CheckedCalls
  <1>5. Sum(SizeOf(more), S) = Sum(SizeOf(calls), S)
    BY <1>3, <1>4, SumSame
  <1>6. Sum(Bytes, Counting(rows)) \in Int /\ Sum(SizeOf(calls), S) \in Int
    BY <1>1, CountingRows, CheckedCalls
  <1> QED
    BY <1>1, <1>2, <1>5, <1>6 DEF Load

\* What the sizes of the uploads under way come to when one of them ends.
LEMMA OneLess ==
  ASSUME NEW C, IsFiniteSet(C), NEW calls \in [C -> Put \cup {Idle}],
         NEW c \in C, calls[c] # Idle,
         NEW less, less = [calls EXCEPT ![c] = Idle]
  PROVE  Sum(SizeOf(calls), Checked(calls))
           = (IF calls[c].checked THEN calls[c].size ELSE 0)
               + Sum(SizeOf(less), Checked(less))
         /\ Sum(SizeOf(less), Checked(less)) \in Int
  <1>1. PICK S : S = Checked(calls)
    OBVIOUS
  <1>2. PICK w : w = SizeOf(calls)
    OBVIOUS
  <1>3. IsFiniteSet(S) /\ IsFiniteSet(S \ {c}) /\ \A x \in S : w[x] \in Int
    BY <1>1, <1>2, CheckedCalls, FS_RemoveElement
  <1>4. Checked(less) = S \ {c}
    BY <1>1 DEF Checked
  <1>5. \A x \in S \ {c} : SizeOf(less)[x] = w[x]
    BY <1>1, <1>2 DEF SizeOf, Checked
  <1>6. Sum(SizeOf(less), S \ {c}) = Sum(w, S \ {c})
    BY <1>3, <1>5, SumSame
  <1>7. Sum(w, S \ {c}) \in Int
    BY <1>3, SumIsInt
  <1>8. CASE calls[c].checked
    <2>1. c \in S /\ w[c] = calls[c].size
      BY <1>1, <1>2, <1>8 DEF Checked, SizeOf
    <2>2. Sum(w, S) = w[c] + Sum(w, S \ {c})
      BY <1>3, <2>1, SumLess
    <2> QED
      BY <1>1, <1>2, <1>4, <1>6, <1>7, <1>8, <2>1, <2>2
  <1>9. CASE ~calls[c].checked
    <2>1. S \ {c} = S
      BY <1>1, <1>9 DEF Checked
    <2>2. Sum(SizeOf(less), Checked(less)) = Sum(w, S) /\ Sum(w, S) \in Int
      BY <1>4, <1>6, <1>7, <2>1
    <2> QED
      BY <1>1, <1>2, <1>9, <2>2
  <1> QED
    BY <1>8, <1>9

\* Rows that come to a table, and are negative or not the daemon's own checked
\* ones, make the load no larger.
LEMMA LoadOfRows ==
  ASSUME NEW rows \in SUBSET Row, NEW more \in SUBSET Row,
         IsFiniteSet(more), rows \subseteq more,
         \A r \in more \ rows : r.bytes < 0 \/ ~(r.file = Own /\ r.checked)
  PROVE  Sum(Bytes, Counting(more)) <= Sum(Bytes, Counting(rows))
  <1>1. Counting(rows) \in SUBSET Counting(more)
    BY DEF Counting
  <1>2. /\ IsFiniteSet(Counting(more))
        /\ \A r \in Counting(more) : Bytes[r] \in Int /\ Bytes[r] = r.bytes
    BY CountingRows
  <1>3. \A r \in Counting(more) \ Counting(rows) : Bytes[r] <= 0
    BY <1>2 DEF Counting
  <1> QED
    BY <1>1, <1>2, <1>3, SumOfRest

\* An upload that ends goes from the calls to the rows.
LEMMA LoadOfEnd ==
  ASSUME NEW C, IsFiniteSet(C), NEW calls \in [C -> Put \cup {Idle}],
         NEW rows \in SUBSET Row, IsFiniteSet(rows),
         NEW c \in C, calls[c] # Idle,
         NEW less, less = [calls EXCEPT ![c] = Idle],
         NEW r \in Row, r \notin rows, r.file = Own, r.bytes = calls[c].size,
         r.checked <=> calls[c].checked
  PROVE  Load(rows \cup {r}, less) <= Load(rows, calls)
  <1>1. calls[c].size \in Nat \ {0} /\ calls[c].checked \in BOOLEAN
    BY CheckedCalls, StatsAssumption
  <1>2. PICK S : S = Counting(rows)
    OBVIOUS
  <1>3. IsFiniteSet(S) /\ r \notin S /\ Sum(Bytes, S) \in Int
        /\ \A x \in S : Bytes[x] \in Int
    BY <1>2, CountingRows
  <1>4. Bytes[r] = calls[c].size
    BY DEF Bytes
  <1>5. Sum(Bytes, Counting(rows \cup {r}))
          = (IF calls[c].checked THEN calls[c].size ELSE 0) + Sum(Bytes, S)
    <2>1. CASE calls[c].checked
      <3>1. Counting(rows \cup {r}) = S \cup {r}
        BY <1>2, <2>1 DEF Counting
      <3>2. PICK w : w = Bytes
        OBVIOUS
      <3>3. Sum(w, S \cup {r}) = w[r] + Sum(w, S)
        <4>1. w[r] \in Int /\ \A x \in S : w[x] \in Int
          BY <1>1, <1>3, <1>4, <3>2
        <4> QED
          BY <1>3, <4>1, SumMore
      <3> QED
        BY <1>4, <2>1, <3>1, <3>2, <3>3
    <2>2. CASE ~calls[c].checked
      <3>1. Counting(rows \cup {r}) = S
        BY <1>1, <1>2, <2>2 DEF Counting
      <3> QED
        BY <1>3, <2>2, <3>1
    <2> QED
      BY <2>1, <2>2
  <1>6. PICK b : b = IF calls[c].checked THEN calls[c].size ELSE 0
    OBVIOUS
  <1>7. b \in Int
    BY <1>1, <1>6
  <1>8. Sum(SizeOf(calls), Checked(calls)) = b + Sum(SizeOf(less), Checked(less))
        /\ Sum(SizeOf(less), Checked(less)) \in Int
    BY <1>6, OneLess
  <1> QED
    BY <1>2, <1>3, <1>5, <1>6, <1>7, <1>8 DEF Load

LEMMA LoadIsInt ==
  ASSUME NEW C, IsFiniteSet(C), NEW calls \in [C -> Put \cup {Idle}],
         NEW rows \in SUBSET Row, IsFiniteSet(rows)
  PROVE  Load(rows, calls) \in Int
  BY CountingRows, CheckedCalls DEF Load

\* A daemon that stops has no upload under way.
LEMMA LoadOfStopped ==
  ASSUME NEW C, IsFiniteSet(C), NEW calls \in [C -> Put \cup {Idle}],
         NEW rows \in SUBSET Row, IsFiniteSet(rows),
         NEW none, none = [c \in C |-> Idle]
  PROVE  Load(rows, none) <= Load(rows, calls) /\ Load({}, none) = 0
  <1>1. Checked(none) = {}
    BY DEF Checked
  <1>2. Sum(SizeOf(none), Checked(none)) = 0
    BY <1>1, SumOfNone
  <1>3. Sum(SizeOf(calls), Checked(calls)) \in Int
        /\ 0 <= Sum(SizeOf(calls), Checked(calls))
    BY CheckedCalls
  <1>4. Sum(Bytes, Counting(rows)) \in Int
    BY CountingRows
  <1>5. Counting({}) = {} /\ Sum(Bytes, {}) = 0
    BY SumOfNone DEF Counting
  <1> QED
    BY <1>2, <1>3, <1>4, <1>5 DEF Load

\* No daemon has admitted more than its bound.
LoadInv == \A d \in Daemon : Load(table[d], put[d]) <= Bound(Client[d])

\* There is a largest size, and every daemon has a client: with none, the bound
\* would be below the quota.
Stocked == LargestExists /\ \A d \in Daemon : Client[d] # {}

LEMMA PartsOfUsage ==
  ASSUME UsageInv, NEW d \in Daemon
  PROVE  /\ IsFiniteSet(Client[d]) /\ put[d] \in [Client[d] -> Put \cup {Idle}]
         /\ table[d] \in SUBSET Row /\ IsFiniteSet(table[d])
         /\ GoodTable(table[d], id[d])
  BY StatsAssumption DEF UsageInv, TypeOK, TableInv, GoodTable

LEMMA AddedIsNew ==
  ASSUME NEW rows \in SUBSET Row, NEW own \in Id, GoodTable(rows, own),
         NEW bytes \in Int, NEW checked \in BOOLEAN,
         NEW r, r = [file |-> Own, row |-> Cardinality(rows) + 1,
                     bytes |-> bytes, checked |-> checked,
                     by |-> <<own, Cardinality(rows) + 1>>]
  PROVE  r \in Row /\ r \notin rows
  <1>1. Cardinality(rows) \in Nat
    BY FS_CardinalityType DEF GoodTable
  <1>2. r \in Row
    BY <1>1 DEF Row
  <1>3. ASSUME r \in rows PROVE FALSE
    <2>1. r.file = Own /\ r.row = Cardinality(rows) + 1 /\ Own \notin Id
      BY StatsAssumption
    <2>2. r.row <= Cardinality(rows)
      BY <1>3, <2>1 DEF GoodTable
    <2> QED
      BY <1>1, <2>1, <2>2
  <1> QED
    BY <1>2, <1>3

\* Others keep their load, and d makes its no larger.
LEMMA LoadKept ==
  ASSUME UsageInv, LoadInv, NEW d \in Daemon,
         \A e \in Daemon \ {d} : table'[e] = table[e] /\ put'[e] = put[e],
         Load(table'[d], put'[d]) <= Bound(Client[d])
  PROVE  LoadInv'
  <1> SUFFICES ASSUME NEW e \in Daemon
               PROVE  Load(table'[e], put'[e]) <= Bound(Client[e])
    BY DEF LoadInv, Bound, LargestSize
  <1>1. CASE e = d
    BY <1>1
  <1>2. CASE e # d
    BY <1>2 DEF LoadInv
  <1> QED
    BY <1>1, <1>2

LEMMA LoadFalls ==
  ASSUME UsageInv, LoadInv, Stocked, NEW d \in Daemon,
         \A e \in Daemon \ {d} : table'[e] = table[e] /\ put'[e] = put[e],
         NEW rows \in SUBSET Row, IsFiniteSet(rows), table'[d] = rows,
         NEW calls \in [Client[d] -> Put \cup {Idle}], put'[d] = calls,
         Load(rows, calls) <= Load(table[d], put[d])
  PROVE  LoadInv'
  <1>1. PICK b : b = Bound(Client[d])
    OBVIOUS
  <1>2. b \in Int
    BY <1>1, PartsOfUsage, BoundIsEnough DEF Stocked
  <1>3. PICK n : n = Load(rows, calls)
    OBVIOUS
  <1>4. PICK m : m = Load(table[d], put[d])
    OBVIOUS
  <1>5. n \in Int /\ m \in Int
    BY <1>3, <1>4, PartsOfUsage, LoadIsInt
  <1>6. n <= m /\ m <= b
    BY <1>1, <1>3, <1>4 DEF LoadInv
  <1>7. n <= b
    BY <1>2, <1>5, <1>6
  <1> QED
    BY <1>1, <1>3, <1>7, LoadKept

LEMMA LoadPutStart ==
  ASSUME UsageInv, LoadInv, Stocked, NEW d \in Daemon, NEW c \in Client[d],
         NEW size \in Sizes, NEW checked \in BOOLEAN,
         PutStart(d, c, size, checked)
  PROVE  LoadInv'
  <1>1. PICK C : C = Client[d]
    OBVIOUS
  <1>2. PICK calls : calls = put[d]
    OBVIOUS
  <1>3. PICK rows : rows = table[d]
    OBVIOUS
  <1>4. IsFiniteSet(C) /\ calls \in [C -> Put \cup {Idle}]
        /\ rows \in SUBSET Row /\ IsFiniteSet(rows)
        /\ c \in C /\ calls[c] = Idle
    BY <1>1, <1>2, <1>3, PartsOfUsage DEF PutStart
  <1>5. table' = table
        /\ \A e \in Daemon \ {d} : put'[e] = put[e]
    BY DEF PutStart, UsageInv, TypeOK
  <1>6. CASE checked = FALSE
    <2>1. PICK call : call = [pc |-> "put", size |-> size, checked |-> FALSE]
      OBVIOUS
    <2>2. PICK more : more = [calls EXCEPT ![c] = call]
      OBVIOUS
    <2>3. put'[d] = more
      BY <1>2, <1>6, <2>1, <2>2 DEF PutStart, UsageInv, TypeOK
    <2>4. ~call.checked
      BY <2>1
    <2>5. Load(rows, more) <= Load(rows, calls)
      BY <1>4, <2>2, <2>4, LoadOfUnchecked
    <2>6. more \in [C -> Put \cup {Idle}]
      BY <1>4, <1>6, <2>1, <2>2 DEF Put
    <2> QED
      BY <1>1, <1>2, <1>3, <1>4, <1>5, <2>3, <2>5, <2>6, LoadFalls
  <1>7. CASE checked = TRUE
    <2>1. put'[d] = [calls EXCEPT ![c] = [pc |-> "put", size |-> size,
                                          checked |-> TRUE]]
      BY <1>2, <1>7 DEF PutStart, UsageInv, TypeOK
    <2>2. BytesOf(rows) + size <= Quota
      BY <1>3, <1>7 DEF PutStart, Check, TotalUsage
    <2>3. Sum(Bytes, rows) + size <= Quota
      BY <1>4, <2>2, BytesAreSum
    <2>4. Load(rows, put'[d]) <= Bound(C)
      BY <1>4, <2>1, <2>3, LoadOfChecked DEF Stocked
    <2> QED
      BY <1>1, <1>3, <1>5, <2>4, LoadKept
  <1> QED
    BY <1>6, <1>7

LEMMA LoadPutEnd ==
  ASSUME UsageInv, LoadInv, Stocked, NEW d \in Daemon, NEW c \in Client[d],
         PutEnd(d, c) \/ PutFails(d, c)
  PROVE  LoadInv'
  <1>1. PICK C : C = Client[d]
    OBVIOUS
  <1>2. PICK calls : calls = put[d]
    OBVIOUS
  <1>3. PICK rows : rows = table[d]
    OBVIOUS
  <1>4. IsFiniteSet(C) /\ calls \in [C -> Put \cup {Idle}]
        /\ rows \in SUBSET Row /\ IsFiniteSet(rows) /\ GoodTable(rows, id[d])
        /\ c \in C /\ calls[c] # Idle
    BY <1>1, <1>2, <1>3, PartsOfUsage DEF PutEnd, PutFails
  <1>5. PICK less : less = [calls EXCEPT ![c] = Idle]
    OBVIOUS
  <1>6. put'[d] = less /\ \A e \in Daemon \ {d} : put'[e] = put[e]
    BY <1>2, <1>5 DEF PutEnd, PutFails, UsageInv, TypeOK
  <1>7. /\ calls[c].size \in Nat /\ calls[c].size \in Int
        /\ calls[c].checked \in BOOLEAN
    <2>1. calls[c].size \in Sizes /\ calls[c].checked \in BOOLEAN
      BY <1>4, CheckedCalls
    <2>2. Sizes \subseteq Nat
      BY StatsAssumption
    <2>3. PICK size \in Sizes : size = calls[c].size
      BY <2>1
    <2>4. size \in Nat /\ size \in Int
      BY <2>2
    <2> QED
      BY <2>1, <2>3, <2>4
  <1>8. CASE PutEnd(d, c)
    <2>1. PICK r : r = [file |-> Own, row |-> Cardinality(rows) + 1,
                        bytes |-> calls[c].size, checked |-> calls[c].checked,
                        by |-> <<id[d], Cardinality(rows) + 1>>]
      OBVIOUS
    <2>2. table'[d] = rows \cup {r}
          /\ \A e \in Daemon \ {d} : table'[e] = table[e]
      BY <1>2, <1>3, <1>8, <2>1 DEF PutEnd, AddDelta, UsageInv, TypeOK
    <2>3. r \in Row /\ r \notin rows
      <3>1. PICK own \in Id : own = id[d]
        BY DEF UsageInv, TypeOK
      <3>2. PICK bytes \in Int, checked \in BOOLEAN :
               bytes = calls[c].size /\ checked = calls[c].checked
        BY <1>7
      <3>3. r = [file |-> Own, row |-> Cardinality(rows) + 1,
                 bytes |-> bytes, checked |-> checked,
                 by |-> <<own, Cardinality(rows) + 1>>]
        BY <2>1, <3>1, <3>2
      <3> QED
        BY <1>4, <3>1, <3>3, AddedIsNew
    <2>4. r.file = Own /\ r.bytes = calls[c].size /\ (r.checked <=> calls[c].checked)
      BY <2>1
    <2>5. Load(rows \cup {r}, less) <= Load(rows, calls)
      BY <1>4, <1>5, <2>3, <2>4, LoadOfEnd
    <2>6. PICK more : more = rows \cup {r}
      OBVIOUS
    <2>7. more \in SUBSET Row /\ IsFiniteSet(more) /\ less \in [C -> Put \cup {Idle}]
      BY <1>4, <1>5, <2>3, <2>6, FS_AddElement
    <2> QED
      BY <1>1, <1>2, <1>3, <1>6, <2>2, <2>5, <2>6, <2>7, LoadFalls
  <1>9. CASE PutFails(d, c)
    <2>1. table' = table
      BY <1>9 DEF PutFails
    <2>2. Load(rows, less) <= Load(rows, calls)
      <3>1. PICK b : b = IF calls[c].checked THEN calls[c].size ELSE 0
        OBVIOUS
      <3>2. b \in Nat
        BY <1>7, <3>1
      <3>3. Sum(SizeOf(calls), Checked(calls)) = b + Sum(SizeOf(less), Checked(less))
            /\ Sum(SizeOf(less), Checked(less)) \in Int
        BY <1>4, <1>5, <3>1, OneLess
      <3>4. Sum(Bytes, Counting(rows)) \in Int
        BY <1>4, CountingRows
      <3> QED
        BY <3>2, <3>3, <3>4 DEF Load
    <2>3. less \in [C -> Put \cup {Idle}]
      BY <1>4, <1>5
    <2> QED
      BY <1>1, <1>2, <1>3, <1>4, <1>6, <2>1, <2>2, <2>3, LoadFalls
  <1> QED
    BY <1>8, <1>9

LEMMA LoadDelete ==
  ASSUME UsageInv, LoadInv, Stocked, NEW d \in Daemon, NEW size \in Sizes,
         Delete(d, size)
  PROVE  LoadInv'
  <1>1. PICK rows : rows = table[d]
    OBVIOUS
  <1>2. PICK calls : calls = put[d]
    OBVIOUS
  <1>3. PICK r : r = [file |-> Own, row |-> Cardinality(rows) + 1,
                      bytes |-> -size, checked |-> FALSE,
                      by |-> <<id[d], Cardinality(rows) + 1>>]
    OBVIOUS
  <1>4. rows \in SUBSET Row /\ IsFiniteSet(rows) /\ GoodTable(rows, id[d])
        /\ IsFiniteSet(Client[d]) /\ calls \in [Client[d] -> Put \cup {Idle}]
    BY <1>1, <1>2, PartsOfUsage
  <1>5. put' = put /\ table'[d] = rows \cup {r}
        /\ \A e \in Daemon \ {d} : table'[e] = table[e]
    BY <1>1, <1>3 DEF Delete, AddDelta, UsageInv, TypeOK
  <1>6. r \in Row /\ r.bytes < 0 /\ IsFiniteSet(rows \cup {r})
    <2>1. size \in Nat \ {0} /\ -size \in Int /\ -size < 0
      BY StatsAssumption
    <2>2. r \in Row
      <3>1. PICK own \in Id : own = id[d]
        BY DEF UsageInv, TypeOK
      <3>2. Cardinality(rows) + 1 \in Nat
        BY <1>4, FS_CardinalityType
      <3> QED
        BY <1>3, <2>1, <3>1, <3>2 DEF Row
    <2> QED
      BY <1>3, <1>4, <2>1, <2>2, FS_AddElement
  <1>7. PICK more : more = rows \cup {r}
    OBVIOUS
  <1>8. more \in SUBSET Row /\ IsFiniteSet(more) /\ rows \subseteq more
        /\ \A x \in more \ rows : x.bytes < 0
    BY <1>4, <1>6, <1>7
  <1>9. Sum(Bytes, Counting(more)) <= Sum(Bytes, Counting(rows))
    BY <1>8, LoadOfRows
  <1>10. Load(more, calls) <= Load(rows, calls)
    BY <1>4, <1>8, <1>9, CountingRows, CheckedCalls DEF Load
  <1> QED
    BY <1>1, <1>2, <1>4, <1>5, <1>7, <1>8, <1>10, LoadFalls

LEMMA LoadMerge ==
  ASSUME UsageInv, LoadInv, Stocked, NEW d \in Daemon, NEW i \in Id, Merge(d, i)
  PROVE  LoadInv'
  <1>1. PICK rows : rows = table[d]
    OBVIOUS
  <1>2. PICK calls : calls = put[d]
    OBVIOUS
  <1>3. PICK more : more = table'[d]
    OBVIOUS
  <1>4. rows \in SUBSET Row /\ IsFiniteSet(Client[d]) /\ IsFiniteSet(rows)
        /\ calls \in [Client[d] -> Put \cup {Idle}]
    BY <1>1, <1>2, PartsOfUsage
  <1>5. put' = put /\ \A e \in Daemon \ {d} : table'[e] = table[e]
    BY DEF Merge, UsageInv, TypeOK
  <1>6. rows \subseteq more /\ \A x \in more \ rows : x.file = i
    <2>1. more = rows \cup {r \in Merged(i, remote[i]) :
                            \A s \in rows : s.file = i => s.row # r.row}
      BY <1>1, <1>3 DEF Merge, UsageInv, TypeOK
    <2>2. \A x \in Merged(i, remote[i]) : x.file = i
      <3>1. remote[i] \in SUBSET Row
        BY DEF Merge, UsageInv, TypeOK, PassInv
      <3> QED
        BY <3>1 DEF Merged, Row
    <2> QED
      BY <2>1, <2>2
  <1>7. more \in SUBSET Row /\ IsFiniteSet(more)
    <2>1. UsageInv'
      BY MergeInv
    <2> QED
      BY <1>3, <2>1 DEF UsageInv, TypeOK, TableInv, GoodTable
  <1>8. i # Own
    BY StatsAssumption
  <1>9. Sum(Bytes, Counting(more)) <= Sum(Bytes, Counting(rows))
    BY <1>4, <1>6, <1>7, <1>8, LoadOfRows
  <1>10. Load(more, calls) <= Load(rows, calls)
    BY <1>4, <1>7, <1>9, CountingRows, CheckedCalls DEF Load
  <1> QED
    BY <1>1, <1>2, <1>3, <1>4, <1>5, <1>7, <1>10, LoadFalls

LEMMA LoadStop ==
  ASSUME UsageInv, LoadInv, Stocked, NEW d \in Daemon,
         Restart(d) \/ \E i \in Id : RestartFresh(d, i)
  PROVE  LoadInv'
  <1>1. PICK rows : rows = table[d]
    OBVIOUS
  <1>2. PICK none : none = [c \in Client[d] |-> Idle]
    OBVIOUS
  <1>3. rows \in SUBSET Row /\ IsFiniteSet(Client[d]) /\ IsFiniteSet(rows)
        /\ put[d] \in [Client[d] -> Put \cup {Idle}]
        /\ none \in [Client[d] -> Put \cup {Idle}]
    BY <1>1, <1>2, PartsOfUsage
  <1>4. put'[d] = none /\ \A e \in Daemon \ {d} : put'[e] = put[e]
    BY <1>2 DEF Restart, RestartFresh, Stop, UsageInv, TypeOK
  <1>5. Load(rows, none) <= Load(rows, put[d]) /\ Load({}, none) = 0
    BY <1>2, <1>3, LoadOfStopped
  <1>6. CASE Restart(d)
    <2>1. table' = table
      BY <1>6 DEF Restart
    <2> QED
      BY <1>1, <1>3, <1>4, <1>5, <2>1, LoadFalls
  <1>7. CASE \E i \in Id : RestartFresh(d, i)
    <2>1. table'[d] = {} /\ \A e \in Daemon \ {d} : table'[e] = table[e]
      BY <1>7 DEF RestartFresh, UsageInv, TypeOK
    <2>2. 0 <= Bound(Client[d])
      BY <1>3, BoundIsEnough DEF Stocked
    <2> QED
      BY <1>4, <1>5, <2>1, <2>2, LoadKept
  <1> QED
    BY <1>6, <1>7

LEMMA LoadInvNext == Stocked /\ UsageInv /\ LoadInv /\ [Next]_vars => LoadInv'
  <1> SUFFICES ASSUME Stocked, UsageInv, LoadInv, [Next]_vars PROVE LoadInv'
    OBVIOUS
  <1>1. ASSUME UNCHANGED <<table, put>> PROVE LoadInv'
    BY <1>1 DEF LoadInv, Bound, LargestSize
  <1>2. ASSUME NEW d \in Daemon, FlushStep(d) PROVE LoadInv'
    BY <1>1, <1>2 DEF FlushStep, FlushCopy, FlushUpload, FlushFails
  <1>3. ASSUME NEW d \in Daemon, SyncList(d) \/ MergeFails(d) PROVE LoadInv'
    BY <1>1, <1>3 DEF SyncList, MergeFails
  <1>4. ASSUME NEW d \in Daemon, SyncStep(d) PROVE LoadInv'
    BY <1>3, <1>4, LoadMerge DEF SyncStep
  <1>5. ASSUME NEW d \in Daemon, RequestStep(d) PROVE LoadInv'
    BY <1>5, LoadPutStart, LoadPutEnd, LoadDelete DEF RequestStep
  <1>6. ASSUME UNCHANGED vars PROVE LoadInv'
    BY <1>1, <1>6 DEF vars
  <1>7. ASSUME FlushStructure \/ \E d \in Daemon : Refuse(d) \/ Accept(d)
        PROVE  LoadInv'
    BY <1>1, <1>7 DEF FlushStructure, Refuse, Accept
  <1> QED
    BY <1>2, <1>4, <1>5, <1>6, <1>7, LoadStop DEF Next

\* A daemon admits at most one upload for each of its other clients beyond the
\* quota, for any number of clients, daemons, sizes, restarts and merges: an
\* upload is let through only if it fits beside all that is in the table
\* (Check, quota.go:47), and the table lacks at most one upload of every other
\* client.  Rows that are merged or negative never make what was admitted more.
THEOREM OvershootIsBounded ==
  ASSUME Stocked PROVE Spec => []OvershootBounded
  <1>1. Init => LoadInv
    <2> SUFFICES ASSUME Init, NEW d \in Daemon
                 PROVE  Load(table[d], put[d]) <= Bound(Client[d])
      BY DEF LoadInv
    <2>1. table[d] = {} /\ put[d] = [c \in Client[d] |-> Idle]
          /\ IsFiniteSet(Client[d]) /\ Client[d] # {}
      BY StatsAssumption DEF Init, Stocked
    <2>2. PICK none : none = [c \in Client[d] |-> Idle]
      OBVIOUS
    <2>3. none \in [Client[d] -> Put \cup {Idle}]
          /\ {} \in SUBSET Row /\ IsFiniteSet({})
      BY <2>2, FS_EmptySet
    <2>4. Load({}, none) = 0
      BY <2>1, <2>2, <2>3, LoadOfStopped
    <2>5. 0 <= Bound(Client[d])
      BY <2>1, BoundIsEnough DEF Stocked
    <2> QED
      BY <2>1, <2>2, <2>4, <2>5
  <1>2. UsageInv /\ LoadInv => OvershootBounded
    <2> SUFFICES ASSUME UsageInv, LoadInv, NEW d \in Daemon
                 PROVE  Admitted(d) <= Bound(Client[d])
      BY DEF OvershootBounded, Bound
    <2>1. Counting(table[d]) \in SUBSET Row /\ IsFiniteSet(Counting(table[d]))
      BY PartsOfUsage, CountingRows
    <2>2. BytesOf(Counting(table[d])) = Sum(Bytes, Counting(table[d]))
      BY <2>1, BytesAreSum
    <2>3. MapThenSumSet(LAMBDA c : put[d][c].size, InFlight(d))
            = Sum(SizeOf(put[d]), Checked(put[d]))
      BY PartsOfUsage, InFlightAreSum
    <2>4. Admitted(d) = Load(table[d], put[d])
      BY <2>2, <2>3 DEF Admitted, Load, Counting
    <2> QED
      BY <2>4 DEF LoadInv
  <1>3. Stocked /\ UsageInv /\ LoadInv /\ [Next]_vars => LoadInv'
    BY LoadInvNext
  <1> QED
    BY <1>1, <1>2, <1>3, InvHolds, PTL DEF Spec

=============================================================================
