------------------------------- MODULE Stats --------------------------------
(***************************************************************************)
(* Usage and quota, internal/meta/stats.go and internal/quota/quota.go:    *)
(* every change of a bucket adds a row to the local table of its daemon, a *)
(* timer uploads the daemon's own rows, and a sync merges the rows of the  *)
(* other daemons (syncStatsDBs of internal/sync/sync.go).  Statistics are  *)
(* the last part of a sync, which it does not reach if an earlier one      *)
(* fails.  The quota check of a request sums up the local table.           *)
(*                                                                         *)
(* One WebDAV location is modelled, the one all daemons share.  Uploads    *)
(* replace the remote file as a whole (RetryUpload).                       *)
(***************************************************************************)
EXTENDS Integers, FiniteSets, FiniteSetsExt

CONSTANTS
    Daemon,       \* places where a daemon runs
    Client,       \* Client[d]: request goroutines of daemon d
    Id,           \* daemon ids, which name the remote files
    FirstId,      \* FirstId[d]: the id of daemon d at first
    Own,          \* the source file of a row that was not merged
    NoFile,       \* no remote file
    Sizes,        \* the sizes of objects
    Quota,        \* bytes the location may hold
    MaxFaults,    \* bound: failing uploads, downloads and earlier merges
    MaxRestarts,  \* bound: restarts of daemons
    MaxOps        \* bound: uploads and deletions of objects

ASSUME StatsAssumption ==
    /\ IsFiniteSet(Daemon)
    /\ \A d \in Daemon : IsFiniteSet(Client[d])
    /\ FirstId \in [Daemon -> Id]
    /\ \A d, e \in Daemon : FirstId[d] = FirstId[e] => d = e
    /\ Own \notin Id
    /\ Sizes \subseteq Nat \ {0}
    /\ Quota \in Nat \ {0}
    /\ MaxFaults \in Nat /\ MaxRestarts \in Nat /\ MaxOps \in Nat

VARIABLES
    id,           \* id[d]: what daemon.id of d says
    table,        \* table[d]: usage_delta in stats.db of d
    remote,       \* remote[i]: {base}_meta/stats-{i}.db
    put,          \* put[d][c]: the upload of an object client c of d makes
    flush,        \* flush[d]: the copy of its rows d uploads
    pass,         \* pass[d]: the remote files d has still to merge
    stored,       \* bytes of the objects stored
    structure,    \* whether structure.db is on the server
    refused,      \* daemons whose syncs fail before they come to statistics
    faults,       \* faults so far (model bound)
    restarts,     \* restarts so far (model bound)
    ops           \* uploads and deletions so far (model bound)

vars == <<id, table, remote, put, flush, pass, stored, structure, refused,
          faults, restarts, ops>>

Idle == [pc |-> "idle"]

\* A row: where it was merged from and its number there, or its own number.
\* By tells who made it, for the properties.
Row == [file : Id \cup {Own}, row : Nat, bytes : Int, checked : BOOLEAN,
        by : Id \X Nat]

Put == [pc : {"put"}, size : Sizes, checked : BOOLEAN]

TypeOK ==
    /\ id \in [Daemon -> Id]
    /\ table \in [Daemon -> SUBSET Row]
    /\ remote \in [Id -> {NoFile} \cup SUBSET Row]
    /\ DOMAIN put = Daemon
    /\ \A d \in Daemon : put[d] \in [Client[d] -> Put \cup {Idle}]
    /\ flush \in [Daemon -> {NoFile} \cup SUBSET Row]
    /\ pass \in [Daemon -> SUBSET Id]
    /\ stored \in Nat
    /\ structure \in BOOLEAN
    /\ refused \in SUBSET Daemon
    /\ faults \in 0..MaxFaults
    /\ restarts \in 0..MaxRestarts
    /\ ops \in 0..MaxOps

Init ==
    /\ id = FirstId
    /\ table = [d \in Daemon |-> {}]
    /\ remote = [i \in Id |-> NoFile]
    /\ put = [d \in Daemon |-> [c \in Client[d] |-> Idle]]
    /\ flush = [d \in Daemon |-> NoFile]
    /\ pass = [d \in Daemon |-> {}]
    /\ stored = 0
    /\ structure = FALSE /\ refused = {}
    /\ faults = 0 /\ restarts = 0 /\ ops = 0

-----------------------------------------------------------------------------
(***************************************************************************)
(* Requests                                                                *)
(***************************************************************************)

Fault == faults < MaxFaults /\ faults' = faults + 1

Operation == ops < MaxOps /\ ops' = ops + 1

BytesOf(rows) == MapThenSumSet(LAMBDA r : r.bytes, rows)

TotalUsage(d) == BytesOf(table[d])

\* A row is added; its number is higher than those of all rows before it.
AddDelta(d, bytes, checked) ==
    LET n == Cardinality(table[d]) + 1
    IN  table' = [table EXCEPT ![d] = @ \cup
                    {[file |-> Own, row |-> n, bytes |-> bytes,
                      checked |-> checked, by |-> <<id[d], n>>]}]

\* Wrong variant: the quota is checked without the size of the upload.
CheckUsedOnly(d, size) == TotalUsage(d) <= Quota

Check(d, size) == TotalUsage(d) + size <= Quota

\* The quota is checked for an upload that tells its length, and the object
\* written.  The web interface and uploads in chunks do not tell it.
PutStart(d, c, size, checked) ==
    /\ put[d][c] = Idle
    /\ Operation
    /\ checked => Check(d, size)
    /\ put' = [put EXCEPT ![d][c] = [pc |-> "put", size |-> size,
                                     checked |-> checked]]
    /\ UNCHANGED <<id, table, remote, flush, pass, stored, faults, restarts,
                   structure, refused>>

\* What was written is charged at the end.
PutEnd(d, c) ==
    /\ put[d][c] # Idle
    /\ AddDelta(d, put[d][c].size, put[d][c].checked)
    /\ stored' = stored + put[d][c].size
    /\ put' = [put EXCEPT ![d][c] = Idle]
    /\ UNCHANGED <<id, remote, flush, pass, faults, restarts, ops, structure,
                   refused>>

\* It is not if the request fails, though the object may be there.
PutFails(d, c) ==
    /\ put[d][c] # Idle
    /\ Fault
    /\ stored' \in {stored, stored + put[d][c].size}
    /\ put' = [put EXCEPT ![d][c] = Idle]
    /\ UNCHANGED <<id, table, remote, flush, pass, restarts, ops, structure,
                   refused>>

\* Wrong variant: the usage is changed for an object that is not there.
DeleteMissing(d, size) ==
    /\ Operation
    /\ stored' = stored - size
    /\ AddDelta(d, -size, FALSE)
    /\ UNCHANGED <<id, remote, put, flush, pass, faults, restarts, structure,
                   refused>>

\* An object is deleted, through any daemon.
Delete(d, size) ==
    /\ Operation
    /\ size <= stored
    /\ stored' = stored - size
    /\ AddDelta(d, -size, FALSE)
    /\ UNCHANGED <<id, remote, put, flush, pass, faults, restarts, structure,
                   refused>>

-----------------------------------------------------------------------------
(***************************************************************************)
(* Flush and sync                                                          *)
(***************************************************************************)

\* A copy of the table is made, and what was merged is taken out of it.
FlushCopy(d) ==
    /\ flush[d] = NoFile
    /\ flush' = [flush EXCEPT ![d] = {r \in table[d] : r.file = Own}]
    /\ UNCHANGED <<id, table, remote, put, pass, stored, faults, restarts,
                   ops, structure, refused>>

FlushUpload(d) ==
    /\ flush[d] # NoFile
    /\ remote' = [remote EXCEPT ![id[d]] = flush[d]]
    /\ flush' = [flush EXCEPT ![d] = NoFile]
    /\ UNCHANGED <<id, table, put, pass, stored, faults, restarts, ops,
                   structure, refused>>

FlushFails(d) ==
    /\ flush[d] # NoFile
    /\ Fault
    /\ remote' \in {remote, [remote EXCEPT ![id[d]] = flush[d]]}
    /\ flush' = [flush EXCEPT ![d] = NoFile]
    /\ UNCHANGED <<id, table, put, pass, stored, restarts, ops, structure,
                   refused>>

\* The structure comes to the server with a change of a location, a user or a
\* bucket, or at a shutdown.
FlushStructure ==
    /\ ~structure
    /\ structure' = TRUE
    /\ UNCHANGED <<id, table, remote, put, flush, pass, stored, refused, faults,
                   restarts, ops>>

\* The merge of the structure or of the bucket databases comes to return an
\* error to d in every sync: a user that cannot be added, a database of a
\* bucket that cannot be repaired.
Refuse(d) ==
    /\ structure /\ d \notin refused
    /\ Fault
    /\ refused' = refused \cup {d}
    /\ UNCHANGED <<id, table, remote, put, flush, pass, stored, structure,
                   restarts, ops>>

\* What was in the way is gone.
Accept(d) ==
    /\ d \in refused
    /\ refused' = refused \ {d}
    /\ UNCHANGED <<id, table, remote, put, flush, pass, stored, structure,
                   faults, restarts, ops>>

\* A sync ends with nothing where there is no structure.db, and with an error
\* where the structure or the bucket databases cannot be merged.
ReachesStats(d) == structure /\ d \notin refused

\* Wrong variant: a sync merges the daemon's own file as well.
SyncListAll(d) ==
    /\ pass[d] = {}
    /\ ReachesStats(d)
    /\ pass' = [pass EXCEPT ![d] = {i \in Id : remote[i] # NoFile}]
    /\ UNCHANGED <<id, table, remote, put, flush, stored, faults, restarts,
                   ops, structure, refused>>

\* A sync that comes to the statistics lists their files but its own.
SyncList(d) ==
    /\ pass[d] = {}
    /\ ReachesStats(d)
    /\ pass' = [pass EXCEPT ![d] = {i \in Id : remote[i] # NoFile} \ {id[d]}]
    /\ UNCHANGED <<id, table, remote, put, flush, stored, faults, restarts,
                   ops, structure, refused>>

Merged(i, rows) == {[r EXCEPT !.file = i] : r \in rows}

\* Wrong variant: rows are known again by their number alone.
MergeByNumber(d, i) ==
    /\ i \in pass[d]
    /\ table' = [table EXCEPT ![d] = @ \cup
                   {r \in Merged(i, remote[i]) :
                       \A s \in table[d] : s.file # Own => s.row # r.row}]
    /\ pass' = [pass EXCEPT ![d] = @ \ {i}]
    /\ UNCHANGED <<id, remote, put, flush, stored, faults, restarts, ops,
                   structure, refused>>

\* One file is downloaded and its rows are inserted, unless a row with that
\* number was merged from that file before.
Merge(d, i) ==
    /\ i \in pass[d]
    /\ table' = [table EXCEPT ![d] = @ \cup
                   {r \in Merged(i, remote[i]) :
                       \A s \in table[d] : s.file = i => s.row # r.row}]
    /\ pass' = [pass EXCEPT ![d] = @ \ {i}]
    /\ UNCHANGED <<id, remote, put, flush, stored, faults, restarts, ops,
                   structure, refused>>

\* An error ends the pass.
MergeFails(d) ==
    /\ pass[d] # {}
    /\ Fault
    /\ pass' = [pass EXCEPT ![d] = {}]
    /\ UNCHANGED <<id, table, remote, put, flush, stored, restarts, ops,
                   structure, refused>>

-----------------------------------------------------------------------------
(***************************************************************************)
(* Restarts                                                                *)
(***************************************************************************)

Stop(d) ==
    /\ restarts < MaxRestarts
    /\ restarts' = restarts + 1
    /\ put' = [put EXCEPT ![d] = [c \in Client[d] |-> Idle]]
    /\ flush' = [flush EXCEPT ![d] = NoFile]
    /\ pass' = [pass EXCEPT ![d] = {}]

Restart(d) ==
    /\ Stop(d)
    /\ UNCHANGED <<id, table, remote, stored, faults, ops, structure,
                   refused>>

\* A daemon that has lost its cache directory makes itself a new id.
RestartFresh(d, i) ==
    /\ Stop(d)
    /\ i \notin {id[e] : e \in Daemon}
    /\ remote[i] = NoFile
    /\ id' = [id EXCEPT ![d] = i]
    /\ table' = [table EXCEPT ![d] = {}]
    /\ UNCHANGED <<remote, stored, faults, ops, structure, refused>>

-----------------------------------------------------------------------------

RequestStep(d) ==
    \/ \E c \in Client[d], size \in Sizes, checked \in BOOLEAN :
          PutStart(d, c, size, checked)
    \/ \E c \in Client[d] : PutEnd(d, c) \/ PutFails(d, c)
    \/ \E size \in Sizes : Delete(d, size)

FlushStep(d) == FlushCopy(d) \/ FlushUpload(d) \/ FlushFails(d)

SyncStep(d) == SyncList(d) \/ (\E i \in Id : Merge(d, i)) \/ MergeFails(d)

Next ==
    \/ FlushStructure
    \/ \E d \in Daemon :
        \/ RequestStep(d)
        \/ FlushStep(d)
        \/ SyncStep(d)
        \/ Refuse(d)
        \/ Accept(d)
        \/ Restart(d)
        \/ \E i \in Id : RestartFresh(d, i)

Spec == Init /\ [][Next]_vars

\* The timers of the flush and the sync go off again and again, but whether a
\* sync comes to the statistics is not theirs to say.
FairSpec ==
    Spec /\ \A d \in Daemon : WF_vars(FlushStep(d)) /\ WF_vars(SyncStep(d))

-----------------------------------------------------------------------------
(***************************************************************************)
(* Properties                                                              *)
(***************************************************************************)

\* "Each daemon writes to its own `stats-{daemon-id}.db` - no write conflicts
\* on stats" (README.md:341): no change is in the usage of a daemon twice,
\* whatever files it came through.
CountedOnce ==
    \A d \in Daemon : \A r, s \in table[d] : r.by = s.by => r = s

By(rows) == {r.by : r \in rows}

OwnRows(d) == {r \in table[d] : r.file = Own}

Known == UNION ({By(OwnRows(d)) : d \in Daemon}
                  \cup {By(remote[i]) : i \in {j \in Id : remote[j] # NoFile}})

\* And none is left out: when requests, faults and restarts have come to an
\* end, the usage of a daemon whose syncs come to the statistics in the end
\* (sync.go:186-209) comes to have all changes that were not lost with a cache
\* directory, those of a daemon's former ids and those of daemons whose own
\* syncs still fail too.
UsageConverges ==
    \A e \in Daemon :
        <>[]ReachesStats(e) => <>[](Known \subseteq By(table[e]))

InFlight(d) == {c \in Client[d] : put[d][c] # Idle /\ put[d][c].checked}

\* What daemon d has admitted by its quota check, less what was deleted.
Admitted(d) ==
    BytesOf({r \in table[d] : r.bytes < 0 \/ (r.file = Own /\ r.checked)})
        + MapThenSumSet(LAMBDA c : put[d][c].size, InFlight(d))

LargestSize == CHOOSE s \in Sizes : \A t \in Sizes : t <= s

\* Uploads that were checked together go beyond the quota together, but by no
\* more than one upload for every other request of the daemon.
OvershootBounded ==
    \A d \in Daemon :
        Admitted(d) <= Quota + (Cardinality(Client[d]) - 1) * LargestSize

=============================================================================
