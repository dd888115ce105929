---------------------------- MODULE ObjectStore -----------------------------
(***************************************************************************)
(* Single-part objects in one daemon: the Put and Delete requests of       *)
(* internal/object/service.go, run concurrently by request goroutines.     *)
(*                                                                         *)
(* An object is a row of its bucket's local SQLite database (records) that *)
(* names a content-addressed file on the WebDAV server (dataFile).  Every  *)
(* change of a bucket database is followed by an upload of a snapshot of   *)
(* the whole database to the server (remote), from which a daemon without  *)
(* a local cache recovers.                                                 *)
(*                                                                         *)
(* A request is a sequence of steps; between two of them any other request *)
(* may run, because the code holds no lock over a request.  One step is    *)
(* one call that other requests can observe: an upload, a transaction, a   *)
(* snapshot, a count, a deletion.                                          *)
(***************************************************************************)
EXTENDS RepairGate, Integers

CONSTANTS
    Client,       \* request goroutines
    Key,          \* object keys
    Hash,         \* contents, told apart by their SHA-256
    SizeOf,       \* SizeOf[h]: size in bytes of content h
    Location,     \* WebDAV locations, told apart by their base directory
    LocationOf,   \* LocationOf[b]: the location bucket b lives on
    NoObject,     \* a key without a row
    MaxOps        \* bound: number of requests ever admitted

Path  == Location \X Hash                       \* {base}_data/{xx}/{sha256}
Table == [Key -> Path \cup {NoObject}]          \* a bucket database

ASSUME ConstantsAssumption ==
    /\ SizeOf \in [Hash -> Nat]
    /\ LocationOf \in [Bucket -> Location]
    /\ NoObject \notin Path
    /\ Client \cap (Path \cup {NoObject}) = {}
    /\ MaxOps \in Nat

VARIABLES
    records,      \* records[b]: the local database of bucket b
    remote,       \* remote[b]: the database on the server, {base}_meta/{b}.db
    dataFile,     \* dataFile[p]: the data file at path p on the server
    usage,        \* usage[b]: what the stats database sums up for bucket b
    op,           \* op[c]: the request goroutine c is running
    started,      \* requests admitted so far (model bound)
    acked,        \* history: who wrote a row last, or what was acknowledged
    raced,        \* history: paths a Put and a Delete handled at the same time
    crossed       \* history: buckets with two snapshots in flight at once

storeVars == <<records, remote, dataFile, usage, status>>
vars == <<records, remote, dataFile, usage, status, op, started, acked,
          raced, crossed>>

Absent   == "absent"
Partial  == "partial"       \* left by an upload that failed half way
Complete == "complete"

PutSteps    == {"put_upload", "put_record", "put_snapshot", "put_sync"}
DeleteSteps == {"del_record", "del_snapshot", "del_sync", "del_count"}

Idle == [pc |-> "idle"]

Request ==
    [pc        : PutSteps \cup DeleteSteps,
     bucket    : Bucket,
     key       : Key,
     path      : Path,
     snapshot  : Table,
     unchecked : SUBSET Bucket]

EmptyTable == [k \in Key |-> NoObject]

TypeOK ==
    /\ GateTypeOK
    /\ records \in [Bucket -> Table]
    /\ remote \in [Bucket -> Table]
    /\ dataFile \in [Path -> {Absent, Partial, Complete}]
    /\ usage \in [Bucket -> [bytes : Int, objects : Int]]
    /\ op \in [Client -> Request \cup {Idle}]
    /\ started \in 0..MaxOps
    /\ acked \in [Bucket -> [Key -> Path \cup {NoObject} \cup Client]]
    /\ raced \subseteq Path
    /\ crossed \subseteq Bucket

Init ==
    /\ GateInit
    /\ records = [b \in Bucket |-> EmptyTable]
    /\ remote = [b \in Bucket |-> EmptyTable]
    /\ dataFile = [p \in Path |-> Absent]
    /\ usage = [b \in Bucket |-> [bytes |-> 0, objects |-> 0]]
    /\ op = [c \in Client |-> Idle]
    /\ started = 0
    /\ acked = [b \in Bucket |-> [k \in Key |-> NoObject]]
    /\ raced = {}
    /\ crossed = {}

-----------------------------------------------------------------------------
(***************************************************************************)
(* Helpers                                                                 *)
(***************************************************************************)

At(c, step) == op[c].pc = step

GoTo(c, step) == op' = [op EXCEPT ![c] = [op[c] EXCEPT !.pc = step]]

Return(c) == op' = [op EXCEPT ![c] = Idle]

\* Wrong variant: the path is built from the bucket instead of its location.
BucketPath(b, h) == <<b, h>>

HashPath(b, h) == <<LocationOf[b], h>>

SizeAt(p) == SizeOf[p[2]]

References(b, p) == \E k \in Key : records[b][k] = p

\* Wrong variant: the guard counts in the object's own bucket only.
OwnBucketOnly(b) == {b}

Neighbours(b) == {d \in Bucket : LocationOf[d] = LocationOf[b]}

\* Writes the row of the request of c.  What an earlier answer promised of the
\* key is withdrawn: the row is c's, which has no answer yet.
WriteRow(c, row) ==
    LET b == op[c].bucket
        k == op[c].key
    IN  /\ records' = [records EXCEPT ![b] = [records[b] EXCEPT ![k] = row]]
        /\ acked' = [acked EXCEPT ![b] = [acked[b] EXCEPT ![k] = c]]

AddDelta(b, bytes, objects) ==
    usage' = [usage EXCEPT ![b] = [bytes   |-> usage[b].bytes + bytes,
                                   objects |-> usage[b].objects + objects]]

\* The request of c has succeeded: its answer promises the row, unless another
\* request has written it since.
Acknowledge(c, row) ==
    LET b == op[c].bucket
        k == op[c].key
    IN  acked' = IF acked[b][k] = c
                 THEN [acked EXCEPT ![b] = [acked[b] EXCEPT ![k] = row]]
                 ELSE acked

-----------------------------------------------------------------------------
(***************************************************************************)
(* Put                                                                     *)
(***************************************************************************)

\* The gate lets the request in and the body is streamed to a temporary file.
PutStart(c, b, k, h) ==
    /\ op[c] = Idle
    /\ started < MaxOps
    /\ CheckWrite(b)
    /\ started' = started + 1
    /\ op' = [op EXCEPT ![c] =
                 [pc |-> "put_upload", bucket |-> b, key |-> k,
                  path |-> HashPath(b, h), snapshot |-> EmptyTable,
                  unchecked |-> {}]]
    /\ UNCHANGED <<storeVars, acked>>

\* The file is uploaded (again, if the content is already there); its size was
\* verified, so it is complete.
PutUpload(c) ==
    /\ At(c, "put_upload")
    /\ dataFile' = [dataFile EXCEPT ![op[c].path] = Complete]
    /\ GoTo(c, "put_record")
    /\ UNCHANGED <<records, remote, usage, status, started, acked>>

\* Every attempt failed: nothing arrived, or part of the file, or all of it.
PutUploadFails(c) ==
    /\ At(c, "put_upload")
    /\ \E left \in {dataFile[op[c].path], Partial, Complete} :
          dataFile' = [dataFile EXCEPT ![op[c].path] = left]
    /\ Return(c)
    /\ UNCHANGED <<records, remote, usage, status, started, acked>>

\* The row is inserted or replaced in one transaction.
PutRecord(c) ==
    /\ At(c, "put_record")
    /\ WriteRow(c, op[c].path)
    /\ GoTo(c, "put_snapshot")
    /\ UNCHANGED <<remote, dataFile, usage, status, started>>

\* The database does not open or the transaction fails: the file stays behind.
PutRecordFails(c) ==
    /\ At(c, "put_record")
    /\ Return(c)
    /\ UNCHANGED <<storeVars, started, acked>>

\* Wrong variant: what is saved is the database as it was last uploaded.
SnapshotOfUploaded(c, step, nextStep) ==
    /\ At(c, step)
    /\ op' = [op EXCEPT ![c] = [op[c] EXCEPT !.pc = nextStep,
                                       !.snapshot = remote[op[c].bucket]]]
    /\ UNCHANGED <<storeVars, started, acked>>

\* VACUUM INTO takes a consistent snapshot of the whole database.
TakeSnapshot(c, step, nextStep) ==
    /\ At(c, step)
    /\ op' = [op EXCEPT ![c] = [op[c] EXCEPT !.pc = nextStep,
                                       !.snapshot = records[op[c].bucket]]]
    /\ UNCHANGED <<storeVars, started, acked>>

PutSnapshot(c) == TakeSnapshot(c, "put_snapshot", "put_sync")

\* The snapshot replaces the remote database and the client gets its answer.
\* An object that was replaced is not taken off the usage.
PutSync(c) ==
    /\ At(c, "put_sync")
    /\ remote' = [remote EXCEPT ![op[c].bucket] = op[c].snapshot]
    /\ AddDelta(op[c].bucket, SizeAt(op[c].path), 1)
    /\ Acknowledge(c, op[c].path)
    /\ Return(c)
    /\ UNCHANGED <<records, dataFile, status, started>>

\* Wrong variant: the row is taken back, whoever has written it meanwhile.
PutSyncUndone(c) ==
    /\ op[c].pc \in {"put_snapshot", "put_sync"}
    /\ WriteRow(c, NoObject)
    /\ MarkRepairing(op[c].bucket)
    /\ Return(c)
    /\ UNCHANGED <<remote, dataFile, usage, started>>

\* The snapshot cannot be taken or uploaded.  The rename on the server may
\* have happened all the same.  The row stays, the bucket stops taking writes.
PutSyncFails(c) ==
    /\ \/ /\ At(c, "put_snapshot")
          /\ UNCHANGED remote
       \/ /\ At(c, "put_sync")
          /\ \E left \in {remote[op[c].bucket], op[c].snapshot} :
                remote' = [remote EXCEPT ![op[c].bucket] = left]
    /\ MarkRepairing(op[c].bucket)
    /\ Return(c)
    /\ UNCHANGED <<records, dataFile, usage, started, acked>>

-----------------------------------------------------------------------------
(***************************************************************************)
(* Delete                                                                  *)
(***************************************************************************)

\* The object is looked up; its path and size are used until the end.  The
\* gate is not asked.
DeleteStart(c, b, k) ==
    /\ op[c] = Idle
    /\ started < MaxOps
    /\ records[b][k] # NoObject
    /\ started' = started + 1
    /\ op' = [op EXCEPT ![c] =
                 [pc |-> "del_record", bucket |-> b, key |-> k,
                  path |-> records[b][k], snapshot |-> EmptyTable,
                  unchecked |-> {}]]
    /\ UNCHANGED <<storeVars, acked>>

\* The row is removed, whatever it holds by now.
DeleteRecord(c) ==
    /\ At(c, "del_record")
    /\ records[op[c].bucket][op[c].key] # NoObject
    /\ WriteRow(c, NoObject)
    /\ GoTo(c, "del_snapshot")
    /\ UNCHANGED <<remote, dataFile, usage, status, started>>

\* Somebody else removed the row, or the transaction fails.
DeleteRecordFails(c) ==
    /\ At(c, "del_record")
    /\ Return(c)
    /\ UNCHANGED <<storeVars, started, acked>>

DeleteSnapshot(c) == TakeSnapshot(c, "del_snapshot", "del_sync")

\* After the upload nothing makes the request fail any more.
DeleteSync(c) ==
    /\ At(c, "del_sync")
    /\ remote' = [remote EXCEPT ![op[c].bucket] = op[c].snapshot]
    /\ AddDelta(op[c].bucket, -SizeAt(op[c].path), -1)
    /\ Acknowledge(c, NoObject)
    /\ op' = [op EXCEPT ![c] = [op[c] EXCEPT !.pc = "del_count",
                                  !.unchecked = Neighbours(op[c].bucket)]]
    /\ UNCHANGED <<records, dataFile, status, started>>

\* An error is returned, but the gate is not told and the row stays removed.
DeleteSyncFails(c) ==
    /\ \/ /\ At(c, "del_snapshot")
          /\ UNCHANGED remote
       \/ /\ At(c, "del_sync")
          /\ \E left \in {remote[op[c].bucket], op[c].snapshot} :
                remote' = [remote EXCEPT ![op[c].bucket] = left]
    /\ Return(c)
    /\ UNCHANGED <<records, dataFile, usage, status, started, acked>>

\* Counts the rows of one bucket that hold the path: the bucket of the object
\* first, then the others on the location.  A reference ends the request.
DeleteCount(c) ==
    /\ At(c, "del_count")
    /\ \E b \in op[c].unchecked :
          /\ op[c].bucket \in op[c].unchecked => b = op[c].bucket
          /\ \/ /\ References(b, op[c].path)
                /\ Return(c)
             \/ /\ ~References(b, op[c].path)
                /\ op' = [op EXCEPT ![c] =
                             [op[c] EXCEPT !.unchecked = op[c].unchecked \ {b}]]
    /\ UNCHANGED <<storeVars, started, acked>>

\* No bucket referenced the path when it was counted: the file goes.
DeleteFile(c) ==
    /\ At(c, "del_count")
    /\ op[c].unchecked = {}
    /\ dataFile' = [dataFile EXCEPT ![op[c].path] = Absent]
    /\ Return(c)
    /\ UNCHANGED <<records, remote, usage, status, started, acked>>

\* A database does not open, or the server refuses: logged, not returned.
DeleteFileFails(c) ==
    /\ At(c, "del_count")
    /\ Return(c)
    /\ UNCHANGED <<storeVars, started, acked>>

-----------------------------------------------------------------------------
(***************************************************************************)
(* The daemon                                                              *)
(***************************************************************************)

\* The daemon stops and starts again on the same cache directory: databases
\* are kept, running requests and the memory of the gate are lost.
Restart ==
    /\ op' = [c \in Client |-> Idle]
    /\ status' = NewManager
    /\ UNCHANGED <<records, remote, dataFile, usage, started, acked>>

\* A Put between its upload and its row, a Delete between its first count and
\* the deletion, both of path p.
PutHolds(c, p)     == op[c].pc = "put_record" /\ op[c].path = p
DeleteChecks(c, p) == op[c].pc = "del_count" /\ op[c].path = p

Racing(p) == \E c, d \in Client : PutHolds(c, p) /\ DeleteChecks(d, p)

\* A request whose snapshot of bucket b is on its way to the server.
HoldsSnapshot(c, b) == op[c].pc \in {"put_sync", "del_sync"} /\ op[c].bucket = b

Crossing(b) ==
    \E c, d \in Client : c # d /\ HoldsSnapshot(c, b) /\ HoldsSnapshot(d, b)

\* The two history variables remember every overlap.
RecordHistory ==
    /\ raced' = raced \cup {p \in Path : Racing(p)'}
    /\ crossed' = crossed \cup {b \in Bucket : Crossing(b)'}

PutStep(c) ==
    \/ PutUpload(c)   \/ PutUploadFails(c)
    \/ PutRecord(c)   \/ PutRecordFails(c)
    \/ PutSnapshot(c)
    \/ PutSync(c)     \/ PutSyncFails(c)

DeleteStep(c) ==
    \/ DeleteRecord(c)   \/ DeleteRecordFails(c)
    \/ DeleteSnapshot(c)
    \/ DeleteSync(c)     \/ DeleteSyncFails(c)
    \/ DeleteCount(c)
    \/ DeleteFile(c)     \/ DeleteFileFails(c)

Admit(c) ==
    \E b \in Bucket, k \in Key :
        \/ \E h \in Hash : PutStart(c, b, k, h)
        \/ DeleteStart(c, b, k)

Step ==
    \/ \E c \in Client : Admit(c) \/ PutStep(c) \/ DeleteStep(c)
    \/ Restart

Next == Step /\ RecordHistory

Spec == Init /\ [][Next]_vars

-----------------------------------------------------------------------------
(***************************************************************************)
(* Properties                                                              *)
(***************************************************************************)

\* The dedup guard of Delete: a row never names a file that is gone, unless a
\* Put of that content and a Delete of it were once under way together.  The
\* counts of several buckets need no common lock for this.
NoDanglingRecord ==
    \A b \in Bucket, k \in Key :
        LET p == records[b][k]
        IN  p # NoObject /\ p \notin raced => dataFile[p] # Absent

\* What a request acknowledged is in the remote database, so that a daemon
\* without a cache recovers it, until another request touches the key: through
\* failing uploads, restarts and requests on other keys of the bucket, as long
\* as no two snapshots of the bucket were ever on their way together.
AckedIsDurable ==
    \A b \in Bucket, k \in Key :
        b \notin crossed /\ acked[b][k] \notin Client
            => /\ remote[b][k] = acked[b][k]
               /\ records[b][k] = acked[b][k]

\* "the /_data/ file is only removed when no other object in any bucket on the
\* same location still references it" (service.go:339), taken at its word: at
\* the moment a file goes, no row holds its path.
DedupGuardExact ==
    [][\A p \in Path :
          dataFile[p] # Absent /\ dataFile'[p] = Absent
              => \A b \in Bucket : ~References(b, p)]_vars

\* "a fresh daemon can recover by syncing" (README.md:10): what was
\* acknowledged is in the remote database, however requests interleave.
FreshDaemonRecovers ==
    \A b \in Bucket, k \in Key :
        acked[b][k] \notin Client => remote[b][k] = acked[b][k]

-----------------------------------------------------------------------------
(***************************************************************************)
(* Inductive strengthenings of the two invariants                          *)
(***************************************************************************)

\* A bucket only names data files of its own location.
PathsStayHome ==
    /\ \A b \in Bucket, k \in Key :
          records[b][k] # NoObject => records[b][k][1] = LocationOf[b]
    /\ \A c \in Client :
          op[c].pc # "idle" => op[c].path[1] = LocationOf[op[c].bucket]

\* Off the raced paths, the file of a Put on its way to its row is there, and
\* no bucket that a Delete has counted has gained a reference since.
DedupInv ==
    /\ PathsStayHome
    /\ NoDanglingRecord
    /\ \A p \in Path : Racing(p) => p \in raced
    /\ \A c \in Client, p \in Path :
          PutHolds(c, p) /\ p \notin raced => dataFile[p] # Absent
    /\ \A c \in Client, p \in Path :
          DeleteChecks(c, p) /\ p \notin raced =>
              \A b \in Neighbours(op[c].bucket) \ op[c].unchecked :
                  ~References(b, p)

\* The row a request leaves behind.
RowOf(c) == IF op[c].pc \in PutSteps THEN op[c].path ELSE NoObject

\* A request that wrote a row last finds it unchanged, in the database and in
\* its snapshot; a snapshot on its way holds everything acknowledged.
DurableInv ==
    /\ AckedIsDurable
    /\ \A b \in Bucket : Crossing(b) => b \in crossed
    /\ \A c \in Client :
          /\ op[c].pc \in {"put_snapshot", "put_sync", "del_snapshot", "del_sync"}
          /\ acked[op[c].bucket][op[c].key] = c
          => /\ records[op[c].bucket][op[c].key] = RowOf(c)
             /\ op[c].pc \in {"put_sync", "del_sync"}
                   => op[c].snapshot[op[c].key] = RowOf(c)
    /\ \A c \in Client, b \in Bucket, k \in Key :
          HoldsSnapshot(c, b) /\ b \notin crossed /\ acked[b][k] \notin Client
              => op[c].snapshot[k] = acked[b][k]

=============================================================================
