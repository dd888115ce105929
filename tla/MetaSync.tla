------------------------------ MODULE MetaSync ------------------------------
(***************************************************************************)
(* How the metadata databases of the buckets get lost and come back: the   *)
(* sync engine of internal/sync/sync.go and the repair gate, next to       *)
(* requests that open, change and upload the same databases.               *)
(*                                                                         *)
(* A database is the set of its rows; requests only add rows here.  Local  *)
(* databases are files of the cache directory that outlive their name: a   *)
(* file replaced by a rename is still what an open handle reads and        *)
(* writes.  Uploads by requests are atomic (RetryUpload); the sync engine  *)
(* uploads through a plain client, which can leave half a file behind.     *)
(***************************************************************************)
EXTENDS RepairGate, Integers

CONSTANTS
    Client,       \* request goroutines
    Syncer,       \* the sync timer and the buttons of the admin interface
    Row,          \* what a request can add to a database
    File,         \* local files; as many as one run of the daemon needs
    Main,         \* the main goroutine, which flushes at shutdown
    CreatedAt,    \* CreatedAt[b]: when bucket b was made
    Torn,         \* contents that SQLite does not open
    Marred,       \* contents it opens, that fail the integrity check
    NoFile,       \* no local or remote file, no open database
    Unused,       \* a local file that was never made
    MaxFaults,    \* bound: failing calls and damaged files
    MaxRestarts,  \* bound: times the daemon is started again
    MaxOps        \* bound: number of changes admitted

Rows == {rows : rows \in SUBSET Row}     \* the contents of a whole database
Openable == Rows \cup {Marred}
Broken == {Torn, Marred}
Contents == Rows \cup Broken

ASSUME SyncAssumption ==
    /\ Bucket # {}
    /\ Rows \cap {Torn, Marred, NoFile, Unused} = {}
    /\ Torn \notin {Marred, NoFile, Unused}
    /\ Marred \notin {NoFile, Unused} /\ NoFile # Unused
    /\ NoFile \notin File
    /\ CreatedAt \in [Bucket -> Nat]
    /\ \A b, c \in Bucket : CreatedAt[b] = CreatedAt[c] => b = c
    /\ Client \cap Syncer = {} /\ Main \notin Client \cup Syncer
    /\ MaxFaults \in Nat /\ MaxRestarts \in Nat /\ MaxOps \in Nat

VARIABLES
    known,        \* buckets in the local structure database
    disk,         \* disk[f]: the contents of local file f
    path,         \* path[b]: the file under bucket-{b}.db
    cached,       \* cached[b]: the file the cached database of b has open
    remote,       \* remote[b]: {base}_meta/{b}.db on the server
    op,           \* op[c]: the change goroutine c is making
    sync,         \* sync[s]: the pass sync s is making
    daemon,       \* what the main goroutine does
    faults,       \* faults so far (model bound)
    restarts,     \* restarts so far (model bound)
    started,      \* changes so far (model bound)
    acked,        \* history: acknowledged rows
    exposed,      \* history: buckets begun empty beside remote contents
    overtaken,    \* history: buckets whose local file a sync replaced
    crossed       \* history: buckets with two uploads under way at once

local == <<disk, path, cached, exposed>>
actors == <<op, sync, daemon>>
vars == <<known, local, remote, status, actors, faults, restarts, started,
          acked, overtaken, crossed>>

Idle == [pc |-> "idle"]
Running == [pc |-> "running"]
Stopped == [pc |-> "stopped"]

Change == [pc : {"record", "snapshot", "upload"}, bucket : Bucket, row : Row,
           file : File \cup {NoFile}, snap : Openable]

Pass ==
    [pc     : {"next", "check", "evict", "evicting", "replace",
               "repair_evict", "repair_evicting", "validate", "export",
               "repair_upload", "verify"},
     todo   : SUBSET Bucket,
     bucket : Bucket,
     got    : Contents,
     victim : File \cup {NoFile}]

Flush == [pc : {"flush", "flush_upload"}, todo : SUBSET Bucket,
          bucket : Bucket, snap : Openable]

TypeOK ==
    /\ GateTypeOK
    /\ known \subseteq Bucket
    /\ disk \in [File -> Contents \cup {Unused}]
    /\ path \in [Bucket -> File \cup {NoFile}]
    /\ cached \in [Bucket -> File \cup {NoFile}]
    /\ remote \in [Bucket -> Contents]
    /\ op \in [Client -> Change \cup {Idle}]
    /\ sync \in [Syncer -> Pass \cup {Idle}]
    /\ daemon \in Flush \cup {Running, Stopped}
    /\ faults \in 0..MaxFaults
    /\ restarts \in 0..MaxRestarts
    /\ started \in 0..MaxOps
    /\ acked \in [Bucket -> Rows]
    /\ exposed \subseteq Bucket
    /\ overtaken \subseteq Bucket
    /\ crossed \subseteq Bucket

\* The buckets were just made: their remote databases are empty.
Init ==
    /\ GateInit
    /\ known = Bucket
    /\ disk = [f \in File |-> Unused]
    /\ path = [b \in Bucket |-> NoFile]
    /\ cached = [b \in Bucket |-> NoFile]
    /\ remote = [b \in Bucket |-> {}]
    /\ op = [c \in Client |-> Idle]
    /\ sync = [s \in Syncer |-> Idle]
    /\ daemon = Running
    /\ faults = 0 /\ restarts = 0 /\ started = 0
    /\ acked = [b \in Bucket |-> {}]
    /\ exposed = {} /\ overtaken = {} /\ crossed = {}

-----------------------------------------------------------------------------
(***************************************************************************)
(* Helpers                                                                 *)
(***************************************************************************)

Fault == faults < MaxFaults /\ faults' = faults + 1

Uses(c, f) == op[c] # Idle /\ op[c].file = f

Unread(f) == \A c \in Client : ~Uses(c, f)

\* Rows change nothing about the damage of a database.
With(contents, rows) == IF contents \in Rows THEN contents \cup rows ELSE contents

\* A database is opened through its name, and made, empty, if there is none.
\* Its integrity is not checked.  It gets the rows given.
OpenLocal(b, f, rows) ==
    \/ /\ path[b] = f
       /\ disk[f] \in Openable
       /\ disk' = [disk EXCEPT ![f] = With(disk[f], rows)]
       /\ UNCHANGED <<path, exposed>>
    \/ /\ path[b] = NoFile
       /\ disk[f] = Unused
       /\ disk' = [disk EXCEPT ![f] = rows]
       /\ path' = [path EXCEPT ![b] = f]
       /\ exposed' = IF remote[b] = {} THEN exposed ELSE exposed \cup {b}

\* The cache answers an open database, or opens it.
OpenCached(b, f, rows) ==
    \/ /\ cached[b] = f
       /\ disk' = [disk EXCEPT ![f] = With(disk[f], rows)]
       /\ UNCHANGED <<path, cached, exposed>>
    \/ /\ cached[b] = NoFile
       /\ OpenLocal(b, f, rows)
       /\ cached' = [cached EXCEPT ![b] = f]

Damaged(b) == path[b] # NoFile /\ disk[path[b]] \in Broken

\* The order in which a pass goes through the buckets.
Oldest(buckets) == CHOOSE b \in buckets :
                      \A c \in buckets : CreatedAt[b] <= CreatedAt[c]

\* What a direct upload that fails may leave on the server, where nobody tells
\* one damage from the other.
UploadFailsDirectly(b, rows) ==
    \E left \in {remote[b], rows, Torn} :
        remote' = [remote EXCEPT ![b] = left]

-----------------------------------------------------------------------------
(***************************************************************************)
(* Requests                                                                *)
(***************************************************************************)

\* The gate lets a change of the bucket in.
ChangeStart(c, b, r) ==
    /\ op[c] = Idle
    /\ daemon = Running
    /\ b \in known
    /\ CheckWrite(b)
    /\ started < MaxOps
    /\ started' = started + 1
    /\ op' = [op EXCEPT ![c] = [pc |-> "record", bucket |-> b, row |-> r,
                                file |-> NoFile, snap |-> {}]]
    /\ UNCHANGED <<known, local, remote, status, sync, daemon, faults, acked,
                   overtaken>>

\* The database is opened and the row committed.
ChangeRecord(c, f) ==
    /\ op[c].pc = "record"
    /\ OpenCached(op[c].bucket, f, {op[c].row})
    /\ op' = [op EXCEPT ![c] = [op[c] EXCEPT !.pc = "snapshot", !.file = f]]
    /\ UNCHANGED <<known, remote, status, sync, daemon, faults, started, acked,
                   overtaken>>

\* A damaged database does not open, or fails the transaction.
ChangeRecordFails(c, f) ==
    LET b == op[c].bucket
    IN  /\ op[c].pc = "record"
        /\ \/ /\ cached[b] = NoFile /\ path[b] = f /\ disk[f] = Torn
              /\ UNCHANGED local
           \/ /\ OpenCached(b, f, {})
              /\ disk[f] = Marred
        /\ op' = [op EXCEPT ![c] = Idle]
        /\ UNCHANGED <<known, remote, status, sync, daemon, faults, started,
                       acked, overtaken>>

\* Wrong variant: the copy lacks what is still in the write-ahead log.
ChangeSnapshotFileOnly(c) ==
    /\ op[c].pc = "snapshot"
    /\ op' = [op EXCEPT ![c] = [op[c] EXCEPT !.pc = "upload",
                                    !.snap = disk[op[c].file] \ {op[c].row}]]
    /\ UNCHANGED <<known, local, remote, status, sync, daemon, faults, started,
                   acked, overtaken>>

\* A copy of the whole database is made for the upload, its damage included.
ChangeSnapshot(c) ==
    /\ op[c].pc = "snapshot"
    /\ op' = [op EXCEPT ![c] = [op[c] EXCEPT !.pc = "upload",
                                             !.snap = disk[op[c].file]]]
    /\ UNCHANGED <<known, local, remote, status, sync, daemon, faults, started,
                   acked, overtaken>>

\* VACUUM meets the damage.
ChangeSnapshotFails(c) ==
    /\ op[c].pc = "snapshot"
    /\ disk[op[c].file] = Marred
    /\ MarkRepairing(op[c].bucket)
    /\ op' = [op EXCEPT ![c] = Idle]
    /\ UNCHANGED <<known, local, remote, sync, daemon, faults, started, acked,
                   overtaken>>

ChangeUpload(c) ==
    /\ op[c].pc = "upload"
    /\ remote' = [remote EXCEPT ![op[c].bucket] = op[c].snap]
    /\ acked' = [acked EXCEPT ![op[c].bucket] =
                    acked[op[c].bucket] \cup {op[c].row}]
    /\ op' = [op EXCEPT ![c] = Idle]
    /\ UNCHANGED <<known, local, status, sync, daemon, faults, started,
                   overtaken>>

\* The database may have been replaced before the error.
ChangeUploadFails(c) ==
    /\ op[c].pc = "upload"
    /\ Fault
    /\ \E left \in {remote[op[c].bucket], op[c].snap} :
          remote' = [remote EXCEPT ![op[c].bucket] = left]
    /\ MarkRepairing(op[c].bucket)
    /\ op' = [op EXCEPT ![c] = Idle]
    /\ UNCHANGED <<known, local, sync, daemon, started, acked, overtaken>>

\* A request that only reads opens the database too.
Read(b, f) ==
    /\ daemon = Running
    /\ b \in known
    /\ OpenCached(b, f, {})
    /\ UNCHANGED <<known, remote, status, actors, faults, started, acked,
                   overtaken>>

\* The cache closes a database nobody uses (LRUCache).
CloseUnused(b) ==
    /\ cached[b] # NoFile
    /\ Unread(cached[b])
    /\ cached' = [cached EXCEPT ![b] = NoFile]
    /\ UNCHANGED <<known, disk, path, exposed, remote, status, actors, faults,
                   started, acked, overtaken>>

-----------------------------------------------------------------------------
(***************************************************************************)
(* A pass of the sync engine                                               *)
(***************************************************************************)

At(s, step) == sync[s].pc = step

GoTo(s, step) == sync' = [sync EXCEPT ![s] = [sync[s] EXCEPT !.pc = step]]

\* The bucket of the pass is done, and the next one is due.
Continue(s) ==
    sync' = [sync EXCEPT ![s] = [sync[s] EXCEPT !.pc = "next",
                !.todo = sync[s].todo \ {sync[s].bucket}]]

\* An error ends the pass: the other buckets wait for the next one.
EndPass(s) == sync' = [sync EXCEPT ![s] = Idle]

\* The remote structure is merged: its buckets are known before their
\* databases are there.
SyncStart(s) ==
    /\ sync[s] = Idle
    /\ daemon = Running
    /\ known' = Bucket
    /\ sync' = [sync EXCEPT ![s] =
                   [pc |-> "next", todo |-> Bucket,
                    bucket |-> CHOOSE b \in Bucket : TRUE,
                    got |-> {}, victim |-> NoFile]]
    /\ UNCHANGED <<local, remote, status, op, daemon, faults, started, acked,
                   overtaken>>

SyncEnd(s) ==
    /\ At(s, "next")
    /\ sync[s].todo = {}
    /\ EndPass(s)
    /\ UNCHANGED <<known, local, remote, status, op, daemon, faults, started,
                   acked, overtaken>>

\* A remote database is downloaded to a temporary file.
SyncDownload(s) ==
    /\ At(s, "next")
    /\ sync[s].todo # {}
    /\ LET b == Oldest(sync[s].todo)
       IN  sync' = [sync EXCEPT ![s] = [sync[s] EXCEPT !.pc = "check",
                                           !.bucket = b, !.got = remote[b]]]
    /\ UNCHANGED <<known, local, remote, status, op, daemon, faults, started,
                   acked, overtaken>>

\* A download, or the replacement of a local file, fails.
SyncFails(s) ==
    /\ At(s, "next") \/ At(s, "replace")
    /\ Fault
    /\ EndPass(s)
    /\ UNCHANGED <<known, local, remote, status, op, daemon, started, acked,
                   overtaken>>

\* The remote database is damaged: the bucket takes no writes until it has
\* been repaired from the local one.
SyncFindsDamage(s) ==
    /\ At(s, "check")
    /\ sync[s].got \in Broken
    /\ MarkRepairing(sync[s].bucket)
    /\ GoTo(s, "repair_evict")
    /\ UNCHANGED <<known, local, remote, op, daemon, faults, started, acked,
                   overtaken>>

\* Wrong variant: what was downloaded is not checked.
SyncCompareUnchecked(s) ==
    LET b == sync[s].bucket
    IN  /\ At(s, "check")
        /\ \/ path[b] = NoFile /\ GoTo(s, "evict")
           \/ Damaged(b) /\ EndPass(s)
           \/ path[b] # NoFile /\ ~Damaged(b) /\ Continue(s)
        /\ UNCHANGED <<known, local, remote, status, op, daemon, faults,
                       started, acked, overtaken>>

\* The remote database is whole.  A whole local one is kept, a damaged one
\* ends the pass, and only a missing one is replaced.
SyncCompare(s) ==
    LET b == sync[s].bucket
    IN  /\ At(s, "check")
        /\ sync[s].got \in Rows
        /\ \/ path[b] = NoFile /\ GoTo(s, "evict")
           \/ Damaged(b) /\ EndPass(s)
           \/ path[b] # NoFile /\ ~Damaged(b) /\ Continue(s)
        /\ UNCHANGED <<known, local, remote, status, op, daemon, faults,
                       started, acked, overtaken>>

\* The open database leaves the cache ...
SyncEvict(s, step, nextStep) ==
    LET b == sync[s].bucket
    IN  /\ At(s, step)
        /\ cached' = [cached EXCEPT ![b] = NoFile]
        /\ sync' = [sync EXCEPT ![s] = [sync[s] EXCEPT !.pc = nextStep,
                                                      !.victim = cached[b]]]
        /\ UNCHANGED <<known, disk, path, exposed, remote, status, op, daemon,
                       faults, started, acked, overtaken>>

\* ... and is closed when its readers have released it.
SyncEvicted(s, step, nextStep) ==
    /\ At(s, step)
    /\ sync[s].victim # NoFile => Unread(sync[s].victim)
    /\ sync' = [sync EXCEPT ![s] = [sync[s] EXCEPT !.pc = nextStep,
                                                  !.victim = NoFile]]
    /\ UNCHANGED <<known, local, remote, status, op, daemon, faults, started,
                   acked, overtaken>>

\* The downloaded file takes the name of the local one, if there is one by now.
SyncReplace(s, f) ==
    LET b == sync[s].bucket
    IN  /\ At(s, "replace")
        /\ disk[f] = Unused
        /\ disk' = [disk EXCEPT ![f] = sync[s].got]
        /\ path' = [path EXCEPT ![b] = f]
        /\ overtaken' = IF path[b] = NoFile THEN overtaken
                        ELSE overtaken \cup {b}
        /\ Continue(s)
        /\ UNCHANGED <<known, cached, exposed, remote, status, op, daemon,
                       faults, started, acked>>

\* Wrong variant: the bucket is left in repair.
RepairFailsQuietly(s) == UNCHANGED status /\ EndPass(s)

\* A step of the repair fails.
RepairFails(s) ==
    /\ MarkDegraded(sync[s].bucket)
    /\ EndPass(s)

\* The integrity check of the local database.  To check a database that is
\* missing makes an empty one, which passes.
RepairValidate(s, f) ==
    /\ At(s, "validate")
    /\ OpenLocal(sync[s].bucket, f, {})
    /\ disk'[f] \in Rows
    /\ GoTo(s, "export")
    /\ UNCHANGED <<known, cached, remote, status, op, daemon, faults, started,
                   acked, overtaken>>

\* The local database is damaged, or cannot be checked, backed up or copied.
RepairCopyFails(s) ==
    /\ \/ At(s, "validate") /\ Damaged(sync[s].bucket) /\ UNCHANGED faults
       \/ (At(s, "validate") \/ At(s, "export")) /\ Fault
    /\ RepairFails(s)
    /\ UNCHANGED <<known, local, remote, op, daemon, started, acked,
                   overtaken>>

\* A consistent copy of it is made.
RepairExport(s) ==
    /\ At(s, "export")
    /\ sync' = [sync EXCEPT ![s] = [sync[s] EXCEPT !.pc = "repair_upload",
                                      !.got = disk[path[sync[s].bucket]]]]
    /\ UNCHANGED <<known, local, remote, status, op, daemon, faults, started,
                   acked, overtaken>>

\* The copy overwrites the remote database directly.
RepairUpload(s) ==
    /\ At(s, "repair_upload")
    /\ remote' = [remote EXCEPT ![sync[s].bucket] = sync[s].got]
    /\ GoTo(s, "verify")
    /\ UNCHANGED <<known, local, status, op, daemon, faults, started, acked,
                   overtaken>>

RepairUploadFails(s) ==
    /\ At(s, "repair_upload")
    /\ Fault
    /\ UploadFailsDirectly(sync[s].bucket, sync[s].got)
    /\ RepairFails(s)
    /\ UNCHANGED <<known, local, op, daemon, started, acked, overtaken>>

\* The remote database is downloaded again and is whole.
RepairVerify(s) ==
    /\ At(s, "verify")
    /\ remote[sync[s].bucket] \in Rows
    /\ MarkHealthy(sync[s].bucket)
    /\ Continue(s)
    /\ UNCHANGED <<known, local, remote, op, daemon, faults, started, acked,
                   overtaken>>

RepairVerifyFails(s) ==
    /\ At(s, "verify")
    /\ \/ remote[sync[s].bucket] \in Broken /\ UNCHANGED faults
       \/ Fault
    /\ RepairFails(s)
    /\ UNCHANGED <<known, local, remote, op, daemon, started, acked,
                   overtaken>>

-----------------------------------------------------------------------------
(***************************************************************************)
(* The daemon and the server                                               *)
(***************************************************************************)

\* At shutdown the servers take no more requests, and the cache is closed when
\* nobody uses it any more.
ShutdownStart ==
    /\ daemon = Running
    /\ \A b \in Bucket : cached[b] # NoFile => Unread(cached[b])
    /\ cached' = [b \in Bucket |-> NoFile]
    /\ daemon' = [pc |-> "flush", todo |-> known,
                  bucket |-> CHOOSE b \in Bucket : TRUE, snap |-> {}]
    /\ UNCHANGED <<known, disk, path, exposed, remote, status, op, sync,
                   faults, started, acked, overtaken>>

\* Wrong variant: a database is uploaded as it is, opened by nobody.
FlushCopy ==
    /\ daemon.pc = "flush"
    /\ daemon.todo # {}
    /\ LET b == Oldest(daemon.todo)
       IN  \/ /\ path[b] = NoFile
              /\ daemon' = [daemon EXCEPT !.todo = daemon.todo \ {b}]
           \/ /\ path[b] # NoFile
              /\ daemon' = [pc |-> "flush_upload", todo |-> daemon.todo \ {b},
                            bucket |-> b, snap |-> disk[path[b]]]
    /\ UNCHANGED <<known, local, remote, status, op, sync, faults, started,
                   acked, overtaken>>

\* Every local database that opens is saved and uploaded in turn, damage
\* included ...
FlushSave ==
    /\ daemon.pc = "flush"
    /\ daemon.todo # {}
    /\ LET b == Oldest(daemon.todo)
       IN  \/ /\ path[b] = NoFile
              /\ daemon' = [daemon EXCEPT !.todo = daemon.todo \ {b}]
           \/ /\ path[b] # NoFile
              /\ disk[path[b]] \in Openable
              /\ daemon' = [pc |-> "flush_upload", todo |-> daemon.todo \ {b},
                            bucket |-> b, snap |-> disk[path[b]]]
    /\ UNCHANGED <<known, local, remote, status, op, sync, faults, started,
                   acked, overtaken>>

\* ... through a client that overwrites the remote file.
FlushUpload ==
    /\ daemon.pc = "flush_upload"
    /\ remote' = [remote EXCEPT ![daemon.bucket] = daemon.snap]
    /\ daemon' = [daemon EXCEPT !.pc = "flush"]
    /\ UNCHANGED <<known, local, status, op, sync, faults, started, acked,
                   overtaken>>

FlushUploadFails ==
    /\ daemon.pc = "flush_upload"
    /\ Fault
    /\ UploadFailsDirectly(daemon.bucket, daemon.snap)
    /\ daemon' = Stopped
    /\ UNCHANGED <<known, local, status, op, sync, started, acked, overtaken>>

\* The flush is complete, or a damaged database ends it, which does not open
\* or cannot be saved.
FlushEnd ==
    /\ daemon.pc = "flush"
    /\ daemon.todo # {} => Damaged(Oldest(daemon.todo))
    /\ daemon' = Stopped
    /\ UNCHANGED <<known, local, remote, status, op, sync, faults, started,
                   acked, overtaken>>

\* The daemon starts again, after a shutdown or a crash.  What ran is lost,
\* and so is the memory of the gate.
Start(disk2, path2) ==
    /\ restarts < MaxRestarts
    /\ restarts' = restarts + 1
    /\ op' = [c \in Client |-> Idle]
    /\ sync' = [s \in Syncer |-> Idle]
    /\ daemon' = Running
    /\ status' = NewManager
    /\ cached' = [b \in Bucket |-> NoFile]
    /\ path' = path2
    /\ disk' = [f \in File |-> IF \E b \in Bucket : path2[b] = f
                               THEN disk2[f] ELSE Unused]
    /\ UNCHANGED <<exposed, remote, started, acked, overtaken>>

Restart == Start(disk, path) /\ UNCHANGED <<known, faults>>

\* A file was damaged when the machine went down.
RestartDamaged ==
    /\ Fault
    /\ \E b \in Bucket :
          /\ path[b] # NoFile
          /\ \E damage \in Broken :
                Start([disk EXCEPT ![path[b]] = damage], path)
    /\ UNCHANGED known

\* A fresh daemon: the cache directory is empty.
RestartFresh ==
    /\ Fault
    /\ Start(disk, [b \in Bucket |-> NoFile])
    /\ known' = {}

\* A remote database was found damaged in operation (TODO.md:9).
RemoteDamage(b) ==
    /\ Fault
    /\ remote[b] \in Rows
    /\ remote' = [remote EXCEPT ![b] = Torn]
    /\ UNCHANGED <<known, local, status, actors, started, acked, overtaken>>

-----------------------------------------------------------------------------

ChangeStep(c) ==
    \/ \E f \in File : ChangeRecord(c, f)
    \/ \E f \in File : ChangeRecordFails(c, f)
    \/ ChangeSnapshot(c) \/ ChangeSnapshotFails(c)
    \/ ChangeUpload(c) \/ ChangeUploadFails(c)

SyncStep(s) ==
    \/ SyncEnd(s)
    \/ SyncDownload(s) \/ SyncFails(s)
    \/ SyncFindsDamage(s)
    \/ SyncCompare(s)
    \/ SyncEvict(s, "evict", "evicting")
    \/ SyncEvicted(s, "evicting", "replace")
    \/ \E f \in File : SyncReplace(s, f)

RepairStep(s) ==
    \/ SyncEvict(s, "repair_evict", "repair_evicting")
    \/ SyncEvicted(s, "repair_evicting", "validate")
    \/ \E f \in File : RepairValidate(s, f)
    \/ RepairCopyFails(s)
    \/ RepairExport(s)
    \/ RepairUpload(s) \/ RepairUploadFails(s)
    \/ RepairVerify(s) \/ RepairVerifyFails(s)

FlushStep == FlushSave \/ FlushUpload \/ FlushUploadFails \/ FlushEnd

\* Two uploads of one database are under way together.
Uploads(x, b) ==
    \/ x \in Client /\ op[x].pc = "upload" /\ op[x].bucket = b
    \/ x \in Syncer /\ At(x, "repair_upload") /\ sync[x].bucket = b
    \/ x = Main /\ daemon.pc = "flush_upload" /\ daemon.bucket = b

Crossing(b) ==
    \E x, y \in Client \cup Syncer \cup {Main} :
        x # y /\ Uploads(x, b) /\ Uploads(y, b)

Step ==
    \/ \E c \in Client, b \in Bucket, r \in Row : ChangeStart(c, b, r)
    \/ \E c \in Client : ChangeStep(c)
    \/ \E b \in Bucket, f \in File : Read(b, f)
    \/ \E b \in Bucket : CloseUnused(b)
    \/ \E s \in Syncer : SyncStart(s) \/ SyncStep(s) \/ RepairStep(s)
    \/ ShutdownStart \/ FlushStep
    \/ \E b \in Bucket : RemoteDamage(b)

Next ==
    /\ \/ Step /\ UNCHANGED restarts
       \/ Restart \/ RestartDamaged \/ RestartFresh
    /\ crossed' = crossed \cup {b \in Bucket : Crossing(b)'}

Spec == Init /\ [][Next]_vars

\* The timer starts a pass again and again, and every call returns.
FairSpec ==
    /\ Spec
    /\ \A c \in Client : WF_vars(ChangeStep(c) /\ Next)
    /\ \A s \in Syncer :
          /\ WF_vars(SyncStart(s) /\ Next)
          /\ WF_vars((SyncStep(s) \/ RepairStep(s)) /\ Next)

-----------------------------------------------------------------------------
(***************************************************************************)
(* Properties                                                              *)
(***************************************************************************)

\* Nothing out of the ordinary has happened to bucket b so far.
Ordinary(b) == b \notin exposed \cup overtaken \cup crossed

\* An acknowledged row is in the local database and in the remote one, unless
\* the file in question is damaged or gone: through syncs, repairs, flushes,
\* failing uploads and restarts, on a fresh cache directory too.
AckedIsKept ==
    \A b \in Bucket :
        Ordinary(b) =>
            /\ remote[b] \in Broken \/ acked[b] \subseteq remote[b]
            /\ \/ path[b] = NoFile \/ Damaged(b)
               \/ acked[b] \subseteq disk[path[b]]

\* What damage may do.  No damaged database takes the name of a local one
\* (TODO.md:120), however passes and requests overtake each other, and a whole
\* remote database is damaged by a fault alone, or by the upload of a local one
\* that is damaged itself: never by a repair, nor by a handle left open on a
\* file that another has replaced.
DamageIsContained ==
    [][\A b \in Bucket :
          /\ path'[b] # path[b] /\ path'[b] # NoFile => disk'[path'[b]] \in Rows
          /\ remote[b] \in Rows /\ remote'[b] \in Broken =>
                \/ faults' # faults
                \/ Damaged(b) /\ UNCHANGED sync]_vars

\* "This means the remote corrupt DB remains a problem until repaired"
\* (TODO.md:12): a damaged remote database is replaced or its bucket is found
\* beyond repair, as long as the daemon runs.
DamageIsHandled ==
    \A b \in Bucket :
        remote[b] \in Broken ~> \/ remote[b] \in Rows
                                \/ status[b] = Degraded
                                \/ daemon # Running

\* "so a fresh daemon can recover by syncing" (README.md:10): as long as the
\* remote database is not damaged, it holds every acknowledged row.
FreshDaemonKeepsRows ==
    \A b \in Bucket :
        b \notin crossed /\ remote[b] \in Rows
            => acked[b] \subseteq remote[b]

\* "If local metadata is missing or corrupt, do not repair automatically.
\* Mark `degraded`" (TODO.md:108): a repair does not go on without a local
\* database.
MissingIsNotRepaired ==
    [][\A s \in Syncer :
          At(s, "validate") /\ path[sync[s].bucket] = NoFile /\ sync'[s] # sync[s]
              => ~(At(s, "export"))']_vars

\* "Metadata DB uploads now use temp-upload plus verify plus WebDAV rename
\* instead of direct overwrite" (TODO.md:28): no upload of the daemon leaves
\* half a file in place of a whole remote database.
UploadsKeepWhole ==
    [][\A b \in Bucket :
          remote[b] \in Rows /\ remote'[b] = Torn => UNCHANGED <<actors, status>>]_vars

\* "never overwrite remote metadata from local metadata unless local SQLite
\* integrity passes" (TODO.md:121): an upload that changes the remote database
\* has a local one behind it that is not damaged.
OverwritesAreChecked ==
    [][\A b \in Bucket :
          remote'[b] # remote[b] /\ Damaged(b) => UNCHANGED <<actors, status>>]_vars

\* "`repairing`: writes return temporary retryable failure" (TODO.md:93): a
\* bucket does not stay in repair as long as the daemon runs.
RepairingIsTemporary ==
    \A b \in Bucket :
        status[b] = Repairing ~> status[b] # Repairing \/ daemon # Running

\* "If local bucket DB is healthy, repair remote metadata from local before
\* allowing writes" (TODO.md:133): a damaged remote database next to a whole
\* local one is repaired or given up, whatever state the other buckets are in.
EveryBucketIsRepaired ==
    \A b \in Bucket :
        remote[b] \in Broken /\ path[b] # NoFile /\ ~Damaged(b)
            ~> remote[b] \in Rows \/ status[b] = Degraded \/ daemon # Running

=============================================================================
