----------------------------- MODULE Multipart ------------------------------
(***************************************************************************)
(* Objects in several parts in one bucket: the calls of                    *)
(* internal/object/multipart.go, the chunked Put that is made of them, the *)
(* Delete of such an object and the pass of the gc command over the part   *)
(* files.                                                                  *)
(*                                                                         *)
(* The database holds rows of uploads, of their parts and of objects; an   *)
(* object's row carries the manifest of its parts.  A part file has a      *)
(* fixed name, {base}_parts/{upload}/{number}, under which it is sent in   *)
(* place, and stays there when the upload becomes an object.  What the     *)
(* snapshots on the server hold is the subject of ObjectStore; here the    *)
(* upload of the database only succeeds or fails.                          *)
(***************************************************************************)
EXTENDS RepairGate, Integers, FiniteSets

CONSTANTS
    ThisBucket,   \* the bucket
    Client,       \* request goroutines
    Key,          \* object keys
    Upload,       \* upload ids, which are never used twice
    MaxParts,     \* bound: part numbers
    Content,      \* contents of a part, told apart by their ETag
    NoPart,       \* a part without a row
    NoObject,     \* a key without a row
    MaxOps,       \* bound: number of requests ever admitted
    MaxSweeps     \* bound: times the gc command is run

Part     == 1..MaxParts
Manifest == [Part -> Content \cup {NoPart}]
Object   == [upload : Upload, chunks : Manifest]

ASSUME MultipartAssumption ==
    /\ ThisBucket \in Bucket
    /\ MaxParts \in Nat \ {0}
    /\ MaxOps \in Nat
    /\ MaxSweeps \in Nat
    /\ NoPart \notin Content
    /\ NoObject \notin Object

VARIABLES
    uploads,      \* rows of the uploads in progress
    used,         \* ids given so far
    parts,        \* parts[u]: rows of the parts of upload u
    objects,      \* objects[k]: row and manifest of key k
    partFile,     \* partFile[u][n]: the file of part n of upload u
    usage,        \* number of objects in the stats database
    op,           \* op[c]: the request goroutine c is running
    gc,           \* what the gc command does
    started,      \* requests admitted so far (model bound)
    sweeps,       \* runs of the gc command so far (model bound)
    spoiled       \* history: uploads with requests in each other's way, or cut short

tables == <<uploads, used, parts, objects>>
vars == <<status, uploads, used, parts, objects, partFile, usage, op, gc,
          started, sweeps, spoiled>>

Absent   == "absent"
Cut      == "cut"           \* left by an upload that failed half way

CreateSteps   == {"create_record", "create_sync"}
PartSteps     == {"part_start", "part_send", "part_cleanup", "part_record",
                  "part_sync"}
CompleteSteps == {"complete_start", "complete_record", "complete_sync"}
AbortSteps    == {"abort_start", "abort_files", "abort_record", "abort_sync"}
DeleteSteps   == {"delete_record", "delete_sync", "delete_files"}

Idle == [pc |-> "idle"]

\* chunked: the request is a Put that makes the calls of an upload itself.
Request ==
    [pc       : CreateSteps \cup PartSteps \cup CompleteSteps \cup AbortSteps
                    \cup DeleteSteps,
     chunked  : BOOLEAN,
     upload   : Upload,
     key      : Key,
     part     : Part,
     content  : Content \cup {NoPart},
     manifest : Manifest,
     todo     : SUBSET Part]

GCIdle == [pc |-> "idle"]

\* clean is history: no request ran meanwhile and no deletion failed.
Collection ==
    [pc    : {"objects", "list", "sweep"},
     keys  : SUBSET Key,
     named : SUBSET Upload,
     left  : SUBSET Upload,
     clean : BOOLEAN]

NoParts == [n \in Part |-> NoPart]

TypeOK ==
    /\ GateTypeOK
    /\ uploads \subseteq used /\ used \subseteq Upload
    /\ parts \in [Upload -> Manifest]
    /\ objects \in [Key -> Object \cup {NoObject}]
    /\ partFile \in [Upload -> [Part -> Content \cup {Absent, Cut}]]
    /\ usage \in -MaxOps..MaxOps
    /\ op \in [Client -> Request \cup {Idle}]
    /\ gc \in Collection \cup {GCIdle}
    /\ started \in 0..MaxOps
    /\ sweeps \in 0..MaxSweeps
    /\ spoiled \subseteq Upload

Init ==
    /\ GateInit
    /\ uploads = {} /\ used = {}
    /\ parts = [u \in Upload |-> NoParts]
    /\ objects = [k \in Key |-> NoObject]
    /\ partFile = [u \in Upload |-> [n \in Part |-> Absent]]
    /\ usage = 0
    /\ op = [c \in Client |-> Idle]
    /\ gc = GCIdle
    /\ started = 0 /\ sweeps = 0
    /\ spoiled = {}

-----------------------------------------------------------------------------
(***************************************************************************)
(* Helpers                                                                 *)
(***************************************************************************)

At(c, step) == op[c].pc = step

GoTo(c, step) == op' = [op EXCEPT ![c].pc = step]

Return(c) == op' = [op EXCEPT ![c] = Idle]

\* An error: the answer of a call, but a chunked Put tries to abort first.
Fail(c) == IF op[c].chunked /\ op[c].pc \notin AbortSteps
           THEN GoTo(c, "abort_start") ELSE Return(c)

Admit(c, request) ==
    /\ op[c] = Idle
    /\ started < MaxOps
    /\ started' = started + 1
    /\ op' = [op EXCEPT ![c] = request]
    /\ UNCHANGED <<status, tables, partFile, usage>>

NewRequest(step, u, k) ==
    [pc |-> step, chunked |-> FALSE, upload |-> u, key |-> k, part |-> 1,
     content |-> NoPart, manifest |-> NoParts, todo |-> {}]

\* Part numbers with a row, or with an entry in a manifest.
Present(m) == {n \in Part : m[n] # NoPart}

\* The gate lets the call in and the upload has a row.
InProgress(u) == CheckWrite(ThisBucket) /\ u \in uploads

\* The file of the part of the request of c becomes one of outcomes.
Send(c, outcomes) ==
    \E left \in outcomes :
        partFile' = [partFile EXCEPT ![op[c].upload][op[c].part] = left]

\* c stops where rows name files that it may have removed or replaced.
Unfinished(c) ==
    \/ op[c].pc \in {"abort_files", "abort_record"}
    \/ /\ op[c].pc \in {"part_send", "part_cleanup", "part_record"}
       /\ parts[op[c].upload][op[c].part] # NoPart

\* The database is uploaded, or not: then the bucket stops taking writes.
SyncFails(c, step) ==
    /\ At(c, step)
    /\ MarkRepairing(ThisBucket)
    /\ Fail(c)
    /\ UNCHANGED <<tables, partFile, usage>>

-----------------------------------------------------------------------------
(***************************************************************************)
(* Create, and the start of a chunked Put                                  *)
(***************************************************************************)

Fresh == Upload \ used

CreateStart(c, u, k) ==
    /\ CheckWrite(ThisBucket)
    /\ u \in Fresh
    /\ Admit(c, NewRequest("create_record", u, k))

\* A body beyond the threshold is split: all its parts are of one content here.
PutChunkedStart(c, u, k, x) ==
    /\ CheckWrite(ThisBucket)
    /\ u \in Fresh
    /\ Admit(c, [NewRequest("create_record", u, k) EXCEPT
                    !.chunked = TRUE, !.content = x])

CreateRecord(c) ==
    /\ At(c, "create_record")
    /\ op[c].upload \in Fresh
    /\ uploads' = uploads \cup {op[c].upload}
    /\ used' = used \cup {op[c].upload}
    /\ GoTo(c, "create_sync")
    /\ UNCHANGED <<status, parts, objects, partFile, usage>>

\* The row is not written; there is no upload to abort.
CreateRecordFails(c) ==
    /\ At(c, "create_record")
    /\ Return(c)
    /\ UNCHANGED <<status, tables, partFile, usage>>

CreateSync(c) ==
    /\ At(c, "create_sync")
    /\ IF op[c].chunked THEN GoTo(c, "part_start") ELSE Return(c)
    /\ UNCHANGED <<status, tables, partFile, usage>>

\* Nobody learns the id: the row stays.
CreateSyncFails(c) ==
    /\ At(c, "create_sync")
    /\ MarkRepairing(ThisBucket)
    /\ Return(c)
    /\ UNCHANGED <<tables, partFile, usage>>

-----------------------------------------------------------------------------
(***************************************************************************)
(* UploadPart                                                              *)
(***************************************************************************)

PartStart(c, u, k, n, x) ==
    /\ InProgress(u)
    /\ Admit(c, [NewRequest("part_send", u, k) EXCEPT !.part = n, !.content = x])

\* The next part of a chunked Put.
ChunkStart(c) ==
    /\ At(c, "part_start")
    /\ IF InProgress(op[c].upload) THEN GoTo(c, "part_send") ELSE Fail(c)
    /\ UNCHANGED <<status, tables, partFile, usage>>

\* The body is streamed under the final name, over what is there.
PartSend(c) ==
    /\ At(c, "part_send")
    /\ Send(c, {op[c].content})
    /\ GoTo(c, "part_record")
    /\ UNCHANGED <<status, tables, usage>>

\* The body or the upload breaks off: nothing, some or all of it has arrived.
PartSendFails(c) ==
    /\ At(c, "part_send")
    /\ Send(c, {partFile[op[c].upload][op[c].part], Cut, op[c].content})
    /\ GoTo(c, "part_cleanup")
    /\ UNCHANGED <<status, tables, usage>>

\* What has arrived is deleted, the file of an earlier upload of the part with
\* it; a failure of the deletion is ignored.
PartCleanup(c) ==
    /\ At(c, "part_cleanup")
    /\ Send(c, {Absent, partFile[op[c].upload][op[c].part]})
    /\ Fail(c)
    /\ UNCHANGED <<status, tables, usage>>

\* Wrong variant: the row of a part that was sent before is kept.
PartRecordOnce(c) ==
    /\ At(c, "part_record")
    /\ parts' = IF parts[op[c].upload][op[c].part] # NoPart THEN parts
                ELSE [parts EXCEPT ![op[c].upload][op[c].part] = op[c].content]
    /\ GoTo(c, "part_sync")
    /\ UNCHANGED <<status, uploads, used, objects, partFile, usage>>

\* The row is inserted or replaced; that the upload still is there is not asked.
PartRecord(c) ==
    /\ At(c, "part_record")
    /\ parts' = [parts EXCEPT ![op[c].upload][op[c].part] = op[c].content]
    /\ GoTo(c, "part_sync")
    /\ UNCHANGED <<status, uploads, used, objects, partFile, usage>>

PartRecordFails(c) ==
    /\ At(c, "part_record")
    /\ Fail(c)
    /\ UNCHANGED <<status, tables, partFile, usage>>

\* Wrong variant: one part more than the body has.
PartSyncOneMore(c) ==
    /\ At(c, "part_sync")
    /\ IF ~op[c].chunked THEN Return(c)
       ELSE IF op[c].part > MaxParts THEN GoTo(c, "complete_start")
       ELSE op' = [op EXCEPT ![c].pc = "part_start", ![c].part = op[c].part + 1]
    /\ UNCHANGED <<status, tables, partFile, usage>>

PartSync(c) ==
    /\ At(c, "part_sync")
    /\ IF ~op[c].chunked THEN Return(c)
       ELSE IF op[c].part = MaxParts THEN GoTo(c, "complete_start")
       ELSE op' = [op EXCEPT ![c].pc = "part_start", ![c].part = op[c].part + 1]
    /\ UNCHANGED <<status, tables, partFile, usage>>

-----------------------------------------------------------------------------
(***************************************************************************)
(* Complete                                                                *)
(***************************************************************************)

\* The client lists parts whose ETags are those of the rows.
CompleteStart(c, u, k, ns) ==
    /\ InProgress(u)
    /\ ns \subseteq Present(parts[u])
    /\ Admit(c, [NewRequest("complete_record", u, k) EXCEPT
                    !.manifest = [n \in Part |->
                        IF n \in ns THEN parts[u][n] ELSE NoPart]])

\* The last call of a chunked Put lists the parts it has sent.
ChunksComplete(c) ==
    /\ At(c, "complete_start")
    /\ LET all == [n \in Part |-> op[c].content]
       IN  IF InProgress(op[c].upload) /\ parts[op[c].upload] = all
           THEN op' = [op EXCEPT ![c].pc = "complete_record",
                                 ![c].manifest = all]
           ELSE Fail(c)
    /\ UNCHANGED <<status, tables, partFile, usage>>

\* The object's row with its manifest replaces that of the key.
WriteObject(c) ==
    objects' = [objects EXCEPT ![op[c].key] =
                   [upload |-> op[c].upload, chunks |-> op[c].manifest]]

\* Wrong variant: the rows of the parts are forgotten.
CompleteKeepsParts(c) ==
    /\ At(c, "complete_record")
    /\ WriteObject(c)
    /\ uploads' = uploads \ {op[c].upload}
    /\ GoTo(c, "complete_sync")
    /\ UNCHANGED <<status, used, parts, partFile, usage>>

\* One transaction; that the upload still is there is not asked.
CompleteRecord(c) ==
    /\ At(c, "complete_record")
    /\ WriteObject(c)
    /\ parts' = [parts EXCEPT ![op[c].upload] = NoParts]
    /\ uploads' = uploads \ {op[c].upload}
    /\ GoTo(c, "complete_sync")
    /\ UNCHANGED <<status, used, partFile, usage>>

CompleteRecordFails(c) ==
    /\ At(c, "complete_record")
    /\ Fail(c)
    /\ UNCHANGED <<status, tables, partFile, usage>>

\* An object that was replaced is not taken off the usage.
CompleteSync(c) ==
    /\ At(c, "complete_sync")
    /\ usage' = usage + 1
    /\ Return(c)
    /\ UNCHANGED <<status, tables, partFile>>

-----------------------------------------------------------------------------
(***************************************************************************)
(* Abort                                                                   *)
(***************************************************************************)

AbortStart(c, u, k) ==
    /\ InProgress(u)
    /\ Admit(c, [NewRequest("abort_files", u, k) EXCEPT
                    !.todo = Present(parts[u])])

\* A chunked Put aborts, unless the gate is closed by now.
ChunksAbort(c) ==
    /\ At(c, "abort_start")
    /\ IF InProgress(op[c].upload)
       THEN op' = [op EXCEPT ![c].pc = "abort_files",
                             ![c].todo = Present(parts[op[c].upload])]
       ELSE Return(c)
    /\ UNCHANGED <<status, tables, partFile, usage>>

\* The files of the listed parts are deleted one after the other; a failure is
\* ignored.
DeleteParts(c, step) ==
    /\ At(c, step)
    /\ \E n \in op[c].todo :
          /\ \A m \in op[c].todo : n <= m
          /\ op' = [op EXCEPT ![c].todo = op[c].todo \ {n}]
          /\ \E left \in {Absent, partFile[op[c].upload][n]} :
                partFile' = [partFile EXCEPT ![op[c].upload][n] = left]
    /\ UNCHANGED <<status, tables, usage>>

AbortFiles(c) == DeleteParts(c, "abort_files")

AbortFilesEnd(c) ==
    /\ At(c, "abort_files")
    /\ op[c].todo = {}
    /\ GoTo(c, "abort_record")
    /\ UNCHANGED <<status, tables, partFile, usage>>

AbortRecord(c) ==
    /\ At(c, "abort_record")
    /\ parts' = [parts EXCEPT ![op[c].upload] = NoParts]
    /\ uploads' = uploads \ {op[c].upload}
    /\ GoTo(c, "abort_sync")
    /\ UNCHANGED <<status, used, objects, partFile, usage>>

AbortRecordFails(c) ==
    /\ At(c, "abort_record")
    /\ Return(c)
    /\ UNCHANGED <<status, tables, partFile, usage>>

AbortSync(c) ==
    /\ At(c, "abort_sync")
    /\ Return(c)
    /\ UNCHANGED <<status, tables, partFile, usage>>

-----------------------------------------------------------------------------
(***************************************************************************)
(* Delete of an object in parts                                            *)
(***************************************************************************)

\* The manifest is looked up and used until the end; the gate is not asked.
DeleteStart(c, k) ==
    /\ objects[k] # NoObject
    /\ Admit(c, [NewRequest("delete_record", objects[k].upload, k) EXCEPT
                    !.manifest = objects[k].chunks])

\* The row is removed, whatever it holds by now.
DeleteRecord(c) ==
    /\ At(c, "delete_record")
    /\ objects[op[c].key] # NoObject
    /\ objects' = [objects EXCEPT ![op[c].key] = NoObject]
    /\ GoTo(c, "delete_sync")
    /\ UNCHANGED <<status, uploads, used, parts, partFile, usage>>

DeleteRecordFails(c) ==
    /\ At(c, "delete_record")
    /\ Return(c)
    /\ UNCHANGED <<status, tables, partFile, usage>>

DeleteSync(c) ==
    /\ At(c, "delete_sync")
    /\ usage' = usage - 1
    /\ op' = [op EXCEPT ![c].pc = "delete_files",
                        ![c].todo = Present(op[c].manifest)]
    /\ UNCHANGED <<status, tables, partFile>>

\* An error is returned, but the gate is not told and the files stay.
DeleteSyncFails(c) ==
    /\ At(c, "delete_sync")
    /\ Return(c)
    /\ UNCHANGED <<status, tables, partFile, usage>>

DeleteFiles(c) == DeleteParts(c, "delete_files")

DeleteEnd(c) ==
    /\ At(c, "delete_files")
    /\ op[c].todo = {}
    /\ Return(c)
    /\ UNCHANGED <<status, tables, partFile, usage>>

-----------------------------------------------------------------------------
(***************************************************************************)
(* The gc command, a process of its own                                    *)
(***************************************************************************)

NoRequest == \A c \in Client : op[c] = Idle

\* The keys are listed; all have to be read again for their manifests.
GCStart ==
    /\ gc = GCIdle
    /\ sweeps < MaxSweeps
    /\ sweeps' = sweeps + 1
    /\ gc' = [pc |-> "objects", keys |-> {k \in Key : objects[k] # NoObject},
              named |-> {}, left |-> {}, clean |-> NoRequest]
    /\ UNCHANGED partFile

\* A manifest names the directory of its upload.
GCObject(k) ==
    /\ gc.pc = "objects"
    /\ k \in gc.keys
    /\ gc' = [gc EXCEPT
                 !.keys = gc.keys \ {k},
                 !.named = gc.named \cup
                    {u \in Upload : objects[k] # NoObject /\ objects[k].upload = u
                                      /\ Present(objects[k].chunks) # {}}]
    /\ UNCHANGED <<partFile, sweeps>>

\* An object cannot be read: logged, and the next one is taken.
GCObjectFails(k) ==
    /\ gc.pc = "objects"
    /\ k \in gc.keys
    /\ gc' = [gc EXCEPT !.keys = gc.keys \ {k}]
    /\ UNCHANGED <<partFile, sweeps>>

\* Wrong variant: an upload counts as active for ever.
GCUploadsEver ==
    /\ gc.pc = "objects"
    /\ gc.keys = {}
    /\ gc' = [gc EXCEPT !.pc = "list", !.named = gc.named \cup used]
    /\ UNCHANGED <<partFile, sweeps>>

GCUploads ==
    /\ gc.pc = "objects"
    /\ gc.keys = {}
    /\ gc' = [gc EXCEPT !.pc = "list", !.named = gc.named \cup uploads]
    /\ UNCHANGED <<partFile, sweeps>>

\* The uploads, or the directory, cannot be listed: nothing is deleted.
GCFails ==
    /\ gc.pc \in {"objects", "list"}
    /\ gc' = GCIdle
    /\ UNCHANGED <<partFile, sweeps>>

\* The directories with files are listed; those that were named are kept.
GCList ==
    /\ gc.pc = "list"
    /\ gc' = [gc EXCEPT
                 !.pc = "sweep",
                 !.left = {u \in Upload \ gc.named :
                              \E n \in Part : partFile[u][n] # Absent}]
    /\ UNCHANGED <<partFile, sweeps>>

GCDelete(u) ==
    /\ gc.pc = "sweep"
    /\ u \in gc.left
    /\ gc' = [gc EXCEPT !.left = gc.left \ {u}]
    /\ partFile' = [partFile EXCEPT ![u] = [n \in Part |-> Absent]]
    /\ UNCHANGED sweeps

GCDeleteFails(u) ==
    /\ gc.pc = "sweep"
    /\ u \in gc.left
    /\ gc' = [gc EXCEPT !.left = gc.left \ {u}, !.clean = FALSE]
    /\ UNCHANGED <<partFile, sweeps>>

GCEnd ==
    /\ gc.pc = "sweep"
    /\ gc.left = {}
    /\ gc' = GCIdle
    /\ UNCHANGED <<partFile, sweeps>>

GCStep ==
    \/ GCStart
    \/ \E k \in Key : GCObject(k) \/ GCObjectFails(k)
    \/ GCUploads \/ GCFails \/ GCList
    \/ \E u \in Upload : GCDelete(u) \/ GCDeleteFails(u)
    \/ GCEnd

-----------------------------------------------------------------------------
(***************************************************************************)
(* The daemon                                                              *)
(***************************************************************************)

\* Running requests and the memory of the gate are lost.
Restart ==
    /\ op' = [c \in Client |-> Idle]
    /\ status' = NewManager
    /\ UNCHANGED <<tables, partFile, usage, started>>

Start(c) ==
    \E k \in Key :
        \/ DeleteStart(c, k)
        \/ \E u \in Upload :
              \/ CreateStart(c, u, k)
              \/ \E x \in Content :
                    \/ PutChunkedStart(c, u, k, x)
                    \/ \E n \in Part : PartStart(c, u, k, n, x)
              \/ \E ns \in SUBSET Part : CompleteStart(c, u, k, ns)
              \/ AbortStart(c, u, k)

CreateStep(c) ==
    CreateRecord(c) \/ CreateRecordFails(c) \/ CreateSync(c) \/ CreateSyncFails(c)

PartStep(c) ==
    \/ ChunkStart(c)
    \/ PartSend(c)   \/ PartSendFails(c) \/ PartCleanup(c)
    \/ PartRecord(c) \/ PartRecordFails(c)
    \/ PartSync(c)   \/ SyncFails(c, "part_sync")

CompleteStep(c) ==
    \/ ChunksComplete(c)
    \/ CompleteRecord(c) \/ CompleteRecordFails(c)
    \/ CompleteSync(c)   \/ SyncFails(c, "complete_sync")

AbortStep(c) ==
    \/ ChunksAbort(c)
    \/ AbortFiles(c)  \/ AbortFilesEnd(c)
    \/ AbortRecord(c) \/ AbortRecordFails(c)
    \/ AbortSync(c)   \/ SyncFails(c, "abort_sync")

DeleteStep(c) ==
    \/ DeleteRecord(c) \/ DeleteRecordFails(c)
    \/ DeleteSync(c)   \/ DeleteSyncFails(c)
    \/ DeleteFiles(c)  \/ DeleteEnd(c)

RequestStep ==
    \/ \E c \in Client :
          \/ Start(c)
          \/ /\ \/ CreateStep(c) \/ PartStep(c) \/ CompleteStep(c)
                \/ AbortStep(c)  \/ DeleteStep(c)
             /\ UNCHANGED started
    \/ Restart

\* A request spoils the cleanliness of a run of the gc command.
Noticed == gc' = IF gc = GCIdle THEN gc ELSE [gc EXCEPT !.clean = FALSE]

Sends(c)     == op[c].pc \in {"part_send", "part_cleanup", "part_record"}
Completes(c) == op[c].pc = "complete_record"
Aborts(c)    == op[c].pc \in {"abort_files", "abort_record"}

WorksOn(c, u) == op[c] # Idle /\ op[c].upload = u

\* Requests on upload u that are in each other's way.  Uploads of different
\* parts side by side are not, nor are two Aborts.
Contested(u) ==
    \/ \E c, d \in Client :
          /\ c # d /\ WorksOn(c, u) /\ WorksOn(d, u)
          /\ \/ Sends(c) /\ Sends(d) /\ op[c].part = op[d].part
             \/ Completes(c) /\ (Completes(d) \/ Sends(d) \/ Aborts(d))
             \/ Sends(c) /\ Aborts(d)
    \/ \E c \in Client :
          /\ gc # GCIdle
          /\ op[c].pc \in {"create_record", "complete_record"}
          /\ WorksOn(c, u)

\* A request on u that ends between its files and its rows.
CutShort(u) ==
    \/ \E c \in Client :
          Unfinished(c) /\ op[c].upload = u /\ op'[c].pc \in {"idle", "abort_start"}
    \/ \E k \in Key : GCObjectFails(k) /\ objects[k] # NoObject
                         /\ objects[k].upload = u

Next ==
    /\ \/ RequestStep /\ Noticed /\ UNCHANGED sweeps
       \/ GCStep /\ UNCHANGED <<status, tables, usage, op, started>>
    /\ spoiled' = spoiled \cup {u \in Upload : CutShort(u) \/ Contested(u)'}

Spec == Init /\ [][Next]_vars

-----------------------------------------------------------------------------
(***************************************************************************)
(* Properties                                                              *)
(***************************************************************************)

Refers(k, u) == objects[k] # NoObject /\ objects[k].upload = u
                  /\ Present(objects[k].chunks) # {}

\* Every part that the manifest of an object names is there, with the content
\* that was validated: through parallel uploads of parts, parts sent again,
\* failed calls, restarts, deletions and collections, unless requests on the
\* upload were in each other's way or one was cut short.
ObjectIsWhole ==
    \A k \in Key : objects[k] # NoObject /\ objects[k].upload \notin spoiled =>
        \A n \in Present(objects[k].chunks) :
            partFile[objects[k].upload][n] = objects[k].chunks[n]

\* Rows of parts go with their upload; nothing would remove them later.
PartsHaveUpload ==
    \A u \in Upload : u \notin uploads /\ u \notin spoiled =>
        parts[u] = NoParts

\* "removes orphaned files under _data/ and orphaned directories under _parts/"
\* (gc.go:11): a run that nothing disturbed leaves part files only of objects
\* and of uploads in progress.
OrphanPartsAreGone ==
    [][gc.pc = "sweep" /\ gc' = GCIdle /\ gc.clean =>
          \A u \in Upload, n \in Part :
              partFile[u][n] # Absent =>
                  u \in uploads \/ \E k \in Key : Refers(k, u)]_vars

\* "Part files stay on WebDAV -- referenced via obj.Chunks." (multipart.go:300):
\* an object is made of parts that are there, when nobody disturbs the upload.
CompletedPartsStay ==
    [][\A k \in Key :
          /\ objects'[k] # objects[k] /\ objects'[k] # NoObject
          /\ \A c, d \in Client : op[c] # Idle /\ op[d] # Idle => c = d
          => \A n \in Present(objects'[k].chunks) :
                partFile[objects'[k].upload][n] # Absent]_vars

\* "A _parts/{uploadID}/ directory is orphaned when no active multipart upload
\* and no completed object's chunks reference that uploadID" (gc.go:14): a run
\* with no request beside it deletes no other directory.
OnlyOrphansAreDeleted ==
    [][\A u \in Upload :
          GCDelete(u) /\ gc.clean =>
              u \notin uploads /\ ~\E k \in Key : Refers(k, u)]_vars

=============================================================================
