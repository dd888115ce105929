-------------------------- MODULE MultipartProofs --------------------------
(***************************************************************************)
(* Proofs about Multipart, for any number of requests, keys, uploads,      *)
(* parts, contents and runs of the gc command.                             *)
(***************************************************************************)
EXTENDS Multipart, FiniteSetTheorems, TLAPS

-----------------------------------------------------------------------------
(***************************************************************************)
(* The inductive invariant.  It is stated upload by upload: what an upload *)
(* that is not spoiled has in its rows, its files and its requests.        *)
(***************************************************************************)

Made(k, u) == objects[k] # NoObject /\ objects[k].upload = u

SendSteps == {"part_send", "part_cleanup", "part_record"}

AbortWork == {"abort_files", "abort_record"}

\* What a request relies on, at its own upload.
Fit(r) ==
    /\ r.pc \in SendSteps \cup {"complete_record"} => r.upload \in uploads
    /\ r.pc \in AbortWork =>
          r.upload \in used /\ \A k \in Key : ~Made(k, r.upload)
    /\ r.pc = "delete_record" =>
          /\ r.upload \in used \ uploads
          /\ \A k \in Key : Made(k, r.upload) => k = r.key
    /\ r.pc \in {"delete_sync", "delete_files"} =>
          /\ r.upload \in used \ uploads
          /\ \A k \in Key : ~Made(k, r.upload)
    /\ r.pc = "part_record" => partFile[r.upload][r.part] = r.content
    /\ r.pc = "complete_record" =>
          \A n \in Present(r.manifest) :
              partFile[r.upload][n] = r.manifest[n]

\* r may have changed the file of part n of u without its row.
Holds(r, u, n) ==
    /\ r.pc \in SendSteps \cup AbortWork
    /\ r.upload = u
    /\ r.pc \in SendSteps => r.part = n

Held(u, n) == \E c \in Client : Holds(op[c], u, n)

RowsGood(u) == u \notin uploads => parts[u] = NoParts

ObjectsGood(u) ==
    \A k \in Key : Made(k, u) =>
        /\ u \in used \ uploads
        /\ \A l \in Key : Made(l, u) => k = l
        /\ \A n \in Present(objects[k].chunks) :
              partFile[u][n] = objects[k].chunks[n]

\* A row tells what is in the file, unless a request is at work on it.
FilesGood(u) ==
    u \in uploads =>
        \A n \in Part : parts[u][n] # NoPart =>
            partFile[u][n] = parts[u][n] \/ Held(u, n)

RequestsGood(u) == \A c \in Client : WorksOn(c, u) => Fit(op[c])

Good(u) == RowsGood(u) /\ ObjectsGood(u) /\ FilesGood(u) /\ RequestsGood(u)

Needed(u) == u \in uploads \/ \E k \in Key : Refers(k, u)

\* What the gc command has found out about an upload that is needed.
Spared(u) ==
    /\ gc.pc = "objects" =>
          \A k \in Key : Refers(k, u) => k \in gc.keys \/ u \in gc.named
    /\ gc.pc = "list" => (Needed(u) => u \in gc.named)
    /\ gc.pc = "sweep" => (Needed(u) => u \notin gc.left)

UploadsInv ==
    \A u \in Upload \ spoiled : ~Contested(u) /\ Good(u) /\ Spared(u)

\* What a run that nothing disturbed spares is needed.
CleanInv ==
    gc.pc # "idle" /\ gc.clean =>
        /\ gc.pc = "objects" => \A u \in gc.named : Needed(u)
        /\ gc.pc = "list" => \A u \in gc.named : Needed(u)
        /\ gc.pc = "sweep" =>
              \A u \in Upload, n \in Part :
                  partFile[u][n] # Absent => u \in gc.left \/ Needed(u)

\* A request that sends a part has a content to send.
Sendable(r) == r.pc # "idle" /\ (r.chunked \/ r.pc \in PartSteps) => r.content \in Content

ContentInv == \A c \in Client : Sendable(op[c])

\* Requests that may still change the usage, each by one.
Charging == {c \in Client : op[c].pc \notin {"idle", "delete_files"}}

UsageInv ==
    /\ IsFiniteSet(Charging)
    /\ usage + Cardinality(Charging) <= started
    /\ Cardinality(Charging) - usage <= started

TypeInv == TypeOK /\ ContentInv /\ UsageInv

-----------------------------------------------------------------------------
(***************************************************************************)
(* Types                                                                   *)
(***************************************************************************)

Moves(c, r) == op' = [op EXCEPT ![c] = r]

\* A request, or none, that may stand in op.
Allowed(r) == r \in Request \cup {Idle} /\ Sendable(r)

LEMMA IdleIsAllowed == Allowed(Idle) /\ Idle.pc = "idle"
  BY DEF Allowed, Idle, Sendable

LEMMA BusyIsRequest ==
    ASSUME TypeOK, NEW c \in Client, op[c].pc # "idle"
    PROVE  op[c] \in Request
  BY DEF TypeOK, Idle

LEMMA TypesInit == Init => TypeInv
<1> SUFFICES ASSUME Init PROVE TypeInv
  OBVIOUS
<1>1. TypeOK
  BY MultipartAssumption
  DEF Init, TypeOK, GateInit, GateTypeOK, NewManager, Status, Healthy,
      NoParts, Manifest, Idle, GCIdle
<1>2. ContentInv
  BY DEF Init, ContentInv, Sendable, Idle
<1>3. Charging = {}
  BY DEF Init, Charging, Idle
<1>4. UsageInv
  BY <1>3, FS_EmptySet DEF Init, UsageInv
<1> QED
  BY <1>1, <1>2, <1>4 DEF TypeInv

\* The ways a running request goes on.
LEMMA GoingOn ==
    ASSUME TypeOK, ContentInv, NEW c \in Client, op[c].pc # "idle",
           \/ Return(c)
           \/ Fail(c)
           \/ \E step \in CreateSteps \cup CompleteSteps \cup AbortSteps \cup DeleteSteps :
                 GoTo(c, step)
           \/ op[c].pc \in PartSteps /\ \E step \in PartSteps : GoTo(c, step)
           \/ op[c].chunked /\ GoTo(c, "part_start")
    PROVE  \E r : Moves(c, r) /\ Allowed(r)
<1>1. op[c] \in Request /\ Sendable(op[c])
  BY BusyIsRequest DEF ContentInv
<1>2. CASE Return(c)
  BY <1>2, IdleIsAllowed DEF Return, Moves
<1>3. ASSUME NEW step \in CreateSteps \cup CompleteSteps \cup AbortSteps \cup DeleteSteps,
             GoTo(c, step)
      PROVE  \E r : Moves(c, r) /\ Allowed(r)
  <2> DEFINE r == [op[c] EXCEPT !.pc = step]
  <2>1. /\ r \in Request /\ r.pc = step /\ r.chunked = op[c].chunked
        /\ r.content = op[c].content
    BY <1>1 DEF Request
  <2>2. Moves(c, r)
    BY <1>3 DEF GoTo, Moves
  <2>3. Sendable(r)
    BY <1>1, <2>1 DEF Sendable, PartSteps, CreateSteps, CompleteSteps, AbortSteps,
                      DeleteSteps
  <2> QED
    BY <2>1, <2>2, <2>3 DEF Allowed
<1>4. ASSUME NEW step \in PartSteps, GoTo(c, step),
             op[c].pc \in PartSteps \/ op[c].chunked
      PROVE  \E r : Moves(c, r) /\ Allowed(r)
  <2> DEFINE r == [op[c] EXCEPT !.pc = step]
  <2>1. /\ r \in Request /\ r.pc = step /\ r.content = op[c].content
    BY <1>1 DEF Request
  <2>2. Moves(c, r)
    BY <1>4 DEF GoTo, Moves
  <2>3. Sendable(r)
    BY <1>1, <1>4, <2>1 DEF Sendable
  <2> QED
    BY <2>1, <2>2, <2>3 DEF Allowed
<1>5. CASE Fail(c)
  <2>1. Return(c) \/ GoTo(c, "abort_start")
    BY <1>5 DEF Fail
  <2>2. CASE Return(c)
    BY <1>2, <2>2
  <2>3. CASE GoTo(c, "abort_start")
    <3>1. "abort_start" \in CreateSteps \cup CompleteSteps \cup AbortSteps \cup DeleteSteps
      BY DEF AbortSteps
    <3> QED
      BY <1>3, <2>3, <3>1
  <2> QED
    BY <2>1, <2>2, <2>3
<1>6. "part_start" \in PartSteps
  BY DEF PartSteps
<1> QED
  BY <1>2, <1>3, <1>4, <1>5, <1>6

\* A request that sets more than its step.
LEMMA Rewritten ==
    ASSUME NEW r \in Request, Sendable(r),
           NEW step \in CompleteSteps \cup AbortSteps \cup DeleteSteps,
           NEW m \in Manifest, NEW left \in SUBSET Part
    PROVE  /\ Allowed([r EXCEPT !.pc = step, !.todo = left])
           /\ Allowed([r EXCEPT !.pc = step, !.manifest = m])
           /\ Allowed([r EXCEPT !.todo = left])
           /\ Allowed([r EXCEPT !.manifest = m])
<1> DEFINE s == [r EXCEPT !.pc = step, !.todo = left]
           t == [r EXCEPT !.pc = step, !.manifest = m]
           v == [r EXCEPT !.todo = left]
           w == [r EXCEPT !.manifest = m]
<1>1. /\ s \in Request /\ s.pc = step /\ s.chunked = r.chunked /\ s.content = r.content
      /\ t \in Request /\ t.pc = step /\ t.chunked = r.chunked /\ t.content = r.content
      /\ v \in Request /\ v.pc = r.pc /\ v.chunked = r.chunked /\ v.content = r.content
      /\ w \in Request /\ w.pc = r.pc /\ w.chunked = r.chunked /\ w.content = r.content
  BY DEF Request
<1>2. step \notin PartSteps /\ r.pc # "idle"
  BY DEF Request, PartSteps, CreateSteps, CompleteSteps, AbortSteps, DeleteSteps
<1> QED
  BY <1>1, <1>2 DEF Allowed, Sendable

LEMMA NewTypes ==
    ASSUME MultipartAssumption, NEW u \in Upload, NEW k \in Key,
           NEW step \in CreateSteps \cup PartSteps \cup CompleteSteps \cup AbortSteps
                           \cup DeleteSteps
    PROVE  NewRequest(step, u, k) \in Request
<1>1. 1 \in Part /\ NoParts \in Manifest
  BY MultipartAssumption DEF Part, NoParts, Manifest
<1> QED
  BY <1>1 DEF NewRequest, Request

LEMMA ChunkedIsAllowed ==
    ASSUME MultipartAssumption, NEW u \in Upload, NEW k \in Key, NEW x \in Content
    PROVE  Allowed([NewRequest("create_record", u, k) EXCEPT
                       !.chunked = TRUE, !.content = x])
<1>1. NewRequest("create_record", u, k) \in Request
  BY NewTypes DEF CreateSteps
<1> DEFINE r == [NewRequest("create_record", u, k) EXCEPT !.chunked = TRUE, !.content = x]
<1>2. r \in Request /\ r.pc = "create_record" /\ r.content = x
  BY <1>1, NewTypes DEF Request, CreateSteps, NewRequest
<1> QED
  BY <1>2 DEF Allowed, Sendable

LEMMA PartIsAllowed ==
    ASSUME MultipartAssumption, NEW u \in Upload, NEW k \in Key, NEW x \in Content,
           NEW n \in Part
    PROVE  Allowed([NewRequest("part_send", u, k) EXCEPT !.part = n, !.content = x])
<1>1. NewRequest("part_send", u, k) \in Request
  BY NewTypes DEF PartSteps
<1> DEFINE r == [NewRequest("part_send", u, k) EXCEPT !.part = n, !.content = x]
<1>2. r \in Request /\ r.pc = "part_send" /\ r.content = x
  BY <1>1 DEF Request, NewRequest
<1> QED
  BY <1>2 DEF Allowed, Sendable

LEMMA ManifestIsAllowed ==
    ASSUME MultipartAssumption, NEW u \in Upload, NEW k \in Key, NEW m \in Manifest,
           NEW step \in {"complete_record", "delete_record"}
    PROVE  Allowed([NewRequest(step, u, k) EXCEPT !.manifest = m])
<1> DEFINE r == [NewRequest(step, u, k) EXCEPT !.manifest = m]
<1>1. NewRequest(step, u, k) \in Request
  BY NewTypes DEF CompleteSteps, DeleteSteps
<1>2. r \in Request /\ r.pc = step /\ r.chunked = FALSE
  BY <1>1 DEF Request, NewRequest
<1>3. step \notin PartSteps
  BY DEF PartSteps
<1> QED
  BY <1>2, <1>3 DEF Allowed, Sendable

LEMMA TodoIsAllowed ==
    ASSUME MultipartAssumption, NEW u \in Upload, NEW k \in Key, NEW left \in SUBSET Part
    PROVE  Allowed([NewRequest("abort_files", u, k) EXCEPT !.todo = left])
<1> DEFINE r == [NewRequest("abort_files", u, k) EXCEPT !.todo = left]
<1>1. NewRequest("abort_files", u, k) \in Request
  BY NewTypes DEF AbortSteps
<1>2. r \in Request /\ r.pc = "abort_files" /\ r.chunked = FALSE
  BY <1>1 DEF Request, NewRequest
<1> QED
  BY <1>2 DEF Allowed, Sendable, PartSteps


LEMMA StartMoves ==
    ASSUME TypeOK, ContentInv, NEW c \in Client, Start(c)
    PROVE  /\ \E r : Moves(c, r) /\ Allowed(r)
           /\ started < MaxOps /\ started' = started + 1
           /\ op[c] = Idle
           /\ UNCHANGED <<status, tables, partFile, usage>>
<1> USE MultipartAssumption
<1>1. PICK k \in Key :
        \/ DeleteStart(c, k)
        \/ \E u \in Upload :
              \/ CreateStart(c, u, k)
              \/ \E x \in Content :
                    \/ PutChunkedStart(c, u, k, x)
                    \/ \E n \in Part : PartStart(c, u, k, n, x)
              \/ \E ns \in SUBSET Part : CompleteStart(c, u, k, ns)
              \/ AbortStart(c, u, k)
  BY DEF Start
<1>2. ASSUME NEW r, Allowed(r), Admit(c, r)
      PROVE  /\ \E s : Moves(c, s) /\ Allowed(s)
             /\ started < MaxOps /\ started' = started + 1
             /\ op[c] = Idle
             /\ UNCHANGED <<status, tables, partFile, usage>>
  BY <1>2 DEF Admit, Moves
<1>3. CASE DeleteStart(c, k)
  <2>1. objects[k].upload \in Upload /\ objects[k].chunks \in Manifest
    BY <1>3 DEF DeleteStart, TypeOK, Object
  <2>2. Allowed([NewRequest("delete_record", objects[k].upload, k) EXCEPT
                    !.manifest = objects[k].chunks])
    <3>1. PICK m \in Manifest : m = objects[k].chunks
      BY <2>1
    <3> DEFINE r == [NewRequest("delete_record", objects[k].upload, k) EXCEPT
                        !.manifest = m]
    <3>2. 1 \in Part /\ NoParts \in Manifest
      BY DEF Part, NoParts, Manifest
    <3>3. r \in Request /\ r.chunked = FALSE /\ r.pc = "delete_record"
      BY <2>1, <3>2 DEF NewRequest, Request, DeleteSteps
    <3>4. Sendable(r)
      BY <3>3 DEF Sendable, PartSteps
    <3> QED
      BY <3>1, <3>3, <3>4 DEF Allowed
  <2> QED
    BY <1>2, <1>3, <2>2 DEF DeleteStart
<1>4. ASSUME NEW u \in Upload, CreateStart(c, u, k)
      PROVE  \E r : Allowed(r) /\ Admit(c, r)
  <2>1. 1 \in Part /\ NoParts \in Manifest
    BY DEF Part, NoParts, Manifest
  <2>2. Allowed(NewRequest("create_record", u, k))
    BY <2>1 DEF NewRequest, Allowed, Sendable, Request, CreateSteps, PartSteps
  <2> QED
    BY <1>4, <2>2 DEF CreateStart
<1>5. ASSUME NEW u \in Upload, NEW x \in Content, PutChunkedStart(c, u, k, x)
      PROVE  \E r : Allowed(r) /\ Admit(c, r)
  BY <1>5, ChunkedIsAllowed DEF PutChunkedStart
<1>6. ASSUME NEW u \in Upload, NEW x \in Content, NEW n \in Part, PartStart(c, u, k, n, x)
      PROVE  \E r : Allowed(r) /\ Admit(c, r)
  BY <1>6, PartIsAllowed DEF PartStart
<1>7. ASSUME NEW u \in Upload, NEW ns \in SUBSET Part, CompleteStart(c, u, k, ns)
      PROVE  \E r : Allowed(r) /\ Admit(c, r)
  <2> DEFINE m == [n \in Part |-> IF n \in ns THEN parts[u][n] ELSE NoPart]
  <2>1. m \in Manifest
    BY DEF TypeOK, Manifest
  <2> QED
    BY <1>7, <2>1, ManifestIsAllowed DEF CompleteStart
<1>8. ASSUME NEW u \in Upload, AbortStart(c, u, k)
      PROVE  \E r : Allowed(r) /\ Admit(c, r)
  BY <1>8, TodoIsAllowed DEF AbortStart, Present
<1> QED
  BY <1>1, <1>2, <1>3, <1>4, <1>5, <1>6, <1>7, <1>8

\* What is written leaves the tables well typed.
TablesType ==
    /\ uploads \subseteq used /\ used \subseteq Upload
    /\ parts \in [Upload -> Manifest]
    /\ objects \in [Key -> Object \cup {NoObject}]
    /\ partFile \in [Upload -> [Part -> Content \cup {Absent, Cut}]]

\* r may still change the usage.
Pays(r) == r.pc \notin {"idle", "delete_files"}

\* c goes on as r; the usage changes at most once in a request.
Proceeds(c) ==
    /\ TablesType' /\ GateTypeOK'
    /\ \E r :
          /\ Moves(c, r) /\ Allowed(r)
          /\ \/ usage' = usage /\ (Pays(op[c]) \/ ~Pays(r))
             \/ usage' \in {usage + 1, usage - 1} /\ Pays(op[c]) /\ ~Pays(r)

LEMMA SameTables ==
    ASSUME TypeOK, UNCHANGED <<tables, partFile>>
    PROVE  TablesType'
  BY DEF TypeOK, TablesType, tables

LEMMA SameStatus ==
    ASSUME TypeOK, \/ UNCHANGED status
                   \/ MarkRepairing(ThisBucket)
    PROVE  GateTypeOK'
  BY MultipartAssumption DEF TypeOK, GateTypeOK, MarkRepairing, Status, Repairing

\* A step that goes on without a change of the usage.
LEMMA OnProceeds ==
    ASSUME TypeOK, ContentInv, NEW c \in Client, op[c].pc # "idle",
           TablesType', GateTypeOK', usage' = usage, op[c].pc # "delete_files",
           \/ Return(c)
           \/ Fail(c)
           \/ \E step \in CreateSteps \cup CompleteSteps \cup AbortSteps \cup DeleteSteps :
                 GoTo(c, step)
           \/ op[c].pc \in PartSteps /\ \E step \in PartSteps : GoTo(c, step)
           \/ op[c].chunked /\ GoTo(c, "part_start")
    PROVE  Proceeds(c)
  BY GoingOn DEF Proceeds, Pays

LEMMA CreateProceeds ==
    ASSUME TypeOK, ContentInv, NEW c \in Client, CreateStep(c)
    PROVE  Proceeds(c)
<1>1. CASE CreateRecord(c)
  <2>1. op[c] \in Request
    BY <1>1, BusyIsRequest DEF CreateRecord, At
  <2>2. TablesType' /\ GateTypeOK'
    BY <1>1, <2>1, SameStatus DEF CreateRecord, TypeOK, TablesType, Request
  <2> QED
    BY <1>1, <2>2, OnProceeds DEF CreateRecord, At, CreateSteps
<1>2. CASE CreateRecordFails(c)
  BY <1>2, SameTables, SameStatus, OnProceeds DEF CreateRecordFails, At
<1>3. CASE CreateSync(c)
  BY <1>3, SameTables, SameStatus, OnProceeds DEF CreateSync, At
<1>4. CASE CreateSyncFails(c)
  BY <1>4, SameTables, SameStatus, OnProceeds DEF CreateSyncFails, At
<1> QED
  BY <1>1, <1>2, <1>3, <1>4 DEF CreateStep

LEMMA SyncFailsProceeds ==
    ASSUME TypeOK, ContentInv, NEW c \in Client,
           NEW step \in {"part_sync", "complete_sync", "abort_sync"}, SyncFails(c, step)
    PROVE  Proceeds(c)
<1>1. op[c].pc \notin {"idle", "delete_files"}
  BY DEF SyncFails, At
<1>2. TablesType' /\ GateTypeOK'
  BY SameTables, SameStatus DEF SyncFails
<1>3. Fail(c) /\ usage' = usage
  BY DEF SyncFails
<1> QED
  BY <1>1, <1>2, <1>3, OnProceeds

\* A part file becomes one of outcomes.
LEMMA SendTypes ==
    ASSUME TypeOK, NEW c \in Client, op[c] \in Request, UNCHANGED tables,
           NEW outcomes \in SUBSET (Content \cup {Absent, Cut}), Send(c, outcomes)
    PROVE  TablesType'
<1>1. PICK left \in Content \cup {Absent, Cut} :
          partFile' = [partFile EXCEPT ![op[c].upload][op[c].part] = left]
  BY DEF Send
<1>2. op[c].upload \in Upload /\ op[c].part \in Part
  BY DEF Request
<1>3. partFile' \in [Upload -> [Part -> Content \cup {Absent, Cut}]]
  BY <1>1, <1>2 DEF TypeOK
<1> QED
  BY <1>3 DEF TypeOK, TablesType, tables

LEMMA PartProceeds ==
    ASSUME TypeOK, ContentInv, NEW c \in Client, PartStep(c)
    PROVE  Proceeds(c)
<1>0. op[c].pc \in PartSteps
  BY DEF PartStep, PartSteps, ChunkStart, PartSend, PartSendFails, PartCleanup,
         PartRecord, PartRecordFails, PartSync, SyncFails, At
<1>1. /\ op[c].pc \notin {"idle", "delete_files"}
      /\ op[c] \in Request
  BY <1>0, BusyIsRequest DEF PartSteps
<1>2. op[c].content \in Content
  BY <1>0, <1>1 DEF ContentInv, Sendable
<1>3. /\ op[c].upload \in Upload /\ op[c].part \in Part
      /\ partFile[op[c].upload][op[c].part] \in Content \cup {Absent, Cut}
  BY <1>1 DEF Request, TypeOK
<1>4. CASE ChunkStart(c)
  <2>1. TablesType' /\ GateTypeOK'
    BY <1>4, SameTables, SameStatus DEF ChunkStart
  <2>2. \/ Fail(c)
        \/ \E step \in PartSteps : GoTo(c, step)
    BY <1>4 DEF ChunkStart, PartSteps
  <2> QED
    BY <1>0, <1>1, <1>4, <2>1, <2>2, OnProceeds DEF ChunkStart
<1>5. CASE PartSend(c)
  <2>1. TablesType' /\ GateTypeOK'
    BY <1>1, <1>2, <1>5, SendTypes, SameStatus DEF PartSend
  <2>2. \E step \in PartSteps : GoTo(c, step)
    BY <1>5 DEF PartSend, PartSteps
  <2> QED
    BY <1>0, <1>1, <1>5, <2>1, <2>2, OnProceeds DEF PartSend
<1>6. CASE PartSendFails(c)
  <2>1. TablesType' /\ GateTypeOK'
    BY <1>1, <1>2, <1>3, <1>6, SendTypes, SameStatus DEF PartSendFails
  <2>2. \E step \in PartSteps : GoTo(c, step)
    BY <1>6 DEF PartSendFails, PartSteps
  <2> QED
    BY <1>0, <1>1, <1>6, <2>1, <2>2, OnProceeds DEF PartSendFails
<1>7. CASE PartCleanup(c)
  <2>1. TablesType' /\ GateTypeOK'
    BY <1>1, <1>3, <1>7, SendTypes, SameStatus DEF PartCleanup
  <2> QED
    BY <1>1, <1>7, <2>1, OnProceeds DEF PartCleanup
<1>8. CASE PartRecord(c)
  <2>1. parts' \in [Upload -> Manifest]
    BY <1>2, <1>3, <1>8 DEF PartRecord, TypeOK, Manifest
  <2>2. TablesType' /\ GateTypeOK'
    BY <1>8, <2>1, SameStatus DEF PartRecord, TypeOK, TablesType
  <2>3. \E step \in PartSteps : GoTo(c, step)
    BY <1>8 DEF PartRecord, PartSteps
  <2> QED
    BY <1>0, <1>1, <1>8, <2>2, <2>3, OnProceeds DEF PartRecord
<1>9. CASE PartRecordFails(c)
  <2>1. TablesType' /\ GateTypeOK'
    BY <1>9, SameTables, SameStatus DEF PartRecordFails
  <2> QED
    BY <1>1, <1>9, <2>1, OnProceeds DEF PartRecordFails
<1>10. CASE PartSync(c)
  <2>1. TablesType' /\ GateTypeOK' /\ usage' = usage
    BY <1>10, SameTables, SameStatus DEF PartSync
  <2>2. CASE Return(c) \/ GoTo(c, "complete_start")
    <3>1. "complete_start" \in CreateSteps \cup CompleteSteps \cup AbortSteps \cup DeleteSteps
      BY DEF CompleteSteps
    <3> QED
      BY <1>1, <2>1, <2>2, <3>1, OnProceeds
  <2>3. CASE /\ op' = [op EXCEPT ![c].pc = "part_start", ![c].part = op[c].part + 1]
             /\ op[c].part # MaxParts
    <3> DEFINE r == [op[c] EXCEPT !.pc = "part_start", !.part = op[c].part + 1]
    <3>1. op[c].part + 1 \in Part
      BY <1>3, <2>3, MultipartAssumption DEF Part
    <3>2. r \in Request /\ r.content = op[c].content
      BY <1>1, <3>1 DEF Request, PartSteps
    <3>3. Moves(c, r)
      BY <2>3 DEF Moves
    <3> QED
      BY <1>1, <1>2, <2>1, <3>2, <3>3 DEF Proceeds, Pays, Allowed, Sendable
  <2> QED
    BY <1>10, <2>2, <2>3 DEF PartSync
<1>11. CASE SyncFails(c, "part_sync")
  BY <1>11, SyncFailsProceeds
<1> QED
  BY <1>4, <1>5, <1>6, <1>7, <1>8, <1>9, <1>10, <1>11 DEF PartStep

LEMMA CompleteProceeds ==
    ASSUME TypeOK, ContentInv, NEW c \in Client, CompleteStep(c)
    PROVE  Proceeds(c)
<1>0. op[c].pc \in CompleteSteps
  BY DEF CompleteStep, CompleteSteps, ChunksComplete, CompleteRecord,
         CompleteRecordFails, CompleteSync, SyncFails, At
<1>1. /\ op[c].pc \notin {"idle", "delete_files"}
      /\ op[c] \in Request /\ Sendable(op[c])
  BY <1>0, BusyIsRequest DEF CompleteSteps, ContentInv
<1>2. /\ op[c].upload \in Upload /\ op[c].key \in Key /\ op[c].manifest \in Manifest
  BY <1>1 DEF Request
<1>3. CASE ChunksComplete(c)
  <2>1. TablesType' /\ GateTypeOK' /\ usage' = usage
    BY <1>3, SameTables, SameStatus DEF ChunksComplete
  <2> DEFINE all == [n \in Part |-> op[c].content]
  <2>2. CASE Fail(c)
    BY <1>1, <2>1, <2>2, OnProceeds
  <2>3. CASE /\ op' = [op EXCEPT ![c].pc = "complete_record", ![c].manifest = all]
             /\ parts[op[c].upload] = all
    <3> DEFINE r == [op[c] EXCEPT !.pc = "complete_record", !.manifest = all]
    <3>1. all \in Manifest
      BY <1>2, <2>3 DEF TypeOK
    <3>2. "complete_record" \in CompleteSteps
      BY DEF CompleteSteps
    <3> HIDE DEF all
    <3>3. Allowed(r)
      BY <1>1, <3>1, <3>2, Rewritten
    <3>4. Moves(c, r)
      BY <2>3 DEF Moves
    <3> QED
      BY <1>1, <2>1, <3>3, <3>4 DEF Proceeds, Pays
  <2> QED
    BY <1>3, <2>2, <2>3 DEF ChunksComplete
<1>4. CASE CompleteRecord(c)
  <2>1. NoParts \in Manifest
    BY DEF NoParts, Manifest
  <2>2. parts' \in [Upload -> Manifest]
    BY <1>4, <2>1 DEF CompleteRecord, TypeOK
  <2>3. [upload |-> op[c].upload, chunks |-> op[c].manifest] \in Object
    BY <1>2 DEF Object
  <2>4. objects' \in [Key -> Object \cup {NoObject}]
    BY <1>2, <1>4, <2>3 DEF CompleteRecord, WriteObject, TypeOK
  <2>5. TablesType' /\ GateTypeOK'
    BY <1>4, <2>2, <2>4, SameStatus DEF CompleteRecord, TypeOK, TablesType
  <2> QED
    BY <1>1, <1>4, <2>5, OnProceeds DEF CompleteRecord, CompleteSteps
<1>5. CASE CompleteRecordFails(c)
  <2>1. TablesType' /\ GateTypeOK'
    BY <1>5, SameTables, SameStatus DEF CompleteRecordFails
  <2> QED
    BY <1>1, <1>5, <2>1, OnProceeds DEF CompleteRecordFails
<1>6. CASE CompleteSync(c)
  <2>1. TablesType' /\ GateTypeOK'
    BY <1>6, SameTables, SameStatus DEF CompleteSync
  <2>2. Moves(c, Idle)
    BY <1>6 DEF CompleteSync, Return, Moves
  <2> QED
    BY <1>1, <1>6, <2>1, <2>2, IdleIsAllowed DEF CompleteSync, Proceeds, Pays
<1>7. CASE SyncFails(c, "complete_sync")
  BY <1>7, SyncFailsProceeds
<1> QED
  BY <1>3, <1>4, <1>5, <1>6, <1>7 DEF CompleteStep

\* The files of the parts of a request are deleted one by one.
LEMMA DeletePartsProceeds ==
    ASSUME TypeOK, ContentInv, NEW c \in Client,
           NEW step \in {"abort_files", "delete_files"}, DeleteParts(c, step)
    PROVE  Proceeds(c)
<1>1. /\ op[c].pc = step /\ op[c].pc # "idle"
      /\ op[c] \in Request /\ Sendable(op[c])
  BY BusyIsRequest DEF DeleteParts, At, ContentInv
<1>2. PICK n \in op[c].todo :
        /\ op' = [op EXCEPT ![c].todo = op[c].todo \ {n}]
        /\ \E left \in {Absent, partFile[op[c].upload][n]} :
              partFile' = [partFile EXCEPT ![op[c].upload][n] = left]
  BY DEF DeleteParts
<1>3. op[c].upload \in Upload /\ n \in Part /\ op[c].todo \ {n} \in SUBSET Part
  BY <1>1 DEF Request
<1>4. partFile' \in [Upload -> [Part -> Content \cup {Absent, Cut}]]
  BY <1>2, <1>3 DEF TypeOK
<1>5. TablesType' /\ GateTypeOK' /\ usage' = usage
  BY <1>4, SameStatus DEF DeleteParts, TypeOK, TablesType, tables
<1> DEFINE r == [op[c] EXCEPT !.todo = op[c].todo \ {n}]
<1>6. r \in Request /\ r.pc = op[c].pc /\ r.chunked = op[c].chunked
        /\ r.content = op[c].content
  BY <1>1, <1>3 DEF Request
<1>7. Moves(c, r)
  BY <1>2 DEF Moves
<1> QED
  BY <1>1, <1>5, <1>6, <1>7 DEF Proceeds, Pays, Allowed, Sendable

LEMMA AbortProceeds ==
    ASSUME TypeOK, ContentInv, NEW c \in Client, AbortStep(c)
    PROVE  Proceeds(c)
<1>0. op[c].pc \in AbortSteps
  BY DEF AbortStep, AbortSteps, ChunksAbort, AbortFiles, DeleteParts, AbortFilesEnd,
         AbortRecord, AbortRecordFails, AbortSync, SyncFails, At
<1>1. /\ op[c].pc \notin {"idle", "delete_files"}
      /\ op[c] \in Request /\ Sendable(op[c])
  BY <1>0, BusyIsRequest DEF AbortSteps, ContentInv
<1>2. op[c].upload \in Upload
  BY <1>1 DEF Request
<1>3. CASE ChunksAbort(c)
  <2>1. TablesType' /\ GateTypeOK' /\ usage' = usage
    BY <1>3, SameTables, SameStatus DEF ChunksAbort
  <2>2. CASE Return(c)
    BY <1>1, <2>1, <2>2, OnProceeds
  <2>3. CASE op' = [op EXCEPT ![c].pc = "abort_files",
                              ![c].todo = Present(parts[op[c].upload])]
    <3>1. Present(parts[op[c].upload]) \in SUBSET Part
      BY DEF Present
    <3>2. PICK left \in SUBSET Part : left = Present(parts[op[c].upload])
      BY <3>1
    <3> DEFINE r == [op[c] EXCEPT !.pc = "abort_files", !.todo = left]
    <3>3. "abort_files" \in AbortSteps
      BY DEF AbortSteps
    <3>4. Allowed(r)
      BY <1>1, <3>3, Rewritten DEF Request
    <3>5. Moves(c, r)
      BY <2>3, <3>2 DEF Moves
    <3> QED
      BY <1>1, <2>1, <3>4, <3>5 DEF Proceeds, Pays
  <2> QED
    BY <1>3, <2>2, <2>3 DEF ChunksAbort
<1>4. CASE AbortFiles(c)
  BY <1>4, DeletePartsProceeds DEF AbortFiles
<1>5. CASE AbortFilesEnd(c)
  <2>1. TablesType' /\ GateTypeOK'
    BY <1>5, SameTables, SameStatus DEF AbortFilesEnd
  <2> QED
    BY <1>1, <1>5, <2>1, OnProceeds DEF AbortFilesEnd, AbortSteps
<1>6. CASE AbortRecord(c)
  <2>1. NoParts \in Manifest
    BY DEF NoParts, Manifest
  <2>2. parts' \in [Upload -> Manifest]
    BY <1>6, <2>1 DEF AbortRecord, TypeOK
  <2>3. TablesType' /\ GateTypeOK'
    BY <1>6, <2>2, SameStatus DEF AbortRecord, TypeOK, TablesType
  <2> QED
    BY <1>1, <1>6, <2>3, OnProceeds DEF AbortRecord, AbortSteps
<1>7. CASE AbortRecordFails(c)
  <2>1. TablesType' /\ GateTypeOK'
    BY <1>7, SameTables, SameStatus DEF AbortRecordFails
  <2> QED
    BY <1>1, <1>7, <2>1, OnProceeds DEF AbortRecordFails
<1>8. CASE AbortSync(c)
  <2>1. TablesType' /\ GateTypeOK'
    BY <1>8, SameTables, SameStatus DEF AbortSync
  <2> QED
    BY <1>1, <1>8, <2>1, OnProceeds DEF AbortSync
<1>9. CASE SyncFails(c, "abort_sync")
  BY <1>9, SyncFailsProceeds
<1> QED
  BY <1>3, <1>4, <1>5, <1>6, <1>7, <1>8, <1>9 DEF AbortStep

LEMMA DeleteProceeds ==
    ASSUME TypeOK, ContentInv, NEW c \in Client, DeleteStep(c)
    PROVE  Proceeds(c)
<1>0. op[c].pc \in DeleteSteps
  BY DEF DeleteStep, DeleteSteps, DeleteRecord, DeleteRecordFails, DeleteSync,
         DeleteSyncFails, DeleteFiles, DeleteParts, DeleteEnd, At
<1>1. /\ op[c].pc # "idle"
      /\ op[c] \in Request /\ Sendable(op[c])
  BY <1>0, BusyIsRequest DEF DeleteSteps, ContentInv
<1>2. op[c].key \in Key
  BY <1>1 DEF Request
<1>3. CASE DeleteRecord(c)
  <2>1. TablesType' /\ GateTypeOK'
    BY <1>2, <1>3, SameStatus DEF DeleteRecord, TypeOK, TablesType
  <2> QED
    BY <1>1, <1>3, <2>1, OnProceeds DEF DeleteRecord, DeleteSteps, At
<1>4. CASE DeleteRecordFails(c)
  <2>1. TablesType' /\ GateTypeOK'
    BY <1>4, SameTables, SameStatus DEF DeleteRecordFails
  <2> QED
    BY <1>1, <1>4, <2>1, OnProceeds DEF DeleteRecordFails, At
<1>5. CASE DeleteSync(c)
  <2>1. TablesType' /\ GateTypeOK'
    BY <1>5, SameTables, SameStatus DEF DeleteSync
  <2>2. PICK left \in SUBSET Part : left = Present(op[c].manifest)
    BY DEF Present
  <2> DEFINE r == [op[c] EXCEPT !.pc = "delete_files", !.todo = left]
  <2>3. "delete_files" \in DeleteSteps
    BY DEF DeleteSteps
  <2>4. Allowed(r) /\ r.pc = "delete_files"
    BY <1>1, <2>3, Rewritten DEF Request
  <2>5. Moves(c, r)
    BY <1>5, <2>2 DEF DeleteSync, Moves
  <2>6. Pays(op[c]) /\ ~Pays(r)
    BY <1>5, <2>4 DEF DeleteSync, At, Pays
  <2> QED
    BY <1>5, <2>1, <2>4, <2>5, <2>6 DEF DeleteSync, Proceeds
<1>6. CASE DeleteSyncFails(c)
  <2>1. TablesType' /\ GateTypeOK'
    BY <1>6, SameTables, SameStatus DEF DeleteSyncFails
  <2> QED
    BY <1>1, <1>6, <2>1, OnProceeds DEF DeleteSyncFails, At
<1>7. CASE DeleteFiles(c)
  BY <1>7, DeletePartsProceeds DEF DeleteFiles
<1>8. CASE DeleteEnd(c)
  <2>1. TablesType' /\ GateTypeOK'
    BY <1>8, SameTables, SameStatus DEF DeleteEnd
  <2>2. Moves(c, Idle)
    BY <1>8 DEF DeleteEnd, Return, Moves
  <2> QED
    BY <1>1, <1>8, <2>1, <2>2, IdleIsAllowed DEF DeleteEnd, Proceeds, Pays
<1> QED
  BY <1>3, <1>4, <1>5, <1>6, <1>7, <1>8 DEF DeleteStep

LEMMA MovesOnly ==
    ASSUME TypeOK, NEW c \in Client, NEW r, Moves(c, r)
    PROVE  /\ op'[c] = r
           /\ \A d \in Client : d # c => op'[d] = op[d]
  BY DEF Moves, TypeOK

\* The usage stays within the number of requests that may have changed it.
LEMMA UsageProceeds ==
    ASSUME TypeInv, NEW c \in Client, Proceeds(c), UNCHANGED started
    PROVE  UsageInv' /\ usage' \in -MaxOps..MaxOps
<1>1. PICK r :
        /\ Moves(c, r)
        /\ \/ usage' = usage /\ (Pays(op[c]) \/ ~Pays(r))
           \/ usage' \in {usage + 1, usage - 1} /\ Pays(op[c]) /\ ~Pays(r)
  BY DEF Proceeds
<1>2. Charging' \subseteq IF Pays(r) THEN Charging \cup {c} ELSE Charging \ {c}
  BY <1>1, MovesOnly DEF TypeInv, Charging, Pays
<1>3. /\ usage \in Int /\ started \in Nat /\ started <= MaxOps /\ MaxOps \in Nat
      /\ IsFiniteSet(Charging) /\ Cardinality(Charging) \in Nat
  BY FS_CardinalityType, MultipartAssumption DEF TypeInv, TypeOK, UsageInv
<1>4. CASE usage' = usage /\ (Pays(op[c]) \/ ~Pays(r))
  <2>1. Charging' \in SUBSET Charging
    BY <1>2, <1>4 DEF Charging, Pays
  <2>2. IsFiniteSet(Charging') /\ Cardinality(Charging') <= Cardinality(Charging)
    BY <1>3, <2>1, FS_Subset
  <2>3. Cardinality(Charging') \in Nat
    BY <2>2, FS_CardinalityType
  <2> QED
    BY <1>3, <1>4, <2>2, <2>3 DEF TypeInv, UsageInv
<1>5. CASE usage' \in {usage + 1, usage - 1} /\ Pays(op[c]) /\ ~Pays(r)
  <2>1. c \in Charging
    BY <1>5 DEF Charging, Pays
  <2>2. /\ IsFiniteSet(Charging \ {c})
        /\ Cardinality(Charging \ {c}) = Cardinality(Charging) - 1
    BY <1>3, <2>1, FS_RemoveElement
  <2>3. Charging' \in SUBSET (Charging \ {c})
    BY <1>2, <1>5
  <2>4. IsFiniteSet(Charging') /\ Cardinality(Charging') <= Cardinality(Charging \ {c})
    BY <2>2, <2>3, FS_Subset
  <2>5. Cardinality(Charging') \in Nat
    BY <2>4, FS_CardinalityType
  <2> QED
    BY <1>3, <1>5, <2>2, <2>4, <2>5 DEF TypeInv, UsageInv
<1> QED
  BY <1>1, <1>4, <1>5

LEMMA UsageStarts ==
    ASSUME TypeInv, NEW c \in Client, Start(c)
    PROVE  UsageInv' /\ usage' \in -MaxOps..MaxOps /\ started' \in 0..MaxOps
<1>1. /\ \E r : Moves(c, r)
      /\ started < MaxOps /\ started' = started + 1 /\ usage' = usage
  BY StartMoves DEF TypeInv
<1>2. Charging' \in SUBSET (Charging \cup {c})
  BY <1>1, MovesOnly DEF TypeInv, Charging
<1>3. /\ usage \in Int /\ started \in Nat /\ MaxOps \in Nat
      /\ IsFiniteSet(Charging) /\ Cardinality(Charging) \in Nat
  BY FS_CardinalityType, MultipartAssumption DEF TypeInv, TypeOK, UsageInv
<1>4. /\ IsFiniteSet(Charging \cup {c})
      /\ Cardinality(Charging \cup {c}) <= Cardinality(Charging) + 1
  <2>1. /\ IsFiniteSet(Charging \cup {c})
        /\ Cardinality(Charging \cup {c})
              \in {Cardinality(Charging), Cardinality(Charging) + 1}
    BY <1>3, FS_AddElement, Zenon
  <2> QED
    BY <1>3, <2>1
<1>5. /\ IsFiniteSet(Charging')
      /\ Cardinality(Charging') <= Cardinality(Charging \cup {c})
  BY <1>2, <1>4, FS_Subset
<1>6. Cardinality(Charging') \in Nat /\ Cardinality(Charging \cup {c}) \in Nat
  BY <1>4, <1>5, FS_CardinalityType
<1> QED
  BY <1>1, <1>3, <1>4, <1>5, <1>6 DEF TypeInv, UsageInv

\* The requests of a step of c are those that were, and an allowed one.
LEMMA OpTypes ==
    ASSUME TypeInv, NEW c \in Client, NEW r, Moves(c, r), Allowed(r)
    PROVE  op' \in [Client -> Request \cup {Idle}] /\ ContentInv'
  BY MovesOnly DEF TypeInv, TypeOK, Moves, Allowed, ContentInv

\* What a step of the requests leaves well typed.
RequestsTyped ==
    /\ TablesType /\ GateTypeOK
    /\ op \in [Client -> Request \cup {Idle}]
    /\ usage \in -MaxOps..MaxOps /\ started \in 0..MaxOps
    /\ ContentInv /\ UsageInv

LEMMA RequestTypes == TypeInv /\ RequestStep => RequestsTyped'
<1> SUFFICES ASSUME TypeInv, RequestStep PROVE RequestsTyped'
  OBVIOUS
<1>1. ASSUME NEW c \in Client, Start(c) PROVE RequestsTyped'
  <2>1. UNCHANGED <<status, tables, partFile>> /\ \E r : Moves(c, r) /\ Allowed(r)
    BY <1>1, StartMoves DEF TypeInv
  <2>2. TablesType' /\ GateTypeOK'
    BY <2>1, SameTables, SameStatus DEF TypeInv
  <2>3. op' \in [Client -> Request \cup {Idle}] /\ ContentInv'
    BY <2>1, OpTypes
  <2> QED
    BY <1>1, <2>2, <2>3, UsageStarts DEF RequestsTyped
<1>2. ASSUME NEW c \in Client, UNCHANGED started,
             \/ CreateStep(c) \/ PartStep(c) \/ CompleteStep(c)
             \/ AbortStep(c)  \/ DeleteStep(c)
      PROVE  RequestsTyped'
  <2>1. Proceeds(c)
    BY <1>2, CreateProceeds, PartProceeds, CompleteProceeds, AbortProceeds,
       DeleteProceeds DEF TypeInv
  <2>2. TablesType' /\ GateTypeOK' /\ \E r : Moves(c, r) /\ Allowed(r)
    BY <2>1 DEF Proceeds
  <2>3. op' \in [Client -> Request \cup {Idle}] /\ ContentInv'
    BY <2>2, OpTypes
  <2>4. started' \in 0..MaxOps
    BY <1>2 DEF TypeInv, TypeOK
  <2> QED
    BY <1>2, <2>1, <2>2, <2>3, <2>4, UsageProceeds DEF RequestsTyped
<1>3. CASE Restart
  <2>1. TablesType'
    BY <1>3, SameTables DEF Restart, TypeInv
  <2>2. GateTypeOK'
    BY <1>3 DEF Restart, NewManager, GateTypeOK, Status, Healthy
  <2>3. op' \in [Client -> Request \cup {Idle}] /\ ContentInv' /\ Charging' = {}
    BY <1>3 DEF Restart, Idle, ContentInv, Sendable, Charging
  <2>4. usage \in Int /\ started \in 0..MaxOps /\ Cardinality(Charging) \in Nat
    BY FS_CardinalityType, MultipartAssumption DEF TypeInv, TypeOK, UsageInv
  <2>5. UsageInv' /\ usage' \in -MaxOps..MaxOps /\ started' \in 0..MaxOps
    BY <1>3, <2>3, <2>4, FS_EmptySet DEF Restart, UsageInv, TypeInv, TypeOK
  <2> QED
    BY <2>1, <2>2, <2>3, <2>5 DEF RequestsTyped
<1> QED
  BY <1>1, <1>2, <1>3 DEF RequestStep

\* The gc command keeps to files and to its own state.
LEMMA CollectionTypes ==
    ASSUME TypeInv, GCStep
    PROVE  /\ gc' \in Collection \cup {GCIdle}
           /\ sweeps' \in 0..MaxSweeps
           /\ partFile' \in [Upload -> [Part -> Content \cup {Absent, Cut}]]
<1> USE DEF TypeInv, TypeOK
<1>0. gc.pc # "idle" => gc \in Collection
  BY DEF GCIdle
<1>1. CASE GCStart
  BY <1>1, MultipartAssumption DEF GCStart, Collection, NoRequest
<1>2. ASSUME NEW k \in Key, GCObject(k)
      PROVE  /\ gc' \in Collection
             /\ sweeps' = sweeps /\ partFile' = partFile
  BY <1>0, <1>2 DEF GCObject, Collection
<1>3. ASSUME NEW k \in Key, GCObjectFails(k)
      PROVE  /\ gc' \in Collection
             /\ sweeps' = sweeps /\ partFile' = partFile
  BY <1>0, <1>3 DEF GCObjectFails, Collection
<1>4. CASE GCUploads
  BY <1>0, <1>4 DEF GCUploads, Collection
<1>5. CASE GCFails \/ GCEnd
  BY <1>5 DEF GCFails, GCEnd
<1>6. CASE GCList
  BY <1>0, <1>6 DEF GCList, Collection
<1>7. ASSUME NEW u \in Upload, GCDelete(u)
      PROVE  /\ gc' \in Collection /\ sweeps' = sweeps
             /\ partFile' \in [Upload -> [Part -> Content \cup {Absent, Cut}]]
  BY <1>0, <1>7 DEF GCDelete, Collection
<1>8. ASSUME NEW u \in Upload, GCDeleteFails(u)
      PROVE  /\ gc' \in Collection
             /\ sweeps' = sweeps /\ partFile' = partFile
  BY <1>0, <1>8 DEF GCDeleteFails, Collection
<1> QED
  BY <1>1, <1>2, <1>3, <1>4, <1>5, <1>6, <1>7, <1>8 DEF GCStep

LEMMA NoticedType ==
    ASSUME TypeOK, Noticed
    PROVE  gc' \in Collection \cup {GCIdle}
  BY DEF TypeOK, Noticed, Collection

LEMMA TypesNext == TypeInv /\ Next => TypeInv'
<1> SUFFICES ASSUME TypeInv, Next PROVE TypeInv'
  OBVIOUS
<1>0. spoiled' \subseteq Upload
  BY DEF Next, TypeInv, TypeOK
<1>1. CASE RequestStep /\ Noticed /\ UNCHANGED sweeps
  <2>1. RequestsTyped' /\ gc' \in Collection \cup {GCIdle}
    BY <1>1, RequestTypes, NoticedType DEF TypeInv
  <2>2. TypeOK'
    BY <1>0, <1>1, <2>1 DEF RequestsTyped, TablesType, TypeInv, TypeOK
  <2> QED
    BY <2>1, <2>2 DEF RequestsTyped, TypeInv
<1>2. CASE GCStep /\ UNCHANGED <<status, tables, usage, op, started>>
  <2>1. TypeOK'
    BY <1>0, <1>2, CollectionTypes DEF TypeInv, TypeOK, tables, GateTypeOK
  <2>2. Charging' = Charging
    BY <1>2 DEF Charging
  <2>3. ContentInv' /\ UsageInv'
    BY <1>2, <2>2 DEF TypeInv, ContentInv, UsageInv
  <2> QED
    BY <2>1, <2>3 DEF TypeInv
<1> QED
  BY <1>1, <1>2 DEF Next

LEMMA TypesStutter == TypeInv /\ UNCHANGED vars => TypeInv'
<1> SUFFICES ASSUME TypeInv, UNCHANGED vars PROVE TypeInv'
  OBVIOUS
<1>1. TypeOK' /\ ContentInv' /\ Charging' = Charging
  BY DEF vars, TypeInv, TypeOK, GateTypeOK, ContentInv, Charging
<1>2. UsageInv'
  BY <1>1 DEF vars, TypeInv, UsageInv
<1> QED
  BY <1>1, <1>2 DEF TypeInv

-----------------------------------------------------------------------------
(***************************************************************************)
(* What a step of a request keeps at an upload.                            *)
(***************************************************************************)

\* A step with nobody in the way on u, neither before nor after, that cuts
\* nothing short.
Calm(u) == ~Contested(u) /\ ~Contested(u)' /\ ~CutShort(u)

\* While the gc command runs, u does not come to be needed.
NoNewNeeds(u) ==
    gc # GCIdle =>
        /\ Needed(u)' => Needed(u)
        /\ \A k \in Key : Refers(k, u)' => Refers(k, u)

Keeps(u) == Good(u)' /\ NoNewNeeds(u)

LEMMA SameNeeds ==
    ASSUME UNCHANGED tables, NEW u
    PROVE  NoNewNeeds(u)
  BY DEF tables, NoNewNeeds, Needed, Refers

LEMMA NoticedSpares ==
    ASSUME TypeOK, NEW u \in Upload, Spared(u), Noticed, NoNewNeeds(u)
    PROVE  Spared(u)'
<1>1. CASE gc = GCIdle
  BY <1>1 DEF Noticed, GCIdle, Spared
<1>2. CASE gc # GCIdle
  <2>1. gc \in Collection /\ gc' = [gc EXCEPT !.clean = FALSE]
    BY <1>2 DEF TypeOK, Noticed
  <2>2. gc'.pc = gc.pc /\ gc'.keys = gc.keys /\ gc'.named = gc.named /\ gc'.left = gc.left
    BY <2>1 DEF Collection
  <2> QED
    BY <1>2, <2>2 DEF Spared, NoNewNeeds
<1> QED
  BY <1>1, <1>2

LEMMA StepTo ==
    ASSUME TypeOK, NEW c \in Client, op[c] \in Request, NEW step, GoTo(c, step)
    PROVE  /\ op'[c].pc = step
           /\ op'[c].upload = op[c].upload /\ op'[c].key = op[c].key
           /\ op'[c].part = op[c].part /\ op'[c].content = op[c].content
           /\ op'[c].manifest = op[c].manifest
           /\ \A d \in Client : d # c => op'[d] = op[d]
  BY DEF GoTo, TypeOK, Request

LEMMA FailTo ==
    ASSUME TypeOK, NEW c \in Client, op[c] \in Request, Fail(c) \/ Return(c)
    PROVE  /\ \/ op'[c] = Idle /\ op'[c].pc = "idle"
              \/ op'[c].pc = "abort_start" /\ op'[c].upload = op[c].upload
           /\ \A d \in Client : d # c => op'[d] = op[d]
<1>1. CASE GoTo(c, "abort_start")
  BY <1>1, StepTo
<1>2. CASE Return(c)
  BY <1>2 DEF Return, TypeOK, Idle
<1> QED
  BY <1>1, <1>2 DEF Fail

\* A step that touches neither the tables nor the files.
LEMMA QuietKeeps ==
    ASSUME TypeOK, NEW u \in Upload, Good(u), NEW c \in Client, NEW r,
           op'[c] = r, \A d \in Client : d # c => op'[d] = op[d],
           UNCHANGED <<tables, partFile>>,
           r # Idle /\ r.upload = u => Fit(r),
           \A n \in Part :
               Holds(op[c], u, n) /\ parts[u][n] # NoPart => Holds(r, u, n)
    PROVE  Keeps(u)
<1>1. RowsGood(u)' /\ ObjectsGood(u)'
  BY DEF Good, RowsGood, ObjectsGood, Made, tables
<1>2. FilesGood(u)'
  <2> SUFFICES ASSUME u \in uploads, NEW n \in Part, parts[u][n] # NoPart,
                      partFile[u][n] # parts[u][n]
               PROVE  Held(u, n)'
    BY DEF FilesGood, tables
  <2>1. PICK d \in Client : Holds(op[d], u, n)
    BY DEF Good, FilesGood, Held
  <2>2. Holds(op[d], u, n)'
    BY <2>1 DEF Holds
  <2> QED
    BY <2>2 DEF Held
<1>3. RequestsGood(u)'
  <2> SUFFICES ASSUME NEW d \in Client, WorksOn(d, u)'
               PROVE  Fit(op[d])'
    BY DEF RequestsGood
  <2>1. Fit(op'[d])
    BY DEF Good, RequestsGood, WorksOn
  <2> QED
    BY <2>1 DEF Fit, Made, tables
<1> QED
  BY <1>1, <1>2, <1>3, SameNeeds DEF Good, Keeps

\* A step at another upload.
LEMMA ElsewhereKeeps ==
    ASSUME TypeOK, NEW u \in Upload, Good(u), NEW c \in Client, op[c] \in Request,
           op[c].upload # u,
           \A d \in Client : d # c => op'[d] = op[d],
           op'[c] = Idle \/ op'[c].upload = op[c].upload,
           parts'[u] = parts[u], partFile'[u] = partFile[u],
           u \in uploads' <=> u \in uploads,
           u \in used => u \in used',
           \A k \in Key : objects'[k] = objects[k] \/ ~Made(k, u)'
    PROVE  Keeps(u)
<1>0. \A k \in Key : Made(k, u)' => Made(k, u) /\ objects'[k] = objects[k]
  BY DEF Made
<1>1. RowsGood(u)' /\ ObjectsGood(u)'
  BY <1>0 DEF Good, RowsGood, ObjectsGood
<1>2. FilesGood(u)'
  <2> SUFFICES ASSUME u \in uploads, NEW n \in Part, parts[u][n] # NoPart,
                      partFile[u][n] # parts[u][n]
               PROVE  Held(u, n)'
    BY DEF FilesGood
  <2>1. PICK d \in Client : Holds(op[d], u, n)
    BY DEF Good, FilesGood, Held
  <2>2. d # c
    BY <2>1 DEF Holds
  <2>3. Holds(op[d], u, n)'
    BY <2>1, <2>2 DEF Holds
  <2> QED
    BY <2>3 DEF Held
<1>3. RequestsGood(u)'
  <2> SUFFICES ASSUME NEW d \in Client, WorksOn(d, u)'
               PROVE  Fit(op[d])'
    BY DEF RequestsGood
  <2>1. op'[d] = op[d] /\ op[d].upload = u /\ Fit(op[d])
    BY DEF Good, RequestsGood, WorksOn
  <2> QED
    BY <1>0, <2>1 DEF Fit
<1>4. NoNewNeeds(u)
  BY <1>0 DEF NoNewNeeds, Needed, Refers, Made
<1> QED
  BY <1>1, <1>2, <1>3, <1>4 DEF Good, Keeps

\* Two requests on u that are not in each other's way.
LEMMA Apart ==
    ASSUME NEW u, ~Contested(u), NEW c \in Client, NEW d \in Client, c # d,
           WorksOn(c, u), WorksOn(d, u)
    PROVE  /\ Sends(c) /\ Sends(d) => op[c].part # op[d].part
           /\ Completes(c) => ~Completes(d) /\ ~Sends(d) /\ ~Aborts(d)
           /\ Completes(d) => ~Sends(c) /\ ~Aborts(c)
           /\ Sends(c) => ~Aborts(d)
           /\ Aborts(c) => ~Sends(d)
  BY DEF Contested

\* An upload in progress has no object, and its rows are right unless a
\* request is at work.
LEMMA InProgressFacts ==
    ASSUME TypeOK, NEW u \in Upload, Good(u), u \in uploads
    PROVE  /\ u \in used
           /\ \A k \in Key : ~Made(k, u)
           /\ \A n \in Part : parts[u][n] # NoPart =>
                 partFile[u][n] = parts[u][n] \/ Held(u, n)
  BY DEF TypeOK, Good, ObjectsGood, FilesGood

\* A Complete that finds nobody else at work finds rows that are right.
LEMMA RowsAreFiles ==
    ASSUME TypeOK, NEW u \in Upload, Good(u), u \in uploads, ~Contested(u)',
           NEW c \in Client, \A d \in Client : d # c => op'[d] = op[d],
           op[c].pc \notin SendSteps \cup AbortWork,
           op'[c].pc = "complete_record", op'[c].upload = u
    PROVE  \A n \in Part : parts[u][n] # NoPart => partFile[u][n] = parts[u][n]
<1> SUFFICES ASSUME NEW n \in Part, parts[u][n] # NoPart,
                    partFile[u][n] # parts[u][n]
             PROVE  FALSE
  OBVIOUS
<1>1. PICK d \in Client : Holds(op[d], u, n)
  BY InProgressFacts DEF Held
<1>2. d # c /\ op'[d] = op[d]
  BY <1>1 DEF Holds
<1>3. WorksOn(d, u)' /\ (Sends(d) \/ Aborts(d))'
  BY <1>1, <1>2 DEF Holds, WorksOn, SendSteps, AbortWork, Sends, Aborts, Idle
<1>4. WorksOn(c, u)' /\ Completes(c)'
  BY DEF WorksOn, Completes, Idle
<1> QED
  BY <1>2, <1>3, <1>4 DEF Contested

LEMMA StartKeeps ==
    ASSUME TypeInv, NEW u \in Upload, Calm(u), Good(u), NEW c \in Client, Start(c)
    PROVE  Keeps(u)
<1> USE DEF TypeInv
<1>1. /\ op[c] = Idle
      /\ UNCHANGED <<tables, partFile>>
      /\ \E r : Moves(c, r)
      /\ \A n \in Part : ~Holds(op[c], u, n)
  BY StartMoves DEF Holds, SendSteps, AbortWork, Idle
<1>2. \A d \in Client : d # c => op'[d] = op[d]
  BY <1>1, MovesOnly
<1>3. SUFFICES ASSUME op'[c] # Idle, op'[c].upload = u
               PROVE  Fit(op'[c])
  BY <1>1, <1>2, QuietKeeps
<1>4. PICK k \in Key :
        \/ DeleteStart(c, k)
        \/ \E v \in Upload :
              \/ CreateStart(c, v, k)
              \/ \E x \in Content :
                    \/ PutChunkedStart(c, v, k, x)
                    \/ \E n \in Part : PartStart(c, v, k, n, x)
              \/ \E ns \in SUBSET Part : CompleteStart(c, v, k, ns)
              \/ AbortStart(c, v, k)
  BY DEF Start
<1>5. ASSUME NEW r, Admit(c, r) PROVE op'[c] = r
  BY <1>5 DEF Admit, TypeOK
<1>6. CASE DeleteStart(c, k)
  <2>1. op'[c] = [NewRequest("delete_record", objects[k].upload, k) EXCEPT
                     !.manifest = objects[k].chunks]
    BY <1>5, <1>6 DEF DeleteStart
  <2>2. op'[c].pc = "delete_record" /\ op'[c].key = k /\ Made(k, u)
    BY <1>3, <1>6, <2>1 DEF NewRequest, DeleteStart, Made
  <2>3. u \in used \ uploads /\ \A l \in Key : Made(l, u) => l = k
    BY <2>2 DEF Good, ObjectsGood
  <2> QED
    BY <1>3, <2>2, <2>3 DEF Fit, SendSteps, AbortWork
<1>7. ASSUME NEW v \in Upload, CreateStart(c, v, k)
      PROVE  Fit(op'[c])
  <2>1. op'[c].pc = "create_record"
    BY <1>5, <1>7 DEF CreateStart, NewRequest
  <2> QED
    BY <2>1 DEF Fit, SendSteps, AbortWork
<1>8. ASSUME NEW v \in Upload, NEW x \in Content, PutChunkedStart(c, v, k, x)
      PROVE  Fit(op'[c])
  <2>1. op'[c].pc = "create_record"
    BY <1>5, <1>8 DEF PutChunkedStart, NewRequest
  <2> QED
    BY <2>1 DEF Fit, SendSteps, AbortWork
<1>9. ASSUME NEW v \in Upload, NEW x \in Content, NEW n \in Part,
             PartStart(c, v, k, n, x)
      PROVE  Fit(op'[c])
  <2>1. op'[c].pc = "part_send" /\ op'[c].upload = v /\ v \in uploads
    BY <1>5, <1>9 DEF PartStart, NewRequest, InProgress
  <2> QED
    BY <2>1 DEF Fit, SendSteps, AbortWork
<1>10. ASSUME NEW v \in Upload, NEW ns \in SUBSET Part, CompleteStart(c, v, k, ns)
       PROVE  Fit(op'[c])
  <2>1. op'[c] = [NewRequest("complete_record", v, k) EXCEPT
                     !.manifest = [n \in Part |->
                         IF n \in ns THEN parts[v][n] ELSE NoPart]]
    BY <1>5, <1>10 DEF CompleteStart
  <2>2. /\ op'[c].pc = "complete_record" /\ op'[c].upload = v
        /\ op'[c].manifest = [n \in Part |-> IF n \in ns THEN parts[v][n] ELSE NoPart]
    BY <2>1 DEF NewRequest
  <2>3. v = u /\ u \in uploads
    BY <1>3, <1>10, <2>2 DEF CompleteStart, InProgress
  <2>4. \A n \in Part : parts[u][n] # NoPart => partFile[u][n] = parts[u][n]
    <3>1. op[c].pc \notin SendSteps \cup AbortWork
      BY <1>1 DEF Idle, SendSteps, AbortWork
    <3> QED
      BY <1>2, <2>2, <2>3, <3>1, RowsAreFiles DEF Calm
  <2>5. \A n \in Present(op'[c].manifest) : partFile[u][n] = op'[c].manifest[n]
    BY <2>2, <2>3, <2>4 DEF Present
  <2> QED
    BY <1>3, <2>2, <2>3, <2>5 DEF Fit, SendSteps, AbortWork
<1>11. ASSUME NEW v \in Upload, AbortStart(c, v, k)
       PROVE  Fit(op'[c])
  <2>1. op'[c].pc = "abort_files" /\ op'[c].upload = v /\ v \in uploads
    BY <1>5, <1>11 DEF AbortStart, NewRequest, InProgress
  <2> QED
    BY <1>3, <2>1, InProgressFacts DEF Fit, SendSteps, AbortWork
<1> QED
  BY <1>4, <1>6, <1>7, <1>8, <1>9, <1>10, <1>11

\* A step after which c relies on nothing, and that cuts nothing short.
LEMMA IdlyKeeps ==
    ASSUME TypeOK, NEW u \in Upload, Calm(u), Good(u),
           NEW c \in Client, op[c] \in Request,
           UNCHANGED <<tables, partFile>>, Fail(c) \/ Return(c)
    PROVE  Keeps(u)
<1>1. /\ op'[c].pc \in {"idle", "abort_start"}
      /\ \A d \in Client : d # c => op'[d] = op[d]
  BY FailTo
<1>2. op'[c] # Idle /\ op'[c].upload = u => Fit(op'[c])
  BY <1>1 DEF Fit, SendSteps, AbortWork
<1>3. \A n \in Part : ~(Holds(op[c], u, n) /\ parts[u][n] # NoPart)
  BY <1>1 DEF Calm, CutShort, Unfinished, Holds, SendSteps, AbortWork
<1> QED
  BY <1>1, <1>2, <1>3, QuietKeeps

\* A step from and to where c relies on nothing.
LEMMA LooselyKeeps ==
    ASSUME TypeOK, NEW u \in Upload, Good(u),
           NEW c \in Client, op[c].pc \notin SendSteps \cup AbortWork,
           op'[c].pc \notin SendSteps \cup AbortWork \cup
               {"complete_record", "delete_record", "delete_sync", "delete_files"},
           \A d \in Client : d # c => op'[d] = op[d],
           UNCHANGED <<tables, partFile>>
    PROVE  Keeps(u)
<1>1. Fit(op'[c])
  BY DEF Fit, SendSteps
<1>2. \A n \in Part : ~Holds(op[c], u, n)
  BY DEF Holds
<1> QED
  BY <1>1, <1>2, QuietKeeps

LEMMA CreateKeeps ==
    ASSUME TypeInv, NEW u \in Upload, Calm(u), Good(u), NEW c \in Client, CreateStep(c)
    PROVE  Keeps(u)
<1> USE DEF TypeInv
<1>1. op[c].pc \in CreateSteps /\ op[c] \in Request
  BY BusyIsRequest DEF CreateStep, CreateSteps, CreateRecord, CreateRecordFails,
                       CreateSync, CreateSyncFails, At
<1>2. CASE CreateRecord(c)
  <2>1. /\ op[c].upload \notin used /\ op[c].upload \in Upload
        /\ uploads' = uploads \cup {op[c].upload} /\ used' = used \cup {op[c].upload}
        /\ UNCHANGED <<parts, objects, partFile>>
    BY <1>1, <1>2 DEF CreateRecord, Fresh, Request
  <2>2. /\ op'[c].pc = "create_sync" /\ op'[c].upload = op[c].upload
        /\ \A d \in Client : d # c => op'[d] = op[d]
    BY <1>1, <1>2, StepTo DEF CreateRecord
  <2>3. CASE op[c].upload # u
    BY <1>1, <2>1, <2>2, <2>3, ElsewhereKeeps DEF TypeOK
  <2>4. CASE op[c].upload = u
    <3>1. u \notin uploads /\ \A k \in Key : ~Made(k, u)
      BY <2>1, <2>4 DEF TypeOK, Good, ObjectsGood
    <3>2. parts'[u] = NoParts /\ \A k \in Key : ~Made(k, u)'
      BY <2>1, <3>1 DEF Good, RowsGood, Made
    <3>3. RowsGood(u)' /\ ObjectsGood(u)' /\ FilesGood(u)'
      BY <3>2 DEF RowsGood, ObjectsGood, FilesGood, NoParts
    <3>4. RequestsGood(u)'
      <4> SUFFICES ASSUME NEW d \in Client, WorksOn(d, u)'
                   PROVE  Fit(op[d])'
        BY DEF RequestsGood
      <4>1. CASE d = c
        BY <2>2, <4>1 DEF Fit, SendSteps, AbortWork
      <4>2. CASE d # c
        <5>1. op'[d] = op[d] /\ op[d].upload = u /\ Fit(op[d])
          BY <2>2, <4>2 DEF WorksOn, Good, RequestsGood
        <5> QED
          BY <2>1, <2>4, <3>2, <5>1 DEF Fit
      <4> QED
        BY <4>1, <4>2
    <3>5. gc = GCIdle
      <4>1. WorksOn(c, u) /\ op[c].pc = "create_record"
        BY <1>2, <2>4 DEF WorksOn, CreateRecord, At, Idle
      <4> QED
        BY <4>1 DEF Calm, Contested
    <3> QED
      BY <3>3, <3>4, <3>5 DEF Good, Keeps, NoNewNeeds
  <2> QED
    BY <2>3, <2>4
<1>3. CASE CreateRecordFails(c)
  BY <1>1, <1>3, IdlyKeeps DEF CreateRecordFails
<1>4. CASE CreateSync(c)
  <2>1. CASE Return(c)
    BY <1>1, <1>4, <2>1, IdlyKeeps DEF CreateSync
  <2>2. CASE GoTo(c, "part_start")
    BY <1>1, <1>4, <2>2, StepTo, LooselyKeeps
    DEF CreateSync, At, SendSteps, AbortWork
  <2> QED
    BY <1>4, <2>1, <2>2 DEF CreateSync
<1>5. CASE CreateSyncFails(c)
  BY <1>1, <1>5, IdlyKeeps DEF CreateSyncFails
<1> QED
  BY <1>2, <1>3, <1>4, <1>5 DEF CreateStep

\* While c sends a part of u, u is in progress and nobody relies on the part.
LEMMA Sending ==
    ASSUME TypeInv, NEW u \in Upload, Calm(u), Good(u), NEW c \in Client,
           op[c] \in Request, op[c].pc \in SendSteps, op[c].upload = u
    PROVE  /\ u \in uploads /\ u \in used
           /\ \A k \in Key : ~Made(k, u)
           /\ op[c].part \in Part
           /\ op[c].pc = "part_record" => partFile[u][op[c].part] = op[c].content
           /\ \A d \in Client : d # c /\ WorksOn(d, u) =>
                 /\ op[d].pc # "complete_record"
                 /\ op[d].pc \in SendSteps => op[d].part # op[c].part
<1> USE DEF TypeInv
<1>1. WorksOn(c, u) /\ Sends(c)
  BY DEF WorksOn, Sends, SendSteps, Idle
<1>2. Fit(op[c])
  BY <1>1 DEF Good, RequestsGood
<1>3. u \in uploads
  BY <1>2 DEF Fit
<1>4. op[c].pc = "part_record" => partFile[u][op[c].part] = op[c].content
  BY <1>2 DEF Fit
<1>5. ASSUME NEW d \in Client, d # c, WorksOn(d, u)
      PROVE  /\ op[d].pc # "complete_record"
             /\ op[d].pc \in SendSteps => op[d].part # op[c].part
  BY <1>1, <1>5, Apart DEF Calm, Sends, Completes, SendSteps
<1> QED
  BY <1>3, <1>4, <1>5, InProgressFacts DEF Request

\* A step of a sender of a part of u, that changes its file or its row.
LEMMA SenderKeeps ==
    ASSUME TypeInv, NEW u \in Upload, Calm(u), Good(u), NEW c \in Client,
           op[c] \in Request, op[c].pc \in SendSteps, op[c].upload = u,
           UNCHANGED <<uploads, used, objects>>,
           \A d \in Client : d # c => op'[d] = op[d],
           \A m \in Part : m # op[c].part =>
               parts'[u][m] = parts[u][m] /\ partFile'[u][m] = partFile[u][m],
           \/ Holds(op'[c], u, op[c].part)
           \/ parts'[u][op[c].part] = NoPart
           \/ parts'[u][op[c].part] = partFile'[u][op[c].part],
           op'[c] # Idle => Fit(op[c])'
    PROVE  Keeps(u)
<1> USE DEF TypeInv
<1> DEFINE n == op[c].part
<1>0. /\ u \in uploads /\ \A k \in Key : ~Made(k, u)
      /\ n \in Part
      /\ \A d \in Client : d # c /\ WorksOn(d, u) =>
            /\ op[d].pc # "complete_record"
            /\ op[d].pc \in SendSteps => op[d].part # n
  BY Sending
<1>1. RowsGood(u)' /\ ObjectsGood(u)'
  BY <1>0 DEF RowsGood, ObjectsGood, Made
<1>2. FilesGood(u)'
  <2> SUFFICES ASSUME NEW m \in Part, parts'[u][m] # NoPart,
                      partFile'[u][m] # parts'[u][m]
               PROVE  Held(u, m)'
    BY DEF FilesGood
  <2>1. CASE m = n
    <3>1. Holds(op'[c], u, m)
      BY <2>1
    <3>2. Holds(op[c], u, m)'
      BY <3>1 DEF Holds
    <3> QED
      BY <3>2 DEF Held
  <2>2. CASE m # n
    <3>1. PICK d \in Client : Holds(op[d], u, m)
      BY <1>0, <2>2 DEF Good, FilesGood, Held
    <3>2. d # c
      BY <2>2, <3>1 DEF Holds
    <3>3. Holds(op[d], u, m)'
      BY <3>1, <3>2 DEF Holds
    <3> QED
      BY <3>3 DEF Held
  <2> QED
    BY <2>1, <2>2
<1>3. RequestsGood(u)'
  <2> SUFFICES ASSUME NEW d \in Client, WorksOn(d, u)'
               PROVE  Fit(op[d])'
    BY DEF RequestsGood
  <2>1. CASE d = c
    BY <2>1 DEF WorksOn
  <2>2. CASE d # c
    <3>1. op'[d] = op[d] /\ op[d].upload = u /\ WorksOn(d, u) /\ Fit(op[d])
      BY <2>2 DEF WorksOn, Good, RequestsGood
    <3>2. op[d].pc = "part_record" => partFile'[u][op[d].part] = partFile[u][op[d].part]
      <4>1. SUFFICES ASSUME op[d].pc = "part_record"
                     PROVE  op[d].part \in Part /\ op[d].part # n
        OBVIOUS
      <4>2. op[d] \in Request
        BY <4>1, BusyIsRequest
      <4> QED
        BY <1>0, <2>2, <3>1, <4>1, <4>2 DEF SendSteps, Request
    <3> QED
      BY <1>0, <2>2, <3>1, <3>2 DEF Fit, Made
  <2> QED
    BY <2>1, <2>2
<1>4. NoNewNeeds(u)
  BY DEF NoNewNeeds, Needed, Refers
<1> QED
  BY <1>1, <1>2, <1>3, <1>4 DEF Good, Keeps

\* Only the file of the part of c changes.
LEMMA SendChanges ==
    ASSUME TypeOK, NEW c \in Client, op[c] \in Request, NEW outcomes, Send(c, outcomes)
    PROVE  /\ partFile'[op[c].upload][op[c].part] \in outcomes
           /\ \A m \in Part : m # op[c].part =>
                 partFile'[op[c].upload][m] = partFile[op[c].upload][m]
           /\ \A u \in Upload : u # op[c].upload => partFile'[u] = partFile[u]
  BY DEF Send, TypeOK, Request

LEMMA PartKeeps ==
    ASSUME TypeInv, NEW u \in Upload, Calm(u), Good(u), NEW c \in Client, PartStep(c)
    PROVE  Keeps(u)
<1> USE DEF TypeInv
<1>0. op[c].pc \in PartSteps
  BY DEF PartStep, PartSteps, ChunkStart, PartSend, PartSendFails, PartCleanup,
         PartRecord, PartRecordFails, PartSync, SyncFails, At
<1>1. op[c] \in Request
  BY <1>0, BusyIsRequest DEF PartSteps
<1>2. op[c].upload \in Upload /\ op[c].part \in Part
  BY <1>1 DEF Request
<1>3. CASE ChunkStart(c)
  <2>1. CASE Fail(c)
    BY <1>1, <1>3, <2>1, IdlyKeeps DEF ChunkStart
  <2>2. CASE op[c].upload \in uploads /\ GoTo(c, "part_send")
    <3>1. /\ op'[c].pc = "part_send" /\ op'[c].upload = op[c].upload
          /\ \A d \in Client : d # c => op'[d] = op[d]
      BY <1>1, <2>2, StepTo
    <3>2. Fit(op'[c])
      BY <2>2, <3>1 DEF Fit, SendSteps, AbortWork
    <3>3. \A n \in Part : ~Holds(op[c], u, n)
      BY <1>3 DEF ChunkStart, At, Holds, SendSteps, AbortWork
    <3> QED
      BY <1>3, <3>1, <3>2, <3>3, QuietKeeps DEF ChunkStart
  <2> QED
    BY <1>3, <2>1, <2>2 DEF ChunkStart, InProgress
<1>4. CASE PartSend(c)
  <2>1. /\ op'[c].pc = "part_record" /\ op'[c].upload = op[c].upload
        /\ op'[c].part = op[c].part /\ op'[c].content = op[c].content
        /\ \A d \in Client : d # c => op'[d] = op[d]
    BY <1>1, <1>4, StepTo DEF PartSend
  <2>2. UNCHANGED tables /\ op[c].pc \in SendSteps
    BY <1>4 DEF PartSend, At, SendSteps
  <2>3. /\ partFile'[op[c].upload][op[c].part] = op[c].content
        /\ \A m \in Part : m # op[c].part =>
              partFile'[op[c].upload][m] = partFile[op[c].upload][m]
        /\ \A v \in Upload : v # op[c].upload => partFile'[v] = partFile[v]
    BY <1>1, <1>4, SendChanges DEF PartSend
  <2>4. CASE op[c].upload # u
    BY <1>1, <2>1, <2>2, <2>3, <2>4, ElsewhereKeeps DEF tables
  <2>5. CASE op[c].upload = u
    <3>1. Holds(op'[c], u, op[c].part)
      BY <2>1, <2>5 DEF Holds, SendSteps
    <3>2. Fit(op[c])'
      BY <1>1, <2>1, <2>2, <2>3, <2>5, Sending DEF Fit, SendSteps, AbortWork, tables
    <3> QED
      BY <1>1, <2>1, <2>2, <2>3, <2>5, <3>1, <3>2, SenderKeeps DEF tables
  <2> QED
    BY <2>4, <2>5
<1>5. CASE PartSendFails(c)
  <2>1. /\ op'[c].pc = "part_cleanup" /\ op'[c].upload = op[c].upload
        /\ op'[c].part = op[c].part
        /\ \A d \in Client : d # c => op'[d] = op[d]
    BY <1>1, <1>5, StepTo DEF PartSendFails
  <2>2. UNCHANGED tables /\ op[c].pc \in SendSteps
    BY <1>5 DEF PartSendFails, At, SendSteps
  <2>3. /\ \A m \in Part : m # op[c].part =>
              partFile'[op[c].upload][m] = partFile[op[c].upload][m]
        /\ \A v \in Upload : v # op[c].upload => partFile'[v] = partFile[v]
    BY <1>1, <1>5, SendChanges DEF PartSendFails
  <2>4. CASE op[c].upload # u
    BY <1>1, <2>1, <2>2, <2>3, <2>4, ElsewhereKeeps DEF tables
  <2>5. CASE op[c].upload = u
    <3>1. Holds(op'[c], u, op[c].part)
      BY <2>1, <2>5 DEF Holds, SendSteps
    <3>2. Fit(op[c])'
      BY <1>1, <2>1, <2>2, <2>5, Sending DEF Fit, SendSteps, AbortWork, tables
    <3> QED
      BY <1>1, <2>1, <2>2, <2>3, <2>5, <3>1, <3>2, SenderKeeps DEF tables
  <2> QED
    BY <2>4, <2>5
<1>6. CASE PartCleanup(c)
  <2>1. /\ \/ op'[c] = Idle /\ op'[c].pc = "idle"
           \/ op'[c].pc = "abort_start" /\ op'[c].upload = op[c].upload
        /\ \A d \in Client : d # c => op'[d] = op[d]
    BY <1>1, <1>6, FailTo DEF PartCleanup
  <2>2. UNCHANGED tables /\ op[c].pc \in SendSteps
    BY <1>6 DEF PartCleanup, At, SendSteps
  <2>3. /\ \A m \in Part : m # op[c].part =>
              partFile'[op[c].upload][m] = partFile[op[c].upload][m]
        /\ \A v \in Upload : v # op[c].upload => partFile'[v] = partFile[v]
    BY <1>1, <1>6, SendChanges DEF PartCleanup
  <2>4. CASE op[c].upload # u
    BY <1>1, <2>1, <2>2, <2>3, <2>4, ElsewhereKeeps DEF tables
  <2>5. CASE op[c].upload = u
    <3>1. parts'[u][op[c].part] = NoPart
      BY <2>1, <2>2, <2>5 DEF Calm, CutShort, Unfinished, SendSteps, tables
    <3>2. op'[c] # Idle => Fit(op[c])'
      BY <2>1 DEF Fit, SendSteps, AbortWork
    <3> QED
      BY <1>1, <2>1, <2>2, <2>3, <2>5, <3>1, <3>2, SenderKeeps DEF tables
  <2> QED
    BY <2>4, <2>5
<1>7. CASE PartRecord(c)
  <2>1. /\ op'[c].pc = "part_sync" /\ op'[c].upload = op[c].upload
        /\ \A d \in Client : d # c => op'[d] = op[d]
    BY <1>1, <1>7, StepTo DEF PartRecord
  <2>2. /\ UNCHANGED <<uploads, used, objects, partFile>>
        /\ op[c].pc \in SendSteps /\ op[c].pc = "part_record"
        /\ parts' = [parts EXCEPT ![op[c].upload][op[c].part] = op[c].content]
    BY <1>7 DEF PartRecord, At, SendSteps
  <2>3. /\ parts'[op[c].upload][op[c].part] = op[c].content
        /\ \A m \in Part : m # op[c].part =>
              parts'[op[c].upload][m] = parts[op[c].upload][m]
        /\ \A v \in Upload : v # op[c].upload => parts'[v] = parts[v]
    BY <1>2, <2>2 DEF TypeOK, Manifest
  <2>4. CASE op[c].upload # u
    BY <1>1, <2>1, <2>2, <2>3, <2>4, ElsewhereKeeps
  <2>5. CASE op[c].upload = u
    <3>1. parts'[u][op[c].part] = partFile'[u][op[c].part]
      BY <1>1, <2>2, <2>3, <2>5, Sending
    <3>2. Fit(op[c])'
      BY <2>1 DEF Fit, SendSteps, AbortWork
    <3> QED
      BY <1>1, <2>1, <2>2, <2>3, <2>5, <3>1, <3>2, SenderKeeps
  <2> QED
    BY <2>4, <2>5
<1>8. CASE PartRecordFails(c)
  BY <1>1, <1>8, IdlyKeeps DEF PartRecordFails
<1>9. CASE PartSync(c)
  <2>1. CASE Return(c)
    BY <1>1, <1>9, <2>1, IdlyKeeps DEF PartSync
  <2>2. CASE \/ GoTo(c, "complete_start")
             \/ op' = [op EXCEPT ![c].pc = "part_start", ![c].part = op[c].part + 1]
    <3>1. /\ op'[c].pc \in {"complete_start", "part_start"}
          /\ \A d \in Client : d # c => op'[d] = op[d]
      BY <1>1, <2>2 DEF GoTo, TypeOK, Request
    <3> QED
      BY <1>9, <3>1, LooselyKeeps DEF PartSync, At, SendSteps, AbortWork
  <2> QED
    BY <1>9, <2>1, <2>2 DEF PartSync
<1>10. CASE SyncFails(c, "part_sync")
  BY <1>1, <1>10, IdlyKeeps DEF SyncFails
<1> QED
  BY <1>3, <1>4, <1>5, <1>6, <1>7, <1>8, <1>9, <1>10 DEF PartStep

LEMMA CompleteRecordKeeps ==
    ASSUME TypeInv, NEW u \in Upload, Calm(u), Good(u), NEW c \in Client,
           op[c] \in Request, CompleteRecord(c)
    PROVE  Keeps(u)
<1> USE DEF TypeInv
<1>1. /\ op'[c].pc = "complete_sync" /\ op'[c].upload = op[c].upload
      /\ \A d \in Client : d # c => op'[d] = op[d]
  BY StepTo DEF CompleteRecord
<1>2. /\ op[c].pc = "complete_record"
      /\ op[c].upload \in Upload /\ op[c].key \in Key
      /\ uploads' = uploads \ {op[c].upload}
      /\ UNCHANGED <<used, partFile>>
  BY DEF CompleteRecord, At, Request
<1>3. /\ parts'[op[c].upload] = NoParts
      /\ \A v \in Upload : v # op[c].upload => parts'[v] = parts[v]
      /\ objects'[op[c].key] = [upload |-> op[c].upload, chunks |-> op[c].manifest]
      /\ \A k \in Key : k # op[c].key => objects'[k] = objects[k]
  BY <1>2 DEF CompleteRecord, WriteObject, TypeOK
<1>4. CASE op[c].upload # u
  <2>1. \A k \in Key : objects'[k] = objects[k] \/ ~Made(k, u)'
    BY <1>3, <1>4 DEF Made
  <2> QED
    BY <1>1, <1>2, <1>3, <1>4, <2>1, ElsewhereKeeps
<1>5. CASE op[c].upload = u
  <2>1. WorksOn(c, u) /\ Completes(c)
    BY <1>2, <1>5 DEF WorksOn, Completes, Idle
  <2>2. Fit(op[c])
    BY <2>1 DEF Good, RequestsGood
  <2>3. u \in uploads /\ u \in used /\ \A k \in Key : ~Made(k, u)
    BY <1>2, <1>5, <2>2, InProgressFacts DEF Fit
  <2>4. \A n \in Present(op[c].manifest) : partFile[u][n] = op[c].manifest[n]
    BY <1>2, <1>5, <2>2 DEF Fit
  <2>5. u \in used' \ uploads' /\ parts'[u] = NoParts
    BY <1>2, <1>3, <1>5, <2>3
  <2>6. \A k \in Key : Made(k, u)' => k = op[c].key
    BY <1>3, <2>3 DEF Made
  <2>7. ObjectsGood(u)'
    <3> SUFFICES ASSUME NEW k \in Key, Made(k, u)'
                 PROVE  /\ \A l \in Key : Made(l, u)' => k = l
                        /\ \A n \in Present(objects'[k].chunks) :
                              partFile'[u][n] = objects'[k].chunks[n]
      BY <2>5 DEF ObjectsGood
    <3>1. objects'[k].chunks = op[c].manifest
      BY <1>3, <2>6
    <3> QED
      BY <1>2, <2>4, <2>6, <3>1
  <2>8. RowsGood(u)' /\ FilesGood(u)'
    BY <2>5 DEF RowsGood, FilesGood
  <2>9. RequestsGood(u)'
    <3> SUFFICES ASSUME NEW d \in Client, WorksOn(d, u)'
                 PROVE  Fit(op[d])'
      BY DEF RequestsGood
    <3>1. CASE d = c
      BY <1>1, <3>1 DEF Fit, SendSteps, AbortWork
    <3>2. CASE d # c
      <4>1. op'[d] = op[d] /\ op[d].upload = u /\ WorksOn(d, u) /\ Fit(op[d])
        BY <1>1, <3>2 DEF WorksOn, Good, RequestsGood
      <4>2. op[d].pc \notin SendSteps \cup AbortWork \cup {"complete_record"}
        BY <2>1, <3>2, <4>1, Apart
        DEF Calm, Sends, Completes, Aborts, SendSteps, AbortWork
      <4>3. op[d].pc \notin {"delete_record", "delete_sync", "delete_files"}
        BY <2>3, <4>1 DEF Fit
      <4> QED
        BY <4>1, <4>2, <4>3 DEF Fit, SendSteps
    <3> QED
      BY <3>1, <3>2
  <2>10. gc = GCIdle
    BY <1>2, <2>1 DEF Calm, Contested
  <2> QED
    BY <2>7, <2>8, <2>9, <2>10 DEF Good, Keeps, NoNewNeeds
<1> QED
  BY <1>4, <1>5

LEMMA CompleteKeeps ==
    ASSUME TypeInv, NEW u \in Upload, Calm(u), Good(u), NEW c \in Client, CompleteStep(c)
    PROVE  Keeps(u)
<1> USE DEF TypeInv
<1>1. op[c].pc \in CompleteSteps /\ op[c] \in Request
  BY BusyIsRequest DEF CompleteStep, CompleteSteps, ChunksComplete, CompleteRecord,
                       CompleteRecordFails, CompleteSync, SyncFails, At
<1>2. CASE ChunksComplete(c)
  <2> DEFINE all == [n \in Part |-> op[c].content]
  <2>1. CASE Fail(c)
    BY <1>1, <1>2, <2>1, IdlyKeeps DEF ChunksComplete
  <2>2. CASE /\ op[c].upload \in uploads /\ parts[op[c].upload] = all
             /\ op' = [op EXCEPT ![c].pc = "complete_record", ![c].manifest = all]
    <3>1. /\ op'[c].pc = "complete_record" /\ op'[c].upload = op[c].upload
          /\ op'[c].manifest = all
          /\ \A d \in Client : d # c => op'[d] = op[d]
      BY <1>1, <2>2 DEF TypeOK, Request
    <3>2. op[c].pc \notin SendSteps \cup AbortWork
      BY <1>2 DEF ChunksComplete, At, SendSteps, AbortWork
    <3>3. \A n \in Part : ~Holds(op[c], u, n)
      BY <3>2 DEF Holds
    <3>4. ASSUME op[c].upload = u PROVE Fit(op'[c])
      <4>1. \A n \in Part : parts[u][n] # NoPart => partFile[u][n] = parts[u][n]
        BY <2>2, <3>1, <3>2, <3>4, RowsAreFiles DEF Calm
      <4>2. \A n \in Present(op'[c].manifest) : partFile[u][n] = op'[c].manifest[n]
        BY <2>2, <3>1, <3>4, <4>1 DEF Present
      <4> QED
        BY <2>2, <3>1, <3>4, <4>2 DEF Fit, SendSteps, AbortWork
    <3> QED
      BY <1>2, <3>1, <3>3, <3>4, QuietKeeps DEF ChunksComplete
  <2> QED
    BY <1>2, <2>1, <2>2 DEF ChunksComplete, InProgress
<1>3. CASE CompleteRecord(c)
  BY <1>1, <1>3, CompleteRecordKeeps
<1>4. CASE CompleteRecordFails(c)
  BY <1>1, <1>4, IdlyKeeps DEF CompleteRecordFails
<1>5. CASE CompleteSync(c)
  BY <1>1, <1>5, IdlyKeeps DEF CompleteSync
<1>6. CASE SyncFails(c, "complete_sync")
  BY <1>1, <1>6, IdlyKeeps DEF SyncFails
<1> QED
  BY <1>2, <1>3, <1>4, <1>5, <1>6 DEF CompleteStep

\* Files of u go while no object and no other request needs them.
LEMMA DeletePartsKeeps ==
    ASSUME TypeInv, NEW u \in Upload, Calm(u), Good(u), NEW c \in Client,
           NEW step \in {"abort_files", "delete_files"}, DeleteParts(c, step)
    PROVE  Keeps(u)
<1> USE DEF TypeInv
<1>1. op[c] \in Request /\ op[c].pc = step
  BY BusyIsRequest DEF DeleteParts, At
<1>2. PICK n \in op[c].todo :
        /\ op' = [op EXCEPT ![c].todo = op[c].todo \ {n}]
        /\ \E left \in {Absent, partFile[op[c].upload][n]} :
              partFile' = [partFile EXCEPT ![op[c].upload][n] = left]
  BY DEF DeleteParts
<1>3. /\ op'[c].pc = step /\ op'[c].upload = op[c].upload
      /\ \A d \in Client : d # c => op'[d] = op[d]
      /\ UNCHANGED tables
  BY <1>1, <1>2 DEF DeleteParts, TypeOK, Request
<1>4. CASE op[c].upload # u
  <2>1. partFile'[u] = partFile[u]
    BY <1>1, <1>2, <1>4 DEF TypeOK
  <2> QED
    BY <1>1, <1>3, <1>4, <2>1, ElsewhereKeeps DEF tables
<1>5. CASE op[c].upload = u
  <2>1. WorksOn(c, u)
    BY <1>1, <1>5 DEF WorksOn, Idle
  <2>2. Fit(op[c])
    BY <2>1 DEF Good, RequestsGood
  <2>3. /\ u \in used /\ \A k \in Key : ~Made(k, u)
        /\ step = "delete_files" => u \notin uploads
    BY <1>1, <1>5, <2>2 DEF Fit, AbortWork
  <2>4. RowsGood(u)' /\ ObjectsGood(u)'
    BY <1>3, <2>3 DEF Good, RowsGood, ObjectsGood, Made, tables
  <2>5. FilesGood(u)'
    <3>1. CASE step = "delete_files"
      BY <1>3, <2>3, <3>1 DEF FilesGood, tables
    <3>2. CASE step = "abort_files"
      <4>1. \A m \in Part : Holds(op[c], u, m)'
        BY <1>3, <1>5, <3>2 DEF Holds, AbortWork, SendSteps
      <4> QED
        BY <4>1 DEF FilesGood, Held
    <3> QED
      BY <3>1, <3>2
  <2>6. RequestsGood(u)'
    <3> SUFFICES ASSUME NEW d \in Client, WorksOn(d, u)'
                 PROVE  Fit(op[d])'
      BY DEF RequestsGood
    <3>1. CASE d = c
      BY <1>1, <1>3, <1>5, <2>2, <3>1 DEF Fit, Made, SendSteps, AbortWork, tables
    <3>2. CASE d # c
      <4>1. op'[d] = op[d] /\ op[d].upload = u /\ WorksOn(d, u) /\ Fit(op[d])
        BY <1>3, <3>2 DEF WorksOn, Good, RequestsGood
      <4>2. op[d].pc \notin {"part_record", "complete_record"}
        <5>1. CASE step = "delete_files"
          BY <2>3, <4>1, <5>1 DEF Fit, SendSteps
        <5>2. CASE step = "abort_files"
          BY <1>1, <2>1, <3>2, <4>1, <5>2, Apart
          DEF Calm, Sends, Completes, Aborts
        <5> QED
          BY <5>1, <5>2
      <4> QED
        BY <1>3, <4>1, <4>2 DEF Fit, Made, tables
    <3> QED
      BY <3>1, <3>2
  <2> QED
    BY <1>3, <2>4, <2>5, <2>6, SameNeeds DEF Good, Keeps
<1> QED
  BY <1>4, <1>5

LEMMA AbortRecordKeeps ==
    ASSUME TypeInv, NEW u \in Upload, Calm(u), Good(u), NEW c \in Client,
           op[c] \in Request, AbortRecord(c)
    PROVE  Keeps(u)
<1> USE DEF TypeInv
<1>1. /\ op'[c].pc = "abort_sync" /\ op'[c].upload = op[c].upload
      /\ \A d \in Client : d # c => op'[d] = op[d]
  BY StepTo DEF AbortRecord
<1>2. /\ op[c].pc = "abort_record" /\ op[c].upload \in Upload
      /\ uploads' = uploads \ {op[c].upload}
      /\ UNCHANGED <<used, objects, partFile>>
  BY DEF AbortRecord, At, Request
<1>3. /\ parts'[op[c].upload] = NoParts
      /\ \A v \in Upload : v # op[c].upload => parts'[v] = parts[v]
  BY <1>2 DEF AbortRecord, TypeOK
<1>4. CASE op[c].upload # u
  BY <1>1, <1>2, <1>3, <1>4, ElsewhereKeeps
<1>5. CASE op[c].upload = u
  <2>1. WorksOn(c, u) /\ Aborts(c)
    BY <1>2, <1>5 DEF WorksOn, Aborts, Idle
  <2>2. u \in used /\ \A k \in Key : ~Made(k, u)
    BY <1>2, <1>5, <2>1 DEF Good, RequestsGood, Fit, AbortWork
  <2>3. u \in used' \ uploads' /\ parts'[u] = NoParts /\ \A k \in Key : ~Made(k, u)'
    BY <1>2, <1>3, <1>5, <2>2 DEF Made
  <2>4. RowsGood(u)' /\ ObjectsGood(u)' /\ FilesGood(u)'
    BY <2>3 DEF RowsGood, ObjectsGood, FilesGood
  <2>5. RequestsGood(u)'
    <3> SUFFICES ASSUME NEW d \in Client, WorksOn(d, u)'
                 PROVE  Fit(op[d])'
      BY DEF RequestsGood
    <3>1. CASE d = c
      BY <1>1, <3>1 DEF Fit, SendSteps, AbortWork
    <3>2. CASE d # c
      <4>1. op'[d] = op[d] /\ op[d].upload = u /\ WorksOn(d, u)
        BY <1>1, <3>2 DEF WorksOn
      <4>2. op[d].pc \notin SendSteps \cup {"complete_record"}
        BY <2>1, <3>2, <4>1, Apart DEF Calm, Sends, Completes, SendSteps
      <4> QED
        BY <2>3, <4>1, <4>2 DEF Fit, SendSteps
    <3> QED
      BY <3>1, <3>2
  <2>6. NoNewNeeds(u)
    BY <1>2 DEF NoNewNeeds, Needed, Refers
  <2> QED
    BY <2>4, <2>5, <2>6 DEF Good, Keeps
<1> QED
  BY <1>4, <1>5

LEMMA AbortKeeps ==
    ASSUME TypeInv, NEW u \in Upload, Calm(u), Good(u), NEW c \in Client, AbortStep(c)
    PROVE  Keeps(u)
<1> USE DEF TypeInv
<1>1. op[c].pc \in AbortSteps /\ op[c] \in Request
  BY BusyIsRequest
  DEF AbortStep, AbortSteps, ChunksAbort, AbortFiles, DeleteParts, AbortFilesEnd,
      AbortRecord, AbortRecordFails, AbortSync, SyncFails, At
<1>2. CASE ChunksAbort(c)
  <2>1. CASE Return(c)
    BY <1>1, <1>2, <2>1, IdlyKeeps DEF ChunksAbort
  <2>2. CASE /\ op[c].upload \in uploads
             /\ op' = [op EXCEPT ![c].pc = "abort_files",
                                 ![c].todo = Present(parts[op[c].upload])]
    <3>1. /\ op'[c].pc = "abort_files" /\ op'[c].upload = op[c].upload
          /\ \A d \in Client : d # c => op'[d] = op[d]
      BY <1>1, <2>2 DEF TypeOK, Request
    <3>2. \A n \in Part : ~Holds(op[c], u, n)
      BY <1>2 DEF ChunksAbort, At, Holds, SendSteps, AbortWork
    <3>3. op[c].upload = u => Fit(op'[c])
      BY <2>2, <3>1, InProgressFacts DEF Fit, SendSteps, AbortWork
    <3> QED
      BY <1>2, <3>1, <3>2, <3>3, QuietKeeps DEF ChunksAbort
  <2> QED
    BY <1>2, <2>1, <2>2 DEF ChunksAbort, InProgress
<1>3. CASE AbortFiles(c)
  BY <1>3, DeletePartsKeeps DEF AbortFiles
<1>4. CASE AbortFilesEnd(c)
  <2>1. /\ op[c].pc = "abort_files"
        /\ op'[c].pc = "abort_record" /\ op'[c].upload = op[c].upload
        /\ \A d \in Client : d # c => op'[d] = op[d]
    BY <1>1, <1>4, StepTo DEF AbortFilesEnd, At
  <2>2. \A n \in Part : Holds(op[c], u, n) => Holds(op'[c], u, n)
    BY <2>1 DEF Holds, SendSteps, AbortWork
  <2>3. op[c].upload = u => Fit(op'[c])
    <3>1. op[c].upload = u => WorksOn(c, u)
      BY <2>1 DEF WorksOn, Idle
    <3> QED
      BY <2>1, <3>1 DEF Good, RequestsGood, Fit, SendSteps, AbortWork
  <2> QED
    BY <1>4, <2>1, <2>2, <2>3, QuietKeeps DEF AbortFilesEnd
<1>5. CASE AbortRecord(c)
  BY <1>1, <1>5, AbortRecordKeeps
<1>6. CASE AbortRecordFails(c)
  BY <1>1, <1>6, IdlyKeeps DEF AbortRecordFails
<1>7. CASE AbortSync(c)
  BY <1>1, <1>7, IdlyKeeps DEF AbortSync
<1>8. CASE SyncFails(c, "abort_sync")
  BY <1>1, <1>8, IdlyKeeps DEF SyncFails
<1> QED
  BY <1>2, <1>3, <1>4, <1>5, <1>6, <1>7, <1>8 DEF AbortStep

LEMMA DeleteRecordKeeps ==
    ASSUME TypeInv, NEW u \in Upload, Calm(u), Good(u), NEW c \in Client,
           op[c] \in Request, DeleteRecord(c)
    PROVE  Keeps(u)
<1> USE DEF TypeInv
<1>1. /\ op'[c].pc = "delete_sync" /\ op'[c].upload = op[c].upload
      /\ \A d \in Client : d # c => op'[d] = op[d]
  BY StepTo DEF DeleteRecord
<1>2. /\ op[c].pc = "delete_record" /\ op[c].key \in Key
      /\ UNCHANGED <<uploads, used, parts, partFile>>
  BY DEF DeleteRecord, At, Request
<1>3. /\ objects'[op[c].key] = NoObject
      /\ \A k \in Key : k # op[c].key => objects'[k] = objects[k]
  BY <1>2 DEF DeleteRecord, TypeOK
<1>4. CASE op[c].upload # u
  <2>1. \A k \in Key : objects'[k] = objects[k] \/ ~Made(k, u)'
    BY <1>3 DEF Made
  <2> QED
    BY <1>1, <1>2, <1>4, <2>1, ElsewhereKeeps
<1>5. CASE op[c].upload = u
  <2>1. WorksOn(c, u)
    BY <1>2, <1>5 DEF WorksOn, Idle
  <2>2. /\ u \in used \ uploads
        /\ \A k \in Key : Made(k, u) => k = op[c].key
    BY <1>2, <1>5, <2>1 DEF Good, RequestsGood, Fit
  <2>3. \A k \in Key : ~Made(k, u)'
    BY <1>3, <2>2 DEF Made
  <2>4. RowsGood(u)' /\ ObjectsGood(u)' /\ FilesGood(u)'
    BY <1>2, <2>2, <2>3 DEF Good, RowsGood, ObjectsGood, FilesGood
  <2>5. RequestsGood(u)'
    <3> SUFFICES ASSUME NEW d \in Client, WorksOn(d, u)'
                 PROVE  Fit(op[d])'
      BY DEF RequestsGood
    <3>1. CASE d = c
      BY <1>1, <1>2, <1>5, <2>2, <2>3, <3>1 DEF Fit, SendSteps, AbortWork
    <3>2. CASE d # c
      <4>1. op'[d] = op[d] /\ op[d].upload = u /\ Fit(op[d])
        BY <1>1, <3>2 DEF WorksOn, Good, RequestsGood
      <4> QED
        BY <1>2, <2>3, <4>1 DEF Fit
    <3> QED
      BY <3>1, <3>2
  <2>6. NoNewNeeds(u)
    BY <1>2, <2>3 DEF NoNewNeeds, Needed, Refers, Made
  <2> QED
    BY <2>4, <2>5, <2>6 DEF Good, Keeps
<1> QED
  BY <1>4, <1>5

LEMMA DeleteKeeps ==
    ASSUME TypeInv, NEW u \in Upload, Calm(u), Good(u), NEW c \in Client, DeleteStep(c)
    PROVE  Keeps(u)
<1> USE DEF TypeInv
<1>1. op[c].pc \in DeleteSteps /\ op[c] \in Request
  BY BusyIsRequest
  DEF DeleteStep, DeleteSteps, DeleteRecord, DeleteRecordFails, DeleteSync,
      DeleteSyncFails, DeleteFiles, DeleteParts, DeleteEnd, At
<1>2. CASE DeleteRecord(c)
  BY <1>1, <1>2, DeleteRecordKeeps
<1>3. CASE DeleteRecordFails(c)
  BY <1>1, <1>3, IdlyKeeps DEF DeleteRecordFails
<1>4. CASE DeleteSync(c)
  <2>1. /\ op[c].pc = "delete_sync"
        /\ op'[c].pc = "delete_files" /\ op'[c].upload = op[c].upload
        /\ \A d \in Client : d # c => op'[d] = op[d]
    BY <1>1, <1>4 DEF DeleteSync, At, TypeOK, Request
  <2>2. \A n \in Part : ~Holds(op[c], u, n)
    BY <2>1 DEF Holds, SendSteps, AbortWork
  <2>3. op[c].upload = u => Fit(op'[c])
    <3>1. op[c].upload = u => WorksOn(c, u)
      BY <2>1 DEF WorksOn, Idle
    <3> QED
      BY <2>1, <3>1 DEF Good, RequestsGood, Fit, SendSteps, AbortWork
  <2> QED
    BY <1>4, <2>1, <2>2, <2>3, QuietKeeps DEF DeleteSync
<1>5. CASE DeleteSyncFails(c)
  BY <1>1, <1>5, IdlyKeeps DEF DeleteSyncFails
<1>6. CASE DeleteFiles(c)
  BY <1>6, DeletePartsKeeps DEF DeleteFiles
<1>7. CASE DeleteEnd(c)
  BY <1>1, <1>7, IdlyKeeps DEF DeleteEnd
<1> QED
  BY <1>2, <1>3, <1>4, <1>5, <1>6, <1>7 DEF DeleteStep

LEMMA RestartKeeps ==
    ASSUME TypeInv, NEW u \in Upload, Calm(u), Good(u), Restart
    PROVE  Keeps(u)
<1> USE DEF TypeInv
<1>1. UNCHANGED <<tables, partFile>> /\ \A c \in Client : op'[c] = Idle
  BY DEF Restart
<1>2. RowsGood(u)' /\ ObjectsGood(u)'
  BY <1>1 DEF Good, RowsGood, ObjectsGood, Made, tables
<1>3. RequestsGood(u)'
  BY <1>1 DEF RequestsGood, WorksOn
<1>4. FilesGood(u)'
  <2> SUFFICES ASSUME NEW n \in Part, NEW c \in Client, parts[u][n] # NoPart,
                      Holds(op[c], u, n)
               PROVE  FALSE
    BY <1>1 DEF Good, FilesGood, Held, tables
  <2>1. Unfinished(c) /\ op[c].upload = u
    BY DEF Holds, Unfinished, SendSteps, AbortWork
  <2>2. op'[c].pc = "idle"
    BY <1>1 DEF Idle
  <2> QED
    BY <2>1, <2>2 DEF Calm, CutShort
<1> QED
  BY <1>1, <1>2, <1>3, <1>4, SameNeeds DEF Good, Keeps

LEMMA RequestKeeps ==
    ASSUME TypeInv, NEW u \in Upload, Calm(u), Good(u), RequestStep
    PROVE  Keeps(u)
  BY StartKeeps, CreateKeeps, PartKeeps, CompleteKeeps, AbortKeeps, DeleteKeeps,
     RestartKeeps DEF RequestStep

-----------------------------------------------------------------------------
(***************************************************************************)
(* The gc command                                                          *)
(***************************************************************************)

\* Only files of an upload that is not needed go.
LEMMA CollectionGood ==
    ASSUME TypeInv, NEW u \in Upload, Good(u), Spared(u), GCStep,
           UNCHANGED <<tables, op>>
    PROVE  Good(u)'
<1> USE DEF TypeInv
<1>1. CASE partFile'[u] = partFile[u]
  <2>1. RowsGood(u)' /\ ObjectsGood(u)' /\ FilesGood(u)'
    BY <1>1 DEF Good, RowsGood, ObjectsGood, FilesGood, Held, Holds, Made, tables
  <2>2. RequestsGood(u)'
    <3> SUFFICES ASSUME NEW d \in Client, WorksOn(d, u)'
                 PROVE  Fit(op[d])'
      BY DEF RequestsGood
    <3>1. op'[d] = op[d] /\ op[d].upload = u /\ Fit(op[d])
      BY DEF WorksOn, Good, RequestsGood
    <3> QED
      BY <1>1, <3>1 DEF Fit, Made, tables
  <2> QED
    BY <2>1, <2>2 DEF Good
<1>2. CASE GCDelete(u)
  <2>1. u \notin uploads /\ \A k \in Key : ~Refers(k, u)
    BY <1>2 DEF GCDelete, Spared, Needed
  <2>2. ObjectsGood(u)'
    BY <2>1 DEF Good, ObjectsGood, Made, Refers, tables
  <2>3. RowsGood(u)' /\ FilesGood(u)'
    BY <2>1 DEF Good, RowsGood, FilesGood, tables
  <2>4. RequestsGood(u)'
    <3> SUFFICES ASSUME NEW d \in Client, WorksOn(d, u)'
                 PROVE  Fit(op[d])'
      BY DEF RequestsGood
    <3>1. op'[d] = op[d] /\ op[d].upload = u /\ Fit(op[d])
      BY DEF WorksOn, Good, RequestsGood
    <3>2. op[d].pc \notin SendSteps \cup {"complete_record"}
      BY <2>1, <3>1 DEF Fit
    <3> QED
      BY <3>1, <3>2 DEF Fit, Made, SendSteps, tables
  <2> QED
    BY <2>2, <2>3, <2>4 DEF Good
<1>3. ASSUME NEW v \in Upload, GCDelete(v), v # u
      PROVE  partFile'[u] = partFile[u]
  BY <1>3 DEF GCDelete, TypeOK
<1> QED
  BY <1>1, <1>2, <1>3
  DEF GCStep, GCStart, GCObject, GCObjectFails, GCUploads, GCFails, GCList,
      GCDeleteFails, GCEnd

\* A run finds out that u is needed, when no object of u fails it.
LEMMA CollectionSpares ==
    ASSUME TypeInv, NEW u \in Upload, Spared(u), ~CutShort(u), GCStep,
           UNCHANGED tables
    PROVE  Spared(u)'
<1> USE DEF TypeInv, tables
<1>0. gc.pc # "idle" => gc \in Collection
  BY DEF TypeOK, GCIdle
<1>8. /\ Needed(u)' <=> Needed(u)
      /\ \A k \in Key : Refers(k, u)' <=> Refers(k, u)
  BY DEF Needed, Refers
<1>1. CASE GCStart
  BY <1>1 DEF GCStart, Spared, Refers
<1>2. ASSUME NEW k \in Key, GCObject(k) PROVE Spared(u)'
  <2>1. /\ gc'.pc = "objects" /\ gc'.keys = gc.keys \ {k}
        /\ gc'.named = gc.named \cup
              {v \in Upload : objects[k] # NoObject /\ objects[k].upload = v
                                /\ Present(objects[k].chunks) # {}}
        /\ gc.pc = "objects"
    BY <1>0, <1>2 DEF GCObject, Collection
  <2>2. ASSUME NEW l \in Key, Refers(l, u) PROVE l \in gc'.keys \/ u \in gc'.named
    BY <2>1, <2>2 DEF Spared, Refers
  <2> QED
    BY <1>8, <2>1, <2>2 DEF Spared
<1>3. ASSUME NEW k \in Key, GCObjectFails(k) PROVE Spared(u)'
  <2>1. /\ gc'.pc = "objects" /\ gc'.keys = gc.keys \ {k} /\ gc'.named = gc.named
        /\ gc.pc = "objects"
    BY <1>0, <1>3 DEF GCObjectFails, Collection
  <2>2. ~Refers(k, u)
    BY <1>3 DEF CutShort, Refers
  <2> QED
    BY <1>8, <2>1, <2>2 DEF Spared
<1>4. CASE GCUploads
  <2>1. /\ gc'.pc = "list" /\ gc'.named = gc.named \cup uploads
        /\ gc.pc = "objects" /\ gc.keys = {}
    BY <1>0, <1>4 DEF GCUploads, Collection
  <2>2. Needed(u) => u \in gc'.named
    BY <2>1 DEF Needed, Spared
  <2> QED
    BY <1>8, <2>1, <2>2 DEF Spared
<1>5. CASE GCFails \/ GCEnd
  BY <1>5 DEF GCFails, GCEnd, GCIdle, Spared
<1>6. CASE GCList
  <2>1. /\ gc'.pc = "sweep" /\ gc'.left \subseteq Upload \ gc.named
        /\ gc.pc = "list"
    BY <1>0, <1>6 DEF GCList, Collection
  <2> QED
    BY <1>8, <2>1 DEF Spared
<1>7. ASSUME NEW v \in Upload, GCDelete(v) \/ GCDeleteFails(v) PROVE Spared(u)'
  <2>1. gc'.pc = "sweep" /\ gc'.left = gc.left \ {v} /\ gc.pc = "sweep"
    BY <1>0, <1>7 DEF GCDelete, GCDeleteFails, Collection
  <2> QED
    BY <1>8, <2>1 DEF Spared
<1> QED
  BY <1>1, <1>2, <1>3, <1>4, <1>5, <1>6, <1>7 DEF GCStep

LEMMA UploadsNext == TypeInv /\ UploadsInv /\ Next => UploadsInv'
<1> SUFFICES ASSUME TypeInv, UploadsInv, Next, NEW u \in Upload \ spoiled'
             PROVE  ~Contested(u)' /\ Good(u)' /\ Spared(u)'
  BY DEF UploadsInv
<1>1. u \in Upload \ spoiled /\ ~CutShort(u) /\ ~Contested(u)'
  BY DEF Next
<1>2. Calm(u) /\ Good(u) /\ Spared(u)
  BY <1>1 DEF UploadsInv, Calm
<1>3. CASE RequestStep /\ Noticed
  <2>1. Keeps(u)
    BY <1>1, <1>2, <1>3, RequestKeeps
  <2> QED
    BY <1>1, <1>2, <1>3, <2>1, NoticedSpares DEF Keeps, TypeInv
<1>4. CASE GCStep /\ UNCHANGED <<status, tables, usage, op, started>>
  BY <1>1, <1>2, <1>4, CollectionGood, CollectionSpares
<1> QED
  BY <1>3, <1>4 DEF Next

LEMMA UploadsStutter == UploadsInv /\ UNCHANGED vars => UploadsInv'
<1> SUFFICES ASSUME UploadsInv, UNCHANGED vars, NEW u \in Upload \ spoiled
             PROVE  ~Contested(u)' /\ Good(u)' /\ Spared(u)'
  BY DEF UploadsInv, vars
<1> USE DEF vars
<1>1. ~Contested(u)'
  BY DEF UploadsInv, Contested, WorksOn, Sends, Completes, Aborts
<1>2. RowsGood(u)' /\ ObjectsGood(u)' /\ FilesGood(u)' /\ RequestsGood(u)'
  BY DEF UploadsInv, Good, RowsGood, ObjectsGood, FilesGood, RequestsGood, Made,
         Held, Holds, WorksOn, Fit
<1>3. Spared(u)'
  BY DEF UploadsInv, Spared, Needed, Refers
<1> QED
  BY <1>1, <1>2, <1>3 DEF Good

LEMMA UploadsInit == Init => UploadsInv
<1> SUFFICES ASSUME Init, NEW u \in Upload
             PROVE  ~Contested(u) /\ Good(u) /\ Spared(u)
  BY DEF UploadsInv
<1> USE DEF Init
<1>1. ~Contested(u)
  BY DEF Contested, WorksOn
<1>2. Good(u)
  BY DEF Good, RowsGood, ObjectsGood, FilesGood, RequestsGood, Made, WorksOn, NoParts
<1>3. Spared(u)
  BY DEF Spared, GCIdle
<1> QED
  BY <1>1, <1>2, <1>3

\* A run that no request disturbs marks for deletion what is not needed.
LEMMA CleanNext == TypeInv /\ CleanInv /\ Next => CleanInv'
<1> SUFFICES ASSUME TypeInv, CleanInv, Next PROVE CleanInv'
  OBVIOUS
<1> USE DEF TypeInv
<1>1. CASE Noticed
  BY <1>1 DEF Noticed, CleanInv, TypeOK, Collection, GCIdle
<1>2. CASE GCStep /\ UNCHANGED tables
  <2> USE <1>2 DEF tables
  <2>0. gc.pc # "idle" => gc \in Collection
    BY DEF TypeOK, GCIdle
  <2>9. \A u : Needed(u)' <=> Needed(u)
    BY DEF Needed, Refers
  <2>1. CASE GCStart
    BY <2>1 DEF GCStart, CleanInv
  <2>2. ASSUME NEW k \in Key, GCObject(k) PROVE CleanInv'
    <3>1. /\ gc'.pc = "objects" /\ gc'.clean = gc.clean
          /\ gc'.named = gc.named \cup
                {v \in Upload : objects[k] # NoObject /\ objects[k].upload = v
                                  /\ Present(objects[k].chunks) # {}}
          /\ gc.pc = "objects"
      BY <2>0, <2>2 DEF GCObject, Collection
    <3>2. \A u \in gc'.named : u \in gc.named \/ Needed(u)
      BY <3>1 DEF Needed, Refers
    <3> QED
      BY <2>9, <3>1, <3>2 DEF CleanInv
  <2>3. ASSUME NEW k \in Key, GCObjectFails(k) PROVE CleanInv'
    <3>1. /\ gc'.pc = "objects" /\ gc'.clean = gc.clean /\ gc'.named = gc.named
          /\ gc.pc = "objects"
      BY <2>0, <2>3 DEF GCObjectFails, Collection
    <3> QED
      BY <2>9, <3>1 DEF CleanInv
  <2>4. CASE GCUploads
    <3>1. /\ gc'.pc = "list" /\ gc'.clean = gc.clean
          /\ gc'.named = gc.named \cup uploads
          /\ gc.pc = "objects"
      BY <2>0, <2>4 DEF GCUploads, Collection
    <3> QED
      BY <2>9, <3>1 DEF CleanInv, Needed
  <2>5. CASE GCFails \/ GCEnd
    BY <2>5 DEF GCFails, GCEnd, GCIdle, CleanInv
  <2>6. CASE GCList
    <3>1. /\ gc'.pc = "sweep" /\ gc'.clean = gc.clean
          /\ gc'.left = {u \in Upload \ gc.named :
                            \E n \in Part : partFile[u][n] # Absent}
          /\ gc.pc = "list" /\ partFile' = partFile
      BY <2>0, <2>6 DEF GCList, Collection
    <3> QED
      BY <2>9, <3>1 DEF CleanInv
  <2>7. ASSUME NEW v \in Upload, GCDelete(v) PROVE CleanInv'
    <3>1. /\ gc'.pc = "sweep" /\ gc'.clean = gc.clean /\ gc'.left = gc.left \ {v}
          /\ gc.pc = "sweep"
      BY <2>0, <2>7 DEF GCDelete, Collection
    <3>2. /\ \A n \in Part : partFile'[v][n] = Absent
          /\ \A u \in Upload : u # v => partFile'[u] = partFile[u]
      BY <2>7 DEF GCDelete, TypeOK
    <3> QED
      BY <2>9, <3>1, <3>2 DEF CleanInv
  <2>8. ASSUME NEW v \in Upload, GCDeleteFails(v) PROVE CleanInv'
    <3>1. ~gc'.clean
      BY <2>0, <2>8 DEF GCDeleteFails, Collection
    <3> QED
      BY <3>1 DEF CleanInv
  <2> QED
    BY <2>1, <2>2, <2>3, <2>4, <2>5, <2>6, <2>7, <2>8 DEF GCStep
<1> QED
  BY <1>1, <1>2 DEF Next

LEMMA CleanStutter == CleanInv /\ UNCHANGED vars => CleanInv'
  BY DEF vars, CleanInv, Needed, Refers

-----------------------------------------------------------------------------
(***************************************************************************)
(* The theorems                                                            *)
(***************************************************************************)

\* The inductive invariant holds of every state.
THEOREM MultipartCorrect == Spec => [](TypeInv /\ UploadsInv /\ CleanInv)
<1>1. Init => TypeInv /\ UploadsInv /\ CleanInv
  BY TypesInit, UploadsInit DEF CleanInv, Init, GCIdle
<1>2. TypeInv /\ UploadsInv /\ CleanInv /\ [Next]_vars
        => (TypeInv /\ UploadsInv /\ CleanInv)'
  BY TypesNext, TypesStutter, UploadsNext, UploadsStutter, CleanNext, CleanStutter
<1> QED
  BY <1>1, <1>2, PTL DEF Spec

\* The variables have their types; among them, no sequence of requests, failures
\* and restarts takes the number of objects (Usage, multipart.go:309) further
\* than the number of requests that were admitted.
THEOREM MultipartTypes == Spec => []TypeOK
<1>1. TypeInv => TypeOK
  BY DEF TypeInv
<1> QED
  BY <1>1, MultipartCorrect, PTL

\* Every part in the manifest of an object has its file with the content that
\* Complete validated (multipart.go:300: "Part files stay on WebDAV"), for any
\* number of requests at once and of runs of the gc command, unless requests on
\* the upload were in each other's way or one was cut short.
THEOREM WholeObjects == Spec => []ObjectIsWhole
<1>1. UploadsInv /\ TypeInv => ObjectIsWhole
  BY DEF UploadsInv, Good, ObjectsGood, Made, ObjectIsWhole, TypeInv, TypeOK, Object
<1> QED
  BY <1>1, MultipartCorrect, PTL

\* No row of a part is left without its upload.
THEOREM PartsOfUploads == Spec => []PartsHaveUpload
<1>1. UploadsInv => PartsHaveUpload
  BY DEF UploadsInv, Good, RowsGood, PartsHaveUpload
<1> QED
  BY <1>1, MultipartCorrect, PTL

\* A run of the gc command that nothing disturbed leaves part files only of
\* objects and of uploads in progress (gc.go:11).
THEOREM OrphansAreGone == Spec => OrphanPartsAreGone
<1> DEFINE Left == \A u \in Upload, n \in Part :
                      partFile[u][n] # Absent => u \in uploads \/ \E k \in Key : Refers(k, u)
<1>1. ASSUME TypeInv, CleanInv, Next, gc.pc = "sweep", gc' = GCIdle, gc.clean
      PROVE  Left
  <2>1. ~Noticed
    BY <1>1 DEF Noticed, TypeInv, TypeOK, Collection, GCIdle
  <2>2. gc \in Collection /\ GCStep
    BY <1>1, <2>1 DEF Next, TypeInv, TypeOK, GCIdle
  <2>3. gc.left = {}
    BY <1>1, <2>2 DEF GCStep, GCStart, GCObject, GCObjectFails, GCUploads, GCFails,
                      GCList, GCDelete, GCDeleteFails, GCEnd, Collection, GCIdle
  <2> QED
    BY <1>1, <2>3 DEF CleanInv, Needed
<1>2. TypeInv /\ UploadsInv /\ CleanInv /\ [Next]_vars
        => [gc.pc = "sweep" /\ gc' = GCIdle /\ gc.clean => Left]_vars
  BY <1>1
<1> QED
  BY <1>2, MultipartCorrect, PTL DEF Spec, OrphanPartsAreGone

=============================================================================
