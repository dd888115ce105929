------------------------- MODULE ObjectStoreProofs --------------------------
(***************************************************************************)
(* Proofs about ObjectStore and, at the end, about its composition with    *)
(* the gc command in GarbageCollection, for any number of clients,         *)
(* buckets, keys, contents and locations, and any bound on the requests.   *)
(***************************************************************************)
EXTENDS GarbageCollection, TLAPS

-----------------------------------------------------------------------------
(***************************************************************************)
(* History.  A step of the store may stand beside steps of other commands, *)
(* whose specification remembers more overlaps than this one does; that it *)
(* remembers at least these is all that the proofs need.                   *)
(***************************************************************************)

HistoryKept ==
    /\ raced \subseteq raced' /\ raced' \subseteq Path
    /\ \A p \in Path : Racing(p)' => p \in raced'
    /\ crossed \subseteq crossed' /\ crossed' \subseteq Bucket
    /\ \A b \in Bucket : Crossing(b)' => b \in crossed'

LEMMA RecordedIsKept == TypeOK /\ RecordHistory => HistoryKept
  BY DEF RecordHistory, HistoryKept, TypeOK

\* The overlaps of the next state are remembered, the old ones kept.
LEMMA HistoryGrows ==
    ASSUME HistoryKept
    PROVE  /\ raced \subseteq raced'
           /\ \A p \in Path : Racing(p)' => p \in raced'
           /\ crossed \subseteq crossed'
           /\ \A b \in Bucket : Crossing(b)' => b \in crossed'
  BY DEF HistoryKept

-----------------------------------------------------------------------------
(***************************************************************************)
(* Type correctness                                                        *)
(***************************************************************************)

\* A client that is not idle runs a request.
LEMMA BusyIsRequest ==
    ASSUME TypeOK, NEW c \in Client, op[c].pc # "idle"
    PROVE  op[c] \in Request
  BY DEF TypeOK, Idle

\* The idle state is recognised by its step.
LEMMA IdlePc == Idle.pc = "idle"
  BY DEF Idle

LEMMA TypeInit == Init => TypeOK
  BY ConstantsAssumption
  DEF Init, TypeOK, GateInit, GateTypeOK, NewManager, Status, Healthy,
      EmptyTable, Table, Absent, Idle

\* Writing a row keeps the databases and the history well-typed.
LEMMA WriteRowType ==
    ASSUME TypeOK, NEW c \in Client, op[c] \in Request,
           NEW row \in Path \cup {NoObject}, WriteRow(c, row)
    PROVE  /\ records' \in [Bucket -> Table]
           /\ acked' \in [Bucket -> [Key -> Path \cup {NoObject} \cup Client]]
  BY DEF TypeOK, WriteRow, Request, Table

LEMMA AddDeltaType ==
    ASSUME TypeOK, NEW b \in Bucket, NEW bytes \in Int, NEW objects \in Int,
           AddDelta(b, bytes, objects)
    PROVE  usage' \in [Bucket -> [bytes : Int, objects : Int]]
  BY DEF TypeOK, AddDelta

LEMMA AcknowledgeType ==
    ASSUME TypeOK, NEW c \in Client, op[c] \in Request,
           NEW row \in Path \cup {NoObject}, Acknowledge(c, row)
    PROVE  acked' \in [Bucket -> [Key -> Path \cup {NoObject} \cup Client]]
  BY DEF TypeOK, Acknowledge, Request

LEMMA SizeAtType ==
    ASSUME NEW p \in Path
    PROVE  SizeAt(p) \in Int
  BY ConstantsAssumption DEF Path, SizeAt

LEMMA ReturnType ==
    ASSUME TypeOK, NEW c \in Client, Return(c)
    PROVE  op' \in [Client -> Request \cup {Idle}]
  BY DEF TypeOK, Return

LEMMA GoToType ==
    ASSUME TypeOK, NEW c \in Client, op[c] \in Request,
           NEW step \in PutSteps \cup DeleteSteps, GoTo(c, step)
    PROVE  op' \in [Client -> Request \cup {Idle}]
  BY DEF TypeOK, GoTo, Request

\* A count ends the request or goes on with one bucket less.
LEMMA CountGoesOn ==
    ASSUME TypeOK, NEW c \in Client, op[c] \in Request, DeleteCount(c)
    PROVE  \/ Return(c)
           \/ \E r \in Request :
                 /\ op' = [op EXCEPT ![c] = r]
                 /\ r.pc = "del_count"
<1>1. PICK b \in op[c].unchecked :
        \/ Return(c)
        \/ op' = [op EXCEPT ![c] =
                    [op[c] EXCEPT !.unchecked = op[c].unchecked \ {b}]]
  BY DEF DeleteCount
<1>2. /\ [op[c] EXCEPT !.unchecked = op[c].unchecked \ {b}] \in Request
      /\ [op[c] EXCEPT !.unchecked = op[c].unchecked \ {b}].pc = op[c].pc
  BY DEF Request
<1>3. op[c].pc = "del_count"
  BY DEF DeleteCount, At
<1> QED
  BY <1>1, <1>2, <1>3

LEMMA TypeStep == TypeOK /\ Step /\ HistoryKept => TypeOK'
<1> SUFFICES ASSUME TypeOK, Step, HistoryKept
             PROVE  TypeOK'
  OBVIOUS
<1> USE DEF vars, storeVars
<1>1. raced' \subseteq Path /\ crossed' \subseteq Bucket
  BY DEF HistoryKept
<1>2. ASSUME NEW c \in Client, NEW b \in Bucket, NEW k \in Key,
             NEW h \in Hash, PutStart(c, b, k, h)
      PROVE  TypeOK'
  <2>1. HashPath(b, h) \in Path
    BY ConstantsAssumption DEF HashPath, Path
  <2>2. op' \in [Client -> Request \cup {Idle}]
    BY <1>2, <2>1
    DEF PutStart, TypeOK, Request, PutSteps, EmptyTable, Table
  <2>3. started' \in 0..MaxOps
    BY <1>2, ConstantsAssumption DEF PutStart, TypeOK
  <2> QED
    BY <1>1, <1>2, <2>2, <2>3 DEF PutStart, TypeOK, GateTypeOK
<1>3. ASSUME NEW c \in Client, NEW b \in Bucket, NEW k \in Key,
             DeleteStart(c, b, k)
      PROVE  TypeOK'
  <2>1. records[b][k] \in Path
    BY <1>3 DEF DeleteStart, TypeOK, Table
  <2>2. op' \in [Client -> Request \cup {Idle}]
    BY <1>3, <2>1
    DEF DeleteStart, TypeOK, Request, DeleteSteps, EmptyTable, Table
  <2>3. started' \in 0..MaxOps
    BY <1>3, ConstantsAssumption DEF DeleteStart, TypeOK
  <2> QED
    BY <1>1, <1>3, <2>2, <2>3 DEF DeleteStart, TypeOK, GateTypeOK
<1>4. ASSUME NEW c \in Client, PutStep(c) \/ DeleteStep(c)
      PROVE  op[c] \in Request
  BY <1>4, BusyIsRequest
  DEF PutStep, PutUpload, PutUploadFails, PutRecord, PutRecordFails,
      PutSnapshot, TakeSnapshot, PutSync, PutSyncFails, DeleteStep,
      DeleteRecord, DeleteRecordFails, DeleteSnapshot, DeleteSync,
      DeleteSyncFails, DeleteCount, DeleteFile, DeleteFileFails, At
<1>5. ASSUME NEW c \in Client, PutStep(c)
      PROVE  TypeOK'
  <2>0. op[c] \in Request
    BY <1>4, <1>5
  <2>1. CASE PutUpload(c)
    BY <1>1, <2>0, <2>1, GoToType
    DEF PutUpload, PutSteps, TypeOK, GateTypeOK, Request
  <2>2. CASE PutUploadFails(c)
    BY <1>1, <2>0, <2>2, ReturnType
    DEF PutUploadFails, TypeOK, GateTypeOK, Request
  <2>3. CASE PutRecord(c)
    BY <1>1, <2>0, <2>3, GoToType, WriteRowType
    DEF PutRecord, PutSteps, TypeOK, GateTypeOK, Request
  <2>4. CASE PutRecordFails(c)
    BY <1>1, <2>4, ReturnType DEF PutRecordFails, TypeOK, GateTypeOK
  <2>5. CASE PutSnapshot(c)
    BY <1>1, <2>0, <2>5
    DEF PutSnapshot, TakeSnapshot, PutSteps, TypeOK, GateTypeOK, Request
  <2>6. CASE PutSync(c)
    <3>1. /\ remote' \in [Bucket -> Table]
          /\ op[c].path \in Path
          /\ op[c].bucket \in Bucket
      BY <2>0, <2>6 DEF PutSync, TypeOK, Request
    <3>2. usage' \in [Bucket -> [bytes : Int, objects : Int]]
      BY <2>6, <3>1, AddDeltaType, SizeAtType DEF PutSync
    <3>3. acked' \in [Bucket -> [Key -> Path \cup {NoObject} \cup Client]]
      BY <2>0, <2>6, <3>1, AcknowledgeType DEF PutSync
    <3> QED
      BY <1>1, <2>6, <3>1, <3>2, <3>3, ReturnType
      DEF PutSync, TypeOK, GateTypeOK
  <2>7. CASE PutSyncFails(c)
    BY <1>1, <2>0, <2>7, ReturnType
    DEF PutSyncFails, MarkRepairing, TypeOK, GateTypeOK, Status, Repairing,
        Request
  <2> QED
    BY <1>5, <2>1, <2>2, <2>3, <2>4, <2>5, <2>6, <2>7 DEF PutStep
<1>6. ASSUME NEW c \in Client, DeleteStep(c)
      PROVE  TypeOK'
  <2>0. op[c] \in Request
    BY <1>4, <1>6
  <2>1. CASE DeleteRecord(c)
    BY <1>1, <2>0, <2>1, GoToType, WriteRowType
    DEF DeleteRecord, DeleteSteps, TypeOK, GateTypeOK
  <2>2. CASE DeleteRecordFails(c)
    BY <1>1, <2>2, ReturnType DEF DeleteRecordFails, TypeOK, GateTypeOK
  <2>3. CASE DeleteSnapshot(c)
    BY <1>1, <2>0, <2>3
    DEF DeleteSnapshot, TakeSnapshot, DeleteSteps, TypeOK, GateTypeOK,
        Request
  <2>4. CASE DeleteSync(c)
    <3>1. /\ remote' \in [Bucket -> Table]
          /\ op[c].path \in Path
          /\ op[c].bucket \in Bucket
      BY <2>0, <2>4 DEF DeleteSync, TypeOK, Request
    <3>2. usage' \in [Bucket -> [bytes : Int, objects : Int]]
      BY <2>4, <3>1, AddDeltaType, SizeAtType DEF DeleteSync
    <3>3. acked' \in [Bucket -> [Key -> Path \cup {NoObject} \cup Client]]
      BY <2>0, <2>4, AcknowledgeType DEF DeleteSync
    <3>4. op' \in [Client -> Request \cup {Idle}]
      BY <2>0, <2>4
      DEF DeleteSync, DeleteSteps, Neighbours, TypeOK, Request
    <3> QED
      BY <1>1, <2>4, <3>1, <3>2, <3>3, <3>4
      DEF DeleteSync, TypeOK, GateTypeOK
  <2>5. CASE DeleteSyncFails(c)
    BY <1>1, <2>0, <2>5, ReturnType
    DEF DeleteSyncFails, TypeOK, GateTypeOK, Request
  <2>6. CASE DeleteCount(c)
    <3>1. op' \in [Client -> Request \cup {Idle}]
      BY <2>0, <2>6, ReturnType, CountGoesOn DEF TypeOK
    <3> QED
      BY <1>1, <2>6, <3>1 DEF DeleteCount, TypeOK, GateTypeOK
  <2>7. CASE DeleteFile(c)
    BY <1>1, <2>0, <2>7, ReturnType
    DEF DeleteFile, TypeOK, GateTypeOK, Request
  <2>8. CASE DeleteFileFails(c)
    BY <1>1, <2>8, ReturnType DEF DeleteFileFails, TypeOK, GateTypeOK
  <2> QED
    BY <1>6, <2>1, <2>2, <2>3, <2>4, <2>5, <2>6, <2>7, <2>8 DEF DeleteStep
<1>7. ASSUME Restart
      PROVE  TypeOK'
  BY <1>1, <1>7
  DEF Restart, NewManager, Status, Healthy, TypeOK, GateTypeOK
<1> QED
  BY <1>2, <1>3, <1>5, <1>6, <1>7 DEF Step, Admit

LEMMA TypeNext == TypeOK /\ [Next]_vars => TypeOK'
<1> SUFFICES ASSUME TypeOK, [Next]_vars
             PROVE  TypeOK'
  OBVIOUS
<1>1. CASE UNCHANGED vars
  BY <1>1 DEF vars, storeVars, TypeOK, GateTypeOK
<1>2. CASE Next
  BY <1>2, RecordedIsKept, TypeStep DEF Next
<1> QED
  BY <1>1, <1>2

\* Every reachable state is well-typed.
THEOREM TypeCorrect == Spec => []TypeOK
  BY TypeInit, TypeNext, PTL DEF Spec

-----------------------------------------------------------------------------
(***************************************************************************)
(* The dedup guard                                                         *)
(***************************************************************************)

LEMMA DedupInit == Init => DedupInv
  BY DEF Init, DedupInv, PathsStayHome, NoDanglingRecord, Racing, PutHolds,
         DeleteChecks, EmptyTable, Idle

\* A step that removes no file, writes no row and takes its request neither
\* between an upload and its row nor to the counting.
LEMMA DedupQuiet ==
    ASSUME TypeOK, DedupInv, HistoryKept, NEW c \in Client,
           records' = records,
           \A p \in Path : dataFile[p] # Absent => dataFile'[p] # Absent,
           \A d \in Client : d # c => op'[d] = op[d],
           op'[c].pc \notin {"put_record", "del_count"},
           op'[c].pc # "idle" => op'[c].path[1] = LocationOf[op'[c].bucket]
    PROVE  DedupInv'
<1>1. PathsStayHome'
  BY DEF DedupInv, PathsStayHome
<1>2. NoDanglingRecord'
  BY HistoryGrows DEF DedupInv, NoDanglingRecord, TypeOK, Table
<1>3. \A d \in Client, p \in Path : PutHolds(d, p)' => d # c /\ PutHolds(d, p)
  BY DEF PutHolds
<1>4. \A d \in Client, p \in Path :
         DeleteChecks(d, p)' => d # c /\ DeleteChecks(d, p)
  BY DEF DeleteChecks
<1>5. ASSUME NEW d \in Client, NEW p \in Path, PutHolds(d, p)', p \notin raced'
      PROVE  dataFile'[p] # Absent
  BY <1>3, <1>5, HistoryGrows DEF DedupInv
<1>6. ASSUME NEW d \in Client, NEW p \in Path, DeleteChecks(d, p)',
             p \notin raced',
             NEW b \in (Neighbours(op[d].bucket) \ op[d].unchecked)'
      PROVE  ~References(b, p)'
  <2>1. DeleteChecks(d, p) /\ p \notin raced /\ op'[d] = op[d]
    BY <1>4, <1>6, HistoryGrows
  <2> QED
    BY <1>6, <2>1 DEF DedupInv, References, Neighbours
<1> QED
  BY <1>1, <1>2, <1>5, <1>6, HistoryGrows DEF DedupInv

LEMMA DedupStep == TypeOK /\ TypeOK' /\ DedupInv /\ Step /\ HistoryKept => DedupInv'
<1> SUFFICES ASSUME TypeOK, TypeOK', DedupInv, Step, HistoryKept
             PROVE  DedupInv'
  OBVIOUS
<1>1. ASSUME NEW c \in Client, NEW b \in Bucket, NEW k \in Key,
             NEW h \in Hash, PutStart(c, b, k, h)
      PROVE  DedupInv'
  <2>1. /\ \A d \in Client : d # c => op'[d] = op[d]
        /\ op'[c].pc = "put_upload"
        /\ op'[c].path[1] = LocationOf[op'[c].bucket]
    BY <1>1 DEF PutStart, HashPath, TypeOK
  <2> QED
    BY <1>1, <2>1, DedupQuiet DEF PutStart, storeVars
<1>2. ASSUME NEW c \in Client, NEW b \in Bucket, NEW k \in Key,
             DeleteStart(c, b, k)
      PROVE  DedupInv'
  <2>1. /\ \A d \in Client : d # c => op'[d] = op[d]
        /\ op'[c].pc = "del_record"
        /\ op'[c].path[1] = LocationOf[op'[c].bucket]
    BY <1>2 DEF DeleteStart, TypeOK, DedupInv, PathsStayHome
  <2> QED
    BY <1>2, <2>1, DedupQuiet DEF DeleteStart, storeVars
<1>3. ASSUME NEW c \in Client, Return(c), records' = records,
             \A p \in Path : dataFile[p] # Absent => dataFile'[p] # Absent
      PROVE  DedupInv'
  <2>1. /\ \A d \in Client : d # c => op'[d] = op[d]
        /\ op'[c].pc = "idle"
    BY <1>3 DEF Return, TypeOK, Idle
  <2> QED
    BY <1>3, <2>1, DedupQuiet
<1>4. ASSUME NEW c \in Client, NEW step, NEW nextStep,
             TakeSnapshot(c, step, nextStep), step # "idle",
             nextStep \in {"put_sync", "del_sync"}
      PROVE  DedupInv'
  <2>1. op[c] \in Request
    BY <1>4, BusyIsRequest DEF TakeSnapshot, At
  <2>2. /\ \A d \in Client : d # c => op'[d] = op[d]
        /\ op'[c].pc = nextStep
        /\ op'[c].path = op[c].path /\ op'[c].bucket = op[c].bucket
    BY <1>4, <2>1 DEF TakeSnapshot, TypeOK, Request
  <2>3. op[c].path[1] = LocationOf[op[c].bucket]
    BY <1>4 DEF TakeSnapshot, At, DedupInv, PathsStayHome
  <2> QED
    BY <1>4, <2>2, <2>3, DedupQuiet DEF TakeSnapshot, storeVars
<1>5. ASSUME NEW c \in Client, PutStep(c)
      PROVE  DedupInv'
  <2>1. CASE PutUpload(c)
    <3>0. op[c] \in Request
      BY <2>1, BusyIsRequest DEF PutUpload, At
    <3>1. /\ records' = records
          /\ \A p \in Path : dataFile[p] # Absent => dataFile'[p] # Absent
          /\ dataFile'[op[c].path] # Absent
          /\ \A d \in Client : d # c => op'[d] = op[d]
      BY <2>1, <3>0
      DEF PutUpload, GoTo, TypeOK, Request, Absent, Complete
    <3>2. /\ op'[c].pc = "put_record"
          /\ op'[c].path = op[c].path
          /\ op'[c].bucket = op[c].bucket
          /\ op[c].pc = "put_upload"
      BY <2>1, <3>0 DEF PutUpload, GoTo, At, TypeOK, Request
    <3>3. PathsStayHome'
      BY <3>1, <3>2 DEF DedupInv, PathsStayHome
    <3>4. NoDanglingRecord'
      BY <3>1, HistoryGrows DEF DedupInv, NoDanglingRecord, TypeOK, Table
    <3>5. ASSUME NEW d \in Client, NEW p \in Path, PutHolds(d, p)',
                 p \notin raced'
          PROVE  dataFile'[p] # Absent
      BY <3>1, <3>2, <3>5, HistoryGrows DEF DedupInv, PutHolds
    <3>6. ASSUME NEW d \in Client, NEW p \in Path, DeleteChecks(d, p)',
                 p \notin raced',
                 NEW b \in (Neighbours(op[d].bucket) \ op[d].unchecked)'
          PROVE  ~References(b, p)'
      <4>1. d # c /\ op'[d] = op[d] /\ p \notin raced
        BY <3>1, <3>2, <3>6, HistoryGrows DEF DeleteChecks
      <4> QED
        BY <3>1, <3>6, <4>1
        DEF DedupInv, References, DeleteChecks, Neighbours
    <3> QED
      BY <3>3, <3>4, <3>5, <3>6, HistoryGrows DEF DedupInv
  <2>2. CASE PutUploadFails(c)
    <3>1. op[c].path \in Path
      BY <2>2, BusyIsRequest DEF PutUploadFails, At, Request
    <3> QED
      BY <1>3, <2>2, <3>1
      DEF PutUploadFails, TypeOK, Absent, Partial, Complete
  <2>3. CASE PutRecord(c)
    <3>0. op[c] \in Request
      BY <2>3, BusyIsRequest DEF PutRecord, At
    <3>1. /\ records' = [records EXCEPT ![op[c].bucket] =
                           [records[op[c].bucket] EXCEPT ![op[c].key] = op[c].path]]
          /\ dataFile' = dataFile
          /\ \A d \in Client : d # c => op'[d] = op[d]
      BY <2>3, <3>0 DEF PutRecord, WriteRow, GoTo, TypeOK
    <3>2. /\ op'[c].pc = "put_snapshot"
          /\ op'[c].path = op[c].path
          /\ op'[c].bucket = op[c].bucket
          /\ op[c].pc = "put_record"
          /\ PutHolds(c, op[c].path)
          /\ op[c].path[1] = LocationOf[op[c].bucket]
      BY <2>3, <3>0
      DEF PutRecord, GoTo, At, TypeOK, Request, PutHolds, DedupInv,
          PathsStayHome
    <3>3. \A b \in Bucket, k \in Key :
             \/ records'[b][k] = records[b][k]
             \/ b = op[c].bucket /\ records'[b][k] = op[c].path
      BY <3>0, <3>1 DEF TypeOK, Table, Request
    <3>4. PathsStayHome'
      <4>1. ASSUME NEW b \in Bucket, NEW k \in Key, records'[b][k] # NoObject
            PROVE  records'[b][k][1] = LocationOf[b]
        BY <3>2, <3>3, <4>1 DEF DedupInv, PathsStayHome
      <4>2. ASSUME NEW d \in Client, op'[d].pc # "idle"
            PROVE  op'[d].path[1] = LocationOf[op'[d].bucket]
        BY <3>1, <3>2, <4>2 DEF DedupInv, PathsStayHome
      <4> QED
        BY <4>1, <4>2 DEF PathsStayHome
    <3>5. op[c].path \in raced \/ dataFile[op[c].path] # Absent
      BY <3>0, <3>2 DEF DedupInv, Request
    <3>6. NoDanglingRecord'
      BY <3>1, <3>3, <3>5, HistoryGrows DEF DedupInv, NoDanglingRecord
    <3>7. ASSUME NEW d \in Client, NEW p \in Path, PutHolds(d, p)',
                 p \notin raced'
          PROVE  dataFile'[p] # Absent
      BY <3>1, <3>2, <3>7, HistoryGrows DEF DedupInv, PutHolds
    <3>8. ASSUME NEW d \in Client, NEW p \in Path, DeleteChecks(d, p)',
                 p \notin raced',
                 NEW b \in (Neighbours(op[d].bucket) \ op[d].unchecked)'
          PROVE  ~References(b, p)'
      <4>1. d # c /\ op'[d] = op[d] /\ DeleteChecks(d, p) /\ p \notin raced
        BY <3>1, <3>2, <3>8, HistoryGrows DEF DeleteChecks
      <4>2. p # op[c].path
        BY <3>2, <4>1 DEF DedupInv, Racing
      <4>3. ~References(b, p) /\ b \in Bucket
        BY <3>8, <4>1 DEF DedupInv, Neighbours
      <4> QED
        BY <3>3, <4>2, <4>3 DEF References
    <3> QED
      BY <3>4, <3>6, <3>7, <3>8, HistoryGrows DEF DedupInv
  <2>4. CASE PutRecordFails(c)
    BY <1>3, <2>4 DEF PutRecordFails, storeVars
  <2>5. CASE PutSnapshot(c)
    BY <1>4, <2>5 DEF PutSnapshot
  <2>6. CASE PutSync(c)
    BY <1>3, <2>6 DEF PutSync
  <2>7. CASE PutSyncFails(c)
    BY <1>3, <2>7 DEF PutSyncFails
  <2> QED
    BY <1>5, <2>1, <2>2, <2>3, <2>4, <2>5, <2>6, <2>7 DEF PutStep
<1>6. ASSUME NEW c \in Client, DeleteStep(c)
      PROVE  DedupInv'
  <2>1. CASE DeleteRecord(c)
    <3>0. op[c] \in Request
      BY <2>1, BusyIsRequest DEF DeleteRecord, At
    <3>1. /\ records' = [records EXCEPT ![op[c].bucket] =
                           [records[op[c].bucket] EXCEPT ![op[c].key] = NoObject]]
          /\ dataFile' = dataFile
          /\ \A d \in Client : d # c => op'[d] = op[d]
      BY <2>1, <3>0 DEF DeleteRecord, WriteRow, GoTo, TypeOK
    <3>2. /\ op'[c].pc = "del_snapshot"
          /\ op'[c].path = op[c].path
          /\ op'[c].bucket = op[c].bucket
          /\ op[c].pc = "del_record"
      BY <2>1, <3>0 DEF DeleteRecord, GoTo, At, TypeOK, Request
    <3>3. \A b \in Bucket, k \in Key :
             \/ records'[b][k] = records[b][k]
             \/ records'[b][k] = NoObject
      BY <3>0, <3>1 DEF TypeOK, Table, Request
    <3>4. PathsStayHome'
      BY <3>1, <3>2, <3>3 DEF DedupInv, PathsStayHome
    <3>5. NoDanglingRecord'
      BY <3>1, <3>3, HistoryGrows DEF DedupInv, NoDanglingRecord
    <3>6. ASSUME NEW d \in Client, NEW p \in Path, PutHolds(d, p)',
                 p \notin raced'
          PROVE  dataFile'[p] # Absent
      BY <3>1, <3>2, <3>6, HistoryGrows DEF DedupInv, PutHolds
    <3>7. ASSUME NEW d \in Client, NEW p \in Path, DeleteChecks(d, p)',
                 p \notin raced',
                 NEW b \in (Neighbours(op[d].bucket) \ op[d].unchecked)'
          PROVE  ~References(b, p)'
      <4>1. d # c /\ op'[d] = op[d] /\ DeleteChecks(d, p) /\ p \notin raced
        BY <3>1, <3>2, <3>7, HistoryGrows DEF DeleteChecks
      <4>2. ~References(b, p) /\ b \in Bucket
        BY <3>7, <4>1 DEF DedupInv, Neighbours
      <4>3. p # NoObject
        BY ConstantsAssumption
      <4> QED
        BY <3>3, <4>2, <4>3 DEF References
    <3> QED
      BY <3>4, <3>5, <3>6, <3>7, HistoryGrows DEF DedupInv
  <2>2. CASE DeleteRecordFails(c)
    BY <1>3, <2>2 DEF DeleteRecordFails, storeVars
  <2>3. CASE DeleteSnapshot(c)
    BY <1>4, <2>3 DEF DeleteSnapshot
  <2>4. CASE DeleteSync(c)
    <3>0. op[c] \in Request
      BY <2>4, BusyIsRequest DEF DeleteSync, At
    <3>1. /\ records' = records
          /\ dataFile' = dataFile
          /\ \A d \in Client : d # c => op'[d] = op[d]
      BY <2>4, <3>0 DEF DeleteSync, TypeOK
    <3>2. /\ op'[c].pc = "del_count"
          /\ op'[c].path = op[c].path
          /\ op'[c].bucket = op[c].bucket
          /\ op'[c].unchecked = Neighbours(op[c].bucket)
          /\ op[c].pc = "del_sync"
      BY <2>4, <3>0 DEF DeleteSync, At, TypeOK, Request
    <3>3. PathsStayHome'
      BY <3>1, <3>2 DEF DedupInv, PathsStayHome
    <3>4. NoDanglingRecord'
      BY <3>1, HistoryGrows DEF DedupInv, NoDanglingRecord
    <3>5. ASSUME NEW d \in Client, NEW p \in Path, PutHolds(d, p)',
                 p \notin raced'
          PROVE  dataFile'[p] # Absent
      BY <3>1, <3>2, <3>5, HistoryGrows DEF DedupInv, PutHolds
    <3>6. ASSUME NEW d \in Client, NEW p \in Path, DeleteChecks(d, p)',
                 p \notin raced',
                 NEW b \in (Neighbours(op[d].bucket) \ op[d].unchecked)'
          PROVE  ~References(b, p)'
      <4>1. d # c
        BY <3>2, <3>6 DEF Neighbours
      <4>2. op'[d] = op[d] /\ DeleteChecks(d, p) /\ p \notin raced
        BY <3>1, <3>6, <4>1, HistoryGrows DEF DeleteChecks
      <4> QED
        BY <3>1, <3>6, <4>2 DEF DedupInv, References, Neighbours
    <3> QED
      BY <3>3, <3>4, <3>5, <3>6, HistoryGrows DEF DedupInv
  <2>5. CASE DeleteSyncFails(c)
    BY <1>3, <2>5 DEF DeleteSyncFails
  <2>6. CASE DeleteCount(c)
    <3>0. op[c] \in Request
      BY <2>6, BusyIsRequest DEF DeleteCount, At
    <3> PICK e \in op[c].unchecked :
             \/ Return(c)
             \/ /\ ~References(e, op[c].path)
                /\ op' = [op EXCEPT ![c] =
                             [op[c] EXCEPT !.unchecked = op[c].unchecked \ {e}]]
      BY <2>6 DEF DeleteCount
    <3>a. records' = records /\ dataFile' = dataFile
      BY <2>6 DEF DeleteCount, storeVars
    <3>b. CASE Return(c)
      BY <1>3, <3>a, <3>b
    <3>c. CASE /\ ~References(e, op[c].path)
               /\ op' = [op EXCEPT ![c] =
                            [op[c] EXCEPT !.unchecked = op[c].unchecked \ {e}]]
      <4>1. /\ \A d \in Client : d # c => op'[d] = op[d]
            /\ op'[c].pc = "del_count"
            /\ op[c].pc = "del_count"
            /\ op'[c].path = op[c].path
            /\ op'[c].bucket = op[c].bucket
            /\ op'[c].unchecked = op[c].unchecked \ {e}
        BY <2>6, <3>0, <3>c DEF DeleteCount, At, TypeOK, Request
      <4>2. PathsStayHome'
        BY <3>a, <4>1 DEF DedupInv, PathsStayHome
      <4>3. NoDanglingRecord'
        BY <3>a, HistoryGrows DEF DedupInv, NoDanglingRecord
      <4>4. ASSUME NEW d \in Client, NEW p \in Path, PutHolds(d, p)',
                   p \notin raced'
            PROVE  dataFile'[p] # Absent
        BY <3>a, <4>1, <4>4, HistoryGrows DEF DedupInv, PutHolds
      <4>5. ASSUME NEW d \in Client, NEW p \in Path, DeleteChecks(d, p)',
                   p \notin raced',
                   NEW b \in (Neighbours(op[d].bucket) \ op[d].unchecked)'
            PROVE  ~References(b, p)'
        <5>1. DeleteChecks(d, p) /\ p \notin raced
          BY <4>1, <4>5, HistoryGrows DEF DeleteChecks
        <5>2. \/ b \in Neighbours(op[d].bucket) \ op[d].unchecked
              \/ d = c /\ b = e /\ p = op[c].path
          BY <4>1, <4>5 DEF Neighbours, DeleteChecks
        <5> QED
          BY <3>a, <3>c, <5>1, <5>2 DEF DedupInv, References
      <4> QED
        BY <4>2, <4>3, <4>4, <4>5, HistoryGrows DEF DedupInv
    <3> QED
      BY <3>b, <3>c
  <2>7. CASE DeleteFile(c)
    <3>0. op[c] \in Request
      BY <2>7, BusyIsRequest DEF DeleteFile, At
    <3>1. /\ records' = records
          /\ dataFile' = [dataFile EXCEPT ![op[c].path] = Absent]
          /\ \A d \in Client : d # c => op'[d] = op[d]
          /\ op'[c].pc = "idle"
          /\ DeleteChecks(c, op[c].path)
          /\ op[c].unchecked = {}
          /\ op[c].path[1] = LocationOf[op[c].bucket]
      BY <2>7, <3>0
      DEF DeleteFile, Return, At, TypeOK, Idle, DeleteChecks, DedupInv,
          PathsStayHome
    <3>2. PathsStayHome'
      BY <3>1 DEF DedupInv, PathsStayHome
    <3>3. NoDanglingRecord'
      <4> SUFFICES ASSUME NEW b \in Bucket, NEW k \in Key,
                          records[b][k] # NoObject, records[b][k] \notin raced
                   PROVE  dataFile'[records[b][k]] # Absent
        BY <3>1, HistoryGrows DEF NoDanglingRecord
      <4>1. dataFile[records[b][k]] # Absent /\ records[b][k] \in Path
        BY DEF DedupInv, NoDanglingRecord, TypeOK, Table
      <4>2. CASE records[b][k] # op[c].path
        BY <3>0, <3>1, <4>1, <4>2 DEF TypeOK
      <4>3. CASE records[b][k] = op[c].path
        <5>1. b \in Neighbours(op[c].bucket) \ op[c].unchecked
          BY <3>1, <4>3 DEF Neighbours, DedupInv, PathsStayHome
        <5>2. ~References(b, op[c].path)
          BY <3>1, <4>1, <4>3, <5>1 DEF DedupInv
        <5> QED
          BY <4>3, <5>2 DEF References
      <4> QED
        BY <4>2, <4>3
    <3>4. ASSUME NEW d \in Client, NEW p \in Path, PutHolds(d, p)',
                 p \notin raced'
          PROVE  dataFile'[p] # Absent
      <4>1. PutHolds(d, p) /\ p \notin raced
        BY <3>1, <3>4, HistoryGrows DEF PutHolds
      <4>2. p # op[c].path
        BY <3>1, <4>1 DEF DedupInv, Racing
      <4> QED
        BY <3>0, <3>1, <4>1, <4>2 DEF DedupInv, TypeOK
    <3>5. ASSUME NEW d \in Client, NEW p \in Path, DeleteChecks(d, p)',
                 p \notin raced',
                 NEW b \in (Neighbours(op[d].bucket) \ op[d].unchecked)'
          PROVE  ~References(b, p)'
      <4>1. op'[d] = op[d] /\ DeleteChecks(d, p) /\ p \notin raced
        BY <3>1, <3>5, HistoryGrows DEF DeleteChecks
      <4> QED
        BY <3>1, <3>5, <4>1 DEF DedupInv, References, Neighbours
    <3> QED
      BY <3>2, <3>3, <3>4, <3>5, HistoryGrows DEF DedupInv
  <2>8. CASE DeleteFileFails(c)
    BY <1>3, <2>8 DEF DeleteFileFails, storeVars
  <2> QED
    BY <1>6, <2>1, <2>2, <2>3, <2>4, <2>5, <2>6, <2>7, <2>8 DEF DeleteStep
<1>7. ASSUME Restart
      PROVE  DedupInv'
  <2>1. \A d \in Client : op'[d].pc = "idle"
    BY <1>7 DEF Restart, Idle
  <2> QED
    BY <1>7, <2>1, HistoryGrows
    DEF Restart, DedupInv, PathsStayHome, NoDanglingRecord, PutHolds,
        DeleteChecks, TypeOK, Table
<1> QED
  BY <1>1, <1>2, <1>5, <1>6, <1>7 DEF Step, Admit

LEMMA DedupNext == TypeOK /\ TypeOK' /\ DedupInv /\ [Next]_vars => DedupInv'
<1> SUFFICES ASSUME TypeOK, TypeOK', DedupInv, [Next]_vars
             PROVE  DedupInv'
  OBVIOUS
<1>1. CASE UNCHANGED vars
  BY <1>1
  DEF vars, storeVars, DedupInv, PathsStayHome, NoDanglingRecord, Racing,
      PutHolds, DeleteChecks, References, Neighbours
<1>2. CASE Next
  BY <1>2, RecordedIsKept, DedupStep DEF Next
<1> QED
  BY <1>1, <1>2

\* For every number of clients, buckets, keys and contents, a row whose content
\* no Put and Delete handled at the same time names a file that is there.
THEOREM DedupGuardSafe == Spec => []NoDanglingRecord
<1>1. Spec => []DedupInv
  BY TypeCorrect, DedupInit, DedupNext, PTL DEF Spec
<1>2. DedupInv => NoDanglingRecord
  BY DEF DedupInv
<1> QED
  BY <1>1, <1>2, PTL

-----------------------------------------------------------------------------
(***************************************************************************)
(* Durability of acknowledged requests                                     *)
(***************************************************************************)

SyncSteps == {"put_snapshot", "put_sync", "del_snapshot", "del_sync"}

\* The third conjunct of DurableInv, for one client.
OwnRowKept(c) ==
    op[c].pc \in SyncSteps /\ acked[op[c].bucket][op[c].key] = c
        => /\ records[op[c].bucket][op[c].key] = RowOf(c)
           /\ op[c].pc \in {"put_sync", "del_sync"}
                 => op[c].snapshot[op[c].key] = RowOf(c)

\* The fourth, for one client and bucket.
SnapshotCurrent(c, b) ==
    HoldsSnapshot(c, b) /\ b \notin crossed =>
        \A k \in Key :
            acked[b][k] \notin Client => op[c].snapshot[k] = acked[b][k]

LEMMA DurableParts ==
    DurableInv <=> /\ AckedIsDurable
                   /\ \A b \in Bucket : Crossing(b) => b \in crossed
                   /\ \A c \in Client : OwnRowKept(c)
                   /\ \A c \in Client, b \in Bucket : SnapshotCurrent(c, b)
  BY DEF DurableInv, OwnRowKept, SnapshotCurrent, SyncSteps

\* The parts of the next state make up its invariant.
LEMMA DurableFromParts ==
    ASSUME AckedIsDurable',
           \A b \in Bucket : (Crossing(b) => b \in crossed)',
           \A c \in Client : OwnRowKept(c)',
           \A c \in Client, b \in Bucket : SnapshotCurrent(c, b)'
    PROVE  DurableInv'
  BY DEF DurableInv, OwnRowKept, SnapshotCurrent, SyncSteps

LEMMA DurableInit == Init => DurableInv
  BY ConstantsAssumption
  DEF Init, DurableInv, AckedIsDurable, Crossing, HoldsSnapshot, EmptyTable,
      Idle

\* A request that has not moved still has its row and its snapshot.
LEMMA OwnRowFrame ==
    ASSUME NEW d \in Client, OwnRowKept(d), op'[d] = op[d],
           op[d].pc \in SyncSteps =>
               \/ acked'[op[d].bucket][op[d].key] # d
               \/ /\ acked'[op[d].bucket][op[d].key]
                         = acked[op[d].bucket][op[d].key]
                  /\ records'[op[d].bucket][op[d].key]
                         = records[op[d].bucket][op[d].key]
    PROVE  OwnRowKept(d)'
  BY DEF OwnRowKept, RowOf

\* A step of c that changes no database and no promise, and does not leave c
\* in its synchronisation.
LEMMA DurableQuiet ==
    ASSUME DurableInv, HistoryKept, NEW c \in Client,
           records' = records, remote' = remote, acked' = acked,
           \A d \in Client : d # c => op'[d] = op[d],
           op'[c].pc \notin SyncSteps
    PROVE  DurableInv'
<1>1. AckedIsDurable'
  BY HistoryGrows DEF DurableInv, AckedIsDurable
<1>2. ASSUME NEW d \in Client
      PROVE  OwnRowKept(d)'
  <2>1. CASE d = c
    BY <2>1 DEF OwnRowKept
  <2>2. CASE d # c
    BY <2>2, DurableParts, OwnRowFrame
  <2> QED
    BY <2>1, <2>2
<1>3. ASSUME NEW d \in Client, NEW b \in Bucket
      PROVE  SnapshotCurrent(d, b)'
  <2>1. CASE d = c
    BY <2>1 DEF SnapshotCurrent, HoldsSnapshot, SyncSteps
  <2>2. CASE d # c
    BY <2>2, DurableParts, HistoryGrows DEF SnapshotCurrent, HoldsSnapshot
  <2> QED
    BY <2>1, <2>2
<1> QED
  BY <1>1, <1>2, <1>3, HistoryGrows, DurableFromParts

\* A request that writes its row.
LEMMA DurableWrite ==
    ASSUME TypeOK, DurableInv, HistoryKept, NEW c \in Client,
           op[c] \in Request, NEW row, WriteRow(c, row), remote' = remote,
           \A d \in Client : d # c => op'[d] = op[d],
           op'[c].pc \in {"put_snapshot", "del_snapshot"},
           op'[c].bucket = op[c].bucket, op'[c].key = op[c].key,
           RowOf(c)' = row
    PROVE  DurableInv'
<1>1. /\ records'[op[c].bucket][op[c].key] = row
      /\ acked'[op[c].bucket][op[c].key] = c
      /\ \A b \in Bucket, k \in Key :
            b # op[c].bucket \/ k # op[c].key
                => records'[b][k] = records[b][k] /\ acked'[b][k] = acked[b][k]
  BY DEF WriteRow, TypeOK, Table, Request
<1>2. AckedIsDurable'
  BY <1>1, HistoryGrows DEF DurableInv, AckedIsDurable
<1>3. ASSUME NEW d \in Client
      PROVE  OwnRowKept(d)'
  <2>1. CASE d = c
    BY <1>1, <2>1 DEF OwnRowKept
  <2>2. CASE d # c
    <3>1. op[d].pc \in SyncSteps => op[d].bucket \in Bucket /\ op[d].key \in Key
      BY BusyIsRequest DEF SyncSteps, Request
    <3> QED
      BY <1>1, <2>2, <3>1, DurableParts, OwnRowFrame
  <2> QED
    BY <2>1, <2>2
<1>4. ASSUME NEW d \in Client, NEW b \in Bucket
      PROVE  SnapshotCurrent(d, b)'
  <2>1. CASE d = c
    BY <2>1 DEF SnapshotCurrent, HoldsSnapshot
  <2>2. CASE d # c
    BY <1>1, <2>2, DurableParts, HistoryGrows
    DEF SnapshotCurrent, HoldsSnapshot
  <2> QED
    BY <2>1, <2>2
<1> QED
  BY <1>2, <1>3, <1>4, HistoryGrows, DurableFromParts

\* A request that takes its snapshot.
LEMMA DurableSnapshot ==
    ASSUME TypeOK, DurableInv, HistoryKept, NEW c \in Client,
           PutSnapshot(c) \/ DeleteSnapshot(c)
    PROVE  DurableInv'
<1>0. op[c] \in Request
  BY BusyIsRequest DEF PutSnapshot, DeleteSnapshot, TakeSnapshot, At
<1>1. /\ records' = records /\ remote' = remote /\ acked' = acked
      /\ \A d \in Client : d # c => op'[d] = op[d]
      /\ op'[c].bucket = op[c].bucket /\ op'[c].key = op[c].key
      /\ op'[c].path = op[c].path
      /\ op'[c].snapshot = records[op[c].bucket]
      /\ \/ op[c].pc = "put_snapshot" /\ op'[c].pc = "put_sync"
         \/ op[c].pc = "del_snapshot" /\ op'[c].pc = "del_sync"
  <2>1. CASE PutSnapshot(c)
    BY <2>1 DEF PutSnapshot, TakeSnapshot, At, storeVars, TypeOK, Request
  <2>2. CASE DeleteSnapshot(c)
    BY <2>2
    DEF DeleteSnapshot, TakeSnapshot, At, storeVars, TypeOK, Request
  <2> QED
    BY <2>1, <2>2
<1>2. AckedIsDurable'
  BY <1>1, HistoryGrows DEF DurableInv, AckedIsDurable
<1>3. ASSUME NEW d \in Client
      PROVE  OwnRowKept(d)'
  <2>1. CASE d = c
    <3>1. RowOf(c)' = RowOf(c)
      BY <1>1 DEF RowOf, PutSteps
    <3> QED
      BY <1>1, <2>1, <3>1, DurableParts DEF OwnRowKept, SyncSteps
  <2>2. CASE d # c
    BY <1>1, <2>2, DurableParts, OwnRowFrame
  <2> QED
    BY <2>1, <2>2
<1>4. ASSUME NEW d \in Client, NEW b \in Bucket
      PROVE  SnapshotCurrent(d, b)'
  <2>1. CASE d = c
    BY <1>1, <2>1, HistoryGrows
    DEF SnapshotCurrent, HoldsSnapshot, DurableInv, AckedIsDurable
  <2>2. CASE d # c
    BY <1>1, <2>2, DurableParts, HistoryGrows
    DEF SnapshotCurrent, HoldsSnapshot
  <2> QED
    BY <2>1, <2>2
<1> QED
  BY <1>2, <1>3, <1>4, HistoryGrows, DurableFromParts

\* The end of a synchronisation, whatever its outcome: the remote database is
\* the old one or the snapshot, and the row is acknowledged only if it is the
\* snapshot.
LEMMA DurableSyncEnds ==
    ASSUME TypeOK, DurableInv, HistoryKept, NEW c \in Client,
           op[c] \in Request, op[c].pc \in SyncSteps, records' = records,
           \A d \in Client : d # c => op'[d] = op[d],
           op'[c].pc \notin SyncSteps,
           \/ /\ remote' = remote
              /\ acked' = acked
           \/ /\ op[c].pc \in {"put_sync", "del_sync"}
              /\ remote' = [remote EXCEPT ![op[c].bucket] = op[c].snapshot]
              /\ acked' = acked \/ Acknowledge(c, RowOf(c))
    PROVE  DurableInv'
<1>1. CASE remote' = remote /\ acked' = acked
  BY <1>1, DurableQuiet
<1>2. CASE /\ op[c].pc \in {"put_sync", "del_sync"}
           /\ remote' = [remote EXCEPT ![op[c].bucket] = op[c].snapshot]
           /\ acked' = acked \/ Acknowledge(c, RowOf(c))
  <2> DEFINE own == op[c].bucket
  <2>1. own \in Bucket /\ op[c].key \in Key /\ HoldsSnapshot(c, own)
    BY <1>2 DEF Request, HoldsSnapshot
  <2>2. /\ remote'[own] = op[c].snapshot
        /\ \A b \in Bucket : b # own => remote'[b] = remote[b]
    BY <1>2, <2>1 DEF TypeOK
  <2>3. \A b \in Bucket, k \in Key :
           \/ acked'[b][k] = acked[b][k]
           \/ /\ b = own /\ k = op[c].key
              /\ acked[b][k] = c
              /\ acked'[b][k] = RowOf(c)
    BY <1>2, <2>1 DEF Acknowledge, TypeOK
  <2>4. acked[own][op[c].key] = c =>
           /\ records[own][op[c].key] = RowOf(c)
           /\ op[c].snapshot[op[c].key] = RowOf(c)
    BY <1>2, DurableParts DEF OwnRowKept
  <2>5. ASSUME own \notin crossed, NEW k \in Key, acked[own][k] \notin Client
        PROVE  op[c].snapshot[k] = acked[own][k]
    BY <2>1, <2>5, DurableParts DEF SnapshotCurrent
  <2>6. AckedIsDurable'
    BY <2>1, <2>2, <2>3, <2>4, <2>5, HistoryGrows
    DEF DurableInv, AckedIsDurable
  <2>7. ASSUME NEW d \in Client
        PROVE  OwnRowKept(d)'
    <3>1. CASE d = c
      BY <3>1 DEF OwnRowKept
    <3>2. CASE d # c
      <4>1. op[d].pc \in SyncSteps =>
               op[d].bucket \in Bucket /\ op[d].key \in Key
        BY BusyIsRequest DEF SyncSteps, Request
      <4>2. op[d].pc \in SyncSteps /\ acked[op[d].bucket][op[d].key] # d
               => acked'[op[d].bucket][op[d].key] # d
        BY <2>3, <4>1, ConstantsAssumption DEF RowOf, Request
      <4> QED
        BY <2>3, <3>2, <4>1, <4>2, DurableParts, OwnRowFrame
    <3> QED
      BY <3>1, <3>2
  <2>8. ASSUME NEW d \in Client, NEW b \in Bucket
        PROVE  SnapshotCurrent(d, b)'
    <3>1. CASE d = c
      BY <3>1 DEF SnapshotCurrent, HoldsSnapshot, SyncSteps
    <3>2. CASE d # c /\ b # own
      BY <2>3, <3>2, DurableParts, HistoryGrows
      DEF SnapshotCurrent, HoldsSnapshot
    <3>3. CASE d # c /\ b = own
      <4>1. HoldsSnapshot(d, b)' => b \in crossed
        BY <2>1, <3>3, DurableParts DEF HoldsSnapshot, Crossing
      <4> QED
        BY <4>1, HistoryGrows DEF SnapshotCurrent
    <3> QED
      BY <3>1, <3>2, <3>3
  <2> QED
    BY <2>6, <2>7, <2>8, HistoryGrows, DurableFromParts
<1> QED
  BY <1>1, <1>2

LEMMA DurableStep == TypeOK /\ DurableInv /\ Step /\ HistoryKept => DurableInv'
<1> SUFFICES ASSUME TypeOK, DurableInv, Step, HistoryKept
             PROVE  DurableInv'
  OBVIOUS
<1> USE DEF SyncSteps
\* A request is admitted.
<1>1. ASSUME NEW c \in Client, NEW b \in Bucket, NEW k \in Key,
             \/ \E h \in Hash : PutStart(c, b, k, h)
             \/ DeleteStart(c, b, k)
      PROVE  DurableInv'
  <2>1. /\ UNCHANGED <<records, remote, acked>>
        /\ \A d \in Client : d # c => op'[d] = op[d]
        /\ op'[c].pc \notin SyncSteps
    BY <1>1 DEF PutStart, DeleteStart, storeVars, TypeOK
  <2> QED
    BY <2>1, DurableQuiet
<1>2. ASSUME NEW c \in Client, PutStep(c)
      PROVE  DurableInv'
  <2>0. op[c] \in Request
    BY <1>2, BusyIsRequest
    DEF PutStep, PutUpload, PutUploadFails, PutRecord, PutRecordFails,
        PutSnapshot, TakeSnapshot, PutSync, PutSyncFails, At
  <2>1. CASE PutUpload(c) \/ PutUploadFails(c) \/ PutRecordFails(c)
    <3>1. /\ UNCHANGED <<records, remote, acked>>
          /\ \A d \in Client : d # c => op'[d] = op[d]
          /\ op'[c].pc \notin SyncSteps
      BY <2>0, <2>1
      DEF PutUpload, PutUploadFails, PutRecordFails, GoTo, Return, Idle,
          storeVars, TypeOK, Request
    <3> QED
      BY <3>1, DurableQuiet
  <2>2. CASE PutRecord(c)
    <3>1. /\ remote' = remote
          /\ \A d \in Client : d # c => op'[d] = op[d]
          /\ op'[c].pc = "put_snapshot"
          /\ op'[c].bucket = op[c].bucket /\ op'[c].key = op[c].key
          /\ op'[c].path = op[c].path
      BY <2>0, <2>2 DEF PutRecord, GoTo, TypeOK, Request
    <3>2. RowOf(c)' = op[c].path
      BY <3>1 DEF RowOf, PutSteps
    <3>3. WriteRow(c, op[c].path)
      BY <2>2 DEF PutRecord
    <3> QED
      BY <2>0, <3>1, <3>2, <3>3, DurableWrite
  <2>3. CASE PutSnapshot(c)
    BY <2>3, DurableSnapshot
  <2>4. CASE PutSync(c)
    <3>1. /\ records' = records
          /\ op[c].pc = "put_sync"
          /\ \A d \in Client : d # c => op'[d] = op[d]
          /\ op'[c].pc \notin SyncSteps
          /\ remote' = [remote EXCEPT ![op[c].bucket] = op[c].snapshot]
          /\ RowOf(c) = op[c].path
      BY <2>4 DEF PutSync, At, Return, Idle, TypeOK, RowOf, PutSteps
    <3>2. Acknowledge(c, op[c].path)
      BY <2>4 DEF PutSync
    <3> QED
      BY <2>0, <3>1, <3>2, DurableSyncEnds
  <2>5. CASE PutSyncFails(c)
    <3>1. /\ UNCHANGED <<records, acked>>
          /\ op[c].pc \in SyncSteps
          /\ \A d \in Client : d # c => op'[d] = op[d]
          /\ op'[c].pc \notin SyncSteps
      BY <2>5 DEF PutSyncFails, At, Return, Idle, TypeOK
    <3>2. \/ remote' = remote
          \/ /\ op[c].pc = "put_sync"
             /\ remote' = [remote EXCEPT ![op[c].bucket] = op[c].snapshot]
      BY <2>0, <2>5 DEF PutSyncFails, At, TypeOK, Request
    <3> QED
      BY <2>0, <3>1, <3>2, DurableSyncEnds
  <2> QED
    BY <1>2, <2>1, <2>2, <2>3, <2>4, <2>5 DEF PutStep
<1>3. ASSUME NEW c \in Client, DeleteStep(c)
      PROVE  DurableInv'
  <2>0. op[c] \in Request
    BY <1>3, BusyIsRequest
    DEF DeleteStep, DeleteRecord, DeleteRecordFails, DeleteSnapshot,
        TakeSnapshot, DeleteSync, DeleteSyncFails, DeleteCount, DeleteFile,
        DeleteFileFails, At
  <2>1. CASE \/ DeleteRecordFails(c) \/ DeleteCount(c)
             \/ DeleteFile(c) \/ DeleteFileFails(c)
    <3>1. /\ UNCHANGED <<records, remote, acked>>
          /\ \A d \in Client : d # c => op'[d] = op[d]
      BY <2>0, <2>1, CountGoesOn
      DEF DeleteRecordFails, DeleteCount, DeleteFile, DeleteFileFails,
          Return, storeVars, TypeOK
    <3>2. op'[c].pc \notin SyncSteps
      <4>1. CASE DeleteCount(c)
        BY <2>0, <4>1, CountGoesOn DEF Return, Idle, TypeOK
      <4>2. CASE DeleteRecordFails(c) \/ DeleteFile(c) \/ DeleteFileFails(c)
        BY <4>2
        DEF DeleteRecordFails, DeleteFile, DeleteFileFails, Return, Idle, TypeOK
      <4> QED
        BY <2>1, <4>1, <4>2
    <3> QED
      BY <3>1, <3>2, DurableQuiet
  <2>2. CASE DeleteRecord(c)
    <3>1. /\ remote' = remote
          /\ \A d \in Client : d # c => op'[d] = op[d]
          /\ op'[c].pc = "del_snapshot"
          /\ op'[c].bucket = op[c].bucket /\ op'[c].key = op[c].key
      BY <2>0, <2>2 DEF DeleteRecord, GoTo, TypeOK, Request
    <3>2. RowOf(c)' = NoObject
      BY <3>1 DEF RowOf, PutSteps
    <3>3. WriteRow(c, NoObject)
      BY <2>2 DEF DeleteRecord
    <3> QED
      BY <2>0, <3>1, <3>2, <3>3, DurableWrite
  <2>3. CASE DeleteSnapshot(c)
    BY <2>3, DurableSnapshot
  <2>4. CASE DeleteSync(c)
    <3>1. /\ records' = records
          /\ op[c].pc = "del_sync"
          /\ \A d \in Client : d # c => op'[d] = op[d]
          /\ op'[c].pc \notin SyncSteps
          /\ remote' = [remote EXCEPT ![op[c].bucket] = op[c].snapshot]
          /\ RowOf(c) = NoObject
      BY <2>0, <2>4
      DEF DeleteSync, At, TypeOK, Request, RowOf, PutSteps
    <3>2. Acknowledge(c, NoObject)
      BY <2>4 DEF DeleteSync
    <3> QED
      BY <2>0, <3>1, <3>2, DurableSyncEnds
  <2>5. CASE DeleteSyncFails(c)
    <3>1. /\ UNCHANGED <<records, acked>>
          /\ op[c].pc \in SyncSteps
          /\ \A d \in Client : d # c => op'[d] = op[d]
          /\ op'[c].pc \notin SyncSteps
      BY <2>5 DEF DeleteSyncFails, At, Return, Idle, TypeOK
    <3>2. \/ remote' = remote
          \/ /\ op[c].pc = "del_sync"
             /\ remote' = [remote EXCEPT ![op[c].bucket] = op[c].snapshot]
      BY <2>0, <2>5 DEF DeleteSyncFails, At, TypeOK, Request
    <3> QED
      BY <2>0, <3>1, <3>2, DurableSyncEnds
  <2> QED
    BY <1>3, <2>1, <2>2, <2>3, <2>4, <2>5 DEF DeleteStep
<1>4. ASSUME Restart
      PROVE  DurableInv'
  <2>1. \A c \in Client : op'[c].pc = "idle"
    BY <1>4 DEF Restart, Idle
  <2>2. UNCHANGED <<records, remote, acked>>
    BY <1>4 DEF Restart
  <2>3. AckedIsDurable'
    BY <2>2, HistoryGrows DEF DurableInv, AckedIsDurable
  <2> QED
    BY <2>1, <2>3, HistoryGrows, DurableFromParts
    DEF OwnRowKept, SnapshotCurrent, HoldsSnapshot
<1> QED
  BY <1>1, <1>2, <1>3, <1>4 DEF Step, Admit

LEMMA DurableNext == TypeOK /\ DurableInv /\ [Next]_vars => DurableInv'
<1> SUFFICES ASSUME TypeOK, DurableInv, [Next]_vars
             PROVE  DurableInv'
  OBVIOUS
<1>1. CASE UNCHANGED vars
  BY <1>1
  DEF vars, DurableInv, AckedIsDurable, Crossing, HoldsSnapshot, RowOf
<1>2. CASE Next
  BY <1>2, RecordedIsKept, DurableStep DEF Next
<1> QED
  BY <1>1, <1>2

\* For every number of clients, buckets, keys and contents, what a request
\* acknowledged stays in the local and the remote database until another
\* request writes the key, on a bucket whose snapshots never crossed.
THEOREM AckedRequestsDurable == Spec => []AckedIsDurable
<1>1. Spec => []DurableInv
  BY TypeCorrect, DurableInit, DurableNext, PTL DEF Spec
<1>2. DurableInv => AckedIsDurable
  BY DEF DurableInv
<1> QED
  BY <1>1, <1>2, PTL

-----------------------------------------------------------------------------
(***************************************************************************)
(* The gc command beside the requests.  The requests preserve the          *)
(* invariants as before, because the specification with the command        *)
(* remembers at least the overlaps that ObjectStore does.                  *)
(***************************************************************************)

\* What a step of the command leaves alone.
Undisturbed == UNCHANGED <<records, remote, usage, status, op, started, acked>>

LEMMA IdleHasNoPc == GCIdle.pc = "idle"
  BY DEF GCIdle

\* The history of the combined specification.
LEMMA CollectionHistory == TypeOK /\ GCNext => HistoryKept
  BY DEF GCNext, HistoryKept, TypeOK

\* While the command runs, the path of every waiting Put counts as raced.
LEMMA SweptIsRaced == GCNext => \A p \in Path : Swept(p)' => p \in raced'
  BY DEF GCNext

-----------------------------------------------------------------------------
(***************************************************************************)
(* Types                                                                   *)
(***************************************************************************)

LEMMA CollectionTypeInit == GCInit => TypeOK /\ CollectionTypeOK
  BY TypeInit, SweepAssumption DEF GCInit, CollectionTypeOK

LEMMA StoreTypeNext == TypeOK /\ [GCNext]_allVars => TypeOK'
<1> SUFFICES ASSUME TypeOK, [GCNext]_allVars
             PROVE  TypeOK'
  OBVIOUS
<1>1. CASE UNCHANGED allVars
  BY <1>1 DEF allVars, vars, TypeOK, GateTypeOK
<1>2. CASE GCNext
  <2>1. HistoryKept
    BY <1>2, CollectionHistory
  <2>2. CASE Step
    BY <2>1, <2>2, TypeStep
  <2>3. CASE GCStep /\ Undisturbed
    <3>1. dataFile' \in [Path -> {Absent, Partial, Complete}]
      BY <2>3 DEF GCStep, GCKeep, GCDelete, GCDeleteFails, TypeOK
    <3> QED
      BY <2>1, <2>3, <3>1 DEF Undisturbed, HistoryKept, TypeOK, GateTypeOK
  <2> QED
    BY <1>2, <2>2, <2>3 DEF GCNext, Undisturbed
<1> QED
  BY <1>1, <1>2

\* Every step of the command.
LEMMA CommandType ==
    ASSUME TypeOK, CollectionTypeOK, GCStep
    PROVE  CollectionTypeOK'
<1>1. ASSUME NEW l \in Location, GCStart(l)
      PROVE  CollectionTypeOK'
  <2>1. FilesOf(l) \subseteq Path
    BY DEF FilesOf
  <2> QED
    BY <1>1, <2>1, SweepAssumption
    DEF GCStart, CollectionTypeOK, Collection, NoRequest
<1>2. ASSUME NEW b \in Bucket, GCCollect(b)
      PROVE  CollectionTypeOK'
  <2>1. Referred(b) \subseteq Path
    BY DEF Referred, TypeOK, Table
  <2>2. gc \in Collection
    BY <1>2, IdleHasNoPc DEF GCCollect, CollectionTypeOK
  <2> QED
    BY <1>2, <2>1, <2>2 DEF GCCollect, CollectionTypeOK, Collection
<1>3. CASE GCCollectFails \/ GCEnd
  BY <1>3 DEF GCCollectFails, GCEnd, CollectionTypeOK
<1>4. CASE GCSweep
  <2>1. gc \in Collection
    BY <1>4, IdleHasNoPc DEF GCSweep, CollectionTypeOK
  <2> QED
    BY <1>4, <2>1 DEF GCSweep, CollectionTypeOK, Collection
<1>5. ASSUME NEW p \in Path, GCKeep(p) \/ GCDelete(p) \/ GCDeleteFails(p)
      PROVE  CollectionTypeOK'
  <2>1. gc \in Collection
    BY <1>5, IdleHasNoPc DEF GCKeep, GCDelete, GCDeleteFails, CollectionTypeOK
  <2>2. CASE GCKeep(p)
    BY <2>1, <2>2 DEF GCKeep, CollectionTypeOK, Collection
  <2>3. CASE GCDelete(p)
    BY <2>1, <2>3 DEF GCDelete, CollectionTypeOK, Collection
  <2>4. CASE GCDeleteFails(p)
    BY <2>1, <2>4 DEF GCDeleteFails, CollectionTypeOK, Collection
  <2> QED
    BY <1>5, <2>2, <2>3, <2>4
<1> QED
  BY <1>1, <1>2, <1>3, <1>4, <1>5 DEF GCStep

LEMMA CollectionTypeNext ==
    TypeOK /\ CollectionTypeOK /\ [GCNext]_allVars => CollectionTypeOK'
<1> SUFFICES ASSUME TypeOK, CollectionTypeOK, [GCNext]_allVars
             PROVE  CollectionTypeOK'
  OBVIOUS
<1>1. CASE UNCHANGED allVars
  BY <1>1 DEF allVars, gcVars, CollectionTypeOK
<1>2. CASE Noticed /\ UNCHANGED sweeps
  BY <1>2 DEF Noticed, CollectionTypeOK, Collection
<1>3. CASE GCStep
  BY <1>3, CommandType
<1> QED
  BY <1>1, <1>2, <1>3 DEF GCNext

\* Every reachable state of requests and command is well-typed.
THEOREM CollectionTypes == GCSpec => [](TypeOK /\ CollectionTypeOK)
  BY CollectionTypeInit, StoreTypeNext, CollectionTypeNext, PTL DEF GCSpec

-----------------------------------------------------------------------------
(***************************************************************************)
(* The command deletes nothing that is referenced                          *)
(***************************************************************************)

\* Only a Put that waits with its row adds a reference.
LEMMA NewReferences ==
    ASSUME TypeOK, Step
    PROVE  \A b \in Bucket, p \in Path :
              References(b, p)' =>
                  References(b, p) \/ \E c \in Client : PutHolds(c, p)
<1>1. CASE records' = records
  BY <1>1 DEF References
<1>2. ASSUME NEW c \in Client, PutRecord(c), NEW b \in Bucket, NEW p \in Path,
             References(b, p)'
      PROVE  References(b, p) \/ PutHolds(c, p)
  <2>1. op[c] \in Request /\ op[c].pc = "put_record"
    BY <1>2, BusyIsRequest DEF PutRecord, At
  <2>2. PICK k \in Key : records'[b][k] = p
    BY <1>2 DEF References
  <2>3. records'[b][k] = records[b][k] \/ records'[b][k] = op[c].path
    BY <1>2, <2>1 DEF PutRecord, WriteRow, TypeOK, Table, Request
  <2> QED
    BY <2>1, <2>2, <2>3 DEF References, PutHolds
<1>3. ASSUME NEW c \in Client, DeleteRecord(c), NEW b \in Bucket, NEW p \in Path,
             References(b, p)'
      PROVE  References(b, p)
  <2>1. op[c] \in Request
    BY <1>3, BusyIsRequest DEF DeleteRecord, At
  <2>2. PICK k \in Key : records'[b][k] = p
    BY <1>3 DEF References
  <2>3. records'[b][k] = records[b][k] \/ records'[b][k] = NoObject
    BY <1>3, <2>1 DEF DeleteRecord, WriteRow, TypeOK, Table, Request
  <2> QED
    BY <2>2, <2>3, ConstantsAssumption DEF References
<1>4. \/ records' = records
      \/ \E c \in Client : PutRecord(c) \/ DeleteRecord(c)
  BY DEF Step, Admit, PutStart, DeleteStart, PutStep, PutUpload, PutUploadFails,
         PutRecordFails, PutSnapshot, TakeSnapshot, PutSync, PutSyncFails,
         DeleteStep, DeleteRecordFails, DeleteSnapshot, DeleteSync,
         DeleteSyncFails, DeleteCount, DeleteFile, DeleteFileFails, Restart,
         storeVars
<1> QED
  BY <1>1, <1>2, <1>3, <1>4

LEMMA SweepInit == GCInit => DedupInv /\ SweepInv
  BY DedupInit DEF GCInit, SweepInv, Swept, GCIdle

\* A request runs beside the command: a new reference has been raced.
LEMMA SweepBeside ==
    ASSUME TypeOK, CollectionTypeOK, SweepInv, Step, Noticed, HistoryKept,
           \A p \in Path : Swept(p)' => p \in raced'
    PROVE  SweepInv'
<1>1. CASE gc = GCIdle
  BY <1>1 DEF Noticed, SweepInv, GCIdle
<1>2. CASE gc # GCIdle
  <2>1. gc \in Collection /\ gc' = [gc EXCEPT !.clean = FALSE]
    BY <1>2 DEF Noticed, CollectionTypeOK
  <2>2. /\ gc'.pc = gc.pc /\ gc'.location = gc.location
        /\ gc'.todo = gc.todo /\ gc'.seen = gc.seen /\ gc'.left = gc.left
    BY <2>1 DEF Collection
  <2>3. ASSUME NEW b \in Bucket, NEW p \in Path, LocationOf[b] = gc.location,
               b \notin gc.todo, p \notin raced', References(b, p)'
        PROVE  p \in gc.seen
    <3>1. p \notin raced
      BY <2>3, HistoryGrows
    <3>2. ~\E c \in Client : PutHolds(c, p)
      BY <1>2, <3>1 DEF SweepInv, Swept
    <3> QED
      BY <1>2, <2>3, <3>1, <3>2, NewReferences DEF SweepInv
  <2> QED
    BY <1>2, <2>2, <2>3 DEF SweepInv, FilesOf
<1> QED
  BY <1>1, <1>2

\* The command collects, or works off what it has listed.
LEMMA SweepGoesOn ==
    ASSUME TypeOK, CollectionTypeOK, SweepInv, GCStep, Undisturbed, HistoryKept,
           \A p \in Path : Swept(p)' => p \in raced'
    PROVE  SweepInv'
<1>1. \A b \in Bucket, p \in Path : References(b, p)' = References(b, p)
  BY DEF References, Undisturbed
<1>2. raced \subseteq raced'
  BY HistoryGrows
<1>3. ASSUME NEW l \in Location, GCStart(l)
      PROVE  SweepInv'
  BY <1>3 DEF GCStart, SweepInv, FilesOf
<1>4. ASSUME NEW b \in Bucket, GCCollect(b)
      PROVE  SweepInv'
  <2>1. gc \in Collection /\ gc # GCIdle /\ gc.pc = "collect"
    BY <1>4, IdleHasNoPc DEF GCCollect, CollectionTypeOK
  <2>2. /\ gc'.pc = gc.pc /\ gc'.location = gc.location
        /\ gc'.left = gc.left /\ gc'.todo = gc.todo \ {b}
        /\ gc'.seen = gc.seen \cup Referred(b)
    BY <1>4, <2>1 DEF GCCollect, Collection
  <2>3. ASSUME NEW p \in Path, References(b, p)
        PROVE  p \in Referred(b)
    BY <2>3, ConstantsAssumption DEF References, Referred
  <2>4. ASSUME NEW d \in Bucket, NEW p \in Path, LocationOf[d] = gc.location,
               d \notin gc'.todo, p \notin raced', References(d, p)'
        PROVE  p \in gc'.seen
    BY <1>1, <1>2, <2>1, <2>2, <2>3, <2>4 DEF SweepInv
  <2> QED
    BY <2>1, <2>2, <2>4 DEF SweepInv, FilesOf
<1>5. CASE GCCollectFails \/ GCEnd
  BY <1>5, IdleHasNoPc DEF GCCollectFails, GCEnd, SweepInv
<1>6. ASSUME gc \in Collection, gc' \in Collection, gc # GCIdle,
             gc'.location = gc.location, gc'.todo = gc.todo,
             gc'.seen = gc.seen, gc'.left \subseteq gc.left,
             gc'.pc = "sweep" => gc'.todo = {}
      PROVE  SweepInv'
  BY <1>1, <1>2, <1>6 DEF SweepInv, FilesOf
<1>7. CASE GCSweep
  <2>1. gc \in Collection /\ gc # GCIdle
    BY <1>7, IdleHasNoPc DEF GCSweep, CollectionTypeOK
  <2> QED
    BY <1>6, <1>7, <2>1 DEF GCSweep, Collection
<1>8. ASSUME NEW p \in Path, GCKeep(p) \/ GCDelete(p) \/ GCDeleteFails(p)
      PROVE  SweepInv'
  <2>1. gc \in Collection /\ gc # GCIdle /\ gc.pc = "sweep"
    BY <1>8, IdleHasNoPc DEF GCKeep, GCDelete, GCDeleteFails, CollectionTypeOK
  <2>2. gc.todo = {}
    BY <2>1 DEF SweepInv
  <2>3. CASE GCKeep(p)
    BY <1>6, <2>1, <2>2, <2>3 DEF GCKeep, Collection
  <2>4. CASE GCDelete(p)
    BY <1>6, <2>1, <2>2, <2>4 DEF GCDelete, Collection
  <2>5. CASE GCDeleteFails(p)
    BY <1>6, <2>1, <2>2, <2>5 DEF GCDeleteFails, Collection
  <2> QED
    BY <1>8, <2>3, <2>4, <2>5
<1> QED
  BY <1>3, <1>4, <1>5, <1>7, <1>8 DEF GCStep

LEMMA SweepNext ==
    TypeOK /\ CollectionTypeOK /\ SweepInv /\ [GCNext]_allVars => SweepInv'
<1> SUFFICES ASSUME TypeOK, CollectionTypeOK, SweepInv, [GCNext]_allVars
             PROVE  SweepInv'
  OBVIOUS
<1>1. CASE UNCHANGED allVars
  BY <1>1
  DEF allVars, vars, gcVars, SweepInv, Swept, PutHolds, References, FilesOf
<1>2. CASE GCNext
  <2>1. HistoryKept /\ \A p \in Path : Swept(p)' => p \in raced'
    BY <1>2, CollectionHistory, SweptIsRaced
  <2>2. \/ Step /\ Noticed
        \/ GCStep /\ Undisturbed
    BY <1>2 DEF GCNext, Undisturbed
  <2> QED
    BY <2>1, <2>2, SweepBeside, SweepGoesOn
<1> QED
  BY <1>1, <1>2

\* Off the raced paths, the command deletes no file that a row names or that a
\* Put is about to name.
LEMMA SweepSpares ==
    ASSUME TypeOK, CollectionTypeOK, DedupInv, SweepInv, GCStep,
           NEW p \in Path, p \notin raced, dataFile[p] # Absent,
           \/ \E b \in Bucket : References(b, p)
           \/ \E c \in Client : PutHolds(c, p)
    PROVE  dataFile'[p] # Absent
<1>1. CASE dataFile' = dataFile
  BY <1>1
<1>2. ASSUME NEW q \in Path, GCDelete(q)
      PROVE  dataFile'[p] # Absent
  <2>1. /\ gc # GCIdle /\ gc.todo = {} /\ q \notin gc.seen
        /\ q[1] = gc.location
    BY <1>2, IdleHasNoPc DEF GCDelete, SweepInv, FilesOf
  <2>2. ASSUME p = q
        PROVE  FALSE
    <3>1. ~\E c \in Client : PutHolds(c, p)
      BY <2>1 DEF SweepInv, Swept
    <3>2. PICK b \in Bucket : References(b, p)
      BY <3>1
    <3>3. LocationOf[b] = gc.location
      BY <2>1, <2>2, <3>2, ConstantsAssumption
      DEF References, DedupInv, PathsStayHome
    <3> QED
      BY <2>1, <2>2, <3>2, <3>3 DEF SweepInv
  <2> QED
    BY <1>2, <2>2 DEF GCDelete, TypeOK
<1> QED
  BY <1>1, <1>2 DEF GCStep, GCKeep, GCDeleteFails

LEMMA DedupBesideGC ==
    ASSUME TypeOK, CollectionTypeOK, DedupInv, SweepInv, GCStep, Undisturbed,
           HistoryKept
    PROVE  DedupInv'
<1>1. PathsStayHome'
  BY DEF DedupInv, PathsStayHome, Undisturbed
<1>2. NoDanglingRecord'
  <2> SUFFICES ASSUME NEW b \in Bucket, NEW k \in Key,
                      records'[b][k] # NoObject, records'[b][k] \notin raced'
               PROVE  dataFile'[records'[b][k]] # Absent
    BY DEF NoDanglingRecord
  <2>1. records[b][k] \in Path /\ records'[b][k] = records[b][k]
    BY DEF Undisturbed, TypeOK, Table
  <2>2. records[b][k] \notin raced /\ References(b, records[b][k])
    BY <2>1, HistoryGrows DEF References
  <2>3. dataFile[records[b][k]] # Absent
    BY <2>1, <2>2 DEF DedupInv, NoDanglingRecord
  <2> QED
    BY <2>1, <2>2, <2>3, SweepSpares
<1>3. ASSUME NEW c \in Client, NEW p \in Path, PutHolds(c, p)', p \notin raced'
      PROVE  dataFile'[p] # Absent
  <2>1. PutHolds(c, p) /\ p \notin raced
    BY <1>3, HistoryGrows DEF PutHolds, Undisturbed
  <2> QED
    BY <2>1, SweepSpares DEF DedupInv
<1>4. ASSUME NEW c \in Client, NEW p \in Path, DeleteChecks(c, p)',
             p \notin raced',
             NEW b \in (Neighbours(op[c].bucket) \ op[c].unchecked)'
      PROVE  ~References(b, p)'
  <2>1. DeleteChecks(c, p) /\ p \notin raced
    BY <1>4, HistoryGrows DEF DeleteChecks, Undisturbed
  <2> QED
    BY <1>4, <2>1 DEF DedupInv, References, Neighbours, Undisturbed
<1> QED
  BY <1>1, <1>2, <1>3, <1>4, HistoryGrows DEF DedupInv

LEMMA DedupGCNext ==
    /\ TypeOK /\ TypeOK' /\ CollectionTypeOK /\ DedupInv /\ SweepInv
    /\ [GCNext]_allVars
    => DedupInv'
<1> SUFFICES ASSUME TypeOK, TypeOK', CollectionTypeOK, DedupInv, SweepInv,
                    [GCNext]_allVars
             PROVE  DedupInv'
  OBVIOUS
<1>1. CASE UNCHANGED allVars
  BY <1>1, DedupNext DEF allVars
<1>2. CASE GCNext
  <2>1. HistoryKept
    BY <1>2, CollectionHistory
  <2>2. Step \/ (GCStep /\ Undisturbed)
    BY <1>2 DEF GCNext, Undisturbed
  <2> QED
    BY <2>1, <2>2, DedupStep, DedupBesideGC
<1> QED
  BY <1>1, <1>2

\* With the command beside the requests, a row still never names a missing
\* file, unless a Delete or the command ran while a Put of the content waited
\* with its row: reading the references bucket by bucket is enough.
THEOREM CollectionSafe == GCSpec => []NoDanglingRecord
<1>1. GCSpec => [](DedupInv /\ SweepInv)
  BY CollectionTypes, SweepInit, SweepNext, DedupGCNext, PTL DEF GCSpec
<1>2. DedupInv => NoDanglingRecord
  BY DEF DedupInv
<1> QED
  BY <1>1, <1>2, PTL

-----------------------------------------------------------------------------
(***************************************************************************)
(* The command takes nothing from what was acknowledged                    *)
(***************************************************************************)

LEMMA DurableGCNext == TypeOK /\ DurableInv /\ [GCNext]_allVars => DurableInv'
<1> SUFFICES ASSUME TypeOK, DurableInv, [GCNext]_allVars
             PROVE  DurableInv'
  OBVIOUS
<1>1. CASE UNCHANGED allVars
  BY <1>1, DurableNext DEF allVars
<1>2. CASE GCNext /\ Step
  BY <1>2, CollectionHistory, DurableStep
<1>3. CASE GCNext /\ Undisturbed
  <2>1. HistoryKept
    BY <1>3, CollectionHistory
  <2>2. /\ \A b \in Bucket, c \in Client :
              HoldsSnapshot(c, b)' = HoldsSnapshot(c, b)
        /\ \A c \in Client : RowOf(c)' = RowOf(c)
    BY <1>3 DEF Undisturbed, HoldsSnapshot, RowOf
  <2> QED
    BY <1>3, <2>1, <2>2, HistoryGrows DEF Undisturbed, DurableInv, AckedIsDurable
<1> QED
  BY <1>1, <1>2, <1>3 DEF GCNext, Undisturbed

\* What was acknowledged survives the command too.
THEOREM CollectionDurable == GCSpec => []AckedIsDurable
<1>1. GCInit => DurableInv
  BY DurableInit DEF GCInit
<1>2. DurableInv => AckedIsDurable
  BY DEF DurableInv
<1> QED
  BY <1>1, <1>2, CollectionTypes, DurableGCNext, PTL DEF GCSpec

-----------------------------------------------------------------------------
(***************************************************************************)
(* A clean run leaves no orphan                                            *)
(***************************************************************************)

LEMMA CleanInit == GCInit => CleanInv
  BY DEF GCInit, CleanInv

\* While the command does a step, rows and requests stand still.
LEMMA CleanGoesOn ==
    ASSUME TypeOK, CollectionTypeOK, SweepInv, CleanInv, GCStep, Undisturbed
    PROVE  CleanInv'
<1>1. \A b \in Bucket : \A p : References(b, p)' = References(b, p)
  BY DEF References, Undisturbed
<1>2. NoRequest' = NoRequest
  BY DEF NoRequest, Undisturbed
<1>3. ASSUME NEW l \in Location, GCStart(l), dataFile' = dataFile
      PROVE  CleanInv'
  BY <1>2, <1>3 DEF GCStart, CleanInv, FilesOf
<1>4. ASSUME NEW b \in Bucket, GCCollect(b), dataFile' = dataFile
      PROVE  CleanInv'
  <2>1. gc \in Collection /\ gc # GCIdle
    BY <1>4, IdleHasNoPc DEF GCCollect, CollectionTypeOK
  <2>2. /\ gc'.pc = gc.pc /\ gc'.location = gc.location
        /\ gc'.left = gc.left /\ gc'.clean = gc.clean
        /\ gc'.seen = gc.seen \cup Referred(b)
    BY <1>4, <2>1 DEF GCCollect, Collection
  <2>3. \A p \in Referred(b) : References(b, p)
    BY DEF References, Referred
  <2> QED
    BY <1>1, <1>2, <1>4, <2>1, <2>2, <2>3 DEF CleanInv, FilesOf
<1>5. CASE GCCollectFails \/ GCEnd
  BY <1>5 DEF GCCollectFails, GCEnd, CleanInv
<1>6. CASE GCSweep /\ dataFile' = dataFile
  <2>1. gc \in Collection /\ gc # GCIdle
    BY <1>6, IdleHasNoPc DEF GCSweep, CollectionTypeOK
  <2>2. /\ gc'.pc = "sweep" /\ gc'.location = gc.location
        /\ gc'.left = gc.left /\ gc'.clean = gc.clean /\ gc'.seen = gc.seen
    BY <1>6, <2>1 DEF GCSweep, Collection
  <2> QED
    BY <1>1, <1>2, <1>6, <2>1, <2>2 DEF CleanInv, FilesOf
<1>7. ASSUME NEW p \in Path, GCKeep(p) \/ GCDelete(p)
      PROVE  CleanInv'
  <2>1. gc \in Collection /\ gc # GCIdle
    BY <1>7, IdleHasNoPc DEF GCKeep, GCDelete, CollectionTypeOK
  <2>2. /\ gc'.pc = "sweep" /\ gc'.location = gc.location
        /\ gc'.left = gc.left \ {p} /\ gc'.clean = gc.clean
        /\ gc'.seen = gc.seen
    BY <1>7, <2>1 DEF GCKeep, GCDelete, Collection
  <2>3. \A q \in Path : dataFile'[q] = dataFile[q] \/ dataFile'[q] = Absent
    BY <1>7 DEF GCKeep, GCDelete, TypeOK
  <2>4. dataFile'[p] # Absent => p \in gc.seen
    BY <1>7 DEF GCKeep, GCDelete, TypeOK
  <2>5. FilesOf(gc.location) \subseteq Path
    BY DEF FilesOf
  <2> QED
    BY <1>1, <1>2, <2>1, <2>2, <2>3, <2>4, <2>5 DEF CleanInv, FilesOf
<1>8. ASSUME NEW p \in Path, GCDeleteFails(p)
      PROVE  CleanInv'
  <2>1. gc \in Collection
    BY <1>8, IdleHasNoPc DEF GCDeleteFails, CollectionTypeOK
  <2>2. ~gc'.clean
    BY <1>8, <2>1 DEF GCDeleteFails, Collection
  <2> QED
    BY <2>2 DEF CleanInv
<1> QED
  BY <1>3, <1>4, <1>5, <1>6, <1>7, <1>8 DEF GCStep

LEMMA CleanNext ==
    /\ TypeOK /\ CollectionTypeOK /\ SweepInv /\ CleanInv /\ [GCNext]_allVars
    => CleanInv'
<1> SUFFICES ASSUME TypeOK, CollectionTypeOK, SweepInv, CleanInv,
                    [GCNext]_allVars
             PROVE  CleanInv'
  OBVIOUS
<1>1. CASE UNCHANGED allVars
  BY <1>1 DEF allVars, vars, gcVars, CleanInv, NoRequest, References, FilesOf
<1>2. CASE Noticed
  <2>1. gc' = GCIdle \/ ~gc'.clean
    BY <1>2 DEF Noticed, CollectionTypeOK, Collection
  <2> QED
    BY <2>1 DEF CleanInv, GCIdle
<1> QED
  BY <1>1, <1>2, CleanGoesOn DEF GCNext, Undisturbed

\* A run of the command that nothing disturbed leaves no file without a row on
\* its location, whatever failed uploads and Deletes had left there.
THEOREM NoOrphanIsLeft == GCSpec => OrphansAreGone
<1>1. GCSpec => [](TypeOK /\ CollectionTypeOK /\ SweepInv /\ CleanInv)
  BY CollectionTypes, SweepInit, SweepNext, CleanInit, CleanNext, PTL DEF GCSpec
<1>2. ASSUME CollectionTypeOK, SweepInv, CleanInv, [GCNext]_allVars,
             gc.pc = "sweep", gc' = GCIdle, gc.clean,
             NEW p \in FilesOf(gc.location), dataFile[p] # Absent
      PROVE  \E b \in Bucket : References(b, p)
  <2>1. gc \in Collection /\ gc # GCIdle
    BY <1>2, IdleHasNoPc DEF CollectionTypeOK
  <2>2. gc'.pc = "idle"
    BY <1>2, IdleHasNoPc
  <2>3. gc.left = {}
    <3>1. ~UNCHANGED allVars
      BY <1>2, <2>1 DEF allVars, gcVars
    <3>2. ~Noticed
      BY <1>2, <2>1, <2>2 DEF Noticed, Collection
    <3>3. GCStep
      BY <1>2, <3>1, <3>2 DEF GCNext
    <3> QED
      BY <1>2, <2>1, <2>2, <3>3
      DEF GCStep, GCStart, GCCollect, GCCollectFails, GCSweep, GCEnd, GCKeep,
          GCDelete, GCDeleteFails, Collection
  <2> QED
    BY <1>2, <2>1, <2>3 DEF CleanInv
<1>3. /\ CollectionTypeOK /\ SweepInv /\ CleanInv /\ [GCNext]_allVars
      => [gc.pc = "sweep" /\ gc' = GCIdle /\ gc.clean =>
             \A p \in FilesOf(gc.location) :
                 dataFile[p] # Absent =>
                     \E b \in Bucket : References(b, p)]_allVars
  BY <1>2
<1> QED
  BY <1>1, <1>3, PTL DEF GCSpec, OrphansAreGone

-----------------------------------------------------------------------------
(***************************************************************************)
(* Requests and command implement DurableMap.  Only requests change rows,  *)
(* what is acknowledged and not touched since is on the server, a file is  *)
(* cut short by a failing upload only, and it goes in the steps that the   *)
(* dedup guard and the collected references stand for.  So each step is a  *)
(* step of the map, or none.                                               *)
(***************************************************************************)

\* The requests the map sees.
Writers == [b \in Bucket |-> [k \in Key |-> Writer(b, k)]]
Calls   == [c \in Client |-> Progress(c)]

\* What every step of the map has to do besides its own part.
MapKept == Map!NewDisputes /\ Map!NewMixtures /\ Map!Recoverable'

\* A key nobody has changed without an answer is on the server as it is here.
LEMMA SettledIsRecovered == TypeOK /\ AckedIsDurable => Map!Recoverable
<1> SUFFICES ASSUME TypeOK, AckedIsDurable, NEW b \in Bucket, NEW k \in Key,
                    b \notin crossed, Writer(b, k) = NoObject
             PROVE  remote[b][k] = records[b][k]
  BY DEF Map!Recoverable
<1>1. acked[b][k] \notin Client
  BY ConstantsAssumption DEF Writer
<1> QED
  BY <1>1 DEF AckedIsDurable

LEMMA MapInit == GCInit => Map!Init
<1> SUFFICES ASSUME GCInit PROVE Map!Init
  OBVIOUS
<1> USE DEF GCInit, Init
<1>1. \A b \in Bucket, k \in Key : Writer(b, k) = NoObject
  BY ConstantsAssumption DEF Writer, EmptyTable
<1>2. \A c \in Client : Progress(c) = [pc |-> "idle"]
  BY DEF Progress, Idle
<1>3. Clearing = {}
  BY DEF Clearing, DeleteChecks, Idle
<1> QED
  BY <1>1, <1>2, <1>3 DEF Map!Init, Map!Idle, EmptyTable, Absent

\* A file is disputed, and a bucket mixed, for the reason the map gives.
LEMMA HistoryMaps ==
    ASSUME TypeOK', [GCNext]_allVars
    PROVE  Map!NewDisputes /\ Map!NewMixtures
<1>1. ASSUME NEW x \in raced' \ raced
      PROVE  x \in Clearing' /\ Map!Waits(x)'
  <2>1. x \in Path /\ (Racing(x) \/ Swept(x))'
    BY <1>1 DEF GCNext, allVars, vars
  <2>2. PICK c \in Client : PutHolds(c, x)'
    BY <2>1 DEF Racing, Swept
  <2>3. x \in Clearing'
    BY <2>1 DEF Racing, Swept, Clearing
  <2>4. op'[c].pc = "put_record" /\ op'[c].path = x
    BY <2>2 DEF PutHolds
  <2>5. Progress(c)'.pc = "stored" /\ Progress(c)'.content = x
    BY <2>4 DEF Progress, Stage, RowOf, PutSteps
  <2> QED
    BY <2>3, <2>5 DEF Map!Waits
<1>2. ASSUME NEW b \in crossed' \ crossed
      PROVE  b \in Bucket /\ Map!Mixing(b)'
  <2>1. b \in Bucket /\ Crossing(b)'
    BY <1>2 DEF GCNext, allVars, vars
  <2>2. PICK c \in Client, d \in Client :
            c # d /\ HoldsSnapshot(c, b)' /\ HoldsSnapshot(d, b)'
    BY <2>1 DEF Crossing
  <2>3. ASSUME NEW e \in Client, HoldsSnapshot(e, b)'
        PROVE  Progress(e)'.pc = "changed" /\ Progress(e)'.bucket = b
    BY <2>3 DEF HoldsSnapshot, Progress, Stage
  <2> QED
    BY <2>1, <2>2, <2>3 DEF Map!Mixing
<1> QED
  BY <1>1, <1>2 DEF Map!NewDisputes, Map!NewMixtures

\* Where neither rows nor answers change, the map stays as it is.
LEMMA WritersStay == UNCHANGED acked => UNCHANGED Writers
  BY DEF Writers, Writer

LEMMA CallsStay == UNCHANGED op => UNCHANGED Calls
  BY DEF Calls, Progress, Stage, RowOf

\* A step of one request moves no other.
LEMMA OneCallMoves ==
    ASSUME TypeOK, NEW c \in Client, \A d \in Client \ {c} : op'[d] = op[d]
    PROVE  Calls' = [Calls EXCEPT ![c] = Progress(c)']
<1>1. \A d \in Client \ {c} : Progress(d)' = Progress(d)
  BY DEF Progress, RowOf
<1> QED
  BY <1>1 DEF Calls

LEMMA WrittenIsChanged ==
    ASSUME TypeOK, NEW c \in Client, NEW b \in Bucket, NEW k \in Key,
           acked' = [acked EXCEPT ![b] = [acked[b] EXCEPT ![k] = c]]
    PROVE  Writers' = [Writers EXCEPT ![b] = [Writers[b] EXCEPT ![k] = c]]
<1>1. acked \in [Bucket -> [Key -> Path \cup {NoObject} \cup Client]]
  BY DEF TypeOK
<1>2. ASSUME NEW d \in Bucket, NEW j \in Key
      PROVE  Writer(d, j)' = IF d = b /\ j = k THEN c ELSE Writer(d, j)
  BY <1>1 DEF Writer
<1> QED
  BY <1>2 DEF Writers

\* An answer settles the key if the request wrote it last.
LEMMA AnsweredIsSettled ==
    ASSUME TypeOK, NEW c \in Client, NEW b \in Bucket, NEW k \in Key,
           NEW row \in Path \cup {NoObject},
           acked' = IF acked[b][k] = c
                    THEN [acked EXCEPT ![b] = [acked[b] EXCEPT ![k] = row]]
                    ELSE acked
    PROVE  Writers' = IF Writers[b][k] = c
                      THEN [Writers EXCEPT ![b] = [Writers[b] EXCEPT ![k] = NoObject]]
                      ELSE Writers
<1>1. acked \in [Bucket -> [Key -> Path \cup {NoObject} \cup Client]]
  BY DEF TypeOK
<1>2. row \notin Client /\ c # NoObject
  BY ConstantsAssumption
<1>3. acked[b][k] = c <=> Writers[b][k] = c
  BY <1>1, <1>2 DEF Writers, Writer
<1>4. CASE acked[b][k] = c
  <2>1. ASSUME NEW d \in Bucket, NEW j \in Key
        PROVE  Writer(d, j)' = IF d = b /\ j = k THEN NoObject ELSE Writer(d, j)
    BY <1>1, <1>2, <1>4 DEF Writer
  <2>2. Writers' = [Writers EXCEPT ![b] = [Writers[b] EXCEPT ![k] = NoObject]]
    BY <2>1 DEF Writers
  <2> QED
    BY <1>3, <1>4, <2>2
<1>5. CASE acked[b][k] # c
  BY <1>3, <1>5, WritersStay
<1> QED
  BY <1>4, <1>5

-----------------------------------------------------------------------------

\* A file that a Delete or the command removes off the raced paths is in no row
\* and waits for none.
LEMMA FileGoesMaps ==
    ASSUME TypeOK, MapKept, NEW p \in Path, p \in Clearing,
           p \notin raced =>
               /\ ~\E b \in Bucket : References(b, p)
               /\ ~\E c \in Client : PutHolds(c, p),
           dataFile' = [dataFile EXCEPT ![p] = Absent],
           UNCHANGED <<records, Writers, Calls>>
    PROVE  Map!Next
<1>1. Map!InUse(p) => p \in raced
  <2> SUFFICES ASSUME p \notin raced PROVE ~Map!InUse(p)
    OBVIOUS
  <2>1. ASSUME NEW c \in Client, Progress(c).pc = "stored",
               Progress(c).content = p
        PROVE  PutHolds(c, p)
    BY <2>1 DEF Progress, Stage, RowOf, PutSteps, PutHolds
  <2> QED
    BY <2>1 DEF Map!InUse, Map!Waits, References
<1>2. Map!Clear(p)
  BY <1>1 DEF Map!Clear, Absent, Writers, Calls
<1> QED
  BY <1>2 DEF Map!Next, MapKept

MapUnchanged == UNCHANGED <<records, dataFile, Writers, Calls>>

LEMMA MapStays ==
    ASSUME MapKept, MapUnchanged
    PROVE  Map!Next
  BY DEF MapKept, MapUnchanged, Writers, Calls, Map!Next

LEMMA StartMaps ==
    ASSUME TypeOK, MapKept, NEW c \in Client, Admit(c)
    PROVE  Map!Next
<1>1. PICK b \in Bucket, k \in Key :
        (\E h \in Hash : PutStart(c, b, k, h)) \/ DeleteStart(c, b, k)
  BY DEF Admit
<1>2. /\ UNCHANGED <<records, dataFile>> /\ UNCHANGED Writers
      /\ op[c] = Idle /\ \A d \in Client \ {c} : op'[d] = op[d]
  BY <1>1, WritersStay DEF PutStart, DeleteStart, storeVars, TypeOK
<1>3. PICK x \in Path \cup {NoObject} :
        Progress(c)' = [pc |-> "running", bucket |-> b, key |-> k, content |-> x]
  <2>1. CASE \E h \in Hash : PutStart(c, b, k, h)
    <3>1. PICK h \in Hash : PutStart(c, b, k, h)
      BY <2>1
    <3>2. HashPath(b, h) \in Path
      BY ConstantsAssumption DEF HashPath, Path
    <3>3. Progress(c)' = [pc |-> "running", bucket |-> b, key |-> k,
                          content |-> HashPath(b, h)]
      BY <3>1 DEF PutStart, TypeOK, Progress, Stage, RowOf, PutSteps
    <3> QED
      BY <3>2, <3>3
  <2>2. CASE DeleteStart(c, b, k)
    <3>1. Progress(c)' = [pc |-> "running", bucket |-> b, key |-> k,
                          content |-> NoObject]
      BY <2>2 DEF DeleteStart, TypeOK, Progress, Stage, RowOf, PutSteps
    <3> QED
      BY <3>1
  <2> QED
    BY <1>1, <2>1, <2>2
<1>4. Calls[c] = Map!Idle
  BY <1>2 DEF Calls, Progress, Idle, Map!Idle
<1>5. Calls' = [Calls EXCEPT ![c] = [pc |-> "running", bucket |-> b, key |-> k,
                                     content |-> x]]
  BY <1>2, <1>3, OneCallMoves
<1>6. Map!Begin(c, b, k, x)
  BY <1>2, <1>4, <1>5 DEF Map!Begin, Writers, Calls
<1> QED
  BY <1>6 DEF Map!Next, MapKept

\* The steps of a Put or Delete on its way to its answer.
LEMMA RequestMaps ==
    ASSUME TypeOK, DedupInv, MapKept, NEW c \in Client,
           PutStep(c) \/ DeleteStep(c)
    PROVE  Map!Next
<1>0. PICK b, k : b = op[c].bucket /\ k = op[c].key
  OBVIOUS
<1>1. op[c] \in Request
  <2>1. op[c].pc # "idle"
    BY DEF PutStep, DeleteStep, At, PutUpload, PutUploadFails, PutRecord,
       PutRecordFails, PutSnapshot, TakeSnapshot, PutSync, PutSyncFails,
       DeleteRecord, DeleteRecordFails, DeleteSnapshot, DeleteSync,
       DeleteSyncFails, DeleteCount, DeleteFile, DeleteFileFails
  <2> QED
    BY <2>1, BusyIsRequest
<1>2. b \in Bucket /\ k \in Key /\ op[c].path \in Path
  BY <1>0, <1>1 DEF Request
<1>3. \A d \in Client \ {c} : op'[d] = op[d]
  BY DEF PutStep, DeleteStep, At, PutUpload, PutUploadFails, PutRecord,
     PutRecordFails, PutSnapshot, TakeSnapshot, PutSync, PutSyncFails,
     DeleteRecord, DeleteRecordFails, DeleteSnapshot, DeleteSync,
     DeleteSyncFails, DeleteCount, DeleteFile, DeleteFileFails, GoTo, Return,
     TypeOK
<1>4. Calls' = [Calls EXCEPT ![c] = Progress(c)']
  BY <1>3, OneCallMoves
<1>5. Calls[c] = Progress(c)
  BY DEF Calls
<1>6. CASE PutSnapshot(c) \/ DeleteSnapshot(c)
  <2>1. UNCHANGED <<records, dataFile>> /\ UNCHANGED Writers
    BY <1>6, WritersStay
    DEF PutSnapshot, DeleteSnapshot, TakeSnapshot, storeVars
  <2>2. /\ \/ op[c].pc = "put_snapshot" /\ op'[c].pc = "put_sync"
           \/ op[c].pc = "del_snapshot" /\ op'[c].pc = "del_sync"
        /\ op'[c].bucket = op[c].bucket /\ op'[c].key = op[c].key
        /\ op'[c].path = op[c].path
    <3>1. CASE PutSnapshot(c)
      BY <1>1, <3>1 DEF PutSnapshot, TakeSnapshot, At, TypeOK, Request
    <3>2. CASE DeleteSnapshot(c)
      BY <1>1, <3>2 DEF DeleteSnapshot, TakeSnapshot, At, TypeOK, Request
    <3> QED
      BY <1>6, <3>1, <3>2
  <2>3. Progress(c)' = Progress(c)
    BY <2>2 DEF Progress, Stage, RowOf, PutSteps
  <2>4. UNCHANGED Calls
    BY <1>4, <2>3 DEF Calls
  <2> QED
    BY <2>1, <2>4, MapStays DEF MapUnchanged
<1>7. CASE DeleteCount(c) \/ DeleteFile(c) \/ DeleteFileFails(c)
  <2>1. UNCHANGED records /\ UNCHANGED Writers
    BY <1>7, WritersStay
    DEF DeleteCount, DeleteFile, DeleteFileFails, storeVars
  <2>2. op[c].pc = "del_count"
    BY <1>7 DEF DeleteCount, DeleteFile, DeleteFileFails, At
  <2>3. op'[c].pc \in {"idle", "del_count"}
    <3>1. ASSUME Return(c) PROVE op'[c].pc = "idle"
      BY <3>1, IdlePc DEF Return, TypeOK
    <3>2. CASE DeleteCount(c)
      <4>1. \/ Return(c)
            \/ \E r \in Request : op' = [op EXCEPT ![c] = r] /\ r.pc = "del_count"
        BY <1>1, <3>2, CountGoesOn
      <4> QED
        BY <3>1, <4>1 DEF TypeOK
    <3> QED
      BY <1>7, <3>1, <3>2 DEF DeleteFile, DeleteFileFails
  <2>4. Progress(c)' = Progress(c)
    BY <2>2, <2>3 DEF Progress
  <2>5. UNCHANGED Calls
    BY <1>4, <2>4 DEF Calls
  <2>6. CASE DeleteCount(c) \/ DeleteFileFails(c)
    <3>1. UNCHANGED dataFile
      BY <2>6 DEF DeleteCount, DeleteFileFails, storeVars
    <3> QED
      BY <2>1, <2>5, <3>1, MapStays DEF MapUnchanged
  <2>7. CASE DeleteFile(c)
    <3>1. PICK p \in Path : p = op[c].path
      BY <1>2
    <3>2. DeleteChecks(c, p) /\ p \in Clearing
      BY <2>2, <3>1 DEF DeleteChecks, Clearing
    <3>3. dataFile' = [dataFile EXCEPT ![p] = Absent] /\ op[c].unchecked = {}
      BY <2>7, <3>1 DEF DeleteFile
    <3>4. ASSUME p \notin raced, NEW d \in Client, PutHolds(d, p)
          PROVE  FALSE
      BY <3>2, <3>4 DEF DedupInv, Racing
    <3>5. ASSUME p \notin raced, NEW d \in Bucket, References(d, p)
          PROVE  FALSE
      <4>1. p[1] = LocationOf[b]
        BY <1>0, <2>2, <3>1 DEF DedupInv, PathsStayHome
      <4>2. p[1] = LocationOf[d]
        BY <3>5, ConstantsAssumption DEF References, DedupInv, PathsStayHome
      <4>3. d \in Neighbours(op[c].bucket) \ op[c].unchecked
        BY <1>0, <3>3, <4>1, <4>2 DEF Neighbours
      <4> QED
        BY <3>2, <3>5, <4>3 DEF DedupInv
    <3> QED
      BY <2>1, <2>5, <3>2, <3>3, <3>4, <3>5, FileGoesMaps
  <2> QED
    BY <1>7, <2>6, <2>7
<1>8. CASE \/ PutUploadFails(c) \/ PutRecordFails(c) \/ PutSyncFails(c)
           \/ DeleteRecordFails(c) \/ DeleteSyncFails(c)
  <2>1. UNCHANGED records /\ UNCHANGED Writers
    BY <1>8, WritersStay
    DEF PutUploadFails, PutRecordFails, PutSyncFails, DeleteRecordFails,
        DeleteSyncFails, storeVars
  <2>2. /\ op[c].pc \notin {"idle", "del_count"}
        /\ op'[c] = Idle
    BY <1>8
    DEF PutUploadFails, PutRecordFails, PutSyncFails, DeleteRecordFails,
        DeleteSyncFails, At, Return, TypeOK
  <2>3. Progress(c) # Map!Idle /\ Progress(c)' = Map!Idle
    <3>1. Progress(c).pc \in {"running", "stored", "changed"}
      BY <2>2 DEF Progress, Stage
    <3>2. Map!Idle.pc = "idle"
      BY DEF Map!Idle
    <3> QED
      BY <2>2, <3>1, <3>2, IdlePc DEF Progress, Map!Idle
  <2>4. CASE UNCHANGED dataFile
    <3>1. Map!Fail(c)
      BY <1>4, <1>5, <2>1, <2>3, <2>4 DEF Map!Fail, Writers, Calls
    <3> QED
      BY <3>1 DEF Map!Next, MapKept
  <2>5. CASE PutUploadFails(c) /\ dataFile' # dataFile
    <3>1. PICK p \in Path : p = op[c].path
      BY <1>2
    <3>2. PICK left \in {Partial, Complete} : dataFile' = [dataFile EXCEPT ![p] = left]
      BY <2>5, <3>1 DEF PutUploadFails, TypeOK
    <3>3. Progress(c).pc = "running" /\ Progress(c).content = p
      BY <2>5, <3>1 DEF PutUploadFails, At, Progress, Stage, RowOf, PutSteps
    <3>4. p # NoObject
      BY ConstantsAssumption
    <3>5. Map!FailToStore(c)
      BY <1>4, <1>5, <2>1, <2>3, <3>2, <3>3, <3>4
      DEF Map!FailToStore, Writers, Calls, Partial, Complete
    <3> QED
      BY <3>5 DEF Map!Next, MapKept
  <2>6. UNCHANGED dataFile \/ PutUploadFails(c)
    BY <1>8
    DEF PutRecordFails, PutSyncFails, DeleteRecordFails, DeleteSyncFails, storeVars
  <2> QED
    BY <2>4, <2>5, <2>6
<1>9. CASE PutRecord(c) \/ DeleteRecord(c)
  <2>1. PICK row : row = RowOf(c)
    OBVIOUS
  <2>2. WriteRow(c, row)
    BY <1>9, <2>1 DEF PutRecord, DeleteRecord, RowOf, At, PutSteps
  <2>3. /\ Progress(c) = [pc |-> Progress(c).pc, bucket |-> b, key |-> k,
                          content |-> row]
        /\ \/ Progress(c).pc = "stored"
           \/ Progress(c).pc = "running" /\ row = NoObject
    BY <1>0, <1>9, <2>1
    DEF PutRecord, DeleteRecord, At, Progress, Stage, RowOf, PutSteps
  <2>4. Progress(c)' = [pc |-> "changed", bucket |-> b, key |-> k, content |-> row]
    <3>1. /\ op'[c].bucket = b /\ op'[c].key = k /\ op'[c].path = op[c].path
          /\ \/ op[c].pc = "put_record" /\ op'[c].pc = "put_snapshot"
             \/ op[c].pc = "del_record" /\ op'[c].pc = "del_snapshot"
      BY <1>0, <1>1, <1>9 DEF PutRecord, DeleteRecord, At, GoTo, TypeOK, Request
    <3>2. RowOf(c)' = row
      BY <2>1, <3>1 DEF RowOf, PutSteps
    <3> QED
      BY <3>1, <3>2 DEF Progress, Stage
  <2>5. UNCHANGED dataFile /\ records' = [records EXCEPT ![b] = [records[b] EXCEPT ![k] = row]]
    BY <1>0, <1>9, <2>2 DEF WriteRow, PutRecord, DeleteRecord
  <2>6. Writers' = [Writers EXCEPT ![b] = [Writers[b] EXCEPT ![k] = c]]
    BY <1>0, <1>2, <2>2, WrittenIsChanged DEF WriteRow
  <2>7. Calls' = [Calls EXCEPT ![c] = [Calls[c] EXCEPT !.pc = "changed"]]
    <3>1. [Calls[c] EXCEPT !.pc = "changed"] = Progress(c)'
      BY <1>5, <2>3, <2>4
    <3> QED
      BY <1>4, <3>1
  <2>8. Map!Change(c)
    <3>1. /\ \/ Calls[c].pc = "stored"
             \/ Calls[c].pc = "running" /\ Calls[c].content = NoObject
          /\ Calls[c].bucket = b
          /\ Calls[c].key = k /\ Calls[c].content = row
      BY <1>5, <2>3
    <3> QED
      BY <2>5, <2>6, <2>7, <3>1 DEF Map!Change, Writers, Calls
  <2> QED
    BY <2>8 DEF Map!Next, MapKept
<1>10. CASE PutSync(c) \/ DeleteSync(c)
  <2>1. PICK row \in Path \cup {NoObject} : Acknowledge(c, row)
    BY <1>2, <1>10 DEF PutSync, DeleteSync
  <2>2. UNCHANGED <<records, dataFile>>
    BY <1>10 DEF PutSync, DeleteSync
  <2>3. Writers' = IF Writers[b][k] = c
                   THEN [Writers EXCEPT ![b] = [Writers[b] EXCEPT ![k] = NoObject]]
                   ELSE Writers
    BY <1>0, <1>2, <2>1, AnsweredIsSettled DEF Acknowledge
  <2>4. /\ Calls[c].pc = "changed" /\ Calls[c].bucket = b /\ Calls[c].key = k
    BY <1>0, <1>5, <1>10 DEF PutSync, DeleteSync, At, Progress, Stage
  <2>5. Progress(c)' = Map!Idle
    <3>1. op'[c].pc \in {"idle", "del_count"}
      <4>1. CASE PutSync(c)
        BY <4>1, IdlePc DEF PutSync, Return, TypeOK
      <4>2. CASE DeleteSync(c)
        <5>1. PICK r : r = [op[c] EXCEPT !.pc = "del_count",
                                         !.unchecked = Neighbours(op[c].bucket)]
          OBVIOUS
        <5>2. op'[c] = r
          BY <4>2, <5>1 DEF DeleteSync, TypeOK
        <5>3. r.pc = "del_count"
          BY <1>1, <5>1 DEF Request
        <5> QED
          BY <5>2, <5>3
      <4> QED
        BY <1>10, <4>1, <4>2
    <3> QED
      BY <3>1 DEF Progress, Map!Idle
  <2>6. Calls' = [Calls EXCEPT ![c] = Map!Idle]
    BY <1>4, <2>5
  <2>7. Map!Succeed(c)
    BY <2>2, <2>3, <2>4, <2>6 DEF Map!Succeed, Writers, Calls
  <2> QED
    BY <2>7 DEF Map!Next, MapKept
<1>11. CASE PutUpload(c)
  <2>1. UNCHANGED records /\ UNCHANGED Writers
    BY <1>11, WritersStay DEF PutUpload
  <2>2. PICK p \in Path : p = op[c].path /\ p # NoObject
    BY <1>2, ConstantsAssumption
  <2>3. dataFile' = [dataFile EXCEPT ![p] = Complete]
    BY <1>11, <2>2 DEF PutUpload
  <2>4. Progress(c) = [pc |-> "running", bucket |-> b, key |-> k, content |-> p]
    BY <1>0, <1>11, <2>2 DEF PutUpload, At, Progress, Stage, RowOf, PutSteps
  <2>5. Progress(c)' = [pc |-> "stored", bucket |-> b, key |-> k, content |-> p]
    <3>1. /\ op'[c].bucket = b /\ op'[c].key = k /\ op'[c].path = p
          /\ op'[c].pc = "put_record"
      BY <1>0, <1>1, <1>11, <2>2 DEF PutUpload, GoTo, TypeOK, Request
    <3> QED
      BY <3>1 DEF Progress, Stage, RowOf, PutSteps
  <2>6. Calls' = [Calls EXCEPT ![c] = [Calls[c] EXCEPT !.pc = "stored"]]
    <3>1. [Calls[c] EXCEPT !.pc = "stored"] = Progress(c)'
      BY <1>5, <2>4, <2>5
    <3> QED
      BY <1>4, <3>1
  <2>7. Map!Store(c)
    <3>1. Calls[c].pc = "running" /\ Calls[c].content = p
      BY <1>5, <2>4
    <3> QED
      BY <2>1, <2>2, <2>3, <2>6, <3>1 DEF Map!Store, Writers, Calls, Complete
  <2> QED
    BY <2>7 DEF Map!Next, MapKept
<1> QED
  BY <1>6, <1>7, <1>8, <1>9, <1>10, <1>11 DEF PutStep, DeleteStep

\* The steps of the command: a file goes, or the map does not change.
LEMMA CommandMaps ==
    ASSUME TypeOK, CollectionTypeOK, DedupInv, SweepInv, MapKept, GCStep,
           Undisturbed
    PROVE  Map!Next
<1>1. UNCHANGED records /\ UNCHANGED Writers /\ UNCHANGED Calls
  BY WritersStay, CallsStay DEF Undisturbed
<1>2. CASE UNCHANGED dataFile
  BY <1>1, <1>2, MapStays DEF MapUnchanged
<1>3. ASSUME NEW p \in Path, GCDelete(p)
      PROVE  Map!Next
  <2>1. gc # GCIdle /\ gc.todo = {} /\ p \notin gc.seen /\ p[1] = gc.location
    BY <1>3, IdleHasNoPc DEF GCDelete, SweepInv, FilesOf
  <2>2. ASSUME p \notin raced, NEW c \in Client, PutHolds(c, p)
        PROVE  FALSE
    BY <2>1, <2>2 DEF SweepInv, Swept
  <2>3. ASSUME p \notin raced, NEW b \in Bucket, References(b, p)
        PROVE  FALSE
    <3>1. LocationOf[b] = gc.location
      BY <2>1, <2>3, ConstantsAssumption DEF References, DedupInv, PathsStayHome
    <3> QED
      BY <2>1, <2>3, <3>1 DEF SweepInv
  <2>4. p \in Clearing
    BY <2>1 DEF Clearing
  <2>5. dataFile' = [dataFile EXCEPT ![p] = Absent]
    BY <1>3 DEF GCDelete
  <2> QED
    BY <1>1, <2>2, <2>3, <2>4, <2>5, FileGoesMaps
<1> QED
  BY <1>2, <1>3 DEF GCStep, GCKeep, GCDeleteFails

LEMMA MapNext ==
    /\ TypeOK /\ TypeOK' /\ CollectionTypeOK /\ DedupInv /\ SweepInv
    /\ Map!Recoverable' /\ [GCNext]_allVars
    => [Map!Next]_(Map!vars)
<1> SUFFICES ASSUME TypeOK, TypeOK', CollectionTypeOK, DedupInv, SweepInv,
                    Map!Recoverable', [GCNext]_allVars
             PROVE  Map!Next
  OBVIOUS
<1>0. MapKept
  BY HistoryMaps DEF MapKept
<1>1. CASE UNCHANGED allVars
  <2>1. UNCHANGED <<records, dataFile, op, acked>>
    BY <1>1 DEF allVars, vars
  <2> QED
    BY <1>0, <2>1, WritersStay, CallsStay, MapStays DEF MapUnchanged
<1>2. CASE Restart
  <2>1. UNCHANGED <<records, dataFile>> /\ UNCHANGED Writers
    BY <1>2, WritersStay DEF Restart
  <2>2. Calls' = [c \in Client |-> Map!Idle]
    BY <1>2, IdlePc DEF Restart, Calls, Progress, Map!Idle
  <2>3. Map!Stop
    BY <2>1, <2>2 DEF Map!Stop, Writers, Calls
  <2> QED
    BY <1>0, <2>3 DEF Map!Next, MapKept
<1>3. ASSUME NEW c \in Client, Admit(c) \/ PutStep(c) \/ DeleteStep(c)
      PROVE  Map!Next
  BY <1>0, <1>3, StartMaps, RequestMaps
<1>4. CASE GCStep /\ Undisturbed
  BY <1>0, <1>4, CommandMaps
<1> QED
  BY <1>1, <1>2, <1>3, <1>4 DEF GCNext, Step, Undisturbed

\* The requests and the gc command, run beside each other in any way, implement
\* DurableMap: every request changes its key in one step, what was answered is
\* found by a daemon that has nothing but the server, off the buckets where two
\* snapshots were on their way together, and a data file in use is cut short by
\* a failing upload of the same content only, and goes only if it was raced.
THEOREM StoreIsDurableMap == GCSpec => ImplementsMap
<1>1. GCSpec => [](TypeOK /\ CollectionTypeOK /\ DedupInv /\ SweepInv)
  BY CollectionTypes, SweepInit, SweepNext, DedupGCNext, PTL DEF GCSpec
<1>2. GCSpec => []Map!Recoverable
  BY CollectionTypes, CollectionDurable, SettledIsRecovered, PTL
<1> QED
  BY <1>1, <1>2, MapInit, MapNext, PTL DEF GCSpec, ImplementsMap, Map!Spec

=============================================================================
