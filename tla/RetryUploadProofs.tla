------------------------- MODULE RetryUploadProofs --------------------------
(***************************************************************************)
(* Proofs about RetryUpload: types, whole data files, and the refinement   *)
(* of the atomic replacement by the uploads of databases.                  *)
(***************************************************************************)
EXTENDS RetryUpload, TLAPS

\* What a temporary name can hold, and when it is complete.
TempInv ==
    \A u \in Call :
        /\ temp[u] \in {Absent, Partial, ContentOf[u]}
        /\ pc[u] = "rename" => temp[u] = ContentOf[u]
        /\ pc[u] \in {"rename", "renamed", "cleanup"} => IsAtomic(u)

\* A data file holds something that one of its uploads has sent.
Sources(p) == {ContentOf[u] : u \in {v \in Call : NameOf[v] = p}}

DataInv == \A p \in Name \ Atomic : final[p] \in Sources(p) \cup {Absent, Partial}

UploadInv == TypeOK /\ TempInv /\ DataInv

LEMMA InitInv == Init => UploadInv
  BY UploadAssumption
  DEF Init, UploadInv, TypeOK, TempInv, DataInv, Sources, File, Running

\* An attempt that follows a failure keeps the types of what it changes.
LEMMA RetryType ==
  ASSUME TypeOK, NEW u \in Call, Retry(u)
  PROVE  /\ attempt' \in [Call -> 0..Retries]
         /\ \E step \in {"send", "cleanup", "failed"} :
               /\ pc' = [pc EXCEPT ![u] = step]
               /\ step = "cleanup" => IsAtomic(u)
  BY UploadAssumption DEF TypeOK, Retry, GiveUp, GoTo

\* So does a file that is stored where the call sends it.
LEMMA StoreType ==
  ASSUME UploadInv, NEW u \in Call,
         NEW f \in {Sent(u), ContentOf[u], Partial}, Store(u, f)
  PROVE  /\ final' \in [Name -> File]
         /\ temp' \in [Call -> File]
         /\ \A v \in Call : temp'[v] \in {Absent, Partial, ContentOf[v]}
         /\ \A v \in Call : v # u => temp'[v] = temp[v]
         /\ DataInv'
  <1> USE UploadAssumption
  <1>1. CASE IsAtomic(u)
    BY <1>1
    DEF UploadInv, TypeOK, TempInv, DataInv, Sources, Store, Sent, File
  <1>2. CASE ~IsAtomic(u)
    <2>1. /\ final' = [final EXCEPT ![NameOf[u]] = f]
          /\ temp' = temp
          /\ f \in {final[NameOf[u]], ContentOf[u], Partial}
          /\ NameOf[u] \in Name \ Atomic
      BY <1>2 DEF Store, Sent, IsAtomic
    <2>2. f \in Sources(NameOf[u]) \cup {Absent, Partial}
      BY <2>1 DEF UploadInv, DataInv, Sources
    <2>3. DataInv'
      BY <2>1, <2>2 DEF UploadInv, TypeOK, DataInv, Sources
    <2>4. QED
      BY <2>1, <2>3 DEF UploadInv, TypeOK, TempInv, File
  <1>3. QED
    BY <1>1, <1>2

LEMMA NextInv == UploadInv /\ [Next]_vars => UploadInv'
  <1> SUFFICES ASSUME UploadInv, [Next]_vars PROVE UploadInv'
    OBVIOUS
  <1> USE UploadAssumption
  <1>1. CASE Crash
    BY <1>1
    DEF Crash, UploadInv, TypeOK, TempInv, DataInv, Sources, Running, IsAtomic
  <1>2. ASSUME NEW u \in Call, Start(u) \/ CallStep(u)
        PROVE  UploadInv'
    <2>1. CASE Start(u)
      BY <2>1
      DEF Start, GiveUp, GoTo, UploadInv, TypeOK, TempInv, DataInv, Sources,
          Running, IsAtomic
    <2>2. CASE Send(u)
      <3>1. PICK f \in {ContentOf[u], Partial} : Store(u, f)
        BY <2>2 DEF Send
      <3>2. /\ final' \in [Name -> File]
            /\ temp' \in [Call -> File]
            /\ \A v \in Call : temp'[v] \in {Absent, Partial, ContentOf[v]}
            /\ \A v \in Call : v # u => temp'[v] = temp[v]
            /\ DataInv'
        BY <3>1, StoreType
      <3>3. QED
        BY <2>2, <3>2
        DEF Send, GoTo, UploadInv, TypeOK, TempInv, Running, IsAtomic
    <2>3. CASE SendFails(u)
      <3>1. PICK f \in {Sent(u), ContentOf[u], Partial} : Store(u, f)
        BY <2>3 DEF SendFails
      <3>2. /\ final' \in [Name -> File]
            /\ temp' \in [Call -> File]
            /\ \A v \in Call : temp'[v] \in {Absent, Partial, ContentOf[v]}
            /\ \A v \in Call : v # u => temp'[v] = temp[v]
            /\ DataInv'
        BY <3>1, StoreType
      <3>3. /\ attempt' \in [Call -> 0..Retries]
            /\ \E step \in {"send", "cleanup", "failed"} :
                  /\ pc' = [pc EXCEPT ![u] = step]
                  /\ step = "cleanup" => IsAtomic(u)
        BY <2>3, RetryType DEF SendFails, UploadInv
      <3>4. QED
        BY <3>2, <3>3 DEF UploadInv, TypeOK, TempInv, Running, IsAtomic
    <2>4. CASE Verify(u)
      <3>1. IsAtomic(u) => temp[u] = ContentOf[u]
        BY <2>4 DEF Verify, Sent, UploadInv, TempInv
      <3>2. QED
        BY <2>4, <3>1
        DEF Verify, GoTo, UploadInv, TypeOK, TempInv, DataInv, Sources,
            Running, IsAtomic
    <2>5. CASE VerifyFails(u)
      <3>1. /\ attempt' \in [Call -> 0..Retries]
            /\ \E step \in {"send", "cleanup", "failed"} :
                  /\ pc' = [pc EXCEPT ![u] = step]
                  /\ step = "cleanup" => IsAtomic(u)
        BY <2>5, RetryType DEF VerifyFails, UploadInv
      <3>2. QED
        BY <2>5, <3>1
        DEF VerifyFails, UploadInv, TypeOK, TempInv, DataInv, Sources,
            Running, IsAtomic
    <2>6. CASE Rename(u)
      BY <2>6
      DEF Rename, GoTo, UploadInv, TypeOK, TempInv, DataInv, Sources, File,
          Running, IsAtomic
    <2>7. CASE RenameFails(u)
      BY <2>7
      DEF RenameFails, GoTo, UploadInv, TypeOK, TempInv, DataInv, Sources,
          Running, IsAtomic
    <2>8. CASE RenameAnswer(u)
      BY <2>8
      DEF RenameAnswer, GoTo, UploadInv, TypeOK, TempInv, DataInv, Sources,
          Running, IsAtomic
    <2>9. CASE Cleanup(u)
      BY <2>9
      DEF Cleanup, GoTo, UploadInv, TypeOK, TempInv, DataInv, Sources, File,
          Running, IsAtomic
    <2>10. QED
      BY <1>2, <2>1, <2>2, <2>3, <2>4, <2>5, <2>6, <2>7, <2>8, <2>9
      DEF CallStep
  <1>3. CASE UNCHANGED vars
    BY <1>3
    DEF vars, UploadInv, TypeOK, TempInv, DataInv, Sources, IsAtomic
  <1>4. QED
    BY <1>1, <1>2, <1>3 DEF Next

LEMMA UploadCorrect == Spec => []UploadInv
  BY InitInv, NextInv, PTL DEF Spec

\* The type invariant, for any number of calls, names and attempts
\* (retry.go:62).
THEOREM UploadTypes == Spec => []TypeOK
  BY UploadCorrect, PTL DEF UploadInv

-----------------------------------------------------------------------------
(***************************************************************************)
(* Whole data files                                                        *)
(***************************************************************************)

LEMMA WholeNext ==
  UploadInv /\ AnsweredIsWhole /\ [Next]_vars => AnsweredIsWhole'
  <1> SUFFICES ASSUME UploadInv, AnsweredIsWhole, [Next]_vars,
                      NEW u \in Call,
                      pc'[u] = "ok", ~IsAtomic(u),
                      \A v \in Call \ {u} :
                         NameOf[v] = NameOf[u] =>
                            ContentOf[v] = ContentOf[u] /\ ~Disturbs(v)'
               PROVE  final'[NameOf[u]] = ContentOf[u]
    BY DEF AnsweredIsWhole, IsAtomic, Disturbs
  <1> USE UploadAssumption DEF UploadInv, TypeOK
  <1> DEFINE Mine == {v \in Call : NameOf[v] = NameOf[u]}
  <1>1. /\ final[NameOf[u]] \in {ContentOf[u], Absent, Partial}
        /\ \A v \in Mine : ~IsAtomic(v) /\ ContentOf[v] = ContentOf[u]
    BY DEF DataInv, Sources, IsAtomic
  <1>2. CASE Crash
    <2>1. pc[u] = "ok" /\ \A v \in Mine \ {u} : ~Disturbs(v)
      BY <1>2, <1>1 DEF Crash, Running, Disturbs, IsAtomic
    <2>2. QED
      BY <2>1, <1>2 DEF Crash, AnsweredIsWhole, IsAtomic
  <1>3. ASSUME NEW v \in Call, Start(v) \/ CallStep(v)
        PROVE  final'[NameOf[u]] = ContentOf[u]
    <2>1. \A w \in Call \ {v} : pc'[w] = pc[w]
      BY <1>3
      DEF Start, CallStep, Send, SendFails, Verify, VerifyFails, Rename,
          RenameFails, RenameAnswer, Cleanup, Retry, GiveUp, GoTo
    <2>2. CASE v \notin Mine
      <3>1. final'[NameOf[u]] = final[NameOf[u]]
        BY <1>3, <2>2
        DEF Start, CallStep, Send, SendFails, Verify, VerifyFails, Rename,
            RenameFails, RenameAnswer, Cleanup, Store, IsAtomic
      <3>2. QED
        BY <3>1, <2>1, <2>2 DEF AnsweredIsWhole, Disturbs, IsAtomic
    <2>3. CASE v \in Mine
      <3>1. ~IsAtomic(v) /\ ContentOf[v] = ContentOf[u]
        BY <2>3, <1>1
      <3>2. pc'[v] \in {"ok", "idle", "rename", "renamed", "cleanup"}
        BY <2>3, <1>3, <3>1
        DEF Disturbs, Start, CallStep, Send, SendFails, Verify, VerifyFails,
            Rename, RenameFails, RenameAnswer, Cleanup, Retry, GiveUp, GoTo,
            Running
      <3>3. Verify(v) \/ pc[v] \in {"rename", "renamed", "cleanup"}
        BY <1>3, <3>1, <3>2
        DEF Start, CallStep, Send, SendFails, VerifyFails, Rename,
            RenameFails, RenameAnswer, Cleanup, Retry, GiveUp, GoTo, Running
      <3>4. Verify(v)
        BY <3>3, <3>1 DEF TempInv
      <3>5. final[NameOf[u]] \in Content
        BY <3>4, <3>1, <2>3 DEF Verify, Sent
      <3>6. QED
        BY <3>4, <3>5, <1>1 DEF Verify
    <2>4. QED
      BY <2>2, <2>3
  <1>4. CASE UNCHANGED vars
    BY <1>4 DEF vars, AnsweredIsWhole, Disturbs, IsAtomic
  <1>5. QED
    BY <1>2, <1>3, <1>4 DEF Next

\* A data file whose upload was answered with success is whole, unless an
\* upload of the same name disturbs it (retry.go:92).
THEOREM SuccessIsWhole == Spec => []AnsweredIsWhole
  <1>1. Init => AnsweredIsWhole
    BY DEF Init, AnsweredIsWhole
  <1>2. QED
    BY <1>1, WholeNext, UploadCorrect, PTL DEF Spec

-----------------------------------------------------------------------------
(***************************************************************************)
(* The refinement                                                          *)
(***************************************************************************)

LEMMA InitRefines == Init => Replacement!Init
  BY UploadAssumption
  DEF Init, Replacement!Init, AtomicCall, IsAtomic, Progress

\* A step that leaves the databases alone moves one call at most.
LEMMA ProgressStep ==
  ASSUME NEW u \in Call, \A v \in Call \ {u} : pc'[v] = pc[v]
  PROVE  \A v \in AtomicCall \ {u} : Progress(v)' = Progress(v)
  BY DEF AtomicCall, Progress

LEMMA NextRefines ==
  UploadInv /\ [Next]_vars => [Replacement!Next]_(Replacement!vars)
  <1> SUFFICES ASSUME UploadInv, [Next]_vars
               PROVE  [Replacement!Next]_(Replacement!vars)
    OBVIOUS
  <1> USE UploadAssumption DEF UploadInv, TypeOK
  <1> DEFINE F == [p \in Atomic |-> final[p]]
             C == [v \in AtomicCall |-> Progress(v)]
  <1>1. CASE Crash
    <2>1. \A v \in AtomicCall :
             Progress(v)' = IF C[v] \in {"running", "replaced"}
                            THEN "failed" ELSE C[v]
      BY <1>1 DEF Crash, Progress, Running, AtomicCall
    <2>2. F' = F
      BY <1>1 DEF Crash
    <2>3. C' = [v \in AtomicCall |-> IF C[v] \in {"running", "replaced"}
                                    THEN "failed" ELSE C[v]]
      BY <2>1
    <2>4. Replacement!Stop
      BY <2>2, <2>3 DEF Replacement!Stop
    <2>5. QED
      BY <2>4 DEF Replacement!Next
  <1>2. ASSUME NEW u \in Call, Start(u) \/ CallStep(u)
        PROVE  [Replacement!Next]_(Replacement!vars)
    <2>1. \A v \in Call \ {u} : pc'[v] = pc[v]
      BY <1>2
      DEF Start, CallStep, Send, SendFails, Verify, VerifyFails, Rename,
          RenameFails, RenameAnswer, Cleanup, Retry, GiveUp, GoTo
    <2>2. \A v \in AtomicCall \ {u} : Progress(v)' = Progress(v)
      BY <2>1, ProgressStep
    <2>3. CASE u \notin AtomicCall
      <3>1. F' = F
        BY <1>2, <2>3
        DEF AtomicCall, Start, CallStep, Send, SendFails, Verify, VerifyFails,
            Rename, RenameFails, RenameAnswer, Cleanup, Store, IsAtomic,
            TempInv
      <3>2. C' = C
        BY <2>2, <2>3
      <3>3. QED
        BY <3>1, <3>2 DEF Replacement!vars
    <2>4. CASE u \in AtomicCall
      <3>1. IsAtomic(u) /\ C[u] = Progress(u)
        BY <2>4 DEF AtomicCall
      <3>2. C' = [C EXCEPT ![u] = Progress(u)']
        BY <2>2, <2>4
      <3>3. CASE Rename(u)
        <4>1. F' = [F EXCEPT ![NameOf[u]] = ContentOf[u]]
          BY <3>3, <3>1 DEF Rename, TempInv, IsAtomic
        <4>2. C[u] = "running" /\ Progress(u)' = "replaced"
          BY <3>3, <3>1 DEF Rename, GoTo, Progress
        <4>3. Replacement!Replace(u)
          BY <4>1, <4>2, <3>2 DEF Replacement!Replace
        <4>4. QED
          BY <4>3, <2>4 DEF Replacement!Next
      <3>4. CASE ~Rename(u)
        <4>1. F' = F
          BY <1>2, <3>1, <3>4
          DEF Start, CallStep, Send, SendFails, Verify, VerifyFails,
              RenameFails, RenameAnswer, Cleanup, Store
        <4>2. \/ Progress(u)' = Progress(u)
              \/ Progress(u) = "idle" /\ Progress(u)' = "running"
              \/ Progress(u) = "replaced" /\ Progress(u)' = "ok"
              \/ /\ Progress(u) \in {"idle", "running", "replaced"}
                 /\ Progress(u)' = "failed"
          BY <1>2, <3>1, <3>4
          DEF Start, CallStep, Send, SendFails, Verify, VerifyFails,
              RenameFails, RenameAnswer, Cleanup, Retry, GiveUp, GoTo,
              Progress
        <4>3. \/ UNCHANGED Replacement!vars
              \/ Replacement!Begin(u)
              \/ Replacement!Succeed(u)
              \/ Replacement!Fail(u)
          BY <4>1, <4>2, <3>1, <3>2
          DEF Replacement!vars, Replacement!Begin, Replacement!Succeed,
              Replacement!Fail
        <4>4. QED
          BY <4>3, <2>4 DEF Replacement!Next
      <3>5. QED
        BY <3>3, <3>4
    <2>5. QED
      BY <2>3, <2>4
  <1>3. CASE UNCHANGED vars
    BY <1>3 DEF vars, Replacement!vars, Progress, AtomicCall
  <1>4. QED
    BY <1>1, <1>2, <1>3 DEF Next

\* The uploads of databases implement an atomic replacement of the remote
\* file (retry.go:45), for any number of calls, names and attempts.
THEOREM UploadIsAtomic == Spec => ImplementsReplacement
  BY InitRefines, NextRefines, UploadCorrect, PTL
  DEF Spec, ImplementsReplacement, Replacement!Spec

=============================================================================
