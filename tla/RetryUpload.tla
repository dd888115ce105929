---------------------------- MODULE RetryUpload -----------------------------
(***************************************************************************)
(* RetryClient.UploadFromFile, internal/webdav/retry.go: an upload is sent *)
(* again until the server reports the size of the local file.  A metadata  *)
(* database is sent to a temporary name first and renamed once verified;   *)
(* every other file is sent to its name at once.                           *)
(*                                                                         *)
(* A step is one request to the server, with what the server did and what  *)
(* the client heard of it: the two may differ.                             *)
(***************************************************************************)
EXTENDS Integers

CONSTANTS
    Call,         \* calls of UploadFromFile
    Name,         \* remote names
    Atomic,       \* those of metadata databases, {base}_meta/*.db
    Content,
    NameOf,       \* NameOf[u]: where call u uploads to
    ContentOf,    \* ContentOf[u]: what it uploads
    SizeOf,       \* SizeOf[c]: the size of content c
    Absent,       \* no file
    Partial,      \* a file that is not as long as what was sent
    Retries       \* number of attempts; main.go makes it 3

File == Content \cup {Absent, Partial}

ASSUME UploadAssumption ==
    /\ Atomic \subseteq Name
    /\ NameOf \in [Call -> Name]
    /\ ContentOf \in [Call -> Content]
    /\ SizeOf \in [Content -> Nat]
    /\ Absent \notin Content /\ Partial \notin Content /\ Absent # Partial
    /\ Retries \in Nat \ {0}

VARIABLES
    final,        \* final[p]: the file under the name p
    temp,         \* temp[u]: the file under the temporary name of call u
    pc,           \* pc[u]: what call u does next, or how it ended
    attempt       \* attempt[u]: attempts it has made

vars == <<final, temp, pc, attempt>>

Running == {"send", "verify", "rename", "renamed", "cleanup"}

TypeOK ==
    /\ final \in [Name -> File]
    /\ temp \in [Call -> File]
    /\ pc \in [Call -> Running \cup {"idle", "ok", "failed"}]
    /\ attempt \in [Call -> 0..Retries]

\* Names other than those of databases belong to their content.
Init ==
    /\ final \in [Name -> Content \cup {Absent}]
    /\ \A p \in Name \ Atomic :
          final[p] \in {ContentOf[u] : u \in {v \in Call : NameOf[v] = p}}
                           \cup {Absent}
    /\ temp = [u \in Call |-> Absent]
    /\ pc = [u \in Call |-> "idle"]
    /\ attempt = [u \in Call |-> 0]

-----------------------------------------------------------------------------

IsAtomic(u) == NameOf[u] \in Atomic

GoTo(u, step) == pc' = [pc EXCEPT ![u] = step]

\* What the server holds where the call sends its file to.
Sent(u) == IF IsAtomic(u) THEN temp[u] ELSE final[NameOf[u]]

\* Wrong variant: a database is sent to its final name like any other file.
StoreDirectly(u, f) ==
    /\ final' = [final EXCEPT ![NameOf[u]] = f]
    /\ temp' = [temp EXCEPT ![u] = f]

Store(u, f) ==
    IF IsAtomic(u)
    THEN temp' = [temp EXCEPT ![u] = f] /\ UNCHANGED final
    ELSE final' = [final EXCEPT ![NameOf[u]] = f] /\ UNCHANGED temp

\* An error returned by the upload: the temporary file is deleted first.
GiveUp(u) == GoTo(u, IF IsAtomic(u) THEN "cleanup" ELSE "failed")

\* Wrong variant: one attempt too many.
RetryOnceMore(u) ==
    \/ /\ attempt[u] <= Retries
       /\ attempt' = [attempt EXCEPT ![u] = attempt[u] + 1]
       /\ GoTo(u, "send")
    \/ GiveUp(u) /\ UNCHANGED attempt

\* The next attempt, unless it was the last one or the request was cancelled.
Retry(u) ==
    \/ /\ attempt[u] < Retries
       /\ attempt' = [attempt EXCEPT ![u] = attempt[u] + 1]
       /\ GoTo(u, "send")
    \/ GiveUp(u) /\ UNCHANGED attempt

-----------------------------------------------------------------------------

\* The size of the local file is read; it may be gone.
Start(u) ==
    /\ pc[u] = "idle"
    /\ \/ attempt' = [attempt EXCEPT ![u] = 1] /\ GoTo(u, "send")
       \/ GiveUp(u) /\ UNCHANGED attempt
    /\ UNCHANGED <<final, temp>>

\* The server accepts the file, though it may have lost part of it.
Send(u) ==
    /\ pc[u] = "send"
    /\ \E f \in {ContentOf[u], Partial} : Store(u, f)
    /\ GoTo(u, "verify")
    /\ UNCHANGED attempt

\* The client hears an error: nothing arrived, or a part, or all of it.
SendFails(u) ==
    /\ pc[u] = "send"
    /\ \E f \in {Sent(u), ContentOf[u], Partial} : Store(u, f)
    /\ Retry(u)

\* Wrong variant: the size is not compared.
VerifyExists(u) ==
    /\ pc[u] = "verify"
    /\ GoTo(u, IF IsAtomic(u) THEN "rename" ELSE "ok")
    /\ UNCHANGED <<final, temp, attempt>>

\* The server reports the expected size.
Verify(u) ==
    /\ pc[u] = "verify"
    /\ Sent(u) \in Content
    /\ SizeOf[Sent(u)] = SizeOf[ContentOf[u]]
    /\ GoTo(u, IF IsAtomic(u) THEN "rename" ELSE "ok")
    /\ UNCHANGED <<final, temp, attempt>>

\* It reports another size, or cannot be asked.
VerifyFails(u) ==
    /\ pc[u] = "verify"
    /\ Retry(u)
    /\ UNCHANGED <<final, temp>>

Rename(u) ==
    /\ pc[u] = "rename"
    /\ final' = [final EXCEPT ![NameOf[u]] = temp[u]]
    /\ temp' = [temp EXCEPT ![u] = Absent]
    /\ GoTo(u, "renamed")
    /\ UNCHANGED attempt

RenameFails(u) ==
    /\ pc[u] = "rename"
    /\ GoTo(u, "cleanup")
    /\ UNCHANGED <<final, temp, attempt>>

\* The client hears that the file was renamed, or an error all the same.
RenameAnswer(u) ==
    /\ pc[u] = "renamed"
    /\ GoTo(u, "ok") \/ GoTo(u, "cleanup")
    /\ UNCHANGED <<final, temp, attempt>>

\* The deletion of the temporary file may fail; nobody looks for it again.
Cleanup(u) ==
    /\ pc[u] = "cleanup"
    /\ \E f \in {Absent, temp[u]} : temp' = [temp EXCEPT ![u] = f]
    /\ GoTo(u, "failed")
    /\ UNCHANGED <<final, attempt>>

\* The daemon stops in the middle; what is on the server stays.
Crash ==
    /\ pc' = [u \in Call |-> IF pc[u] \in Running THEN "failed" ELSE pc[u]]
    /\ UNCHANGED <<final, temp, attempt>>

CallStep(u) ==
    \/ Send(u) \/ SendFails(u)
    \/ Verify(u) \/ VerifyFails(u)
    \/ Rename(u) \/ RenameFails(u) \/ RenameAnswer(u)
    \/ Cleanup(u)

Next == Crash \/ \E u \in Call : Start(u) \/ CallStep(u)

Spec == Init /\ [][Next]_vars

-----------------------------------------------------------------------------
(***************************************************************************)
(* Properties                                                              *)
(***************************************************************************)

\* "temp-upload plus verify plus WebDAV rename instead of direct overwrite of
\* the final .db path" (TODO.md:28): the uploads of databases implement an
\* atomic replacement.  A reader never sees half a database, a call that
\* succeeds has put its own content there, and one that fails may have.
AtomicCall == {u \in Call : IsAtomic(u)}

Progress(u) ==
    CASE pc[u] \in {"send", "verify", "rename"} -> "running"
      [] pc[u] = "renamed" -> "replaced"
      [] pc[u] = "cleanup" -> "failed"
      [] OTHER -> pc[u]

Replacement == INSTANCE AtomicReplace WITH
    Call <- AtomicCall,
    Name <- Atomic,
    file <- [p \in Atomic |-> final[p]],
    call <- [u \in AtomicCall |-> Progress(u)]

ImplementsReplacement == Replacement!Spec

\* Another upload of the same name that may have left half a file behind.
Disturbs(v) == pc[v] \in {"send", "verify", "failed"}

\* A data file whose upload succeeded is whole, unless another upload of the
\* same content is under way or has failed: that one may have cut it short.
AnsweredIsWhole ==
    \A u \in Call :
        LET Others == {v \in Call \ {u} : NameOf[v] = NameOf[u]}
        IN  /\ pc[u] = "ok"
            /\ ~IsAtomic(u)
            /\ \A v \in Others : ContentOf[v] = ContentOf[u] /\ ~Disturbs(v)
            => final[NameOf[u]] = ContentOf[u]

=============================================================================
