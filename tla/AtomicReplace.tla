--------------------------- MODULE AtomicReplace ----------------------------
(***************************************************************************)
(* What the callers of an upload of a metadata database rely on: the file  *)
(* on the server changes from one whole content to another in one step,    *)
(* which every successful call has taken and a failed one may have taken.  *)
(***************************************************************************)
CONSTANTS
    Call,         \* calls of the upload
    Name,         \* names of the files
    Content,
    NameOf,       \* NameOf[u]: the file call u replaces
    ContentOf,    \* ContentOf[u]: what it replaces it by
    Absent        \* no file

VARIABLES
    file,         \* file[p]: what a reader of p gets
    call          \* call[u]: how far u has come

vars == <<file, call>>

Init ==
    /\ file \in [Name -> Content \cup {Absent}]
    /\ call = [u \in Call |-> "idle"]

Begin(u) ==
    /\ call[u] = "idle"
    /\ call' = [call EXCEPT ![u] = "running"]
    /\ UNCHANGED file

Replace(u) ==
    /\ call[u] = "running"
    /\ file' = [file EXCEPT ![NameOf[u]] = ContentOf[u]]
    /\ call' = [call EXCEPT ![u] = "replaced"]

Succeed(u) ==
    /\ call[u] = "replaced"
    /\ call' = [call EXCEPT ![u] = "ok"]
    /\ UNCHANGED file

\* A call may fail before it has begun, and after it has replaced the file.
Fail(u) ==
    /\ call[u] \in {"idle", "running", "replaced"}
    /\ call' = [call EXCEPT ![u] = "failed"]
    /\ UNCHANGED file

\* The daemon stops: the calls under way come to nothing.
Stop ==
    /\ call' = [u \in Call |-> IF call[u] \in {"running", "replaced"}
                               THEN "failed" ELSE call[u]]
    /\ UNCHANGED file

Next == Stop \/ \E u \in Call : Begin(u) \/ Replace(u) \/ Succeed(u) \/ Fail(u)

Spec == Init /\ [][Next]_vars

=============================================================================
