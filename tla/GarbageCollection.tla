------------------------- MODULE GarbageCollection --------------------------
(***************************************************************************)
(* The gc command on the data files of one location (GarbageCollect of     *)
(* internal/object/gc.go), a process of its own next to the requests of    *)
(* ObjectStore: nothing but a comment keeps the two apart.  It collects    *)
(* the references of every bucket, one bucket after the other, and then    *)
(* deletes every data file it has not seen a reference to.                 *)
(***************************************************************************)
EXTENDS ObjectStore

CONSTANT MaxSweeps    \* bound: times the command is run

ASSUME SweepAssumption == MaxSweeps \in Nat

VARIABLES
    gc,           \* what the command does
    sweeps        \* times it was run (model bound)

gcVars == <<gc, sweeps>>
allVars == <<vars, gcVars>>

GCIdle == [pc |-> "idle"]

\* clean is history: no request ran meanwhile and no deletion failed.
Collection ==
    [pc       : {"collect", "sweep"},
     location : Location,
     todo     : SUBSET Bucket,
     seen     : SUBSET Path,
     left     : SUBSET Path,
     clean    : BOOLEAN]

CollectionTypeOK ==
    /\ gc \in Collection \cup {GCIdle}
    /\ sweeps \in 0..MaxSweeps

GCInit == Init /\ gc = GCIdle /\ sweeps = 0

-----------------------------------------------------------------------------

NoRequest == \A c \in Client : op[c] = Idle

FilesOf(l) == {p \in Path : p[1] = l}

\* Wrong variant: an object of several parts, whose row names no file, counts.
ReferredOrEmpty(b) == {records[b][k] : k \in Key}

\* The files the database of b refers to.
Referred(b) == {records[b][k] : k \in Key} \ {NoObject}

GCStart(l) ==
    /\ gc = GCIdle
    /\ sweeps < MaxSweeps
    /\ sweeps' = sweeps + 1
    /\ gc' = [pc |-> "collect", location |-> l,
              todo |-> {b \in Bucket : LocationOf[b] = l},
              seen |-> {}, left |-> FilesOf(l), clean |-> NoRequest]

\* Wrong variant: each bucket starts a collection of its own.
GCCollectAnew(b) ==
    /\ gc.pc = "collect"
    /\ b \in gc.todo
    /\ gc' = [gc EXCEPT !.todo = gc.todo \ {b}, !.seen = Referred(b)]
    /\ UNCHANGED sweeps

\* The rows of one bucket are read.
GCCollect(b) ==
    /\ gc.pc = "collect"
    /\ b \in gc.todo
    /\ gc' = [gc EXCEPT !.todo = gc.todo \ {b},
                        !.seen = gc.seen \cup Referred(b)]
    /\ UNCHANGED sweeps

\* A database cannot be read: nothing is deleted.
GCCollectFails ==
    /\ gc.pc = "collect"
    /\ gc.todo # {}
    /\ gc' = GCIdle
    /\ UNCHANGED sweeps

GCSweep ==
    /\ gc.pc = "collect"
    /\ gc.todo = {}
    /\ gc' = [gc EXCEPT !.pc = "sweep"]
    /\ UNCHANGED sweeps

\* A file of the location is kept if a reference to it was seen ...
GCKeep(p) ==
    /\ gc.pc = "sweep"
    /\ p \in gc.left \cap gc.seen
    /\ gc' = [gc EXCEPT !.left = gc.left \ {p}]
    /\ UNCHANGED <<dataFile, sweeps>>

\* Wrong variant: a file that an upload left cut short is not listed.
GCDeleteWhole(p) ==
    /\ gc.pc = "sweep"
    /\ p \in gc.left \ gc.seen
    /\ gc' = [gc EXCEPT !.left = gc.left \ {p}]
    /\ dataFile' = IF dataFile[p] = Complete
                   THEN [dataFile EXCEPT ![p] = Absent] ELSE dataFile
    /\ UNCHANGED sweeps

\* ... and deleted if not, whoever has put it there meanwhile.
GCDelete(p) ==
    /\ gc.pc = "sweep"
    /\ p \in gc.left \ gc.seen
    /\ gc' = [gc EXCEPT !.left = gc.left \ {p}]
    /\ dataFile' = [dataFile EXCEPT ![p] = Absent]
    /\ UNCHANGED sweeps

\* A deletion, or the listing of a directory, fails: the command goes on.
GCDeleteFails(p) ==
    /\ gc.pc = "sweep"
    /\ p \in gc.left \ gc.seen
    /\ gc' = [gc EXCEPT !.left = gc.left \ {p}, !.clean = FALSE]
    /\ UNCHANGED <<dataFile, sweeps>>

GCEnd ==
    /\ gc.pc = "sweep"
    /\ gc.left = {}
    /\ gc' = GCIdle
    /\ UNCHANGED sweeps

GCStep ==
    \/ /\ \/ \E l \in Location : GCStart(l)
          \/ \E b \in Bucket : GCCollect(b)
          \/ GCCollectFails \/ GCSweep \/ GCEnd
       /\ UNCHANGED dataFile
    \/ \E p \in Path : GCKeep(p) \/ GCDelete(p) \/ GCDeleteFails(p)

\* A request spoils the cleanliness of the run.
Noticed == gc' = IF gc = GCIdle THEN gc ELSE [gc EXCEPT !.clean = FALSE]

\* A Put that waits with its row while the command runs: "the small race
\* window during active uploads" (main.go:509).
Swept(p) == gc # GCIdle /\ \E c \in Client : PutHolds(c, p)

GCNext ==
    /\ \/ Step /\ Noticed /\ UNCHANGED sweeps
       \/ /\ GCStep
          /\ UNCHANGED <<records, remote, usage, status, op, started, acked>>
    /\ raced' = raced \cup {p \in Path : (Racing(p) \/ Swept(p))'}
    /\ crossed' = crossed \cup {b \in Bucket : Crossing(b)'}

GCSpec == GCInit /\ [][GCNext]_allVars

-----------------------------------------------------------------------------
(***************************************************************************)
(* Properties.  That a row never names a file that is gone stays the       *)
(* invariant NoDanglingRecord of ObjectStore: the paths of Puts that wait  *)
(* with their rows while the command runs count as raced.                  *)
(***************************************************************************)

\* "runGC removes orphaned /_data/ files" (main.go:507): a run without
\* requests beside it and without a failed deletion leaves no file of the
\* location that no row names.
OrphansAreGone ==
    [][gc.pc = "sweep" /\ gc' = GCIdle /\ gc.clean =>
          \A p \in FilesOf(gc.location) :
              dataFile[p] # Absent =>
                  \E b \in Bucket : References(b, p)]_allVars

-----------------------------------------------------------------------------
(***************************************************************************)
(* What the requests and the command together promise                      *)
(***************************************************************************)

Writer(b, k) == IF acked[b][k] \in Client THEN acked[b][k] ELSE NoObject

Stage(pc) ==
    IF pc \in {"put_upload", "del_record"} THEN "running"
    ELSE IF pc = "put_record" THEN "stored" ELSE "changed"

\* A Delete that looks for other references has its answer already.
Progress(c) ==
    IF op[c].pc \in {"idle", "del_count"} THEN [pc |-> "idle"]
    ELSE [pc      |-> Stage(op[c].pc),
          bucket  |-> op[c].bucket,
          key     |-> op[c].key,
          content |-> RowOf(c)]

\* The command looks for references to every file.
Clearing ==
    {p \in Path : gc # GCIdle \/ \E c \in Client : DeleteChecks(c, p)}

\* A Get is sent the data file its row names, as it is: rows and files are
\* objects and contents as they stand, whole, cut short or missing.
Map == INSTANCE DurableMap WITH
    Content   <- Path,
    Nobody    <- NoObject,
    object    <- records,
    recovered <- remote,
    content   <- dataFile,
    writer    <- [b \in Bucket |-> [k \in Key |-> Writer(b, k)]],
    call      <- [c \in Client |-> Progress(c)],
    clearing  <- Clearing,
    disputed  <- raced,
    mixed     <- crossed

\* Objects are "SHA-256-hashed blobs", and "a fresh daemon can recover by syncing"
\* (README.md:8, :10).  The requests (service.go:126, :342) and the gc command
\* implement DurableMap: one request changes one key, once, and what it has
\* answered is durable.  That keys and buckets share the files shows in two ways,
\* and in no other: a Put that fails to upload its content may cut it short under
\* every key that has it (the file is sent again in place), and a file that is in
\* use goes only if a Put waited with its row while a Delete or the command was
\* looking for references to it.
ImplementsMap == Map!Spec

-----------------------------------------------------------------------------
(***************************************************************************)
(* Inductive strengthenings                                                *)
(***************************************************************************)

\* Off the raced paths, the command has seen every reference of the buckets it
\* is done with.
SweepInv ==
    /\ \A p \in Path : Swept(p) => p \in raced
    /\ gc.pc = "sweep" => gc.todo = {}
    /\ gc # GCIdle => gc.left \subseteq FilesOf(gc.location)
    /\ gc # GCIdle =>
          \A b \in Bucket, p \in Path :
              /\ LocationOf[b] = gc.location /\ b \notin gc.todo
              /\ p \notin raced /\ References(b, p)
              => p \in gc.seen

\* As long as the run is clean, what it saw is still referenced, and what it is
\* done with is gone or was seen.
CleanInv ==
    gc # GCIdle /\ gc.clean =>
        /\ NoRequest
        /\ \A p \in gc.seen : \E b \in Bucket : References(b, p)
        /\ gc.pc = "collect" => gc.left = FilesOf(gc.location)
        /\ \A p \in FilesOf(gc.location) \ gc.left :
              dataFile[p] # Absent => p \in gc.seen

=============================================================================
