---------------------------- MODULE Provisioning ----------------------------
(***************************************************************************)
(* The start of a daemon with a provision file, ApplyStartupProvisioning   *)
(* of internal/provisioning/bootstrap.go, before the servers and timers of *)
(* Structure run.  It ends with a marker file; without it, the next start  *)
(* begins again.                                                           *)
(***************************************************************************)
EXTENDS Structure

CONSTANTS
    HasFile,      \* daemons that are started with the file
    Slug,         \* its locations ...
    FilePlace,    \* ... and where they are
    FileKey,      \* the access keys of its users
    FileBucket    \* its buckets: name, owner and location

\* What Validate asks of the file.
Valid ==
    /\ FilePlace \in [Slug -> Place]
    /\ \A b \in FileBucket : b.owner \in FileKey /\ b.slug \in Slug
    /\ Unique(FileBucket, LAMBDA b : b.name)

ASSUME ProvisioningAssumption ==
    /\ HasFile \subseteq Daemon /\ FileKey \subseteq Key
    /\ IsFiniteSet(Slug) /\ IsFiniteSet(FileKey) /\ IsFiniteSet(FileBucket)
    /\ \A b \in FileBucket : b.name \in BucketName
    /\ Valid

VARIABLES
    start,        \* start[d]: how far the start of daemon d is, with the ids of
                  \* the file's locations and what is to do in this phase
    marked        \* daemons with a marker file

allvars == <<vars, start, marked>>

Down == [pc |-> "down"]

StartInit ==
    /\ Init
    /\ start = [d \in Daemon |-> Down]
    /\ marked = {}

-----------------------------------------------------------------------------

Go(d, state) == start' = [start EXCEPT ![d] = state]

At(d, pc) == start[d].pc = pc

\* The next item of a phase; the last one leads to phase next.
Item(d, pc, i) == At(d, pc) /\ i \in start[d].todo

Done(d, i) == Go(d, [start[d] EXCEPT !.todo = @ \ {i}])

Advance(d, pc, next, todo) ==
    /\ At(d, pc)
    /\ start[d].todo = {}
    /\ Go(d, [pc |-> next, ids |-> start[d].ids, todo |-> todo])

\* A daemon without a file, or with a marker, goes up at once.
Begin(d) ==
    /\ At(d, "down")
    /\ Connect(d)
    /\ IF d \in HasFile \ marked
       THEN /\ Go(d, [pc |-> "locations", ids |-> [s \in Slug |-> 0], todo |-> Slug])
            /\ UNCHANGED up
       ELSE Go(d, [pc |-> "up"]) /\ up' = up \cup {d}
    /\ UNCHANGED <<local, remote, dbs, job, sync, counters, doomed, shown, marked>>

\* 1. Locations are added under fresh ids, whatever is there already.
AddFileLocation(d, s) ==
    /\ Item(d, "locations", s)
    /\ Draw
    /\ Put(d, "locations", local[d].locations \cup
          {[id |-> ids', server |-> FilePlace[s].server,
            base |-> FilePlace[s].base, at |-> ids']})
    /\ Go(d, [start[d] EXCEPT !.todo = @ \ {s}, !.ids[s] = ids'])
    /\ UNCHANGED <<up, client, remote, dbs, job, sync, ops, faults,
                   doomed, shown, marked>>

LocationsEnd(d) ==
    /\ Advance(d, "locations", "probe", Slug)
    /\ UNCHANGED <<vars, marked>>

FileLocation(d, s) == CHOOSE l \in local[d].locations : l.id = start[d].ids[s]

\* The ids under which the structure database there has the endpoint.
Known(d, s) ==
    LET l == FileLocation(d, s)
        theirs == remote[PlaceOf(l)]
    IN  IF theirs = NoFile THEN {}
        ELSE {k \in theirs.locations : SameEndpoint(k, l) /\ k.id # l.id}

\* 2. The id that is in use there is taken over.  The start fails if this
\* daemon has it too, from an earlier start that did not come to its end.
AdoptId(d, s) ==
    /\ Item(d, "probe", s)
    /\ Known(d, s) # {}
    /\ LET l == FileLocation(d, s)
           id == First(Known(d, s)).id
           rest == local[d].locations \ {l}
       IN  IF id \in Ids(rest)
           THEN Put(d, "locations", rest) /\ Go(d, Down)
           ELSE /\ Put(d, "locations", rest \cup {[l EXCEPT !.id = id]})
                /\ Go(d, [start[d] EXCEPT !.todo = @ \ {s}, !.ids[s] = id])
    /\ UNCHANGED <<up, client, remote, dbs, job, sync, counters, doomed, shown,
                   marked>>

\* Nothing is known there, or the download fails.
KeepId(d, s) ==
    /\ Item(d, "probe", s)
    /\ IF Known(d, s) = {} THEN UNCHANGED faults ELSE Fault
    /\ Done(d, s)
    /\ UNCHANGED <<up, local, client, remote, dbs, job, sync, ids, ops,
                   doomed, shown, marked>>

\* 3. The shared client is refreshed.
ProbeEnd(d) ==
    /\ Advance(d, "probe", "sync", Slug)
    /\ Connect(d)
    /\ UNCHANGED <<up, local, remote, dbs, job, sync, counters, doomed, shown,
                   marked>>

\* 4. Every location is synced; errors are only logged.
FileSync(d, s) ==
    /\ Item(d, "sync", s)
    /\ sync[d] = Idle
    /\ Done(d, s)
    /\ \/ SyncDownload(d, FileLocation(d, s)) /\ UNCHANGED faults
       \/ remote[PlaceOf(FileLocation(d, s))] = NoFile /\ UNCHANGED <<sync, faults>>
       \/ Fault /\ UNCHANGED sync
    /\ UNCHANGED <<up, local, client, remote, dbs, job, ids, ops, doomed,
                   shown, marked>>

SyncEnd(d) ==
    /\ sync[d] = Idle
    /\ Advance(d, "sync", "users", FileKey)
    /\ UNCHANGED <<vars, marked>>

\* 5. Users are added unless their access key is in use.
AddFileUser(d, k) ==
    /\ Item(d, "users", k)
    /\ Done(d, k)
    /\ IF k \in Keys(local[d].users) THEN UNCHANGED <<local, ids>>
       ELSE Draw /\ Put(d, "users", local[d].users \cup {NewRow(k)})
    /\ UNCHANGED <<up, client, remote, dbs, job, sync, ops, faults,
                   doomed, shown, marked>>

UsersEnd(d) ==
    /\ Advance(d, "users", "buckets", FileBucket)
    /\ UNCHANGED <<vars, marked>>

SkipFileBucket(d, b) ==
    /\ Item(d, "buckets", b)
    /\ b.name \in Names(local[d].buckets)
    /\ Done(d, b)
    /\ UNCHANGED <<vars, marked>>

\* 6. Buckets are created unless their name is in use; the start fails with the
\* first that cannot be.
AddFileBucket(d, b, r) ==
    /\ Item(d, "buckets", b)
    /\ \E u \in local[d].users :
          u.key = b.owner
             /\ CreateStart(r, d, b.name, u.id, FileLocation(d, b.slug))
    /\ Go(d, [start[d] EXCEPT !.pc = "creating", !.todo = @ \ {b}])
    /\ UNCHANGED <<up, local, client, remote, dbs, sync, ops, faults,
                   doomed, shown, marked>>

Busy(d) == \E r \in Request : job[r] # Idle /\ job[r].d = d

FileBucketEnd(d) ==
    /\ At(d, "creating")
    /\ ~Busy(d)
    /\ IF \A b \in FileBucket \ start[d].todo : b.name \in Names(local[d].buckets)
       THEN Go(d, [start[d] EXCEPT !.pc = "buckets"])
       ELSE Go(d, Down)
    /\ UNCHANGED <<vars, marked>>

\* Wrong variant: the marker is written before the buckets are created.
MarkFirst(d) ==
    /\ At(d, "buckets")
    /\ d \notin marked
    /\ marked' = marked \cup {d}
    /\ UNCHANGED <<vars, start>>

\* 7. The marker is written, and the daemon goes up.
Mark(d) ==
    /\ At(d, "buckets")
    /\ start[d].todo = {}
    /\ marked' = marked \cup {d}
    /\ Go(d, [pc |-> "up"])
    /\ up' = up \cup {d}
    /\ UNCHANGED <<local, client, remote, dbs, job, sync, counters, doomed, shown>>

StopAll(d) == ~At(d, "down") /\ Stop(d) /\ Go(d, Down) /\ UNCHANGED marked

StartStep(d) ==
    \/ Begin(d)
    \/ \E s \in Slug : AddFileLocation(d, s) \/ AdoptId(d, s) \/ KeepId(d, s)
                          \/ FileSync(d, s)
    \/ LocationsEnd(d) \/ ProbeEnd(d) \/ SyncEnd(d)
    \/ \E k \in FileKey : AddFileUser(d, k)
    \/ UsersEnd(d)
    \/ \E b \in FileBucket :
          SkipFileBucket(d, b) \/ \E r \in Request : AddFileBucket(d, b, r)
    \/ FileBucketEnd(d) \/ Mark(d)

StartNext ==
    \/ \E d \in Daemon : StartStep(d) \/ StopAll(d)
    \/ StructureStep /\ UNCHANGED <<start, marked>>

StartSpec == StartInit /\ [][StartNext]_allvars

\* A daemon that ends is started again and finishes what it does; the timer
\* goes off again and again.
FairSpec ==
    /\ StartSpec
    /\ \A r \in Request : WF_allvars(JobStep(r) /\ UNCHANGED <<start, marked>>)
    /\ \A d \in Daemon :
          /\ WF_allvars(StartStep(d))
          /\ WF_allvars((MergeStep(d) \/ \E l \in local[d].locations : SyncStart(d, l))
                           /\ UNCHANGED <<start, marked>>)

-----------------------------------------------------------------------------
(***************************************************************************)
(* Properties                                                              *)
(***************************************************************************)

\* The marker says that all of the file was applied, however often the start
\* was interrupted: otherwise the rest would never be.
MarkedIsComplete ==
    [][\A d \in marked' \ marked :
         /\ FileKey \subseteq Keys(local[d].users)
         /\ Names(FileBucket) \subseteq Names(local[d].buckets)
         /\ \A s \in Slug : start[d].ids[s] \in Ids(local[d].locations)]_allvars

\* "applies the file exactly once for a new instance; if any users, locations,
\* buckets, or the local `provisioned.flag` marker already exist, startup fails
\* instead of reapplying the file" (README.md:126).
AppliedOnce ==
    \A d \in Daemon : \A k, l \in local[d].locations :
        PlaceOf(k) = PlaceOf(l) => k = l

\* A start never fails on what an interrupted one has left.
StartGoesOn ==
    [][\A d \in Daemon : At(d, "probe") /\ faults' = faults
                           => start'[d] # Down]_allvars

=============================================================================
