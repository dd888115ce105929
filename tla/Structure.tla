----------------------------- MODULE Structure ------------------------------
(***************************************************************************)
(* The structure database of a daemon (internal/meta/structure.go), which  *)
(* holds the locations, users and buckets, and what changes it: the bucket *)
(* service (internal/bucket/service.go) with its callers in the S3 API and *)
(* the two web interfaces, the administration of locations and users       *)
(* (internal/adminui/server.go), the flush to WebDAV and the merge of what *)
(* another daemon has flushed there (internal/sync/sync.go).               *)
(*                                                                         *)
(* A step is one statement on the database or one call of the WebDAV       *)
(* client; the statements of a merge on one table are one step.  Ids, keys *)
(* and passwords are numbers drawn from one counter, so that they tell the *)
(* order of creation too.                                                  *)
(***************************************************************************)
EXTENDS Naturals, FiniteSets

CONSTANTS
    Daemon,
    Request,      \* request goroutines
    Server,       \* WebDAV endpoints: a URL with a user name
    NoServer,     \* the client while no location is configured
    Base,         \* base directories
    Root,         \* the base directory "/"
    Key,          \* access keys that are not drawn
    BucketName,
    NoFile,       \* no structure.db on WebDAV
    MaxIds,       \* bound: ids, keys and passwords drawn
    MaxOps,       \* bound: requests
    MaxFaults     \* bound: failing WebDAV calls and restarts

ASSUME StructureAssumption ==
    /\ IsFiniteSet(Daemon) /\ IsFiniteSet(Request)
    /\ NoServer \notin Server
    /\ Root \in Base
    /\ Key \cap Nat = {}
    /\ {MaxIds, MaxOps, MaxFaults} \subseteq Nat

VARIABLES
    up,           \* daemons that serve requests
    local,        \* local[d]: the tables of structure.db of daemon d
    client,       \* client[d]: the endpoint behind the shared client
    remote,       \* remote[p]: {base}_meta/structure.db at place p
    dbs,          \* the bucket databases on WebDAV, <<place, bucket id>>
    job,          \* job[r]: what request r does
    sync,         \* sync[d]: the pass of daemon d
    ids,          \* numbers drawn so far
    ops,          \* requests so far (model bound)
    faults,       \* failed calls and restarts so far (model bound)
    doomed,       \* history: buckets whose deletion was begun
    shown         \* history: secrets shown to the administrator

counters == <<ids, ops, faults>>

vars == <<up, local, client, remote, dbs, job, sync, counters, doomed, shown>>

Place == [server : Server, base : Base]

Idle == [pc |-> "idle"]

Number == 0..MaxIds

Location == [id : Number, server : Server, base : Base, at : Number]

User == [id : Number, key : Key \cup Number, secret : Number, web : Number,
         enabled : BOOLEAN]

Bucket == [id : Number, name : BucketName, owner : Number, loc : Number]

Tables == [locations : SUBSET Location, users : SUBSET User,
           buckets : SUBSET Bucket]

Unique(rows, F(_)) == \A r, s \in rows : F(r) = F(s) => r = s

\* Types, the primary keys and the unique columns.
TypeOK ==
    /\ up \subseteq Daemon
    /\ \A d \in Daemon :
          /\ local[d] \in Tables
          /\ Unique(local[d].locations, LAMBDA l : l.id)
          /\ Unique(local[d].users, LAMBDA u : u.id)
          /\ Unique(local[d].users, LAMBDA u : u.key)
          /\ Unique(local[d].buckets, LAMBDA b : b.name)
          /\ client[d] \in Server \cup {NoServer}
    /\ \A p \in Place : remote[p] = NoFile \/ remote[p] \in Tables
    /\ dbs \subseteq Place \X Number
    /\ \A r \in Request : job[r] = Idle \/ job[r].d \in Daemon
    /\ \A d \in Daemon : sync[d] = Idle \/ sync[d].tables \in Tables
    /\ ids \in Number
    /\ ops \in 0..MaxOps /\ faults \in 0..MaxFaults

Init ==
    /\ up = {}
    /\ local = [d \in Daemon |->
                   [locations |-> {}, users |-> {}, buckets |-> {}]]
    /\ client = [d \in Daemon |-> NoServer]
    /\ remote = [p \in Place |-> NoFile]
    /\ dbs = {}
    /\ job = [r \in Request |-> Idle]
    /\ sync = [d \in Daemon |-> Idle]
    /\ ids = 0 /\ ops = 0 /\ faults = 0
    /\ doomed = {} /\ shown = {}

-----------------------------------------------------------------------------

Ids(rows) == {r.id : r \in rows}

Names(rows) == {r.name : r \in rows}

Keys(rows) == {r.key : r \in rows}

\* Locations are listed in the order of their creation.
First(locs) == CHOOSE l \in locs : \A k \in locs : l.at <= k.at

\* refreshWebDAV of main.go.
ClientFor(locs) == IF locs = {} THEN NoServer ELSE First(locs).server

PrimaryBase(d) ==
    IF local[d].locations = {} THEN Root ELSE First(local[d].locations).base

PlaceOf(l) == [server |-> l.server, base |-> l.base]

SameEndpoint(k, l) == k.server = l.server

Draw == ids < MaxIds /\ ids' = ids + 1

Fault == faults < MaxFaults /\ faults' = faults + 1

Operation == ops < MaxOps /\ ops' = ops + 1

\* Slots for requests are all the same: the next free one is taken.
Free(r) == job[r] = Idle /\ r = CHOOSE q \in Request : job[q] = Idle

Accept(r, d) == d \in up /\ Free(r) /\ Operation

Put(d, table, rows) == local' = [local EXCEPT ![d][table] = rows]

Continue(r, state) == job' = [job EXCEPT ![r] = state]

Flushing(d) == [pc |-> "save", d |-> d]

-----------------------------------------------------------------------------
(***************************************************************************)
(* FlushStructure, at the end of a request and of a graceful stop          *)
(***************************************************************************)

StopFlush(r, d) ==
    /\ Accept(r, d)
    /\ Continue(r, Flushing(d))
    /\ UNCHANGED <<up, local, client, remote, dbs, sync, ids, faults,
                   doomed, shown>>

\* A copy of the tables is made ...
Save(r) ==
    /\ job[r].pc = "save"
    /\ Continue(r, [pc |-> "send", d |-> job[r].d, base |-> PrimaryBase(job[r].d),
                    tables |-> local[job[r].d]])
    /\ UNCHANGED <<up, local, client, remote, dbs, sync, counters, doomed, shown>>

Stored(j) ==
    [remote EXCEPT ![[server |-> client[j.d], base |-> j.base]] = j.tables]

\* ... and uploaded by the client of that moment.
Send(r) ==
    /\ job[r].pc = "send"
    /\ client[job[r].d] # NoServer
    /\ remote' = Stored(job[r])
    /\ Continue(r, Idle)
    /\ UNCHANGED <<up, local, client, dbs, sync, counters, doomed, shown>>

\* A failure is only logged.
SendFails(r) ==
    /\ job[r].pc = "send"
    /\ \/ client[job[r].d] = NoServer /\ UNCHANGED <<remote, faults>>
       \/ /\ client[job[r].d] # NoServer
          /\ Fault
          /\ remote' \in {remote, Stored(job[r])}
    /\ Continue(r, Idle)
    /\ UNCHANGED <<up, local, client, dbs, sync, ids, ops, doomed, shown>>

-----------------------------------------------------------------------------
(***************************************************************************)
(* Locations                                                               *)
(***************************************************************************)

SetLocations(d, locs) ==
    /\ Put(d, "locations", locs)
    /\ client' = [client EXCEPT ![d] = ClientFor(locs)]

LocationRequest(d) ==
    /\ d \in up
    /\ Operation
    /\ UNCHANGED <<up, remote, dbs, job, sync, faults, doomed, shown>>

\* The sync that follows is one of the passes below.
NewLocation(d, server, base) ==
    /\ LocationRequest(d)
    /\ Draw
    /\ SetLocations(d, local[d].locations \cup
          {[id |-> ids', server |-> server, base |-> base, at |-> ids']})

EditLocation(d, l, server, base) ==
    /\ LocationRequest(d)
    /\ SetLocations(d, (local[d].locations \ {l}) \cup
          {[l EXCEPT !.server = server, !.base = base]})
    /\ UNCHANGED ids

DeleteLocation(d, l) ==
    /\ LocationRequest(d)
    /\ SetLocations(d, local[d].locations \ {l})
    /\ UNCHANGED ids

-----------------------------------------------------------------------------
(***************************************************************************)
(* Users: a handler reads the row, and writes it back or sets some columns *)
(***************************************************************************)

NewRow(key) ==
    [id |-> ids', key |-> key, secret |-> ids', web |-> ids', enabled |-> TRUE]

\* A secret is shown once; the daemon is told what it was to be for user u.
Show(d, u, secret) ==
    shown' = {s \in shown : s.d # d \/ s.id # u}
                \cup {[d |-> d, id |-> u, secret |-> secret]}

NewUser(r, d) ==
    /\ Accept(r, d)
    /\ local[d].locations # {}
    /\ Draw
    /\ Put(d, "users", local[d].users \cup {NewRow(ids')})
    /\ Show(d, ids', ids')
    /\ Continue(r, Flushing(d))
    /\ UNCHANGED <<up, client, remote, dbs, sync, faults, doomed>>

ReadUser(r, d, u, change) ==
    /\ Accept(r, d)
    /\ Continue(r, [pc |-> change, d |-> d, row |-> u])
    /\ UNCHANGED <<up, local, client, remote, dbs, sync, ids, faults,
                   doomed, shown>>

\* UPDATE ... WHERE id = ?
Update(j, F(_)) ==
    Put(j.d, "users",
        {IF u.id = j.row.id THEN F(u) ELSE u : u \in local[j.d].users})

\* Other requests that hold a copy of the row.
Overlaps(r) ==
    \E q \in Request \ {r} :
        job[q].pc \in {"edit", "secret", "web", "toggle"}
            /\ job[q].d = job[r].d /\ job[q].row.id = job[r].row.id

\* The whole row is written, with a new name.
EditUser(r) ==
    /\ job[r].pc = "edit"
    /\ Update(job[r], LAMBDA u : job[r].row)
    /\ Continue(r, Flushing(job[r].d))
    /\ UNCHANGED <<up, client, remote, dbs, sync, counters, doomed, shown>>

\* The whole row is written, with a new secret, and not flushed.
RegenerateSecret(r) ==
    /\ job[r].pc = "secret"
    /\ Draw
    /\ Update(job[r], LAMBDA u : [job[r].row EXCEPT !.secret = ids'])
    /\ IF Overlaps(r) \/ job[r].row.id \notin Ids(local[job[r].d].users)
       THEN shown' = {s \in shown : s.d # job[r].d \/ s.id # job[r].row.id}
       ELSE Show(job[r].d, job[r].row.id, ids')
    /\ Continue(r, Idle)
    /\ UNCHANGED <<up, client, remote, dbs, sync, ops, faults, doomed>>

ResetWebPassword(r) ==
    /\ job[r].pc = "web"
    /\ Draw
    /\ Update(job[r], LAMBDA u : [u EXCEPT !.web = ids'])
    /\ Continue(r, Flushing(job[r].d))
    /\ UNCHANGED <<up, client, remote, dbs, sync, ops, faults, doomed,
                   shown>>

\* It is not flushed either.
ToggleUser(r) ==
    /\ job[r].pc = "toggle"
    /\ Update(job[r], LAMBDA u : [u EXCEPT !.enabled = ~job[r].row.enabled])
    /\ Continue(r, Idle)
    /\ UNCHANGED <<up, client, remote, dbs, sync, counters, doomed, shown>>

DeleteUser(r, d, u) ==
    /\ Accept(r, d)
    /\ Put(d, "users", local[d].users \ {u})
    /\ shown' = {s \in shown : s.d # d \/ s.id # u.id}
    /\ Continue(r, Flushing(d))
    /\ UNCHANGED <<up, client, remote, dbs, sync, ids, faults, doomed>>

-----------------------------------------------------------------------------
(***************************************************************************)
(* Buckets                                                                 *)
(***************************************************************************)

\* The location is given or the first one, and the name must be free.
CreateStart(r, d, name, owner, l) ==
    /\ Free(r)
    /\ name \notin Names(local[d].buckets)
    /\ Draw
    /\ Continue(r, [pc |-> "create", d |-> d, base |-> l.base,
                    bucket |-> [id |-> ids', name |-> name, owner |-> owner,
                                loc |-> l.id]])

CreateBucket(r, d, name, owner, l) ==
    /\ Accept(r, d)
    /\ CreateStart(r, d, name, owner, l)
    /\ UNCHANGED <<up, local, client, remote, dbs, sync, faults, doomed,
                   shown>>

\* A request of the S3 API is a user's, who may name a location; ...
S3CreateBucket(r, d, name, l) ==
    \E u \in local[d].users :
        u.enabled /\ CreateBucket(r, d, name, u.id, l)

\* ... the web interface of the users takes the first; ...
WebCreateBucket(r, d, name) ==
    /\ local[d].locations # {}
    /\ \E u \in local[d].users :
          u.enabled /\ CreateBucket(r, d, name, u.id, First(local[d].locations))

\* ... and the administrator may name an owner, too.
AdminCreateBucket(r, d, name, l) ==
    \E u \in local[d].users : CreateBucket(r, d, name, u.id, l)

\* Where the shared client sends the database of the bucket of job j.
Database(j) == <<[server |-> client[j.d], base |-> j.base], j.bucket.id>>

\* Wrong variant: the bucket is recorded before its database is there.
CreateRecordFirst(r) ==
    /\ job[r].pc = "create"
    /\ job[r].bucket.name \notin Names(local[job[r].d].buckets)
    /\ Put(job[r].d, "buckets", local[job[r].d].buckets \cup {job[r].bucket})
    /\ Continue(r, [job[r] EXCEPT !.pc = "record"])
    /\ UNCHANGED <<up, client, remote, dbs, sync, counters, doomed, shown>>

\* An empty database is uploaded ...
CreateUpload(r) ==
    /\ job[r].pc = "create"
    /\ client[job[r].d] # NoServer
    /\ dbs' = dbs \cup {Database(job[r])}
    /\ Continue(r, [job[r] EXCEPT !.pc = "record"])
    /\ UNCHANGED <<up, local, client, remote, sync, counters, doomed, shown>>

CreateUploadFails(r) ==
    /\ job[r].pc = "create"
    /\ \/ client[job[r].d] = NoServer /\ UNCHANGED <<dbs, faults>>
       \/ /\ client[job[r].d] # NoServer
          /\ Fault
          /\ dbs' \in {dbs, dbs \cup {Database(job[r])}}
    /\ Continue(r, Idle)
    /\ UNCHANGED <<up, local, client, remote, sync, ids, ops, doomed,
                   shown>>

\* Wrong variant: names need not be unique.
CreateRecordTwice(r) ==
    /\ job[r].pc = "record"
    /\ Put(job[r].d, "buckets", local[job[r].d].buckets \cup {job[r].bucket})
    /\ Continue(r, Flushing(job[r].d))
    /\ UNCHANGED <<up, client, remote, dbs, sync, counters, doomed, shown>>

\* ... and the bucket recorded, unless another took its name meanwhile.
CreateRecord(r) ==
    /\ job[r].pc = "record"
    /\ IF job[r].bucket.name \in Names(local[job[r].d].buckets)
       THEN Continue(r, Idle) /\ UNCHANGED local
       ELSE /\ Put(job[r].d, "buckets",
                   local[job[r].d].buckets \cup {job[r].bucket})
            /\ Continue(r, Flushing(job[r].d))
    /\ UNCHANGED <<up, client, remote, dbs, sync, counters, doomed, shown>>

\* The bucket need not be empty.
DeleteBucket(r, d, b) ==
    /\ Accept(r, d)
    /\ \E l \in local[d].locations :
          /\ l.id = b.loc
          /\ Continue(r, [pc |-> "delete", d |-> d, base |-> l.base, bucket |-> b])
    /\ UNCHANGED <<up, local, client, remote, dbs, sync, ids, faults,
                   doomed, shown>>

\* The user who asks, if enabled, owns the bucket.
Owned(d, b) == \E u \in local[d].users : u.enabled /\ u.id = b.owner

\* In the S3 API only the owner may ask for it.
S3DeleteBucket(r, d, b) == Owned(d, b) /\ DeleteBucket(r, d, b)

WebDeleteBucket(r, d, b) ==
    (\E u \in local[d].users : u.enabled) /\ DeleteBucket(r, d, b)

AdminDeleteBucket(r, d, b) == DeleteBucket(r, d, b)

\* Its database is deleted; an error is ignored.
DeleteDatabase(r) ==
    /\ job[r].pc = "delete"
    /\ doomed' = doomed \cup {job[r].bucket.id}
    /\ \/ dbs' = dbs \ {Database(job[r])} /\ UNCHANGED faults
       \/ Fault /\ UNCHANGED dbs
    /\ Continue(r, [job[r] EXCEPT !.pc = "unrecord"])
    /\ UNCHANGED <<up, local, client, remote, sync, ids, ops, shown>>

\* The row goes by its name: it may be a later bucket of that name.
DeleteRecord(r) ==
    /\ job[r].pc = "unrecord"
    /\ LET d == job[r].d
           rest == {b \in local[d].buckets : b.name # job[r].bucket.name}
       IN  /\ Put(d, "buckets", rest)
           /\ Continue(r, IF rest = local[d].buckets THEN Idle ELSE Flushing(d))
    /\ UNCHANGED <<up, client, remote, dbs, sync, counters, doomed, shown>>

-----------------------------------------------------------------------------
(***************************************************************************)
(* SyncFromWebDAV, of the timer, of the button and of a new location; the  *)
(* databases of the buckets are left to MetaSync                           *)
(***************************************************************************)

Step(d, state) == sync' = [sync EXCEPT ![d] = state]

\* The structure database of one location is downloaded, if there is one.
SyncDownload(d, l) ==
    /\ sync[d] = Idle
    /\ remote[PlaceOf(l)] # NoFile
    /\ Step(d, [pc |-> "locations", target |-> l,
                tables |-> remote[PlaceOf(l)]])

SyncStart(d, l) ==
    /\ d \in up
    /\ SyncDownload(d, l)
    /\ UNCHANGED <<up, local, client, remote, dbs, job, counters, doomed, shown>>

\* The location of the same endpoint here: the one that is synced, or another.
Matching(d, l) ==
    IF SameEndpoint(sync[d].target, l) THEN {sync[d].target}
    ELSE {k \in local[d].locations : SameEndpoint(k, l)}

MapTo(d, l) == IF Matching(d, l) = {} THEN l.id ELSE First(Matching(d, l)).id

\* Locations of other endpoints are added; the client is not refreshed.
MergeLocations(d) ==
    /\ sync[d].pc = "locations"
    /\ LET theirs == sync[d].tables.locations
           new == {l \in theirs : Matching(d, l) = {}
                                    /\ l.id \notin Ids(local[d].locations)}
       IN  /\ Put(d, "locations", local[d].locations \cup new)
           /\ Step(d, [pc |-> "users", tables |-> sync[d].tables,
                       map |-> [i \in Ids(theirs) |->
                                  MapTo(d, CHOOSE l \in theirs : l.id = i)]])
    /\ UNCHANGED <<up, client, remote, dbs, job, counters, doomed, shown>>

NewUsers(d) == {u \in sync[d].tables.users : u.id \notin Ids(local[d].users)}

\* Those that cannot be added: another user has their access key.
Refused(d) == {u \in NewUsers(d) : u.key \in Keys(local[d].users)}

\* Wrong variant: the rows of the other side are taken over.
MergeUsersOverLocal(d) ==
    /\ sync[d].pc = "users"
    /\ Put(d, "users",
           {u \in local[d].users : u.id \notin Ids(sync[d].tables.users)}
              \cup sync[d].tables.users)
    /\ Step(d, [sync[d] EXCEPT !.pc = "buckets"])
    /\ UNCHANGED <<up, client, remote, dbs, job, counters, doomed, shown>>

\* Users of unknown ids are added in the order of their creation; the pass ends
\* with the first that cannot be.
MergeUsers(d) ==
    /\ sync[d].pc = "users"
    /\ Put(d, "users", local[d].users \cup
           {u \in NewUsers(d) : \A v \in Refused(d) : u.id < v.id})
    /\ Step(d, IF Refused(d) = {} THEN [sync[d] EXCEPT !.pc = "buckets"] ELSE Idle)
    /\ UNCHANGED <<up, client, remote, dbs, job, counters, doomed, shown>>

\* Where a bucket of the other side is here.
Mapped(d, b) ==
    IF b.loc \in DOMAIN sync[d].map THEN sync[d].map[b.loc] ELSE b.loc

\* Wrong variant: only buckets at known locations of the other side are added.
MergeBucketsMapped(d) ==
    /\ sync[d].pc = "buckets"
    /\ Put(d, "buckets", local[d].buckets \cup
         {b \in sync[d].tables.buckets : b.name \notin Names(local[d].buckets)
                                           /\ Mapped(d, b) # b.loc})
    /\ Step(d, Idle)
    /\ UNCHANGED <<up, client, remote, dbs, job, counters, doomed, shown>>

\* Buckets of unknown names are added, known ones moved to the location.
MergeBuckets(d) ==
    /\ sync[d].pc = "buckets"
    /\ LET theirs == {[b EXCEPT !.loc = Mapped(d, b)] : b \in sync[d].tables.buckets}
           mine == local[d].buckets
           Moved(b) == IF \E c \in theirs : c.name = b.name
                       THEN [b EXCEPT !.loc =
                               (CHOOSE c \in theirs : c.name = b.name).loc]
                       ELSE b
       IN  Put(d, "buckets", {Moved(b) : b \in mine}
                               \cup {c \in theirs : c.name \notin Names(mine)})
    /\ Step(d, Idle)
    /\ UNCHANGED <<up, client, remote, dbs, job, counters, doomed, shown>>

SyncFails(d) ==
    /\ sync[d] # Idle
    /\ Fault
    /\ Step(d, Idle)
    /\ UNCHANGED <<up, local, client, remote, dbs, job, ids, ops, doomed,
                   shown>>

-----------------------------------------------------------------------------
(***************************************************************************)
(* Starts and stops                                                        *)
(***************************************************************************)

\* What is left of a daemon that stops at any moment is its database.
Halt(d) ==
    /\ job' = [r \in Request |-> IF job[r] # Idle /\ job[r].d = d THEN Idle
                                 ELSE job[r]]
    /\ Step(d, Idle)

Stop(d) ==
    /\ Fault
    /\ up' = up \ {d}
    /\ Halt(d)
    /\ UNCHANGED <<local, client, remote, dbs, ids, ops, doomed, shown>>

Connect(d) == client' = [client EXCEPT ![d] = ClientFor(local[d].locations)]

RequestStep(r, d) ==
    \/ StopFlush(r, d)
    \/ NewUser(r, d)
    \/ \E u \in local[d].users :
          \/ DeleteUser(r, d, u)
          \/ \E change \in {"edit", "secret", "web", "toggle"} :
                ReadUser(r, d, u, change)
    \/ \E name \in BucketName :
          \/ WebCreateBucket(r, d, name)
          \/ \E l \in local[d].locations :
                S3CreateBucket(r, d, name, l) \/ AdminCreateBucket(r, d, name, l)
    \/ \E b \in local[d].buckets :
          \/ S3DeleteBucket(r, d, b)
          \/ WebDeleteBucket(r, d, b)
          \/ AdminDeleteBucket(r, d, b)

LocationStep(d) ==
    \/ \E server \in Server, base \in Base :
          \/ NewLocation(d, server, base)
          \/ \E l \in local[d].locations : EditLocation(d, l, server, base)
    \/ \E l \in local[d].locations : DeleteLocation(d, l)

JobStep(r) ==
    \/ Save(r) \/ Send(r) \/ SendFails(r)
    \/ EditUser(r) \/ RegenerateSecret(r) \/ ResetWebPassword(r) \/ ToggleUser(r)
    \/ CreateUpload(r) \/ CreateUploadFails(r) \/ CreateRecord(r)
    \/ DeleteDatabase(r) \/ DeleteRecord(r)

MergeStep(d) ==
    MergeLocations(d) \/ MergeUsers(d) \/ MergeBuckets(d) \/ SyncFails(d)

StructureStep ==
    \/ \E d \in Daemon : \/ \E r \in Request : RequestStep(r, d)
                         \/ LocationStep(d)
                         \/ \E l \in local[d].locations : SyncStart(d, l)
                         \/ MergeStep(d)
    \/ \E r \in Request : JobStep(r)

-----------------------------------------------------------------------------
(***************************************************************************)
(* Properties                                                              *)
(***************************************************************************)

\* A bucket in the tables of any daemon, however it came there, has its
\* database where its location says, as long as nobody began to delete it:
\* objects can be written to it and a fresh daemon finds them.
BucketHasDatabase ==
    \A d \in Daemon : \A b \in local[d].buckets : \A l \in local[d].locations :
        l.id = b.loc =>
            <<PlaceOf(l), b.id>> \in dbs \/ b.id \in doomed

\* "Local records win when the same ID/name exists on both sides"
\* (sync.go:265): a bucket that is here gets no other place by a merge.
MergeMovesNoBucket ==
    [][\A d \in Daemon :
          sync[d].pc = "buckets" /\ sync'[d] = Idle /\ faults' = faults =>
              \A b \in local[d].buckets, c \in local'[d].buckets :
                  \A k, l \in local[d].locations :
                      b.id = c.id /\ b.loc = k.id /\ c.loc = l.id
                          => PlaceOf(k) = PlaceOf(l)]_vars

\* "Create a bucket (specify location via `x-amz-bucket-location` header)"
\* (README.md:203): when a bucket comes into the tables of a daemon, created
\* there or merged, its database is where its location says.
AppearsWithDatabase ==
    [][\A d \in Daemon : \A b \in local'[d].buckets : \A l \in local'[d].locations :
          b.name \notin Names(local[d].buckets) /\ l.id = b.loc =>
              <<PlaceOf(l), b.id>> \in dbs \/ b.id \in doomed]_vars

\* The secret an administrator was shown last is the one a user signs with:
\* no merge and no change of the user that began later takes it back.  (It may
\* not be if it was made while another change of the user was.)
ShownSecretWorks ==
    \A s \in shown : \A u \in local[s.d].users : u.id = s.id => u.secret = s.secret

\* A daemon that refuses a user of the other side for its access key imports
\* nothing more from there.
Blocked(d, tables) ==
    \E u \in tables.users, v \in local[d].users : u.key = v.key /\ u.id # v.id

Imported(d) ==
    \A l \in local[d].locations :
        LET theirs == remote[PlaceOf(l)]
        IN  \/ theirs = NoFile
            \/ Blocked(d, theirs)
            \/ /\ Ids(theirs.users) \subseteq Ids(local[d].users)
               /\ Names(theirs.buckets) \subseteq Names(local[d].buckets)

\* "Remote-only records are imported" (sync.go:155): when requests, faults and
\* restarts have come to an end, a daemon that serves has the users and buckets
\* of all its locations.
RemoteIsImported == <>[](\A d \in up : Imported(d))

\* Two daemons never come to refuse each other's users.
NeverBlocked ==
    \A d \in up : \A l \in local[d].locations :
        remote[PlaceOf(l)] # NoFile => ~Blocked(d, remote[PlaceOf(l)])

\* After a deletion was answered the bucket is not there again: "StructureDB
\* removal is authoritative" (bucket/service.go:149).
DeletedStaysDeleted ==
    [][\A d \in Daemon : Ids(local[d].buckets)' \cap doomed
                           \subseteq Ids(local[d].buckets)]_vars

=============================================================================
