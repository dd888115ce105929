------------------------- MODULE ProvisioningProofs -------------------------
(***************************************************************************)
(* Proofs about Structure and Provisioning, for any number of daemons,     *)
(* requests, places, users, buckets, faults and restarts, and any          *)
(* provision file that is valid.                                           *)
(***************************************************************************)
EXTENDS Provisioning, WellFoundedInduction, TLAPS

-----------------------------------------------------------------------------
(***************************************************************************)
(* The inductive invariant: what every copy of a table satisfies, wherever *)
(* it is.  n bounds the ids drawn, f says which key an id was given, and B *)
(* holds the ids of the buckets that were ever recorded.                   *)
(***************************************************************************)

GoodLocations(locs, n) ==
    /\ locs \in SUBSET Location
    /\ \A l \in locs : l.id <= n
    /\ \A k, l \in locs : k.id = l.id => k = l

GoodUser(u, f, n) ==
    /\ u \in User
    /\ u.id <= n
    /\ u.key = f[u.id]
    /\ u.key \in Number => u.key <= n

GoodUsers(us, f, n) ==
    /\ us \in SUBSET User
    /\ \A u \in us : GoodUser(u, f, n)
    /\ \A u, v \in us : u.id = v.id => u = v
    /\ \A u, v \in us : u.key = v.key => u = v

GoodBuckets(bs, B) ==
    /\ bs \in SUBSET Bucket
    /\ \A b \in bs : b.id \in B
    /\ \A b, c \in bs : b.name = c.name => b = c

Good(t, f, n, B) ==
    /\ t \in Tables
    /\ GoodLocations(t.locations, n)
    /\ GoodUsers(t.users, f, n)
    /\ GoodBuckets(t.buckets, B)

Change == {"edit", "secret", "web", "toggle"}

SaveJob == [pc : {"save"}, d : Daemon]
SendJob == [pc : {"send"}, d : Daemon, base : Base, tables : Tables]
ChangeJob == [pc : Change, d : Daemon, row : User]
BucketJob == [pc : {"create", "record", "delete", "unrecord"}, d : Daemon,
              base : Base, bucket : Bucket]

GoodJob(j, f, n, B) ==
    \/ j = Idle
    \/ j \in SaveJob
    \/ j \in SendJob /\ Good(j.tables, f, n, B)
    \/ j \in ChangeJob /\ GoodUser(j.row, f, n)
    \/ j \in BucketJob /\ (j.pc = "record" => j.bucket.id \in B)

Download == [pc : {"locations"}, target : Location, tables : Tables]
Merge(I) == [pc : {"users", "buckets"}, tables : Tables, map : [I -> Number]]

GoodSync(s, f, n, B) ==
    \/ s = Idle
    \/ s \in Download /\ Good(s.tables, f, n, B)
    \/ (\E I \in SUBSET Number : s \in Merge(I)) /\ Good(s.tables, f, n, B)

LocalGood(f, B) ==
    /\ local \in [Daemon -> Tables]
    /\ \A d \in Daemon : Good(local[d], f, ids, B)

RemoteGood(f, B) ==
    /\ remote \in [Place -> Tables \cup {NoFile}]
    /\ \A p \in Place : remote[p] = NoFile \/ Good(remote[p], f, ids, B)

JobsGood(f, B) ==
    /\ job = [r \in Request |-> job[r]]
    /\ \A r \in Request : GoodJob(job[r], f, ids, B)

SyncsGood(f, B) ==
    /\ sync = [d \in Daemon |-> sync[d]]
    /\ \A d \in Daemon : GoodSync(sync[d], f, ids, B)

Counted == ids \in Number /\ ops \in 0..MaxOps /\ faults \in 0..MaxFaults

Simple ==
    /\ Counted
    /\ up \subseteq Daemon
    /\ dbs \subseteq Place \X Number
    /\ client \in [Daemon -> Server \cup {NoServer}]

World(f, B) ==
    /\ f \in [Number -> Key \cup Number]
    /\ Simple
    /\ LocalGood(f, B) /\ RemoteGood(f, B) /\ JobsGood(f, B) /\ SyncsGood(f, B)

\* How far the start of a daemon is.
Phase == {"locations", "probe", "sync", "users", "buckets", "creating"}

Starting == [pc : Phase, ids : [Slug -> Number],
             todo : SUBSET (Slug \cup FileKey \cup FileBucket)]

\* The locations of the file that were added, under different ids.
Placed(s) == IF s.pc = "locations" THEN Slug \ s.todo ELSE Slug

Located(s, locs) ==
    /\ \A i \in Placed(s) : s.ids[i] \in Ids(locs)
    /\ \A i, j \in Placed(s) : s.ids[i] = s.ids[j] => i = j

\* The users and buckets of the file that are there.
Applied(s, t) ==
    /\ s.pc = "users" => FileKey \ s.todo \subseteq Keys(t.users)
    /\ s.pc \in {"buckets", "creating"} => FileKey \subseteq Keys(t.users)
    /\ s.pc = "buckets" => Names(FileBucket \ s.todo) \subseteq Names(t.buckets)

\* What a request does to a daemon that does not serve: one creates a bucket of
\* the file.
Quiet == {"create", "record", "save", "send"}

StartSound(d) ==
    /\ d \in up <=> start[d].pc = "up"
    /\ start[d] \in Starting \cup {Down, [pc |-> "up"]}
    /\ start[d] \in Starting => Located(start[d], local[d].locations)
    /\ start[d] \in Starting => Applied(start[d], local[d])
    /\ d \notin up =>
          \A r \in Request : job[r] # Idle /\ job[r].d = d => job[r].pc \in Quiet

Starts ==
    /\ start = [d \in Daemon |-> start[d]]
    /\ \A d \in Daemon : StartSound(d)

-----------------------------------------------------------------------------
(***************************************************************************)
(* Lemmas on the definitions                                               *)
(***************************************************************************)

LEMMA EarliestNumber ==
    ASSUME NEW S \in SUBSET Nat, S # {}
    PROVE  \E m \in S : \A n \in S : m <= n
<1> DEFINE R == OpToRel(<, Nat)
<1>1. IsWellFoundedOn(R, Nat)
  BY NatLessThanWellFounded
<1>2. R = {ss \in Nat \X Nat : ss[1] < ss[2]}
  BY DEF OpToRel
<1> HIDE DEF R
<1>3. PICK m \in S : \A n \in S : ~(<<n, m>> \in R)
  BY <1>1, WFMin
<1>4. ASSUME NEW n \in S PROVE m <= n
  <2>1. <<n, m>> \in Nat \X Nat
    OBVIOUS
  <2>2. ~(n < m)
    BY <1>2, <1>3, <2>1
  <2> QED
    BY <2>2
<1> QED
  BY <1>4

LEMMA Numbers == Number \subseteq Nat /\ MaxIds \in Nat
  BY StructureAssumption DEF Number

LEMMA FirstIsOne ==
    ASSUME NEW locs \in SUBSET Location, locs # {}
    PROVE  First(locs) \in locs
<1> DEFINE T == {l.at : l \in locs}
<1>1. \A l \in locs : l.at \in Nat
  BY Numbers DEF Location
<1>2. T \in SUBSET Nat /\ T # {}
  BY <1>1
<1>3. PICK m \in T : \A n \in T : m <= n
  BY <1>2, EarliestNumber
<1>4. \E l \in locs : \A k \in locs : l.at <= k.at
  BY <1>3
<1> QED
  BY <1>4 DEF First

LEMMA ClientIsServer ==
    ASSUME NEW locs \in SUBSET Location
    PROVE  ClientFor(locs) \in Server \cup {NoServer}
  BY FirstIsOne DEF ClientFor, Location

LEMMA PlaceIsPlace ==
    ASSUME NEW l \in Location
    PROVE  PlaceOf(l) \in Place
  BY DEF PlaceOf, Place, Location

\* What later ids, keys and buckets leave true.
Later(f, n, B, g, m, C) ==
    /\ f \in [Number -> Key \cup Number] /\ g \in [Number -> Key \cup Number]
    /\ n \in Number /\ m \in Number /\ n <= m
    /\ B \subseteq C
    /\ \A i \in 0..n : g[i] = f[i]

LEMMA LaterUser ==
    ASSUME NEW f, NEW n, NEW B, NEW g, NEW m, NEW C, Later(f, n, B, g, m, C),
           NEW u, GoodUser(u, f, n)
    PROVE  GoodUser(u, g, m)
<1>1. u \in User /\ u.id \in Nat /\ n \in Nat /\ m \in Nat /\ n <= m
  BY Numbers DEF GoodUser, Later, User
<1>2. u.id <= n /\ u.key = f[u.id] /\ (u.key \in Number => u.key <= n)
  BY DEF GoodUser
<1>3. u.id <= m /\ u.id \in 0..n
  BY <1>1, <1>2
<1>4. g[u.id] = f[u.id]
  BY <1>3 DEF Later
<1>5. \A x \in Number : x <= n => x <= m
  BY <1>1, Numbers
<1>6. u.key \in Number => u.key <= m
  BY <1>2, <1>5
<1> QED
  BY <1>1, <1>2, <1>3, <1>4, <1>6 DEF GoodUser

LEMMA LaterTables ==
    ASSUME NEW f, NEW n, NEW B, NEW g, NEW m, NEW C, Later(f, n, B, g, m, C),
           NEW t, Good(t, f, n, B)
    PROVE  Good(t, g, m, C)
<1>1. GoodLocations(t.locations, m)
  <2>1. GoodLocations(t.locations, n) /\ n \in Nat /\ m \in Nat /\ n <= m
    BY Numbers DEF Good, Later
  <2>2. ASSUME NEW l \in t.locations PROVE l.id <= m
    <3>1. l.id \in Nat /\ l.id <= n
      BY <2>1, Numbers DEF GoodLocations, Location
    <3> QED
      BY <2>1, <3>1
  <2> QED
    BY <2>1, <2>2 DEF GoodLocations
<1>2. GoodUsers(t.users, g, m)
  BY LaterUser DEF Good, GoodUsers
<1>3. GoodBuckets(t.buckets, C)
  BY DEF Good, GoodBuckets, Later
<1> QED
  BY <1>1, <1>2, <1>3 DEF Good

LEMMA LaterJob ==
    ASSUME NEW f, NEW n, NEW B, NEW g, NEW m, NEW C, Later(f, n, B, g, m, C),
           NEW j, GoodJob(j, f, n, B)
    PROVE  GoodJob(j, g, m, C)
<1>1. B \subseteq C
  BY DEF Later
<1> QED
  BY <1>1, LaterUser, LaterTables DEF GoodJob

LEMMA LaterSync ==
    ASSUME NEW f, NEW n, NEW B, NEW g, NEW m, NEW C, Later(f, n, B, g, m, C),
           NEW s, GoodSync(s, f, n, B)
    PROVE  GoodSync(s, g, m, C)
  BY LaterTables DEF GoodSync

\* The kinds of jobs and passes, told by what they do next.
LEMMA JobKinds ==
    ASSUME NEW f, NEW n, NEW B, NEW j, GoodJob(j, f, n, B)
    PROVE  /\ j.pc = "save" => j \in SaveJob
           /\ j.pc = "send" => j \in SendJob /\ Good(j.tables, f, n, B)
           /\ j.pc \in Change => j \in ChangeJob /\ GoodUser(j.row, f, n)
           /\ j.pc \in {"create", "record", "delete", "unrecord"} => j \in BucketJob
           /\ j.pc = "record" => j.bucket.id \in B
           /\ j # Idle => j.d \in Daemon /\ j.pc # "idle"
  BY DEF GoodJob, Idle, Change, SaveJob, SendJob, ChangeJob, BucketJob

LEMMA SyncKinds ==
    ASSUME NEW f, NEW n, NEW B, NEW s, GoodSync(s, f, n, B)
    PROVE  /\ s.pc = "locations" => s \in Download
           /\ s.pc \in {"users", "buckets"} => \E I \in SUBSET Number : s \in Merge(I)
           /\ s # Idle => Good(s.tables, f, n, B) /\ s.pc # "idle"
           /\ s.pc # "idle" => s # Idle
  BY DEF GoodSync, Idle, Download, Merge

LEMMA FlushIsGood ==
    ASSUME NEW d \in Daemon, NEW f, NEW n, NEW B
    PROVE  GoodJob(Flushing(d), f, n, B) /\ GoodJob(Idle, f, n, B)
  BY DEF GoodJob, Flushing, SaveJob

-----------------------------------------------------------------------------
(***************************************************************************)
(* What a step does to each part of the state                              *)
(***************************************************************************)

After(f, B, g, C) == Later(f, ids, B, g, ids', C)

LEMMA CountersMove ==
    ASSUME Counted,
           ids' = ids \/ Draw, ops' = ops \/ Operation, faults' = faults \/ Fault
    PROVE  Counted'
  BY StructureAssumption DEF Counted, Number, Draw, Operation, Fault

LEMMA NoNewKey ==
    ASSUME NEW f, NEW B, NEW C, World(f, B), B \subseteq C, ids' = ids \/ Draw
    PROVE  After(f, B, f, C)
<1>1. ids \in Number /\ ids' \in Number /\ ids <= ids'
  BY StructureAssumption DEF World, Simple, Counted, Number, Draw
<1> QED
  BY <1>1 DEF After, Later, World

LEMMA Stays ==
    ASSUME NEW f, NEW B, NEW g, NEW C, World(f, B), After(f, B, g, C)
    PROVE  /\ UNCHANGED local => LocalGood(g, C)'
           /\ UNCHANGED remote => RemoteGood(g, C)'
           /\ UNCHANGED job => JobsGood(g, C)'
           /\ UNCHANGED sync => SyncsGood(g, C)'
<1>1. ASSUME UNCHANGED local PROVE LocalGood(g, C)'
  BY <1>1, LaterTables DEF World, LocalGood, After
<1>2. ASSUME UNCHANGED remote PROVE RemoteGood(g, C)'
  BY <1>2, LaterTables DEF World, RemoteGood, After
<1>3. ASSUME UNCHANGED job PROVE JobsGood(g, C)'
  BY <1>3, LaterJob DEF World, JobsGood, After
<1>4. ASSUME UNCHANGED sync PROVE SyncsGood(g, C)'
  BY <1>4, LaterSync DEF World, SyncsGood, After
<1> QED
  BY <1>1, <1>2, <1>3, <1>4

\* Only the tables of d change.
LEMMA LocalMoves ==
    ASSUME NEW f, NEW B, NEW g, NEW C, World(f, B), After(f, B, g, C),
           NEW d \in Daemon, NEW t, local' = [local EXCEPT ![d] = t],
           Good(t, g, ids', C)
    PROVE  LocalGood(g, C)'
<1>1. t \in Tables
  BY DEF Good
<1>2. ASSUME NEW e \in Daemon PROVE Good(local'[e], g, ids', C)
  <2>1. CASE e = d
    BY <2>1 DEF World, LocalGood
  <2>2. CASE e # d
    BY <2>2, LaterTables DEF World, LocalGood, After
  <2> QED
    BY <2>1, <2>2
<1> QED
  BY <1>1, <1>2 DEF World, LocalGood

LEMMA PutParts ==
    ASSUME NEW f, NEW B, World(f, B), NEW d \in Daemon, NEW rows
    PROVE  /\ Put(d, "locations", rows) =>
                 local' = [local EXCEPT ![d] = [locations |-> rows,
                             users |-> local[d].users, buckets |-> local[d].buckets]]
           /\ Put(d, "users", rows) =>
                 local' = [local EXCEPT ![d] = [locations |-> local[d].locations,
                             users |-> rows, buckets |-> local[d].buckets]]
           /\ Put(d, "buckets", rows) =>
                 local' = [local EXCEPT ![d] = [locations |-> local[d].locations,
                             users |-> local[d].users, buckets |-> rows]]
<1>1. local \in [Daemon -> Tables]
  BY DEF World, LocalGood
<1>2. [local[d] EXCEPT !["locations"] = rows] =
         [locations |-> rows, users |-> local[d].users, buckets |-> local[d].buckets]
  BY <1>1 DEF Tables
<1>3. [local[d] EXCEPT !["users"] = rows] =
         [locations |-> local[d].locations, users |-> rows, buckets |-> local[d].buckets]
  BY <1>1 DEF Tables
<1>4. [local[d] EXCEPT !["buckets"] = rows] =
         [locations |-> local[d].locations, users |-> local[d].users, buckets |-> rows]
  BY <1>1 DEF Tables
<1> QED
  BY <1>1, <1>2, <1>3, <1>4 DEF Put

LEMMA LocationsPut ==
    ASSUME NEW f, NEW B, NEW g, NEW C, World(f, B), After(f, B, g, C),
           NEW d \in Daemon, NEW rows, Put(d, "locations", rows),
           GoodLocations(rows, ids')
    PROVE  LocalGood(g, C)'
<1>1. Good(local[d], g, ids', C)
  BY LaterTables DEF World, LocalGood, After
<1>2. Good([locations |-> rows, users |-> local[d].users,
            buckets |-> local[d].buckets], g, ids', C)
  BY <1>1 DEF Good, Tables, GoodLocations
<1> QED
  BY <1>2, PutParts, LocalMoves

LEMMA UsersPut ==
    ASSUME NEW f, NEW B, NEW g, NEW C, World(f, B), After(f, B, g, C),
           NEW d \in Daemon, NEW rows, Put(d, "users", rows),
           GoodUsers(rows, g, ids')
    PROVE  LocalGood(g, C)'
<1>1. Good(local[d], g, ids', C)
  BY LaterTables DEF World, LocalGood, After
<1>2. Good([locations |-> local[d].locations, users |-> rows,
            buckets |-> local[d].buckets], g, ids', C)
  BY <1>1 DEF Good, Tables, GoodUsers
<1> QED
  BY <1>2, PutParts, LocalMoves

LEMMA BucketsPut ==
    ASSUME NEW f, NEW B, NEW g, NEW C, World(f, B), After(f, B, g, C),
           NEW d \in Daemon, NEW rows, Put(d, "buckets", rows),
           GoodBuckets(rows, C)
    PROVE  LocalGood(g, C)'
<1>1. Good(local[d], g, ids', C)
  BY LaterTables DEF World, LocalGood, After
<1>2. Good([locations |-> local[d].locations, users |-> local[d].users,
            buckets |-> rows], g, ids', C)
  BY <1>1 DEF Good, Tables, GoodBuckets
<1> QED
  BY <1>2, PutParts, LocalMoves

LEMMA JobMoves ==
    ASSUME NEW f, NEW B, NEW g, NEW C, World(f, B), After(f, B, g, C),
           NEW r \in Request, NEW j, Continue(r, j), GoodJob(j, g, ids', C)
    PROVE  JobsGood(g, C)'
<1>1. job = [q \in Request |-> job[q]]
  BY DEF World, JobsGood
<1>2. job' = [q \in Request |-> IF q = r THEN j ELSE job[q]]
  BY <1>1 DEF Continue
<1>3. \A q \in Request : GoodJob(job[q], g, ids', C)
  BY LaterJob DEF World, JobsGood, After
<1> QED
  BY <1>2, <1>3 DEF JobsGood

LEMMA SyncMoves ==
    ASSUME NEW f, NEW B, NEW g, NEW C, World(f, B), After(f, B, g, C),
           NEW d \in Daemon, NEW s, Step(d, s), GoodSync(s, g, ids', C)
    PROVE  SyncsGood(g, C)'
<1>1. sync = [e \in Daemon |-> sync[e]]
  BY DEF World, SyncsGood
<1>2. sync' = [e \in Daemon |-> IF e = d THEN s ELSE sync[e]]
  BY <1>1 DEF Step
<1>3. \A e \in Daemon : GoodSync(sync[e], g, ids', C)
  BY LaterSync DEF World, SyncsGood, After
<1> QED
  BY <1>2, <1>3 DEF SyncsGood

LEMMA RemoteMoves ==
    ASSUME NEW f, NEW B, NEW g, NEW C, World(f, B), After(f, B, g, C),
           NEW p \in Place, NEW t, Good(t, g, ids', C),
           remote' \in {remote, [remote EXCEPT ![p] = t]}
    PROVE  RemoteGood(g, C)'
<1>1. t \in Tables
  BY DEF Good
<1>2. ASSUME NEW q \in Place PROVE remote'[q] = NoFile \/ Good(remote'[q], g, ids', C)
  <2>1. remote[q] = NoFile \/ Good(remote[q], g, ids', C)
    BY LaterTables DEF World, RemoteGood, After
  <2> QED
    BY <2>1 DEF World, RemoteGood
<1> QED
  BY <1>1, <1>2 DEF World, RemoteGood

-----------------------------------------------------------------------------
(***************************************************************************)
(* Every step keeps it: flushes and locations                              *)
(***************************************************************************)

LEMMA Parts ==
    ASSUME NEW f, NEW B, World(f, B)
    PROVE  /\ Simple /\ Counted
           /\ \A d \in Daemon : Good(local[d], f, ids, B)
           /\ \A r \in Request : GoodJob(job[r], f, ids, B)
           /\ \A d \in Daemon : GoodSync(sync[d], f, ids, B)
           /\ \A p \in Place : remote[p] # NoFile => Good(remote[p], f, ids, B)
  BY DEF World, Simple, LocalGood, RemoteGood, JobsGood, SyncsGood

LEMMA BaseIsBase ==
    ASSUME NEW f, NEW B, World(f, B), NEW d \in Daemon
    PROVE  PrimaryBase(d) \in Base
<1>1. local[d].locations \in SUBSET Location
  BY Parts DEF Good, GoodLocations
<1> QED
  BY <1>1, FirstIsOne, StructureAssumption DEF PrimaryBase, Location

LEMMA FlushSteps ==
    ASSUME NEW f, NEW B, NEW C, World(f, B), B \subseteq C, NEW r \in Request,
           \/ \E d \in Daemon : StopFlush(r, d)
           \/ Save(r) \/ Send(r) \/ SendFails(r)
    PROVE  World(f, C)'
<1>1. After(f, B, f, C)
  BY NoNewKey DEF StopFlush, Save, Send, SendFails, counters
<1>2. Simple'
  <2>1. Counted'
    BY Parts, CountersMove DEF StopFlush, Save, Send, SendFails, Accept, counters
  <2> QED
    BY <2>1 DEF World, Simple, StopFlush, Save, Send, SendFails
<1>3. LocalGood(f, C)' /\ SyncsGood(f, C)'
  BY <1>1, Stays DEF StopFlush, Save, Send, SendFails
<1>4. JobsGood(f, C)'
  <2>1. ASSUME NEW d \in Daemon, StopFlush(r, d) PROVE JobsGood(f, C)'
    BY <1>1, <2>1, FlushIsGood, JobMoves DEF StopFlush
  <2>2. ASSUME Save(r) PROVE JobsGood(f, C)'
    <3> DEFINE j == [pc |-> "send", d |-> job[r].d, base |-> PrimaryBase(job[r].d),
                     tables |-> local[job[r].d]]
    <3>1. job[r].d \in Daemon
      BY <2>2, Parts, JobKinds DEF Save, SaveJob
    <3>2. Good(local[job[r].d], f, ids', C)
      BY <1>1, <3>1, Parts, LaterTables DEF After
    <3>3. j \in SendJob /\ Good(j.tables, f, ids', C)
      BY <3>1, <3>2, BaseIsBase DEF SendJob, Good
    <3>4. GoodJob(j, f, ids', C)
      BY <3>3 DEF GoodJob
    <3> QED
      BY <1>1, <2>2, <3>4, JobMoves DEF Save
  <2>3. ASSUME Send(r) \/ SendFails(r) PROVE JobsGood(f, C)'
    BY <1>1, <2>3, FlushIsGood, JobMoves DEF Send, SendFails, GoodJob
  <2> QED
    BY <2>1, <2>2, <2>3
<1>5. RemoteGood(f, C)'
  <2>1. ASSUME UNCHANGED remote PROVE RemoteGood(f, C)'
    BY <1>1, <2>1, Stays
  <2>2. ASSUME Send(r) \/ SendFails(r), remote' # remote PROVE RemoteGood(f, C)'
    <3>1. /\ job[r] \in SendJob /\ Good(job[r].tables, f, ids, B)
          /\ client[job[r].d] # NoServer
      BY <2>2, Parts, JobKinds DEF Send, SendFails
    <3>2. PICK p : p = [server |-> client[job[r].d], base |-> job[r].base]
      OBVIOUS
    <3>3. p \in Place
      BY <3>1, <3>2 DEF World, Simple, SendJob, Place
    <3>4. Good(job[r].tables, f, ids', C)
      BY <1>1, <3>1, LaterTables DEF After
    <3>5. remote' \in {remote, [remote EXCEPT ![p] = job[r].tables]}
      BY <2>2, <3>2 DEF Send, SendFails, Stored
    <3> QED
      BY <1>1, <3>3, <3>4, <3>5, RemoteMoves
  <2> QED
    BY <2>1, <2>2 DEF StopFlush, Save
<1> QED
  BY <1>1, <1>2, <1>3, <1>4, <1>5 DEF World

LEMMA LocationSteps ==
    ASSUME NEW f, NEW B, NEW C, World(f, B), B \subseteq C, NEW d \in Daemon,
           LocationStep(d)
    PROVE  World(f, C)'
<1> DEFINE locs == local[d].locations
<1>0. LocationRequest(d)
  BY DEF LocationStep, NewLocation, EditLocation, DeleteLocation
<1>1. ids' = ids \/ Draw
  BY DEF LocationStep, NewLocation, EditLocation, DeleteLocation
<1>2. After(f, B, f, C)
  BY <1>1, NoNewKey
<1>3. GoodLocations(locs, ids) /\ GoodLocations(locs, ids')
  BY <1>2, Parts, LaterTables DEF Good, After
<1>4. \E rows : SetLocations(d, rows) /\ GoodLocations(rows, ids')
  <2>1. ASSUME NEW server \in Server, NEW base \in Base, NewLocation(d, server, base)
        PROVE  \E rows : SetLocations(d, rows) /\ GoodLocations(rows, ids')
    <3> DEFINE l == [id |-> ids', server |-> server, base |-> base, at |-> ids']
    <3>1. l \in Location /\ l.id = ids'
      BY <1>2 DEF Location, After, Later
    <3>2. \A k \in locs : k.id # ids'
      <4>1. ids \in Nat /\ ids' = ids + 1
        BY <2>1, Parts, Numbers DEF Counted, NewLocation, Draw
      <4>2. \A k \in locs : k.id \in Nat /\ k.id <= ids
        BY <1>3, Numbers DEF GoodLocations, Location
      <4> QED
        BY <4>1, <4>2
    <3>3. ids' <= ids'
      BY <1>2, Numbers DEF After, Later
    <3>4. GoodLocations(locs \cup {l}, ids')
      BY <1>3, <3>1, <3>2, <3>3 DEF GoodLocations
    <3> QED
      BY <2>1, <3>4 DEF NewLocation
  <2>2. ASSUME NEW server \in Server, NEW base \in Base, NEW k \in locs,
               EditLocation(d, k, server, base)
        PROVE  \E rows : SetLocations(d, rows) /\ GoodLocations(rows, ids')
    <3> DEFINE l == [k EXCEPT !.server = server, !.base = base]
    <3>1. l \in Location /\ l.id = k.id
      BY <1>3 DEF Location, GoodLocations
    <3>2. \A m \in locs \ {k} : m.id # k.id
      BY <1>3 DEF GoodLocations
    <3> HIDE DEF l
    <3>3. GoodLocations((locs \ {k}) \cup {l}, ids')
      BY <1>3, <3>1, <3>2 DEF GoodLocations
    <3> QED
      BY <2>2, <3>3 DEF EditLocation, l
  <2>3. ASSUME NEW k \in locs, DeleteLocation(d, k)
        PROVE  \E rows : SetLocations(d, rows) /\ GoodLocations(rows, ids')
    <3>1. GoodLocations(locs \ {k}, ids')
      BY <1>3 DEF GoodLocations
    <3> QED
      BY <2>3, <3>1 DEF DeleteLocation
  <2> QED
    BY <2>1, <2>2, <2>3 DEF LocationStep
<1>5. PICK rows : SetLocations(d, rows) /\ GoodLocations(rows, ids')
  BY <1>4
<1>6. LocalGood(f, C)'
  BY <1>2, <1>5, LocationsPut DEF SetLocations
<1>7. Simple'
  <2>1. Counted'
    BY <1>0, <1>1, Parts, CountersMove DEF LocationRequest
  <2>2. client' \in [Daemon -> Server \cup {NoServer}]
    BY <1>5, Parts, ClientIsServer DEF SetLocations, GoodLocations, Simple
  <2> QED
    BY <1>0, <2>1, <2>2 DEF World, Simple, LocationRequest
<1>8. RemoteGood(f, C)' /\ JobsGood(f, C)' /\ SyncsGood(f, C)'
  BY <1>0, <1>2, Stays DEF LocationRequest
<1> QED
  BY <1>2, <1>6, <1>7, <1>8 DEF World

-----------------------------------------------------------------------------
(***************************************************************************)
(* Users                                                                   *)
(***************************************************************************)

\* A new id is given its key.
LEMMA UserDrawn ==
    ASSUME NEW f, NEW B, NEW C, World(f, B), B \subseteq C, NEW d \in Daemon,
           Draw, NEW k, k = ids' \/ k \in Key \ Keys(local[d].users),
           Put(d, "users", local[d].users \cup {NewRow(k)})
    PROVE  \E g : After(f, B, g, C) /\ LocalGood(g, C)'
<1>1. /\ ids \in Nat /\ ids \in Number
      /\ ids' = ids + 1 /\ ids' \in Number /\ ids' \in Nat
  BY Parts, StructureAssumption DEF Counted, Draw, Number
<1>2. k \in Key \cup Number
  BY <1>1
<1>3. PICK g : g = [f EXCEPT ![ids'] = k]
  OBVIOUS
<1>4. After(f, B, g, C)
  <2>1. f \in [Number -> Key \cup Number]
    BY DEF World
  <2>2. g \in [Number -> Key \cup Number]
    BY <1>1, <1>2, <1>3, <2>1
  <2>3. ASSUME NEW i \in 0..ids PROVE g[i] = f[i]
    <3>1. i # ids'
      BY <1>1
    <3>2. i \in Number
      BY <1>1, Numbers DEF Number
    <3> QED
      BY <1>3, <2>1, <3>1, <3>2
  <2>4. ids <= ids'
    BY <1>1
  <2> QED
    BY <1>1, <2>1, <2>2, <2>3, <2>4 DEF After, Later
<1>5. g[ids'] = k
  BY <1>1, <1>3 DEF World
<1>6. GoodUsers(local[d].users, f, ids) /\ GoodUsers(local[d].users, g, ids')
  BY <1>4, Parts, LaterTables DEF Good, After
<1>7. PICK u : u = NewRow(k)
  OBVIOUS
<1>8. u \in User /\ u.id = ids' /\ u.key = k
  BY <1>1, <1>2, <1>7 DEF NewRow, User
<1>9. k \in Number => k <= ids'
  <2>1. CASE k = ids'
    BY <1>1, <2>1
  <2>2. CASE k \in Key
    BY <2>2, Numbers, StructureAssumption
  <2> QED
    BY <2>1, <2>2
<1>10. GoodUser(u, g, ids')
  <2>1. ids' <= ids'
    BY <1>1
  <2> QED
    BY <1>5, <1>8, <1>9, <2>1 DEF GoodUser
<1>11. \A v \in local[d].users : v.id # ids' /\ v.key # k
  <2>1. SUFFICES ASSUME NEW v \in local[d].users PROVE v.id # ids' /\ v.key # k
    OBVIOUS
  <2>2. GoodUser(v, f, ids)
    BY <1>6 DEF GoodUsers
  <2>3. v.id # ids'
    <3>1. v.id \in Nat /\ v.id <= ids
      BY <2>2, Numbers DEF GoodUser, User
    <3> QED
      BY <1>1, <3>1
  <2>4. k \in Key \ Keys(local[d].users) => v.key # k
    BY DEF Keys
  <2>5. v.key # ids'
    <3>1. \A x \in Number : x <= ids => x # ids'
      BY <1>1, Numbers
    <3> QED
      BY <1>1, <2>2, <3>1 DEF GoodUser
  <2> QED
    BY <2>3, <2>4, <2>5
<1>12. GoodUsers(local[d].users \cup {u}, g, ids')
  BY <1>6, <1>8, <1>10, <1>11 DEF GoodUsers
<1>13. LocalGood(g, C)'
  BY <1>4, <1>7, <1>12, UsersPut
<1> QED
  BY <1>4, <1>13

LEMMA NewUserStep ==
    ASSUME NEW f, NEW B, NEW C, World(f, B), B \subseteq C, NEW r \in Request,
           NEW d \in Daemon, NewUser(r, d)
    PROVE  \E g : World(g, C)'
<1>1. PICK k : k = ids'
  OBVIOUS
<1>2. Draw /\ Put(d, "users", local[d].users \cup {NewRow(k)})
  BY <1>1 DEF NewUser
<1>3. PICK g : After(f, B, g, C) /\ LocalGood(g, C)'
  BY <1>1, <1>2, UserDrawn
<1>4. Simple'
  <2>1. Counted'
    BY Parts, CountersMove DEF NewUser, Accept
  <2> QED
    BY <2>1 DEF World, Simple, NewUser
<1>5. JobsGood(g, C)'
  BY <1>3, FlushIsGood, JobMoves DEF NewUser
<1>6. RemoteGood(g, C)' /\ SyncsGood(g, C)'
  BY <1>3, Stays DEF NewUser
<1>7. g \in [Number -> Key \cup Number]
  BY <1>3 DEF After, Later
<1> QED
  BY <1>3, <1>4, <1>5, <1>6, <1>7 DEF World

LEMMA UsersUpdated ==
    ASSUME NEW f, NEW n, NEW us, GoodUsers(us, f, n), NEW F \in [us -> User],
           \A u \in us : F[u].id = u.id /\ F[u].key = u.key
    PROVE  GoodUsers({F[u] : u \in us}, f, n)
<1>1. {F[u] : u \in us} \in SUBSET User
  OBVIOUS
<1>2. \A u \in us : GoodUser(F[u], f, n)
  BY DEF GoodUsers, GoodUser
<1>3. \A u, v \in us : u.id = v.id \/ u.key = v.key => u = v
  BY DEF GoodUsers
<1> QED
  BY <1>1, <1>2, <1>3 DEF GoodUsers

\* The row of job r is written with the columns that its change leaves alone.
LEMMA UpdateKeeps ==
    ASSUME NEW f, NEW B, NEW C, World(f, B), B \subseteq C, NEW r \in Request,
           EditUser(r) \/ RegenerateSecret(r) \/ ResetWebPassword(r) \/ ToggleUser(r)
    PROVE  LocalGood(f, C)'
<1> DEFINE us == local[job[r].d].users
           w == job[r].row
<1>1. After(f, B, f, C)
  BY NoNewKey DEF EditUser, RegenerateSecret, ResetWebPassword, ToggleUser, counters
<1>2. job[r] \in ChangeJob /\ GoodUser(w, f, ids)
  BY Parts, JobKinds DEF EditUser, RegenerateSecret, ResetWebPassword, ToggleUser, Change
<1>3. job[r].d \in Daemon /\ w \in User
  BY <1>2 DEF ChangeJob
<1>4. GoodUsers(us, f, ids) /\ GoodUsers(us, f, ids')
  BY <1>1, <1>3, Parts, LaterTables DEF Good, After
<1>5. \A u \in us : u \in User /\ (u.id = w.id => w.key = u.key)
  BY <1>2, <1>4 DEF GoodUsers, GoodUser
<1>6. ASSUME NEW F \in [us -> User],
             \A u \in us : F[u].id = u.id /\ F[u].key = u.key,
             Put(job[r].d, "users", {F[u] : u \in us})
      PROVE  LocalGood(f, C)'
  <2>1. GoodUsers({F[u] : u \in us}, f, ids')
    <3>1. PICK S : S = us
      OBVIOUS
    <3>2. GoodUsers(S, f, ids') /\ F \in [S -> User]
      BY <1>4, <1>6, <3>1
    <3>3. \A u \in S : F[u].id = u.id /\ F[u].key = u.key
      BY <1>6, <3>1
    <3> HIDE DEF us
    <3>4. GoodUsers({F[u] : u \in S}, f, ids')
      BY <3>2, <3>3, UsersUpdated
    <3> QED
      BY <3>1, <3>4
  <2> QED
    BY <1>1, <1>3, <1>6, <2>1, UsersPut
<1>7. ids' \in Number
  BY <1>1 DEF After, Later
<1>8. ASSUME EditUser(r) PROVE LocalGood(f, C)'
  <2>1. PICK F : F = [u \in us |-> IF u.id = w.id THEN w ELSE u]
    OBVIOUS
  <2>2. F \in [us -> User] /\ \A u \in us : F[u].id = u.id /\ F[u].key = u.key
    BY <1>3, <1>5, <2>1
  <2>3. {F[u] : u \in us} = {IF u.id = w.id THEN w ELSE u : u \in us}
    BY <2>1
  <2> QED
    BY <1>6, <1>8, <2>2, <2>3 DEF EditUser, Update
<1>9. ASSUME RegenerateSecret(r) PROVE LocalGood(f, C)'
  <2>1. PICK x : x = [w EXCEPT !.secret = ids']
    OBVIOUS
  <2>2. x \in User /\ x.id = w.id /\ x.key = w.key
    BY <1>3, <1>7, <2>1 DEF User
  <2>3. PICK F : F = [u \in us |-> IF u.id = w.id THEN x ELSE u]
    OBVIOUS
  <2>4. F \in [us -> User] /\ \A u \in us : F[u].id = u.id /\ F[u].key = u.key
    BY <1>3, <1>5, <2>2, <2>3
  <2>5. {F[u] : u \in us}
           = {IF u.id = w.id THEN [w EXCEPT !.secret = ids'] ELSE u : u \in us}
    BY <2>1, <2>3
  <2> QED
    BY <1>6, <1>9, <2>4, <2>5 DEF RegenerateSecret, Update
<1>10. ASSUME ResetWebPassword(r) PROVE LocalGood(f, C)'
  <2>1. PICK F : F = [u \in us |-> IF u.id = w.id THEN [u EXCEPT !.web = ids'] ELSE u]
    OBVIOUS
  <2>2. F \in [us -> User] /\ \A u \in us : F[u].id = u.id /\ F[u].key = u.key
    BY <1>5, <1>7, <2>1 DEF User
  <2>3. {F[u] : u \in us}
           = {IF u.id = w.id THEN [u EXCEPT !.web = ids'] ELSE u : u \in us}
    BY <2>1
  <2> QED
    BY <1>6, <1>10, <2>2, <2>3 DEF ResetWebPassword, Update
<1>11. ASSUME ToggleUser(r) PROVE LocalGood(f, C)'
  <2>1. PICK F : F = [u \in us |-> IF u.id = w.id
                                   THEN [u EXCEPT !.enabled = ~w.enabled] ELSE u]
    OBVIOUS
  <2>2. F \in [us -> User] /\ \A u \in us : F[u].id = u.id /\ F[u].key = u.key
    BY <1>3, <1>5, <2>1 DEF User
  <2>3. {F[u] : u \in us}
           = {IF u.id = w.id THEN [u EXCEPT !.enabled = ~w.enabled] ELSE u : u \in us}
    BY <2>1
  <2> QED
    BY <1>6, <1>11, <2>2, <2>3 DEF ToggleUser, Update
<1> QED
  BY <1>8, <1>9, <1>10, <1>11

LEMMA UserSteps ==
    ASSUME NEW f, NEW B, NEW C, World(f, B), B \subseteq C, NEW r \in Request,
           \/ EditUser(r) \/ RegenerateSecret(r) \/ ResetWebPassword(r)
           \/ ToggleUser(r)
    PROVE  World(f, C)'
<1>1. ids' = ids \/ Draw
  BY DEF EditUser, RegenerateSecret, ResetWebPassword, ToggleUser, counters
<1>2. After(f, B, f, C)
  BY <1>1, NoNewKey
<1>3. Simple'
  <2>1. Counted'
    BY <1>1, Parts, CountersMove
    DEF EditUser, RegenerateSecret, ResetWebPassword, ToggleUser, counters
  <2> QED
    BY <2>1 DEF World, Simple, EditUser, RegenerateSecret, ResetWebPassword, ToggleUser
<1>4. JobsGood(f, C)'
  <2>1. job[r].d \in Daemon
    BY Parts, JobKinds
    DEF EditUser, RegenerateSecret, ResetWebPassword, ToggleUser, Change, ChangeJob
  <2>2. Continue(r, Flushing(job[r].d)) \/ Continue(r, Idle)
    BY DEF EditUser, RegenerateSecret, ResetWebPassword, ToggleUser
  <2> QED
    BY <1>2, <2>1, <2>2, FlushIsGood, JobMoves
<1>5. RemoteGood(f, C)' /\ SyncsGood(f, C)'
  BY <1>2, Stays DEF EditUser, RegenerateSecret, ResetWebPassword, ToggleUser
<1> QED
  BY <1>2, <1>3, <1>4, <1>5, UpdateKeeps DEF World

LEMMA UserRequests ==
    ASSUME NEW f, NEW B, NEW C, World(f, B), B \subseteq C, NEW r \in Request,
           NEW d \in Daemon, NEW u \in local[d].users,
           \/ DeleteUser(r, d, u)
           \/ \E change \in Change : ReadUser(r, d, u, change)
    PROVE  World(f, C)'
<1>1. After(f, B, f, C)
  BY NoNewKey DEF DeleteUser, ReadUser
<1>2. Simple'
  <2>1. Counted'
    BY Parts, CountersMove DEF DeleteUser, ReadUser, Accept
  <2> QED
    BY <2>1 DEF World, Simple, DeleteUser, ReadUser
<1>3. GoodUsers(local[d].users, f, ids')
  BY <1>1, Parts, LaterTables DEF Good, After
<1>4. LocalGood(f, C)'
  <2>1. GoodUsers(local[d].users \ {u}, f, ids')
    BY <1>3 DEF GoodUsers
  <2> QED
    BY <1>1, <2>1, UsersPut, Stays DEF DeleteUser, ReadUser
<1>5. JobsGood(f, C)'
  <2>1. ASSUME NEW change \in Change, ReadUser(r, d, u, change) PROVE JobsGood(f, C)'
    <3>1. GoodUser(u, f, ids') /\ u \in User
      BY <1>3 DEF GoodUsers
    <3>2. GoodJob([pc |-> change, d |-> d, row |-> u], f, ids', C)
      BY <3>1 DEF GoodJob, ChangeJob
    <3> QED
      BY <1>1, <2>1, <3>2, JobMoves DEF ReadUser
  <2> QED
    BY <1>1, <2>1, FlushIsGood, JobMoves DEF DeleteUser
<1>6. RemoteGood(f, C)' /\ SyncsGood(f, C)'
  BY <1>1, Stays DEF DeleteUser, ReadUser
<1> QED
  BY <1>1, <1>2, <1>4, <1>5, <1>6 DEF World

-----------------------------------------------------------------------------
(***************************************************************************)
(* Buckets                                                                 *)
(***************************************************************************)

LEMMA BucketCreated ==
    ASSUME NEW f, NEW B, NEW C, World(f, B), B \subseteq C, NEW r \in Request,
           NEW d \in Daemon, NEW name \in BucketName, NEW owner \in Number,
           NEW l \in Location, CreateStart(r, d, name, owner, l)
    PROVE  After(f, B, f, C) /\ JobsGood(f, C)'
<1>1. After(f, B, f, C) /\ ids' \in Number
  BY NoNewKey DEF CreateStart, After, Later
<1>2. GoodJob([pc |-> "create", d |-> d, base |-> l.base,
               bucket |-> [id |-> ids', name |-> name, owner |-> owner,
                           loc |-> l.id]], f, ids', C)
  BY <1>1 DEF GoodJob, BucketJob, Bucket, Location
<1> QED
  BY <1>1, <1>2, JobMoves DEF CreateStart

LEMMA CreateStep ==
    ASSUME NEW f, NEW B, NEW C, World(f, B), B \subseteq C, NEW r \in Request,
           NEW d \in Daemon, NEW name \in BucketName, NEW owner \in Number,
           NEW l \in Location, CreateBucket(r, d, name, owner, l)
    PROVE  World(f, C)'
<1>1. After(f, B, f, C) /\ JobsGood(f, C)'
  BY BucketCreated DEF CreateBucket
<1>2. Simple'
  <2>1. Counted'
    BY Parts, CountersMove DEF CreateBucket, CreateStart, Accept
  <2> QED
    BY <2>1 DEF World, Simple, CreateBucket
<1>3. LocalGood(f, C)' /\ RemoteGood(f, C)' /\ SyncsGood(f, C)'
  BY <1>1, Stays DEF CreateBucket
<1> QED
  BY <1>1, <1>2, <1>3 DEF World

LEMMA DeleteStep ==
    ASSUME NEW f, NEW B, NEW C, World(f, B), B \subseteq C, NEW r \in Request,
           NEW d \in Daemon, NEW b \in local[d].buckets, DeleteBucket(r, d, b)
    PROVE  World(f, C)'
<1>1. After(f, B, f, C)
  BY NoNewKey DEF DeleteBucket
<1>2. Simple'
  <2>1. Counted'
    BY Parts, CountersMove DEF DeleteBucket, Accept
  <2> QED
    BY <2>1 DEF World, Simple, DeleteBucket
<1>3. JobsGood(f, C)'
  <2>1. PICK l \in local[d].locations :
           Continue(r, [pc |-> "delete", d |-> d, base |-> l.base, bucket |-> b])
    BY DEF DeleteBucket
  <2>2. l \in Location /\ b \in Bucket
    BY Parts DEF Good, GoodLocations, GoodBuckets
  <2>3. GoodJob([pc |-> "delete", d |-> d, base |-> l.base, bucket |-> b],
                f, ids', C)
    BY <2>2 DEF GoodJob, BucketJob, Location
  <2> QED
    BY <1>1, <2>1, <2>3, JobMoves
<1>4. LocalGood(f, C)' /\ RemoteGood(f, C)' /\ SyncsGood(f, C)'
  BY <1>1, Stays DEF DeleteBucket
<1> QED
  BY <1>1, <1>2, <1>3, <1>4 DEF World

\* A bucket that is recorded has its database uploaded before.
LEMMA BucketSteps ==
    ASSUME NEW f, NEW B, NEW C, World(f, B), B \subseteq C, NEW r \in Request,
           \/ CreateUpload(r) \/ CreateUploadFails(r) \/ CreateRecord(r)
           \/ DeleteDatabase(r) \/ DeleteRecord(r),
           CreateUpload(r) => job[r].bucket.id \in C
    PROVE  World(f, C)'
<1> DEFINE d == job[r].d
           b == job[r].bucket
           bs == local[d].buckets
<1> USE DEF CreateUpload, CreateUploadFails, CreateRecord, DeleteDatabase, DeleteRecord
<1>1. After(f, B, f, C)
  BY NoNewKey DEF counters
<1>2. job[r] \in BucketJob /\ (job[r].pc = "record" => b.id \in B)
  BY Parts, JobKinds
<1>3. d \in Daemon /\ b \in Bucket
  BY <1>2 DEF BucketJob
<1>4. Simple'
  <2>1. Counted'
    BY Parts, CountersMove DEF counters
  <2>2. dbs' \subseteq Place \X Number
    <3>1. client[d] # NoServer => Database(job[r]) \in Place \X Number
      BY <1>2, <1>3 DEF World, Simple, Database, Place, BucketJob, Bucket
    <3>2. \/ dbs' \subseteq dbs
          \/ client[d] # NoServer /\ dbs' \subseteq dbs \cup {Database(job[r])}
      OBVIOUS
    <3> QED
      BY <3>1, <3>2 DEF World, Simple
  <2> QED
    BY <2>1, <2>2 DEF World, Simple
<1>5. LocalGood(f, C)'
  <2>1. GoodBuckets(bs, B) /\ GoodBuckets(bs, C)
    BY <1>1, <1>3, Parts, LaterTables DEF Good, After
  <2>2. ASSUME CreateRecord(r), b.name \notin Names(bs) PROVE LocalGood(f, C)'
    <3>1. GoodBuckets(bs \cup {b}, C)
      BY <1>2, <1>3, <2>1, <2>2 DEF GoodBuckets, Names
    <3> QED
      BY <1>1, <1>3, <2>2, <3>1, BucketsPut
  <2>3. ASSUME DeleteRecord(r) PROVE LocalGood(f, C)'
    <3>1. GoodBuckets({c \in bs : c.name # b.name}, C)
      BY <2>1 DEF GoodBuckets
    <3> QED
      BY <1>1, <1>3, <2>3, <3>1, BucketsPut
  <2>4. UNCHANGED local => LocalGood(f, C)'
    BY <1>1, Stays
  <2> QED
    BY <2>2, <2>3, <2>4
<1>6. JobsGood(f, C)'
  <2>1. ASSUME NEW pc \in {"record", "unrecord"}, Continue(r, [job[r] EXCEPT !.pc = pc]),
               pc = "record" => b.id \in C
        PROVE  JobsGood(f, C)'
    <3>1. [job[r] EXCEPT !.pc = pc] \in BucketJob
      BY <1>2 DEF BucketJob
    <3>2. /\ [job[r] EXCEPT !.pc = pc].bucket = b
          /\ [job[r] EXCEPT !.pc = pc].pc = pc
      BY <1>2 DEF BucketJob
    <3>3. GoodJob([job[r] EXCEPT !.pc = pc], f, ids', C)
      BY <2>1, <3>1, <3>2 DEF GoodJob
    <3> QED
      BY <1>1, <2>1, <3>3, JobMoves
  <2>2. Continue(r, Idle) \/ Continue(r, Flushing(d)) => JobsGood(f, C)'
    BY <1>1, <1>3, FlushIsGood, JobMoves
  <2>3. \/ Continue(r, Idle) \/ Continue(r, Flushing(d))
        \/ Continue(r, [job[r] EXCEPT !.pc = "record"]) /\ b.id \in C
        \/ Continue(r, [job[r] EXCEPT !.pc = "unrecord"])
    OBVIOUS
  <2> QED
    BY <2>1, <2>2, <2>3
<1>7. RemoteGood(f, C)' /\ SyncsGood(f, C)'
  BY <1>1, Stays
<1> QED
  BY <1>1, <1>4, <1>5, <1>6, <1>7 DEF World

-----------------------------------------------------------------------------
(***************************************************************************)
(* Merges                                                                  *)
(***************************************************************************)

LEMMA DownloadGood ==
    ASSUME NEW f, NEW B, NEW g, NEW C, World(f, B), After(f, B, g, C),
           NEW d \in Daemon, NEW l \in Location, SyncDownload(d, l)
    PROVE  SyncsGood(g, C)'
<1>1. PICK t : t = remote[PlaceOf(l)]
  OBVIOUS
<1>2. Good(t, f, ids, B)
  BY <1>1, PlaceIsPlace, Parts DEF SyncDownload
<1>3. Good(t, g, ids', C)
  BY <1>2, LaterTables DEF After
<1>4. GoodSync([pc |-> "locations", target |-> l, tables |-> t], g, ids', C)
  BY <1>3 DEF GoodSync, Download, Good
<1> QED
  BY <1>1, <1>4, SyncMoves DEF SyncDownload

LEMMA SyncStartStep ==
    ASSUME NEW f, NEW B, NEW C, World(f, B), B \subseteq C,
           NEW d \in Daemon, NEW l \in local[d].locations, SyncStart(d, l)
    PROVE  World(f, C)'
<1>1. After(f, B, f, C)
  BY NoNewKey DEF SyncStart, counters
<1>2. l \in Location
  BY Parts DEF Good, GoodLocations
<1>3. SyncsGood(f, C)'
  BY <1>1, <1>2, DownloadGood DEF SyncStart
<1>4. Simple'
  BY DEF World, Simple, Counted, SyncStart, counters
<1>5. LocalGood(f, C)' /\ RemoteGood(f, C)' /\ JobsGood(f, C)'
  BY <1>1, Stays DEF SyncStart
<1> QED
  BY <1>1, <1>3, <1>4, <1>5 DEF World

LEMMA MapIsNumber ==
    ASSUME NEW f, NEW B, World(f, B), NEW d \in Daemon, sync[d] \in Download,
           NEW l \in Location
    PROVE  MapTo(d, l) \in Number
<1>1. local[d].locations \in SUBSET Location /\ sync[d].target \in Location
  BY Parts DEF Good, GoodLocations, Download
<1>2. Matching(d, l) \in SUBSET Location
  BY <1>1 DEF Matching
<1>3. Matching(d, l) # {} => First(Matching(d, l)) \in Location
  BY <1>2, FirstIsOne
<1> QED
  BY <1>3 DEF MapTo, Location

LEMMA MergeLocationsStep ==
    ASSUME NEW f, NEW B, NEW C, World(f, B), B \subseteq C, NEW d \in Daemon,
           MergeLocations(d)
    PROVE  World(f, C)'
<1> DEFINE mine == local[d].locations
           theirs == sync[d].tables.locations
           new == {l \in theirs : Matching(d, l) = {} /\ l.id \notin Ids(mine)}
           map == [i \in Ids(theirs) |-> MapTo(d, CHOOSE l \in theirs : l.id = i)]
           s == [pc |-> "users", tables |-> sync[d].tables, map |-> map]
<1>1. After(f, B, f, C)
  BY NoNewKey DEF MergeLocations, counters
<1>2. sync[d] \in Download /\ Good(sync[d].tables, f, ids, B)
  BY Parts, SyncKinds DEF MergeLocations
<1>3. Good(local[d], f, ids', C) /\ Good(sync[d].tables, f, ids', C)
  BY <1>1, <1>2, Parts, LaterTables DEF After
<1>4. LocalGood(f, C)'
  <2>1. GoodLocations(mine \cup new, ids')
    <3>1. GoodLocations(mine, ids') /\ GoodLocations(theirs, ids') /\ new \subseteq theirs
      BY <1>3 DEF Good
    <3>2. \A k \in mine, l \in new : k.id # l.id
      BY DEF Ids
    <3> HIDE DEF mine, theirs, new
    <3> QED
      BY <3>1, <3>2 DEF GoodLocations
  <2> QED
    BY <1>1, <2>1, LocationsPut DEF MergeLocations
<1>5. SyncsGood(f, C)'
  <2>1. theirs \in SUBSET Location
    BY <1>2 DEF Good, GoodLocations
  <2>2. Ids(theirs) \in SUBSET Number
    BY <2>1 DEF Ids, Location
  <2>3. ASSUME NEW i \in Ids(theirs) PROVE map[i] \in Number
    <3>1. (CHOOSE l \in theirs : l.id = i) \in theirs
      BY DEF Ids
    <3>2. map[i] = MapTo(d, CHOOSE l \in theirs : l.id = i)
      OBVIOUS
    <3> QED
      BY <1>2, <2>1, <3>1, <3>2, MapIsNumber
  <2>4. map \in [Ids(theirs) -> Number]
    BY <2>3
  <2> HIDE DEF map
  <2>5. s \in Merge(Ids(theirs)) /\ s.tables = sync[d].tables
    BY <1>3, <2>4 DEF Merge, Good
  <2>6. GoodSync(s, f, ids', C)
    BY <1>3, <2>2, <2>5 DEF GoodSync
  <2>7. Step(d, s)
    BY DEF MergeLocations, map
  <2> QED
    BY <1>1, <2>6, <2>7, SyncMoves
<1>6. Simple'
  BY DEF World, Simple, Counted, MergeLocations, counters
<1>7. RemoteGood(f, C)' /\ JobsGood(f, C)'
  BY <1>1, Stays DEF MergeLocations
<1> QED
  BY <1>1, <1>4, <1>5, <1>6, <1>7 DEF World

\* The users that a merge adds.
Added(d) == {u \in NewUsers(d) : \A v \in Refused(d) : u.id < v.id}

LEMMA AddedAreNew ==
    ASSUME NEW f, NEW B, World(f, B), NEW d \in Daemon, sync[d].pc = "users"
    PROVE  /\ Added(d) \subseteq sync[d].tables.users
           /\ \A u \in Added(d) : \A v \in local[d].users :
                 u.id # v.id /\ u.key # v.key
<1>1. Good(sync[d].tables, f, ids, B)
  BY Parts, SyncKinds
<1>2. SUFFICES ASSUME NEW u \in Added(d), NEW v \in local[d].users
               PROVE  u.id # v.id /\ u.key # v.key
  BY DEF Added, NewUsers
<1>3. u \in NewUsers(d) /\ u.id \in Nat
  BY <1>1, Numbers DEF Added, NewUsers, Good, GoodUsers, User
<1>4. u.id # v.id
  BY <1>3 DEF NewUsers, Ids
<1>5. u \notin Refused(d)
  BY <1>3 DEF Added
<1>6. u.key # v.key
  BY <1>3, <1>5 DEF Refused, Keys
<1> QED
  BY <1>4, <1>6

LEMMA MergeUsersStep ==
    ASSUME NEW f, NEW B, NEW C, World(f, B), B \subseteq C, NEW d \in Daemon,
           MergeUsers(d)
    PROVE  World(f, C)'
<1> DEFINE mine == local[d].users
           theirs == sync[d].tables.users
<1>1. After(f, B, f, C)
  BY NoNewKey DEF MergeUsers, counters
<1>2. PICK I \in SUBSET Number : sync[d] \in Merge(I)
  BY Parts, SyncKinds DEF MergeUsers
<1>3. Good(sync[d].tables, f, ids, B)
  BY Parts, SyncKinds DEF MergeUsers
<1>4. Good(local[d], f, ids', C) /\ Good(sync[d].tables, f, ids', C)
  BY <1>1, <1>3, Parts, LaterTables DEF After
<1>5. LocalGood(f, C)'
  <2>1. GoodUsers(mine, f, ids') /\ GoodUsers(theirs, f, ids')
    BY <1>4 DEF Good
  <2>2. /\ Added(d) \subseteq theirs
        /\ \A u \in Added(d) : \A v \in mine : u.id # v.id /\ u.key # v.key
    BY AddedAreNew DEF MergeUsers
  <2> HIDE DEF mine, theirs
  <2>3. GoodUsers(mine \cup Added(d), f, ids')
    BY <2>1, <2>2 DEF GoodUsers
  <2> USE DEF mine
  <2> QED
    BY <1>1, <2>3, UsersPut DEF MergeUsers, Added
<1>6. SyncsGood(f, C)'
  <2>1. [sync[d] EXCEPT !.pc = "buckets"] \in Merge(I)
    BY <1>2 DEF Merge
  <2>2. [sync[d] EXCEPT !.pc = "buckets"].tables = sync[d].tables
    BY <1>2 DEF Merge
  <2>3. GoodSync([sync[d] EXCEPT !.pc = "buckets"], f, ids', C)
    BY <1>4, <2>1, <2>2 DEF GoodSync
  <2>4. GoodSync(Idle, f, ids', C)
    BY DEF GoodSync
  <2> QED
    BY <1>1, <2>3, <2>4, SyncMoves DEF MergeUsers
<1>7. Simple'
  BY DEF World, Simple, Counted, MergeUsers, counters
<1>8. RemoteGood(f, C)' /\ JobsGood(f, C)'
  BY <1>1, Stays DEF MergeUsers
<1> QED
  BY <1>1, <1>5, <1>6, <1>7, <1>8 DEF World

\* What a merge makes of the buckets: names and ids stay.
BucketsMerged(d) ==
    \E rows :
        /\ Put(d, "buckets", rows)
        /\ rows \in SUBSET Bucket
        /\ \A b \in local[d].buckets : \E c \in rows : c.id = b.id /\ c.name = b.name
        /\ \A c \in rows :
              \/ \E b \in local[d].buckets : c.id = b.id /\ c.name = b.name
              \/ /\ c.name \notin Names(local[d].buckets)
                 /\ \E b \in sync[d].tables.buckets : c.id = b.id /\ c.name = b.name
        /\ \A b, c \in rows : b.name = c.name => b = c

LEMMA MergeBucketsRows ==
    ASSUME NEW f, NEW B, World(f, B), NEW d \in Daemon, MergeBuckets(d)
    PROVE  BucketsMerged(d)
<1> DEFINE mine == local[d].buckets
           given == sync[d].tables.buckets
           theirs == {[b EXCEPT !.loc = Mapped(d, b)] : b \in given}
           Moved(b) == IF \E c \in theirs : c.name = b.name
                       THEN [b EXCEPT !.loc =
                               (CHOOSE c \in theirs : c.name = b.name).loc]
                       ELSE b
           rows == {Moved(b) : b \in mine} \cup {c \in theirs : c.name \notin Names(mine)}
<1>1. PICK I \in SUBSET Number : sync[d] \in Merge(I)
  BY Parts, SyncKinds DEF MergeBuckets
<1>2. GoodBuckets(mine, B) /\ GoodBuckets(given, B)
  BY Parts, SyncKinds DEF MergeBuckets, Good
<1>3. Put(d, "buckets", rows)
  BY DEF MergeBuckets
<1>4. \A b \in given : Mapped(d, b) \in Number
  BY <1>1, <1>2 DEF Mapped, Merge, GoodBuckets, Bucket
<1> HIDE DEF mine, given
<1>5. \A b \in given : /\ [b EXCEPT !.loc = Mapped(d, b)] \in Bucket
                       /\ [b EXCEPT !.loc = Mapped(d, b)].id = b.id
                       /\ [b EXCEPT !.loc = Mapped(d, b)].name = b.name
  BY <1>2, <1>4 DEF GoodBuckets, Bucket
<1>6. theirs \in SUBSET Bucket
  BY <1>5
<1>7. \A c \in theirs : \E b \in given : c.id = b.id /\ c.name = b.name
  BY <1>5
<1>8. ASSUME NEW b \in theirs, NEW c \in theirs, b.name = c.name PROVE b = c
  <2>1. PICK k \in given, l \in given :
           /\ b = [k EXCEPT !.loc = Mapped(d, k)]
           /\ c = [l EXCEPT !.loc = Mapped(d, l)]
    OBVIOUS
  <2>2. k.name = l.name
    BY <1>5, <1>8, <2>1
  <2>3. k = l
    BY <1>2, <2>2 DEF GoodBuckets
  <2> QED
    BY <2>1, <2>3
<1> HIDE DEF theirs
<1>9. ASSUME NEW b \in mine
      PROVE  Moved(b) \in Bucket /\ Moved(b).id = b.id /\ Moved(b).name = b.name
  <2>1. b \in Bucket
    BY <1>2 DEF GoodBuckets
  <2>2. CASE \E c \in theirs : c.name = b.name
    <3>1. PICK x : x = (CHOOSE c \in theirs : c.name = b.name).loc
      OBVIOUS
    <3>2. x \in Number
      BY <1>6, <2>2, <3>1 DEF Bucket
    <3>3. Moved(b) = [b EXCEPT !.loc = x]
      BY <2>2, <3>1
    <3> HIDE DEF Moved
    <3> QED
      BY <2>1, <3>2, <3>3 DEF Bucket
  <2>3. CASE ~ \E c \in theirs : c.name = b.name
    BY <2>1, <2>3
  <2> QED
    BY <2>2, <2>3
<1>10. \A b, c \in mine : b.name = c.name => b = c
  BY <1>2 DEF GoodBuckets
<1> HIDE DEF Moved
<1>11. rows \in SUBSET Bucket
  BY <1>6, <1>9
<1>12. \A b \in mine : \E c \in rows : c.id = b.id /\ c.name = b.name
  BY <1>9
<1>13. \A c \in rows :
          \/ \E b \in mine : c.id = b.id /\ c.name = b.name
          \/ c.name \notin Names(mine) /\ \E b \in given : c.id = b.id /\ c.name = b.name
  BY <1>7, <1>9
<1>14. ASSUME NEW b \in rows, NEW c \in rows, b.name = c.name PROVE b = c
  <2>1. CASE b.name \in Names(mine)
    <3>1. PICK k \in mine, l \in mine : b = Moved(k) /\ c = Moved(l)
      BY <1>14, <2>1
    <3> QED
      BY <1>9, <1>10, <1>14, <3>1
  <2>2. CASE b.name \notin Names(mine)
    <3>1. \A k \in mine : Moved(k).name \in Names(mine)
      BY <1>9 DEF Names
    <3>2. b \in theirs /\ c \in theirs
      BY <1>14, <2>2, <3>1
    <3> QED
      BY <1>8, <1>14, <3>2
  <2> QED
    BY <2>1, <2>2
<1> HIDE DEF rows
<1>15. \A b, c \in rows : b.name = c.name => b = c
  BY <1>14
<1> QED
  BY <1>3, <1>11, <1>12, <1>13, <1>15 DEF BucketsMerged, mine, given

LEMMA MergeBucketsStep ==
    ASSUME NEW f, NEW B, NEW C, World(f, B), B \subseteq C, NEW d \in Daemon,
           MergeBuckets(d)
    PROVE  World(f, C)'
<1>1. After(f, B, f, C)
  BY NoNewKey DEF MergeBuckets, counters
<1>2. LocalGood(f, C)'
  <2>1. GoodBuckets(local[d].buckets, C) /\ GoodBuckets(sync[d].tables.buckets, C)
    BY Parts, SyncKinds DEF MergeBuckets, Good, GoodBuckets
  <2>2. PICK rows :
        /\ Put(d, "buckets", rows)
        /\ rows \in SUBSET Bucket
        /\ \A c \in rows :
              \/ \E b \in local[d].buckets : c.id = b.id /\ c.name = b.name
              \/ \E b \in sync[d].tables.buckets : c.id = b.id /\ c.name = b.name
        /\ \A b, c \in rows : b.name = c.name => b = c
    BY MergeBucketsRows DEF BucketsMerged
  <2>3. GoodBuckets(rows, C)
    BY <2>1, <2>2 DEF GoodBuckets
  <2> QED
    BY <1>1, <2>2, <2>3, BucketsPut
<1>3. SyncsGood(f, C)'
  BY <1>1, SyncMoves DEF MergeBuckets, GoodSync
<1>4. Simple'
  BY DEF World, Simple, Counted, MergeBuckets, counters
<1>5. RemoteGood(f, C)' /\ JobsGood(f, C)'
  BY <1>1, Stays DEF MergeBuckets
<1> QED
  BY <1>1, <1>2, <1>3, <1>4, <1>5 DEF World

LEMMA SyncFailsStep ==
    ASSUME NEW f, NEW B, NEW C, World(f, B), B \subseteq C, NEW d \in Daemon,
           SyncFails(d)
    PROVE  World(f, C)'
<1>1. After(f, B, f, C)
  BY NoNewKey DEF SyncFails
<1>2. SyncsGood(f, C)'
  BY <1>1, SyncMoves DEF SyncFails, GoodSync
<1>3. Simple'
  <2>1. Counted'
    BY Parts, CountersMove DEF SyncFails
  <2> QED
    BY <2>1 DEF World, Simple, SyncFails
<1>4. LocalGood(f, C)' /\ RemoteGood(f, C)' /\ JobsGood(f, C)'
  BY <1>1, Stays DEF SyncFails
<1> QED
  BY <1>1, <1>2, <1>3, <1>4 DEF World

LEMMA StopStep ==
    ASSUME NEW f, NEW B, NEW C, World(f, B), B \subseteq C, NEW d \in Daemon,
           Stop(d)
    PROVE  World(f, C)'
<1>1. After(f, B, f, C)
  BY NoNewKey DEF Stop
<1>2. JobsGood(f, C)'
  <2>1. \A r \in Request : GoodJob(job[r], f, ids', C) /\ GoodJob(Idle, f, ids', C)
    BY <1>1, Parts, LaterJob DEF After, GoodJob
  <2> QED
    BY <2>1 DEF Stop, Halt, JobsGood
<1>3. SyncsGood(f, C)'
  BY <1>1, SyncMoves DEF Stop, Halt, GoodSync
<1>4. Simple'
  <2>1. Counted'
    BY Parts, CountersMove DEF Stop
  <2> QED
    BY <2>1 DEF World, Simple, Stop
<1>5. LocalGood(f, C)' /\ RemoteGood(f, C)'
  BY <1>1, Stays DEF Stop
<1> QED
  BY <1>1, <1>2, <1>3, <1>4, <1>5 DEF World

-----------------------------------------------------------------------------
(***************************************************************************)
(* Every step of Structure and every step of a start                       *)
(***************************************************************************)

\* C has the buckets whose database is uploaded.
Uploaded(C) == \A r \in Request : CreateUpload(r) => job[r].bucket.id \in C

LEMMA RequestSteps ==
    ASSUME NEW f, NEW B, NEW C, World(f, B), B \subseteq C, NEW r \in Request,
           NEW d \in Daemon, RequestStep(r, d)
    PROVE  \E g : World(g, C)'
<1>1. /\ \A l \in local[d].locations : l \in Location
      /\ \A u \in local[d].users : u.id \in Number
  BY Parts DEF Good, GoodLocations, GoodUsers, User
<1>2. local[d].locations # {} => First(local[d].locations) \in Location
  <2>1. local[d].locations \in SUBSET Location
    BY <1>1
  <2> QED
    BY <2>1, FirstIsOne
<1>3. \/ StopFlush(r, d)
      \/ NewUser(r, d)
      \/ \E u \in local[d].users :
            \/ DeleteUser(r, d, u)
            \/ \E change \in Change : ReadUser(r, d, u, change)
      \/ \E name \in BucketName, owner \in Number, l \in Location :
            CreateBucket(r, d, name, owner, l)
      \/ \E b \in local[d].buckets : DeleteBucket(r, d, b)
  BY <1>1, <1>2 DEF RequestStep, Change, WebCreateBucket, S3CreateBucket,
     AdminCreateBucket, S3DeleteBucket, WebDeleteBucket, AdminDeleteBucket
<1>4. ASSUME StopFlush(r, d) PROVE World(f, C)'
  BY <1>4, FlushSteps
<1>5. ASSUME NEW u \in local[d].users,
             \/ DeleteUser(r, d, u)
             \/ \E change \in Change : ReadUser(r, d, u, change)
      PROVE  World(f, C)'
  BY <1>5, UserRequests
<1>6. ASSUME NEW name \in BucketName, NEW owner \in Number, NEW l \in Location,
             CreateBucket(r, d, name, owner, l)
      PROVE  World(f, C)'
  BY <1>6, CreateStep
<1>7. ASSUME NEW b \in local[d].buckets, DeleteBucket(r, d, b) PROVE World(f, C)'
  BY <1>7, DeleteStep
<1> QED
  BY <1>3, <1>4, <1>5, <1>6, <1>7, NewUserStep

LEMMA StructureKeepsWorld ==
    ASSUME NEW f, NEW B, NEW C, World(f, B), B \subseteq C, Uploaded(C),
           StructureStep
    PROVE  \E g : World(g, C)'
<1>1. ASSUME NEW d \in Daemon, NEW r \in Request, RequestStep(r, d)
      PROVE  \E g : World(g, C)'
  BY <1>1, RequestSteps
<1>2. ASSUME NEW d \in Daemon, LocationStep(d) PROVE World(f, C)'
  BY <1>2, LocationSteps
<1>3. ASSUME NEW d \in Daemon, NEW l \in local[d].locations, SyncStart(d, l)
      PROVE  World(f, C)'
  BY <1>3, SyncStartStep
<1>4. ASSUME NEW d \in Daemon, MergeStep(d) PROVE World(f, C)'
  BY <1>4, MergeLocationsStep, MergeUsersStep, MergeBucketsStep, SyncFailsStep
  DEF MergeStep
<1>5. ASSUME NEW r \in Request, JobStep(r) PROVE World(f, C)'
  BY <1>5, FlushSteps, UserSteps, BucketSteps DEF JobStep, Uploaded
<1> QED
  BY <1>1, <1>2, <1>3, <1>4, <1>5 DEF StructureStep

LEMMA Unmoved ==
    ASSUME NEW f, NEW B, NEW C, World(f, B), B \subseteq C, UNCHANGED vars
    PROVE  World(f, C)'
<1>1. After(f, B, f, C)
  BY NoNewKey DEF vars, counters
<1>2. LocalGood(f, C)' /\ RemoteGood(f, C)' /\ JobsGood(f, C)' /\ SyncsGood(f, C)'
  BY <1>1, Stays DEF vars
<1> QED
  BY <1>2 DEF World, Simple, Counted, vars, counters

LEMMA StartOf ==
    ASSUME NEW d \in Daemon, StartSound(d), start[d].pc \in Phase
    PROVE  start[d] \in Starting
  BY DEF StartSound, Down, Phase

\* The locations of the file are found by their ids.
LEMMA FileLocationIsOne ==
    ASSUME NEW f, NEW B, World(f, B), NEW d \in Daemon, StartSound(d),
           start[d].pc \in Phase \ {"locations"}, NEW s \in Slug
    PROVE  /\ FileLocation(d, s) \in local[d].locations
           /\ FileLocation(d, s) \in Location
           /\ FileLocation(d, s).id = start[d].ids[s]
<1>1. start[d].ids[s] \in Ids(local[d].locations)
  BY StartOf DEF StartSound, Located, Placed
<1>2. \E l \in local[d].locations : l.id = start[d].ids[s]
  BY <1>1 DEF Ids
<1>3. local[d].locations \in SUBSET Location
  BY Parts DEF Good, GoodLocations
<1> QED
  BY <1>2, <1>3 DEF FileLocation

LEMMA ConnectIsSimple ==
    ASSUME NEW f, NEW B, World(f, B), NEW d \in Daemon, Connect(d)
    PROVE  client' \in [Daemon -> Server \cup {NoServer}]
<1>1. ClientFor(local[d].locations) \in Server \cup {NoServer}
  BY Parts, ClientIsServer DEF Good, GoodLocations
<1> QED
  BY <1>1 DEF World, Simple, Connect

LEMMA StartSteps ==
    ASSUME NEW f, NEW B, NEW C, World(f, B), B \subseteq C, NEW d \in Daemon,
           \/ Begin(d) \/ ProbeEnd(d) \/ Mark(d)
           \/ \E s \in Slug : KeepId(d, s)
    PROVE  World(f, C)'
<1>1. After(f, B, f, C)
  BY NoNewKey DEF Begin, ProbeEnd, Mark, KeepId, counters
<1>2. Simple'
  <2>1. Counted'
    BY Parts, CountersMove DEF Begin, ProbeEnd, Mark, KeepId, counters
  <2>2. client' \in [Daemon -> Server \cup {NoServer}]
    BY ConnectIsSimple DEF World, Simple, Begin, ProbeEnd, Mark, KeepId
  <2> QED
    BY <2>1, <2>2 DEF World, Simple, Begin, ProbeEnd, Mark, KeepId
<1>3. LocalGood(f, C)' /\ RemoteGood(f, C)' /\ JobsGood(f, C)' /\ SyncsGood(f, C)'
  BY <1>1, Stays DEF Begin, ProbeEnd, Mark, KeepId
<1> QED
  BY <1>1, <1>2, <1>3 DEF World

LEMMA AddFileLocationStep ==
    ASSUME NEW f, NEW B, NEW C, World(f, B), B \subseteq C, NEW d \in Daemon,
           NEW s \in Slug, AddFileLocation(d, s)
    PROVE  World(f, C)'
<1> DEFINE locs == local[d].locations
           l == [id |-> ids', server |-> FilePlace[s].server,
                 base |-> FilePlace[s].base, at |-> ids']
<1>1. After(f, B, f, C) /\ ids' \in Number
  BY NoNewKey DEF AddFileLocation, After, Later
<1>2. l \in Location /\ l.id = ids'
  BY <1>1, ProvisioningAssumption DEF Location, Valid, Place
<1>3. GoodLocations(locs, ids) /\ GoodLocations(locs, ids')
  BY <1>1, Parts, LaterTables DEF Good, After
<1>4. \A k \in locs : k.id # ids'
  <2>1. ids \in Nat /\ ids' = ids + 1
    BY Parts, Numbers DEF Counted, AddFileLocation, Draw
  <2>2. \A k \in locs : k.id \in Nat /\ k.id <= ids
    BY <1>3, Numbers DEF GoodLocations, Location
  <2> QED
    BY <2>1, <2>2
<1>5. ids' <= ids'
  BY <1>1, Numbers
<1>6. LocalGood(f, C)'
  <2>1. GoodLocations(locs \cup {l}, ids')
    BY <1>2, <1>3, <1>4, <1>5 DEF GoodLocations
  <2> QED
    BY <1>1, <2>1, LocationsPut DEF AddFileLocation
<1>7. Simple'
  <2>1. Counted'
    BY Parts, CountersMove DEF AddFileLocation
  <2> QED
    BY <2>1 DEF World, Simple, AddFileLocation
<1>8. RemoteGood(f, C)' /\ JobsGood(f, C)' /\ SyncsGood(f, C)'
  BY <1>1, Stays DEF AddFileLocation
<1> QED
  BY <1>1, <1>6, <1>7, <1>8 DEF World

\* An id that is taken over was drawn before.
LEMMA KnownId ==
    ASSUME NEW f, NEW B, World(f, B), NEW d \in Daemon, StartSound(d),
           At(d, "probe"), NEW s \in Slug, Known(d, s) # {}
    PROVE  First(Known(d, s)).id \in Number /\ First(Known(d, s)).id <= ids
<1>1. PICK l : l = FileLocation(d, s)
  OBVIOUS
<1>2. l \in Location
  BY <1>1, FileLocationIsOne DEF At, Phase
<1>3. PICK theirs : theirs = remote[PlaceOf(l)]
  OBVIOUS
<1>4. theirs # NoFile
  BY <1>1, <1>3 DEF Known
<1>5. Good(theirs, f, ids, B)
  BY <1>2, <1>3, <1>4, PlaceIsPlace, Parts
<1>6. Known(d, s) \subseteq theirs.locations
  BY <1>1, <1>3, <1>4 DEF Known
<1>7. First(Known(d, s)) \in theirs.locations
  <2>1. Known(d, s) \in SUBSET Location
    BY <1>5, <1>6 DEF Good, GoodLocations
  <2> QED
    BY <1>6, <2>1, FirstIsOne
<1> QED
  BY <1>5, <1>7 DEF Good, GoodLocations, Location

LEMMA AdoptIdStep ==
    ASSUME NEW f, NEW B, NEW C, World(f, B), B \subseteq C, NEW d \in Daemon,
           StartSound(d), NEW s \in Slug, AdoptId(d, s)
    PROVE  World(f, C)'
<1>1. After(f, B, f, C)
  BY NoNewKey DEF AdoptId, counters
<1>2. PICK l : l = FileLocation(d, s)
  OBVIOUS
<1>3. l \in local[d].locations /\ l \in Location
  BY <1>2, FileLocationIsOne DEF AdoptId, Item, At, Phase
<1>4. PICK id : id = First(Known(d, s)).id
  OBVIOUS
<1>5. id \in Number /\ id <= ids'
  BY <1>4, KnownId DEF AdoptId, Item, counters
<1>6. PICK rest : rest = local[d].locations \ {l}
  OBVIOUS
<1>7. GoodLocations(rest, ids')
  <2>1. GoodLocations(local[d].locations, ids')
    BY <1>1, Parts, LaterTables DEF Good, After
  <2> QED
    BY <1>6, <2>1 DEF GoodLocations
<1>8. PICK k : k = [l EXCEPT !.id = id]
  OBVIOUS
<1>9. k \in Location /\ k.id = id
  BY <1>3, <1>5, <1>8 DEF Location
<1>10. id \notin Ids(rest) => GoodLocations(rest \cup {k}, ids')
  BY <1>5, <1>7, <1>9 DEF GoodLocations, Ids
<1>11. \/ Put(d, "locations", rest)
       \/ id \notin Ids(rest) /\ Put(d, "locations", rest \cup {k})
  BY <1>2, <1>4, <1>6, <1>8 DEF AdoptId
<1>12. LocalGood(f, C)'
  BY <1>1, <1>7, <1>10, <1>11, LocationsPut
<1>13. Simple'
  BY DEF World, Simple, Counted, AdoptId, counters
<1>14. RemoteGood(f, C)' /\ JobsGood(f, C)' /\ SyncsGood(f, C)'
  BY <1>1, Stays DEF AdoptId
<1> QED
  BY <1>1, <1>12, <1>13, <1>14 DEF World

LEMMA FileSyncStep ==
    ASSUME NEW f, NEW B, NEW C, World(f, B), B \subseteq C, NEW d \in Daemon,
           StartSound(d), NEW s \in Slug, FileSync(d, s)
    PROVE  World(f, C)'
<1>1. After(f, B, f, C)
  BY NoNewKey DEF FileSync
<1>2. FileLocation(d, s) \in Location
  BY FileLocationIsOne DEF FileSync, Item, At, Phase
<1>3. SyncsGood(f, C)'
  BY <1>1, <1>2, DownloadGood, Stays DEF FileSync
<1>4. Simple'
  <2>1. Counted'
    BY Parts, CountersMove DEF FileSync
  <2> QED
    BY <2>1 DEF World, Simple, FileSync
<1>5. LocalGood(f, C)' /\ RemoteGood(f, C)' /\ JobsGood(f, C)'
  BY <1>1, Stays DEF FileSync
<1> QED
  BY <1>1, <1>3, <1>4, <1>5 DEF World

LEMMA AddFileUserStep ==
    ASSUME NEW f, NEW B, NEW C, World(f, B), B \subseteq C, NEW d \in Daemon,
           NEW k \in FileKey, AddFileUser(d, k)
    PROVE  \E g : World(g, C)'
<1>1. \E g : After(f, B, g, C) /\ LocalGood(g, C)'
  <2>1. CASE k \in Keys(local[d].users)
    <3>1. After(f, B, f, C)
      BY <2>1, NoNewKey DEF AddFileUser
    <3> QED
      BY <2>1, <3>1, Stays DEF AddFileUser
  <2>2. CASE k \notin Keys(local[d].users)
    <3>1. k \in Key \ Keys(local[d].users)
      BY <2>2, ProvisioningAssumption
    <3> QED
      BY <2>2, <3>1, UserDrawn DEF AddFileUser
  <2> QED
    BY <2>1, <2>2
<1>2. PICK g : After(f, B, g, C) /\ LocalGood(g, C)'
  BY <1>1
<1>3. Simple'
  <2>1. Counted'
    BY Parts, CountersMove DEF AddFileUser
  <2> QED
    BY <2>1 DEF World, Simple, AddFileUser
<1>4. RemoteGood(g, C)' /\ JobsGood(g, C)' /\ SyncsGood(g, C)'
  BY <1>2, Stays DEF AddFileUser
<1>5. g \in [Number -> Key \cup Number]
  BY <1>2 DEF After, Later
<1> QED
  BY <1>2, <1>3, <1>4, <1>5 DEF World

LEMMA AddFileBucketStep ==
    ASSUME NEW f, NEW B, NEW C, World(f, B), B \subseteq C, NEW d \in Daemon,
           StartSound(d), NEW b \in FileBucket, NEW r \in Request,
           AddFileBucket(d, b, r)
    PROVE  World(f, C)'
<1>1. PICK u \in local[d].users :
         CreateStart(r, d, b.name, u.id, FileLocation(d, b.slug))
  BY DEF AddFileBucket
<1>2. b.name \in BucketName /\ b.slug \in Slug
  BY ProvisioningAssumption DEF Valid
<1>3. FileLocation(d, b.slug) \in Location
  BY <1>2, FileLocationIsOne DEF AddFileBucket, Item, At, Phase
<1>4. u.id \in Number
  BY Parts DEF Good, GoodUsers, User
<1>5. After(f, B, f, C) /\ JobsGood(f, C)'
  BY <1>1, <1>2, <1>3, <1>4, BucketCreated
<1>6. Simple'
  <2>1. Counted'
    BY <1>1, Parts, CountersMove DEF AddFileBucket, CreateStart
  <2> QED
    BY <2>1 DEF World, Simple, AddFileBucket
<1>7. LocalGood(f, C)' /\ RemoteGood(f, C)' /\ SyncsGood(f, C)'
  BY <1>5, Stays DEF AddFileBucket
<1> QED
  BY <1>5, <1>6, <1>7 DEF World

LEMMA StepKeepsWorld ==
    ASSUME NEW f, NEW B, NEW C, World(f, B), Starts, B \subseteq C, Uploaded(C),
           [StartNext]_allvars
    PROVE  \E g : World(g, C)'
<1>1. ASSUME UNCHANGED vars PROVE World(f, C)'
  BY <1>1, Unmoved
<1>2. ASSUME NEW d \in Daemon, StartStep(d) PROVE \E g : World(g, C)'
  <2>1. StartSound(d)
    BY DEF Starts
  <2>2. ASSUME NEW s \in Slug,
               AddFileLocation(d, s) \/ AdoptId(d, s) \/ KeepId(d, s) \/ FileSync(d, s)
        PROVE  World(f, C)'
    BY <2>1, <2>2, AddFileLocationStep, AdoptIdStep, StartSteps, FileSyncStep
  <2>3. ASSUME NEW b \in FileBucket, NEW r \in Request, AddFileBucket(d, b, r)
        PROVE  World(f, C)'
    BY <2>1, <2>3, AddFileBucketStep
  <2>4. ASSUME \/ LocationsEnd(d) \/ SyncEnd(d) \/ UsersEnd(d) \/ FileBucketEnd(d)
               \/ \E b \in FileBucket : SkipFileBucket(d, b)
        PROVE  World(f, C)'
    BY <1>1, <2>4 DEF LocationsEnd, SyncEnd, UsersEnd, FileBucketEnd, SkipFileBucket
  <2>5. ASSUME Begin(d) \/ ProbeEnd(d) \/ Mark(d) PROVE World(f, C)'
    BY <2>5, StartSteps
  <2>6. ASSUME NEW k \in FileKey, AddFileUser(d, k) PROVE \E g : World(g, C)'
    BY <2>6, AddFileUserStep
  <2> QED
    BY <1>2, <2>2, <2>3, <2>4, <2>5, <2>6 DEF StartStep
<1>3. ASSUME NEW d \in Daemon, StopAll(d) PROVE World(f, C)'
  BY <1>3, StopStep DEF StopAll
<1>4. ASSUME StructureStep PROVE \E g : World(g, C)'
  BY <1>4, StructureKeepsWorld
<1> QED
  BY <1>1, <1>2, <1>3, <1>4 DEF StartNext, allvars

-----------------------------------------------------------------------------
(***************************************************************************)
(* A start keeps what it has done                                          *)
(***************************************************************************)

\* Nothing goes away that a start asks for.
Grown(d) ==
    /\ Ids(local[d].locations) \subseteq Ids(local'[d].locations)
    /\ Keys(local[d].users) \subseteq Keys(local'[d].users)
    /\ Names(local[d].buckets) \subseteq Names(local'[d].buckets)

QuietJobs(d) == \A r \in Request : job[r] # Idle /\ job[r].d = d => job[r].pc \in Quiet

LEMMA SoundStays ==
    ASSUME NEW d \in Daemon, StartSound(d), start'[d] = start[d],
           d \in up' <=> d \in up,
           d \notin up => Grown(d) /\ QuietJobs(d)'
    PROVE  StartSound(d)'
<1>1. start[d] \in Starting => d \notin up
  BY DEF StartSound, Starting, Phase
<1>2. start[d] \in Starting =>
         Located(start[d], local'[d].locations) /\ Applied(start[d], local'[d])
  BY <1>1 DEF StartSound, Located, Applied, Grown
<1> QED
  BY <1>2 DEF StartSound, QuietJobs

LEMMA Elsewhere ==
    ASSUME NEW f, NEW B, World(f, B), NEW d \in Daemon, NEW table, NEW rows,
           Put(d, table, rows), NEW e \in Daemon, e # d
    PROVE  local'[e] = local[e]
  BY DEF World, LocalGood, Put

LEMMA PutGrows ==
    ASSUME NEW f, NEW B, World(f, B), NEW d \in Daemon, NEW rows,
           \/ Put(d, "locations", local[d].locations \cup rows)
           \/ Put(d, "users", local[d].users \cup rows)
           \/ Put(d, "buckets", local[d].buckets \cup rows),
           NEW e \in Daemon
    PROVE  Grown(e)
<1>1. CASE e # d
  BY <1>1, Elsewhere DEF Grown
<1>2. CASE e = d
  <2>1. \/ local' = [local EXCEPT ![d] = [locations |-> local[d].locations \cup rows,
                             users |-> local[d].users, buckets |-> local[d].buckets]]
        \/ local' = [local EXCEPT ![d] = [locations |-> local[d].locations,
                             users |-> local[d].users \cup rows,
                             buckets |-> local[d].buckets]]
        \/ local' = [local EXCEPT ![d] = [locations |-> local[d].locations,
                             users |-> local[d].users,
                             buckets |-> local[d].buckets \cup rows]]
    BY PutParts
  <2>2. /\ local[d].locations \subseteq local'[d].locations
        /\ local[d].users \subseteq local'[d].users
        /\ local[d].buckets \subseteq local'[d].buckets
    BY <2>1 DEF World, LocalGood
  <2> QED
    BY <1>2, <2>2 DEF Grown, Ids, Keys, Names
<1> QED
  BY <1>1, <1>2

LEMMA MergesGrow ==
    ASSUME NEW f, NEW B, World(f, B), NEW d \in Daemon, MergeStep(d),
           NEW e \in Daemon
    PROVE  Grown(e)
<1>1. ASSUME MergeLocations(d) \/ MergeUsers(d) PROVE Grown(e)
  BY <1>1, PutGrows DEF MergeLocations, MergeUsers
<1>2. ASSUME MergeBuckets(d) PROVE Grown(e)
  <2>1. PICK rows :
           /\ Put(d, "buckets", rows)
           /\ \A b \in local[d].buckets : \E c \in rows : c.id = b.id /\ c.name = b.name
    BY <1>2, MergeBucketsRows DEF BucketsMerged
  <2>2. CASE e # d
    BY <2>1, <2>2, Elsewhere DEF Grown
  <2>3. CASE e = d
    <3>1. /\ local'[d].locations = local[d].locations
          /\ local'[d].users = local[d].users
          /\ local'[d].buckets = rows
      BY <2>1, PutParts DEF World, LocalGood
    <3> QED
      BY <2>1, <2>3, <3>1 DEF Grown, Names
  <2> QED
    BY <2>2, <2>3
<1>3. ASSUME SyncFails(d) PROVE Grown(e)
  BY <1>3 DEF SyncFails, Grown
<1> QED
  BY <1>1, <1>2, <1>3 DEF MergeStep

LEMMA ContinueOne ==
    ASSUME NEW f, NEW B, World(f, B), NEW r \in Request, NEW j, Continue(r, j)
    PROVE  job'[r] = j /\ \A q \in Request : q # r => job'[q] = job[q]
<1>1. job = [q \in Request |-> job[q]]
  BY DEF World, JobsGood
<1> QED
  BY <1>1 DEF Continue

\* What a request begins with: on a daemon that serves, it changes nothing else.
LEMMA RequestBegins ==
    ASSUME NEW r \in Request, NEW d \in Daemon, RequestStep(r, d)
    PROVE  /\ d \in up
           /\ UNCHANGED local \/ \E rows : Put(d, "users", rows)
           /\ \E j : Continue(r, j) /\ (j.d = d)
<1> USE DEF Accept, Flushing
<1>1. StopFlush(r, d) \/ NewUser(r, d) =>
         /\ d \in up
         /\ UNCHANGED local \/ \E rows : Put(d, "users", rows)
         /\ \E j : Continue(r, j) /\ (j.d = d)
  BY DEF StopFlush, NewUser
<1>2. ASSUME NEW u, DeleteUser(r, d, u) \/ \E c \in Change : ReadUser(r, d, u, c)
      PROVE  /\ d \in up
             /\ UNCHANGED local \/ \E rows : Put(d, "users", rows)
             /\ \E j : Continue(r, j) /\ (j.d = d)
  <2>1. ASSUME DeleteUser(r, d, u)
        PROVE  /\ d \in up /\ \E rows : Put(d, "users", rows)
               /\ \E j : Continue(r, j) /\ (j.d = d)
    BY <2>1 DEF DeleteUser
  <2>2. ASSUME NEW c \in Change, ReadUser(r, d, u, c)
        PROVE  d \in up /\ UNCHANGED local /\ \E j : Continue(r, j) /\ (j.d = d)
    BY <2>2 DEF ReadUser
  <2> QED
    BY <1>2, <2>1, <2>2
<1>3. ASSUME NEW name, NEW owner, NEW l, CreateBucket(r, d, name, owner, l)
      PROVE  d \in up /\ UNCHANGED local /\ \E j : Continue(r, j) /\ (j.d = d)
  BY <1>3 DEF CreateBucket, CreateStart
<1>4. ASSUME NEW b, DeleteBucket(r, d, b)
      PROVE  d \in up /\ UNCHANGED local /\ \E j : Continue(r, j) /\ (j.d = d)
  BY <1>4 DEF DeleteBucket
<1>5. \/ StopFlush(r, d) \/ NewUser(r, d)
      \/ \E u : DeleteUser(r, d, u) \/ \E c \in Change : ReadUser(r, d, u, c)
      \/ \E name, owner, l : CreateBucket(r, d, name, owner, l)
      \/ \E b : DeleteBucket(r, d, b)
  BY DEF RequestStep, Change, WebCreateBucket, S3CreateBucket,
     AdminCreateBucket, S3DeleteBucket, WebDeleteBucket, AdminDeleteBucket
<1> QED
  BY <1>1, <1>2, <1>3, <1>4, <1>5

\* A job goes on as one of the same daemon.
LEMMA JobGoesOn ==
    ASSUME NEW f, NEW B, World(f, B), NEW r \in Request, JobStep(r)
    PROVE  /\ job[r] # Idle /\ job[r].d \in Daemon
           /\ \E j : Continue(r, j) /\ (j = Idle \/ j.d = job[r].d)
<1>1. job[r].pc \in {"save", "send", "create", "record", "delete", "unrecord"} \cup Change
  BY DEF JobStep, Save, Send, SendFails, EditUser, RegenerateSecret,
     ResetWebPassword, ToggleUser, CreateUpload, CreateUploadFails, CreateRecord,
     DeleteDatabase, DeleteRecord, Change
<1>2. job[r] # Idle /\ job[r].d \in Daemon
  BY <1>1, Parts, JobKinds DEF Change, Idle
<1>3. ASSUME Save(r) \/ Send(r) \/ SendFails(r)
      PROVE  \E j : Continue(r, j) /\ (j = Idle \/ j.d = job[r].d)
  BY <1>3 DEF Save, Send, SendFails
<1>4. ASSUME \/ EditUser(r) \/ RegenerateSecret(r) \/ ResetWebPassword(r)
             \/ ToggleUser(r) \/ DeleteRecord(r)
      PROVE  \E j : Continue(r, j) /\ (j = Idle \/ j.d = job[r].d)
  BY <1>4 DEF EditUser, RegenerateSecret, ResetWebPassword, ToggleUser,
     DeleteRecord, Flushing
<1>5. ASSUME \/ CreateUpload(r) \/ CreateUploadFails(r) \/ CreateRecord(r)
             \/ DeleteDatabase(r)
      PROVE  \E j : Continue(r, j) /\ (j = Idle \/ j.d = job[r].d)
  <2>1. job[r] \in BucketJob
    BY <1>5, Parts, JobKinds
    DEF CreateUpload, CreateUploadFails, CreateRecord, DeleteDatabase
  <2>2. \A pc : [job[r] EXCEPT !.pc = pc].d = job[r].d
    BY <2>1 DEF BucketJob
  <2>3. \/ Continue(r, [job[r] EXCEPT !.pc = "record"])
        \/ Continue(r, [job[r] EXCEPT !.pc = "unrecord"])
        \/ Continue(r, Idle) \/ Continue(r, Flushing(job[r].d))
    BY <1>5 DEF CreateUpload, CreateUploadFails, CreateRecord, DeleteDatabase
  <2>4. Flushing(job[r].d).d = job[r].d
    BY DEF Flushing
  <2> QED
    BY <2>2, <2>3, <2>4
<1> QED
  BY <1>2, <1>3, <1>4, <1>5 DEF JobStep

LEMMA QuietStep ==
    ASSUME NEW f, NEW B, World(f, B), NEW r \in Request, JobStep(r),
           job[r].pc \in Quiet, NEW e \in Daemon
    PROVE  /\ Grown(e)
           /\ \E j : Continue(r, j) /\ (j = Idle \/ j.pc \in Quiet)
<1>1. \/ Save(r) \/ Send(r) \/ SendFails(r)
      \/ CreateUpload(r) \/ CreateUploadFails(r) \/ CreateRecord(r)
  BY DEF JobStep, Quiet, EditUser, RegenerateSecret, ResetWebPassword, ToggleUser,
     DeleteDatabase, DeleteRecord
<1>2. ASSUME \/ Save(r) \/ Send(r) \/ SendFails(r) \/ CreateUpload(r)
             \/ CreateUploadFails(r)
      PROVE  Grown(e)
  BY <1>2 DEF Save, Send, SendFails, CreateUpload, CreateUploadFails, Grown
<1>3. ASSUME CreateRecord(r) PROVE Grown(e)
  <2>1. job[r].d \in Daemon
    BY JobGoesOn
  <2>2. UNCHANGED local => Grown(e)
    BY DEF Grown
  <2> QED
    BY <1>3, <2>1, <2>2, PutGrows DEF CreateRecord
<1>4. \E j : Continue(r, j) /\ (j = Idle \/ j.pc \in Quiet)
  <2>1. ASSUME Save(r) \/ Send(r) \/ SendFails(r)
        PROVE  \E j : Continue(r, j) /\ (j = Idle \/ j.pc \in Quiet)
    BY <2>1 DEF Save, Send, SendFails, Quiet
  <2>2. ASSUME CreateUpload(r) \/ CreateUploadFails(r) \/ CreateRecord(r)
        PROVE  \E j : Continue(r, j) /\ (j = Idle \/ j.pc \in Quiet)
    <3>1. job[r] \in BucketJob
      BY <2>2, Parts, JobKinds DEF CreateUpload, CreateUploadFails, CreateRecord
    <3>2. [job[r] EXCEPT !.pc = "record"].pc = "record"
      BY <3>1 DEF BucketJob
    <3>3. \/ Continue(r, [job[r] EXCEPT !.pc = "record"])
          \/ Continue(r, Idle) \/ Continue(r, Flushing(job[r].d))
      BY <2>2 DEF CreateUpload, CreateUploadFails, CreateRecord
    <3>4. Flushing(job[r].d).pc = "save"
      BY DEF Flushing
    <3> QED
      BY <3>2, <3>3, <3>4 DEF Quiet
  <2> QED
    BY <1>1, <2>1, <2>2
<1> QED
  BY <1>1, <1>2, <1>3, <1>4

LEMMA StructureUp == StructureStep => UNCHANGED up
<1>1. ASSUME NEW d \in Daemon, NEW r \in Request, RequestStep(r, d) PROVE UNCHANGED up
  BY <1>1 DEF RequestStep, StopFlush, NewUser, DeleteUser, ReadUser, CreateBucket,
     DeleteBucket, WebCreateBucket, S3CreateBucket, AdminCreateBucket,
     S3DeleteBucket, WebDeleteBucket, AdminDeleteBucket
<1>2. ASSUME NEW d \in Daemon, LocationStep(d) PROVE UNCHANGED up
  BY <1>2 DEF LocationStep, NewLocation, EditLocation, DeleteLocation, LocationRequest
<1>3. ASSUME NEW d \in Daemon, MergeStep(d) \/ \E l \in local[d].locations : SyncStart(d, l)
      PROVE  UNCHANGED up
  BY <1>3 DEF MergeStep, SyncStart, MergeLocations, MergeUsers, MergeBuckets, SyncFails
<1>4. ASSUME NEW r \in Request, JobStep(r) PROVE UNCHANGED up
  BY <1>4 DEF JobStep, Save, Send, SendFails, EditUser, RegenerateSecret,
     ResetWebPassword, ToggleUser, CreateUpload, CreateUploadFails, CreateRecord,
     DeleteDatabase, DeleteRecord
<1> QED
  BY <1>1, <1>2, <1>3, <1>4 DEF StructureStep

\* A daemon that does not serve is left alone, but for what its start does.
LEMMA StructureIsQuiet ==
    ASSUME NEW f, NEW B, World(f, B), Starts, StructureStep,
           NEW e \in Daemon, e \notin up
    PROVE  Grown(e) /\ QuietJobs(e)'
<1>0. QuietJobs(e)
  BY DEF Starts, StartSound, QuietJobs
<1>1. UNCHANGED local => Grown(e)
  BY DEF Grown
<1>2. UNCHANGED job => QuietJobs(e)'
  BY <1>0 DEF QuietJobs
<1>3. ASSUME NEW d \in Daemon, NEW r \in Request, RequestStep(r, d)
      PROVE  Grown(e) /\ QuietJobs(e)'
  <2>1. d # e
    BY <1>3, RequestBegins
  <2>2. Grown(e)
    BY <1>1, <1>3, <2>1, RequestBegins, Elsewhere DEF Grown
  <2>3. PICK j : Continue(r, j) /\ j.d = d
    BY <1>3, RequestBegins
  <2>4. QuietJobs(e)'
    BY <1>0, <2>1, <2>3, ContinueOne DEF QuietJobs
  <2> QED
    BY <2>2, <2>4
<1>4. ASSUME NEW d \in Daemon, LocationStep(d) PROVE Grown(e) /\ QuietJobs(e)'
  <2>1. d \in up /\ UNCHANGED job /\ \E rows : Put(d, "locations", rows)
    BY <1>4 DEF LocationStep, NewLocation, EditLocation, DeleteLocation,
       LocationRequest, SetLocations
  <2> QED
    BY <1>2, <2>1, Elsewhere DEF Grown
<1>5. ASSUME NEW d \in Daemon, NEW l \in local[d].locations, SyncStart(d, l)
      PROVE  Grown(e) /\ QuietJobs(e)'
  BY <1>1, <1>2, <1>5 DEF SyncStart
<1>6. ASSUME NEW d \in Daemon, MergeStep(d) PROVE Grown(e) /\ QuietJobs(e)'
  <2>1. UNCHANGED job
    BY <1>6 DEF MergeStep, MergeLocations, MergeUsers, MergeBuckets, SyncFails
  <2> QED
    BY <1>2, <1>6, <2>1, MergesGrow
<1>7. ASSUME NEW r \in Request, JobStep(r) PROVE Grown(e) /\ QuietJobs(e)'
  <2>1. job[r] # Idle /\ job[r].d \in Daemon
    BY <1>7, JobGoesOn
  <2>2. CASE job[r].d = e
    <3>1. job[r].pc \in Quiet
      BY <1>0, <2>1, <2>2 DEF QuietJobs
    <3>2. PICK j : Continue(r, j) /\ (j = Idle \/ j.pc \in Quiet)
      BY <1>7, <3>1, QuietStep
    <3>3. QuietJobs(e)'
      BY <1>0, <3>2, ContinueOne DEF QuietJobs
    <3> QED
      BY <1>7, <3>1, <3>3, QuietStep
  <2>3. CASE job[r].d # e
    <3>1. UNCHANGED local \/ \E table, rows : Put(job[r].d, table, rows)
      BY <1>7 DEF JobStep, Save, Send, SendFails, EditUser, RegenerateSecret,
         ResetWebPassword, ToggleUser, Update, CreateUpload, CreateUploadFails,
         CreateRecord, DeleteDatabase, DeleteRecord
    <3>2. Grown(e)
      BY <1>1, <2>1, <2>3, <3>1, Elsewhere DEF Grown
    <3>3. PICK j : Continue(r, j) /\ (j = Idle \/ j.d = job[r].d)
      BY <1>7, JobGoesOn
    <3>4. QuietJobs(e)'
      BY <1>0, <2>3, <3>3, ContinueOne DEF QuietJobs
    <3> QED
      BY <3>2, <3>4
  <2> QED
    BY <2>2, <2>3
<1> QED
  BY <1>3, <1>4, <1>5, <1>6, <1>7 DEF StructureStep

\* The two daemons of a step of one are independent.
LEMMA GoOne ==
    ASSUME Starts, NEW d \in Daemon, NEW s, Go(d, s)
    PROVE  /\ start' = [e \in Daemon |-> start'[e]]
           /\ start'[d] = s
           /\ \A e \in Daemon : e # d => start'[e] = start[e]
<1>1. start = [e \in Daemon |-> start[e]]
  BY DEF Starts
<1>2. start' = [e \in Daemon |-> IF e = d THEN s ELSE start[e]]
  BY <1>1 DEF Go
<1> QED
  BY <1>2

LEMMA StartGoes ==
    ASSUME NEW d, StartStep(d) \/ StopAll(d)
    PROVE  \E s : Go(d, s)
<1>1. ASSUME NEW s, AddFileLocation(d, s) \/ AdoptId(d, s) PROVE \E t : Go(d, t)
  BY <1>1 DEF AddFileLocation, AdoptId
<1>2. ASSUME NEW s, KeepId(d, s) \/ FileSync(d, s) PROVE \E t : Go(d, t)
  BY <1>2 DEF KeepId, FileSync, Done
<1>3. ASSUME NEW k, AddFileUser(d, k) \/ SkipFileBucket(d, k) PROVE \E t : Go(d, t)
  BY <1>3 DEF AddFileUser, SkipFileBucket, Done
<1>4. ASSUME NEW b, NEW r, AddFileBucket(d, b, r) PROVE \E t : Go(d, t)
  BY <1>4 DEF AddFileBucket
<1>5. ASSUME LocationsEnd(d) \/ ProbeEnd(d) \/ SyncEnd(d) \/ UsersEnd(d)
      PROVE  \E t : Go(d, t)
  BY <1>5 DEF LocationsEnd, ProbeEnd, SyncEnd, UsersEnd, Advance
<1>6. ASSUME Begin(d) \/ FileBucketEnd(d) \/ Mark(d) \/ StopAll(d) PROVE \E t : Go(d, t)
  BY <1>6 DEF Begin, FileBucketEnd, Mark, StopAll
<1> QED
  BY <1>1, <1>2, <1>3, <1>4, <1>5, <1>6 DEF StartStep

LEMMA OthersStay ==
    ASSUME NEW f, NEW B, World(f, B), Starts, NEW d \in Daemon,
           StartStep(d) \/ StopAll(d), NEW e \in Daemon, e # d
    PROVE  StartSound(e)'
<1>1. start'[e] = start[e]
  BY StartGoes, GoOne
<1>2. e \in up' <=> e \in up
  BY DEF StartStep, StopAll, Stop, Begin, AddFileLocation, AdoptId, KeepId, FileSync,
     LocationsEnd, ProbeEnd, SyncEnd, AddFileUser, UsersEnd, SkipFileBucket,
     AddFileBucket, FileBucketEnd, Mark, vars
<1>3. local'[e] = local[e]
  <2>1. UNCHANGED local \/ \E table, rows : Put(d, table, rows)
    BY DEF StartStep, StopAll, Stop, Begin, AddFileLocation, AdoptId, KeepId, FileSync,
       LocationsEnd, ProbeEnd, SyncEnd, AddFileUser, UsersEnd, SkipFileBucket,
       AddFileBucket, FileBucketEnd, Mark, vars
  <2> QED
    BY <2>1, Elsewhere
<1>4. \A r \in Request : job'[r] # Idle /\ job'[r].d = e => job'[r] = job[r]
  <2>1. ASSUME NEW b \in FileBucket, NEW r \in Request, AddFileBucket(d, b, r)
        PROVE  \A q \in Request : job'[q] # Idle /\ job'[q].d = e => job'[q] = job[q]
    <3>1. \E j : Continue(r, j) /\ j.d = d
      BY <2>1 DEF AddFileBucket, CreateStart
    <3> QED
      BY <3>1, ContinueOne
  <2>2. ASSUME StopAll(d)
        PROVE  \A q \in Request : job'[q] # Idle /\ job'[q].d = e => job'[q] = job[q]
    BY <2>2 DEF StopAll, Stop, Halt
  <2>3. UNCHANGED job \/ (\E b \in FileBucket, r \in Request : AddFileBucket(d, b, r))
           \/ StopAll(d)
    BY DEF StartStep, Begin, AddFileLocation, AdoptId, KeepId, FileSync,
       LocationsEnd, ProbeEnd, SyncEnd, AddFileUser, UsersEnd, SkipFileBucket,
       FileBucketEnd, Mark, vars
  <2> QED
    BY <2>1, <2>2, <2>3
<1>5. Grown(e) /\ (e \notin up => QuietJobs(e)')
  BY <1>3, <1>4 DEF Grown, QuietJobs, Starts, StartSound
<1>6. StartSound(e)
  BY DEF Starts
<1> QED
  BY <1>1, <1>2, <1>5, <1>6, SoundStays

LEMMA DownIsSound ==
    ASSUME NEW d \in Daemon, start'[d] = Down, d \notin up', QuietJobs(d)'
    PROVE  StartSound(d)'
  BY DEF StartSound, Down, Starting, Phase, QuietJobs

LEMMA UpIsSound ==
    ASSUME NEW d \in Daemon, start'[d] = [pc |-> "up"], d \in up'
    PROVE  StartSound(d)'
  BY DEF StartSound, Starting, Phase

LEMMA StartingIsSound ==
    ASSUME NEW d \in Daemon, start'[d] \in Starting, d \notin up', QuietJobs(d)',
           Located(start'[d], local'[d].locations), Applied(start'[d], local'[d])
    PROVE  StartSound(d)'
  BY DEF StartSound, Starting, Phase, QuietJobs

\* A step that does no more than to go on.
LEMMA GoesOn ==
    ASSUME NEW d \in Daemon, StartSound(d), start[d] \in Starting,
           start'[d] \in Starting, start'[d].ids = start[d].ids,
           start'[d].pc # "locations",
           start[d].pc = "locations" => start[d].todo = {},
           UNCHANGED <<up, local, job>>, Applied(start'[d], local[d])
    PROVE  StartSound(d)'
<1>1. d \notin up
  BY DEF StartSound, Starting, Phase
<1>2. Placed(start[d]) = Slug /\ Placed(start'[d]) = Slug
  BY DEF Placed
<1>3. Located(start'[d], local'[d].locations)
  BY <1>2 DEF StartSound, Located
<1> QED
  BY <1>1, <1>3, StartingIsSound DEF StartSound, QuietJobs

LEMMA BeginSound ==
    ASSUME NEW d \in Daemon, Starts, StartSound(d), Begin(d)
    PROVE  StartSound(d)'
<1>1. d \notin up
  BY DEF Begin, At, StartSound
<1>2. ASSUME d \in HasFile \ marked PROVE StartSound(d)'
  <2>1. PICK s : s = [pc |-> "locations", ids |-> [t \in Slug |-> 0], todo |-> Slug]
    OBVIOUS
  <2>2. start'[d] = s
    BY <1>2, <2>1, GoOne DEF Begin
  <2>3. s \in Starting
    <3>1. 0 \in Number
      BY Numbers DEF Number
    <3> QED
      BY <2>1, <3>1 DEF Starting, Phase
  <2>4. Located(s, local'[d].locations) /\ Applied(s, local'[d])
    BY <2>1 DEF Located, Placed, Applied
  <2>5. d \notin up' /\ QuietJobs(d)'
    BY <1>1, <1>2 DEF Begin, StartSound, QuietJobs
  <2> QED
    BY <2>2, <2>3, <2>4, <2>5, StartingIsSound
<1>3. ASSUME d \notin HasFile \ marked PROVE StartSound(d)'
  BY <1>3, GoOne, UpIsSound DEF Begin
<1> QED
  BY <1>2, <1>3

LEMMA AddFileLocationSound ==
    ASSUME NEW f, NEW B, World(f, B), Starts, NEW d \in Daemon, StartSound(d),
           NEW s \in Slug, AddFileLocation(d, s)
    PROVE  StartSound(d)'
<1>1. start[d] \in Starting /\ start[d].pc = "locations"
  BY StartOf DEF AddFileLocation, Item, At, Phase
<1>2. d \notin up /\ d \notin up' /\ QuietJobs(d)'
  BY <1>1 DEF AddFileLocation, StartSound, QuietJobs
<1>3. ids \in Nat /\ ids' = ids + 1 /\ ids' \in Number
  BY Parts, StructureAssumption DEF AddFileLocation, Draw, Counted, Number
<1>4. PICK l : /\ l.id = ids'
               /\ Put(d, "locations", local[d].locations \cup {l})
  BY DEF AddFileLocation
<1>5. local'[d].locations = local[d].locations \cup {l}
  BY <1>4, PutParts DEF World, LocalGood
<1>6. PICK t : t = [start[d] EXCEPT !.todo = @ \ {s}, !.ids[s] = ids']
  OBVIOUS
<1>7. start'[d] = t
  BY <1>6, GoOne DEF AddFileLocation
<1>8. /\ t \in Starting /\ t.pc = "locations" /\ t.todo = start[d].todo \ {s}
      /\ t.ids = [start[d].ids EXCEPT ![s] = ids']
  BY <1>1, <1>3, <1>6 DEF Starting
<1>9. t.ids[s] = ids' /\ \A i \in Slug \ {s} : t.ids[i] = start[d].ids[i]
  BY <1>1, <1>8 DEF Starting
<1>10. \A i \in Placed(t) \ {s} : i \in Placed(start[d]) /\ i \in Slug
  BY <1>1, <1>8 DEF Placed
<1>11. \A x \in Ids(local[d].locations) : x # ids'
  <2>1. \A k \in local[d].locations : k.id \in Nat /\ k.id <= ids
    BY Parts, Numbers DEF Good, GoodLocations, Location
  <2> QED
    BY <1>3, <2>1 DEF Ids
<1>12. ids' \in Ids(local'[d].locations)
        /\ Ids(local[d].locations) \subseteq Ids(local'[d].locations)
  BY <1>4, <1>5 DEF Ids
<1>13. Located(start[d], local[d].locations)
  BY <1>1 DEF StartSound
<1>14. Located(t, local'[d].locations)
  BY <1>9, <1>10, <1>11, <1>12, <1>13 DEF Located
<1>15. Applied(t, local'[d])
  BY <1>8 DEF Applied
<1> QED
  BY <1>2, <1>7, <1>8, <1>14, <1>15, StartingIsSound

LEMMA AdoptIdSound ==
    ASSUME NEW f, NEW B, World(f, B), Starts, NEW d \in Daemon, StartSound(d),
           NEW s \in Slug, AdoptId(d, s)
    PROVE  StartSound(d)'
<1>1. start[d] \in Starting /\ start[d].pc = "probe"
  BY StartOf DEF AdoptId, Item, At, Phase
<1>2. d \notin up /\ d \notin up' /\ QuietJobs(d)'
  BY <1>1 DEF AdoptId, StartSound, QuietJobs
<1>3. PICK l : l = FileLocation(d, s)
  OBVIOUS
<1>4. l \in local[d].locations /\ l \in Location /\ l.id = start[d].ids[s]
  BY <1>1, <1>3, FileLocationIsOne DEF Phase
<1>5. PICK id : id = First(Known(d, s)).id
  OBVIOUS
<1>6. id \in Number
  BY <1>1, <1>5, KnownId DEF AdoptId, At
<1>7. PICK rest : rest = local[d].locations \ {l}
  OBVIOUS
<1>8. PICK k : k = [l EXCEPT !.id = id]
  OBVIOUS
<1>9. k.id = id
  BY <1>4, <1>8 DEF Location
<1>10. PICK t : t = [start[d] EXCEPT !.todo = @ \ {s}, !.ids[s] = id]
  OBVIOUS
<1>11. \/ Go(d, Down)
       \/ id \notin Ids(rest) /\ Put(d, "locations", rest \cup {k}) /\ Go(d, t)
  BY <1>3, <1>5, <1>7, <1>8, <1>10 DEF AdoptId
<1>12. CASE Go(d, Down)
  BY <1>2, <1>12, GoOne, DownIsSound
<1>13. CASE id \notin Ids(rest) /\ Put(d, "locations", rest \cup {k}) /\ Go(d, t)
  <2>1. start'[d] = t
    BY <1>13, GoOne
  <2>2. /\ t \in Starting /\ t.pc = "probe"
        /\ t.ids = [start[d].ids EXCEPT ![s] = id]
    BY <1>1, <1>6, <1>10 DEF Starting
  <2>3. t.ids[s] = id /\ \A i \in Slug \ {s} : t.ids[i] = start[d].ids[i]
    BY <1>1, <2>2 DEF Starting
  <2>4. local'[d].locations = rest \cup {k}
    BY <1>13, PutParts DEF World, LocalGood
  <2>5. id \in Ids(local'[d].locations) /\ Ids(rest) \subseteq Ids(local'[d].locations)
    BY <1>9, <2>4 DEF Ids
  <2>6. Located(start[d], local[d].locations) /\ Placed(start[d]) = Slug
    BY <1>1 DEF StartSound, Placed
  <2>7. ASSUME NEW i \in Slug \ {s} PROVE start[d].ids[i] \in Ids(rest)
    <3>1. start[d].ids[i] # l.id
      BY <1>4, <2>6 DEF Located
    <3>2. \E m \in local[d].locations : m.id = start[d].ids[i]
      BY <2>6 DEF Located, Ids
    <3> QED
      BY <1>7, <3>1, <3>2 DEF Ids
  <2>8. Located(t, local'[d].locations)
    <3>1. Placed(t) = Slug
      BY <2>2 DEF Placed
    <3> QED
      BY <1>13, <2>3, <2>5, <2>6, <2>7, <3>1 DEF Located
  <2>9. Applied(t, local'[d])
    BY <2>2 DEF Applied
  <2> QED
    BY <1>2, <2>1, <2>2, <2>8, <2>9, StartingIsSound
<1> QED
  BY <1>11, <1>12, <1>13

LEMMA PhasesSound ==
    ASSUME NEW f, NEW B, World(f, B), Starts, NEW d \in Daemon, StartSound(d),
           \/ LocationsEnd(d) \/ ProbeEnd(d) \/ SyncEnd(d) \/ UsersEnd(d)
           \/ \E s \in Slug : KeepId(d, s) \/ FileSync(d, s)
           \/ \E b \in FileBucket : SkipFileBucket(d, b)
    PROVE  StartSound(d)'
<1>1. start[d].pc \in Phase
  BY DEF LocationsEnd, ProbeEnd, SyncEnd, UsersEnd, KeepId, FileSync,
     SkipFileBucket, Advance, Item, At, Phase
<1>2. start[d] \in Starting
  BY <1>1, StartOf
<1>3. UNCHANGED <<up, local, job>>
  BY DEF LocationsEnd, ProbeEnd, SyncEnd, UsersEnd, KeepId, FileSync,
     SkipFileBucket, vars
<1>4. Applied(start[d], local[d])
  BY <1>2 DEF StartSound
<1>5. ASSUME NEW pc, NEW next \in Phase \ {"locations"},
             NEW todo \in SUBSET (Slug \cup FileKey \cup FileBucket),
             Advance(d, pc, next, todo),
             Applied([pc |-> next, ids |-> start[d].ids, todo |-> todo], local[d])
      PROVE  StartSound(d)'
  <2>1. PICK t : t = [pc |-> next, ids |-> start[d].ids, todo |-> todo]
    OBVIOUS
  <2>2. start'[d] = t
    BY <1>5, <2>1, GoOne DEF Advance
  <2>3. t \in Starting
    BY <1>2, <1>5, <2>1 DEF Starting
  <2> QED
    BY <1>2, <1>3, <1>5, <2>1, <2>2, <2>3, GoesOn DEF Advance
<1>6. ASSUME NEW i, Item(d, start[d].pc, i), start[d].pc # "locations", Done(d, i),
             Applied([start[d] EXCEPT !.todo = @ \ {i}], local[d])
      PROVE  StartSound(d)'
  <2>1. PICK t : t = [start[d] EXCEPT !.todo = @ \ {i}]
    OBVIOUS
  <2>2. start'[d] = t
    BY <1>6, <2>1, GoOne DEF Done
  <2>3. t \in Starting /\ t.ids = start[d].ids /\ t.pc = start[d].pc
    BY <1>2, <2>1 DEF Starting
  <2> QED
    BY <1>2, <1>3, <1>6, <2>1, <2>2, <2>3, GoesOn
<1>7. ASSUME LocationsEnd(d) PROVE StartSound(d)'
  BY <1>5, <1>7 DEF LocationsEnd, Phase, Applied
<1>8. ASSUME ProbeEnd(d) PROVE StartSound(d)'
  BY <1>5, <1>8 DEF ProbeEnd, Phase, Applied
<1>9. ASSUME SyncEnd(d) PROVE StartSound(d)'
  BY <1>5, <1>9 DEF SyncEnd, Phase, Applied
<1>10. ASSUME UsersEnd(d) PROVE StartSound(d)'
  <2>1. start[d].pc = "users" /\ start[d].todo = {}
    BY <1>10 DEF UsersEnd, Advance, At
  <2>2. FileKey \subseteq Keys(local[d].users)
    BY <1>4, <2>1 DEF Applied
  <2>3. Applied([pc |-> "buckets", ids |-> start[d].ids, todo |-> FileBucket], local[d])
    BY <2>2 DEF Applied, Names
  <2> QED
    BY <1>5, <1>10, <2>3 DEF UsersEnd, Phase
<1>11. ASSUME NEW s \in Slug, KeepId(d, s) \/ FileSync(d, s) PROVE StartSound(d)'
  <2>1. start[d].pc \in {"probe", "sync"} /\ Item(d, start[d].pc, s) /\ Done(d, s)
    BY <1>11 DEF KeepId, FileSync, Item, At
  <2>2. [start[d] EXCEPT !.todo = @ \ {s}].pc = start[d].pc
    BY <1>2 DEF Starting
  <2>3. Applied([start[d] EXCEPT !.todo = @ \ {s}], local[d])
    BY <2>1, <2>2 DEF Applied
  <2> QED
    BY <1>6, <2>1, <2>3
<1>12. ASSUME NEW b \in FileBucket, SkipFileBucket(d, b) PROVE StartSound(d)'
  <2>1. start[d].pc = "buckets" /\ Item(d, start[d].pc, b) /\ Done(d, b)
    BY <1>12 DEF SkipFileBucket, Item, At
  <2>2. PICK t : t = [start[d] EXCEPT !.todo = @ \ {b}]
    OBVIOUS
  <2>3. t.pc = "buckets" /\ t.todo = start[d].todo \ {b}
    BY <1>2, <2>1, <2>2 DEF Starting
  <2>4. FileKey \subseteq Keys(local[d].users)
    BY <1>4, <2>1 DEF Applied
  <2>5. Names(FileBucket \ start[d].todo) \subseteq Names(local[d].buckets)
    BY <1>4, <2>1 DEF Applied
  <2>6. Names(FileBucket \ t.todo) \subseteq Names(local[d].buckets)
    BY <1>12, <2>3, <2>5 DEF Names, SkipFileBucket
  <2>7. Applied(t, local[d])
    BY <2>3, <2>4, <2>6 DEF Applied
  <2> QED
    BY <1>6, <2>1, <2>2, <2>7
<1> QED
  BY <1>7, <1>8, <1>9, <1>10, <1>11, <1>12

LEMMA AddFileUserSound ==
    ASSUME NEW f, NEW B, World(f, B), Starts, NEW d \in Daemon, StartSound(d),
           NEW k \in FileKey, AddFileUser(d, k)
    PROVE  StartSound(d)'
<1>1. start[d] \in Starting /\ start[d].pc = "users"
  BY StartOf DEF AddFileUser, Item, At, Phase
<1>2. d \notin up /\ d \notin up' /\ QuietJobs(d)'
  BY <1>1 DEF AddFileUser, StartSound, QuietJobs
<1>3. PICK t : t = [start[d] EXCEPT !.todo = @ \ {k}]
  OBVIOUS
<1>4. start'[d] = t
  BY <1>3, GoOne DEF AddFileUser, Done
<1>5. /\ t \in Starting /\ t.pc = "users" /\ t.ids = start[d].ids
      /\ t.todo = start[d].todo \ {k}
  BY <1>1, <1>3 DEF Starting
<1>6. /\ local'[d].locations = local[d].locations
      /\ Keys(local[d].users) \cup {k} \subseteq Keys(local'[d].users)
  <2>1. CASE k \in Keys(local[d].users)
    BY <2>1 DEF AddFileUser
  <2>2. CASE k \notin Keys(local[d].users)
    <3>1. PICK u : u = NewRow(k)
      OBVIOUS
    <3>2. u.key = k
      BY <3>1 DEF NewRow
    <3>3. Put(d, "users", local[d].users \cup {u})
      BY <2>2, <3>1 DEF AddFileUser
    <3>4. /\ local'[d].users = local[d].users \cup {u}
          /\ local'[d].locations = local[d].locations
      BY <3>3, PutParts DEF World, LocalGood
    <3> QED
      BY <3>2, <3>4 DEF Keys
  <2> QED
    BY <2>1, <2>2
<1>7. Located(t, local'[d].locations)
  BY <1>1, <1>5, <1>6 DEF StartSound, Located, Placed
<1>8. FileKey \ start[d].todo \subseteq Keys(local[d].users)
  BY <1>1 DEF StartSound, Applied
<1>9. Applied(t, local'[d])
  BY <1>5, <1>6, <1>8 DEF Applied
<1> QED
  BY <1>2, <1>4, <1>5, <1>7, <1>9, StartingIsSound

LEMMA AddFileBucketSound ==
    ASSUME NEW f, NEW B, World(f, B), Starts, NEW d \in Daemon, StartSound(d),
           NEW b \in FileBucket, NEW r \in Request, AddFileBucket(d, b, r)
    PROVE  StartSound(d)'
<1>1. start[d] \in Starting /\ start[d].pc = "buckets"
  BY StartOf DEF AddFileBucket, Item, At, Phase
<1>2. d \notin up /\ d \notin up'
  BY <1>1 DEF AddFileBucket, StartSound
<1>3. QuietJobs(d)'
  <2>1. PICK j : Continue(r, j) /\ j.pc = "create"
    BY DEF AddFileBucket, CreateStart
  <2> QED
    BY <1>2, <2>1, ContinueOne DEF QuietJobs, Quiet, StartSound
<1>4. PICK t : t = [start[d] EXCEPT !.pc = "creating", !.todo = @ \ {b}]
  OBVIOUS
<1>5. start'[d] = t
  BY <1>4, GoOne DEF AddFileBucket
<1>6. t \in Starting /\ t.pc = "creating" /\ t.ids = start[d].ids
  BY <1>1, <1>4 DEF Starting, Phase
<1>7. Located(t, local'[d].locations)
  BY <1>1, <1>6 DEF StartSound, Located, Placed, AddFileBucket
<1>8. Applied(t, local'[d])
  BY <1>1, <1>6 DEF StartSound, Applied, AddFileBucket
<1> QED
  BY <1>2, <1>3, <1>5, <1>6, <1>7, <1>8, StartingIsSound

LEMMA FileBucketEndSound ==
    ASSUME Starts, NEW d \in Daemon, StartSound(d), FileBucketEnd(d)
    PROVE  StartSound(d)'
<1>1. start[d] \in Starting /\ start[d].pc = "creating"
  BY StartOf DEF FileBucketEnd, At, Phase
<1>2. d \notin up /\ d \notin up' /\ QuietJobs(d)'
  BY <1>1 DEF FileBucketEnd, StartSound, QuietJobs, vars
<1>3. PICK t : t = [start[d] EXCEPT !.pc = "buckets"]
  OBVIOUS
<1>4. /\ t \in Starting /\ t.pc = "buckets" /\ t.ids = start[d].ids
      /\ t.todo = start[d].todo
  BY <1>1, <1>3 DEF Starting, Phase
<1>5. CASE /\ Go(d, t)
           /\ \A b \in FileBucket \ start[d].todo : b.name \in Names(local[d].buckets)
  <2>1. start'[d] = t
    BY <1>5, GoOne
  <2>2. FileKey \subseteq Keys(local[d].users)
    BY <1>1 DEF StartSound, Applied
  <2>3. Names(FileBucket \ start[d].todo) \subseteq Names(local[d].buckets)
    BY <1>5 DEF Names
  <2>4. Applied(t, local[d])
    BY <1>4, <2>2, <2>3 DEF Applied
  <2> QED
    BY <1>1, <1>4, <2>1, <2>4, GoesOn DEF FileBucketEnd, vars
<1>6. CASE Go(d, Down)
  BY <1>2, <1>6, GoOne, DownIsSound
<1> QED
  BY <1>3, <1>5, <1>6 DEF FileBucketEnd

LEMMA StopSound ==
    ASSUME Starts, NEW d \in Daemon, StopAll(d)
    PROVE  StartSound(d)'
<1>1. start'[d] = Down
  BY GoOne DEF StopAll
<1>2. d \notin up'
  BY DEF StopAll, Stop
<1>3. QuietJobs(d)'
  BY DEF StopAll, Stop, Halt, QuietJobs, Idle
<1> QED
  BY <1>1, <1>2, <1>3, DownIsSound

LEMMA StepKeepsStarts ==
    ASSUME NEW f, NEW B, World(f, B), Starts, [StartNext]_allvars
    PROVE  Starts'
<1>1. \A d \in Daemon : StartSound(d)
  BY DEF Starts
<1>2. ASSUME UNCHANGED allvars PROVE Starts'
  <2>1. SUFFICES ASSUME NEW d \in Daemon PROVE StartSound(d)'
    BY <1>2 DEF Starts, allvars
  <2>2. Grown(d) /\ (QuietJobs(d) => QuietJobs(d)')
    BY <1>2 DEF Grown, QuietJobs, allvars, vars
  <2>3. d \notin up => QuietJobs(d)
    BY <1>1 DEF StartSound, QuietJobs
  <2> QED
    BY <1>1, <1>2, <2>2, <2>3, SoundStays DEF allvars, vars
<1>3. ASSUME NEW d \in Daemon, StartStep(d) \/ StopAll(d) PROVE Starts'
  <2>1. StartSound(d)'
    <3>1. ASSUME Mark(d) PROVE StartSound(d)'
      BY <3>1, GoOne, UpIsSound DEF Mark
    <3>2. ASSUME NEW s \in Slug, AddFileLocation(d, s) \/ AdoptId(d, s)
          PROVE  StartSound(d)'
      BY <1>1, <3>2, AddFileLocationSound, AdoptIdSound
    <3>3. ASSUME NEW b \in FileBucket, NEW r \in Request, AddFileBucket(d, b, r)
          PROVE  StartSound(d)'
      BY <1>1, <3>3, AddFileBucketSound
    <3>4. ASSUME NEW k \in FileKey, AddFileUser(d, k) PROVE StartSound(d)'
      BY <1>1, <3>4, AddFileUserSound
    <3>5. ASSUME Begin(d) \/ FileBucketEnd(d) \/ StopAll(d) PROVE StartSound(d)'
      BY <1>1, <3>5, BeginSound, FileBucketEndSound, StopSound
    <3>6. ASSUME \/ LocationsEnd(d) \/ ProbeEnd(d) \/ SyncEnd(d) \/ UsersEnd(d)
                 \/ \E s \in Slug : KeepId(d, s) \/ FileSync(d, s)
                 \/ \E b \in FileBucket : SkipFileBucket(d, b)
          PROVE  StartSound(d)'
      BY <1>1, <3>6, PhasesSound
    <3> QED
      BY <1>3, <3>1, <3>2, <3>3, <3>4, <3>5, <3>6 DEF StartStep
  <2>2. start' = [e \in Daemon |-> start'[e]]
    BY <1>3, StartGoes, GoOne
  <2> QED
    BY <1>3, <2>1, <2>2, OthersStay DEF Starts
<1>4. ASSUME StructureStep, UNCHANGED start PROVE Starts'
  <2>1. UNCHANGED up
    BY <1>4, StructureUp
  <2>2. SUFFICES ASSUME NEW d \in Daemon PROVE StartSound(d)'
    BY <1>4 DEF Starts
  <2> QED
    BY <1>1, <1>4, <2>1, StructureIsQuiet, SoundStays
<1> QED
  BY <1>2, <1>3, <1>4 DEF StartNext

-----------------------------------------------------------------------------
(***************************************************************************)
(* Types                                                                   *)
(***************************************************************************)

WorldTyped == \E f : World(f, Number)

LEMMA InitialWorld ==
    ASSUME StartInit, NEW B
    PROVE  (\E f : World(f, B)) /\ Starts
<1>1. PICK f : f = [i \in Number |-> i]
  OBVIOUS
<1>2. f \in [Number -> Key \cup Number]
  BY <1>1
<1>3. Simple
  BY StructureAssumption DEF StartInit, Init, Simple, Counted, Number
<1>4. Good([locations |-> {}, users |-> {}, buckets |-> {}], f, ids, B)
  BY DEF Good, Tables, GoodLocations, GoodUsers, GoodBuckets
<1>5. LocalGood(f, B)
  BY <1>4 DEF StartInit, Init, LocalGood, Good
<1>6. RemoteGood(f, B)
  BY DEF StartInit, Init, RemoteGood
<1>7. JobsGood(f, B) /\ SyncsGood(f, B)
  BY DEF StartInit, Init, JobsGood, SyncsGood, GoodJob, GoodSync
<1>8. World(f, B)
  BY <1>2, <1>3, <1>5, <1>6, <1>7 DEF World
<1>9. Starts
  BY DEF StartInit, Init, Starts, StartSound, Down, Starting, Phase
<1> QED
  BY <1>8, <1>9

LEMMA WorldIsTyped == WorldTyped => TypeOK
<1> SUFFICES ASSUME NEW f, World(f, Number) PROVE TypeOK
  BY DEF WorldTyped
<1>1. ASSUME NEW d \in Daemon
      PROVE  /\ Unique(local[d].locations, LAMBDA l : l.id)
             /\ Unique(local[d].users, LAMBDA u : u.id)
             /\ Unique(local[d].users, LAMBDA u : u.key)
             /\ Unique(local[d].buckets, LAMBDA b : b.name)
  BY Parts DEF Good, GoodLocations, GoodUsers, GoodBuckets, Unique
<1>2. \A r \in Request : job[r] = Idle \/ job[r].d \in Daemon
  BY Parts, JobKinds
<1>3. \A d \in Daemon : sync[d] = Idle \/ sync[d].tables \in Tables
  BY Parts, SyncKinds DEF Good
<1>4. \A p \in Place : remote[p] = NoFile \/ remote[p] \in Tables
  BY DEF World, RemoteGood
<1>5. /\ up \subseteq Daemon /\ dbs \subseteq Place \X Number
      /\ ids \in Number /\ ops \in 0..MaxOps /\ faults \in 0..MaxFaults
      /\ \A d \in Daemon : local[d] \in Tables /\ client[d] \in Server \cup {NoServer}
  BY DEF World, Simple, Counted, LocalGood
<1> QED
  BY <1>1, <1>2, <1>3, <1>4, <1>5 DEF TypeOK

LEMMA UploadedNumbers ==
    ASSUME NEW f, NEW B, World(f, B)
    PROVE  Uploaded(Number)
<1> SUFFICES ASSUME NEW r \in Request, CreateUpload(r)
             PROVE  job[r].bucket.id \in Number
  BY DEF Uploaded
<1>1. job[r] \in BucketJob
  BY Parts, JobKinds DEF CreateUpload
<1> QED
  BY <1>1 DEF BucketJob, Bucket

LEMMA TypedIsInductive == StartSpec => [](WorldTyped /\ Starts)
<1>1. StartInit => WorldTyped /\ Starts
  BY InitialWorld DEF WorldTyped
<1>2. WorldTyped /\ Starts /\ [StartNext]_allvars => WorldTyped' /\ Starts'
  <2>1. SUFFICES ASSUME WorldTyped, Starts, [StartNext]_allvars
                 PROVE  WorldTyped' /\ Starts'
    OBVIOUS
  <2>2. PICK f : World(f, Number)
    BY <2>1 DEF WorldTyped
  <2>3. PICK g : World(g, Number)'
    BY <2>1, <2>2, UploadedNumbers, StepKeepsWorld
  <2> QED
    BY <2>1, <2>2, <2>3, StepKeepsStarts DEF WorldTyped
<1> QED
  BY <1>1, <1>2, PTL DEF StartSpec

\* Every table of every daemon keeps its types, its primary keys and its unique
\* columns, through merges with tables that other daemons have flushed and
\* changes that write back a row read long before: an id that travels between
\* daemons always comes with the key it was drawn with.
THEOREM StructureTypes == StartSpec => []TypeOK
BY TypedIsInductive, WorldIsTyped, PTL

-----------------------------------------------------------------------------
(***************************************************************************)
(* The marker file                                                         *)
(***************************************************************************)

\* The marker of a start means that the locations, users and buckets of the
\* file are all in the tables, although merges ran in between and earlier starts
\* may have been cut short.
THEOREM MarkedStarts == StartSpec => MarkedIsComplete
<1> DEFINE Complete ==
             \A d \in marked' \ marked :
                /\ FileKey \subseteq Keys(local[d].users)
                /\ Names(FileBucket) \subseteq Names(local[d].buckets)
                /\ \A s \in Slug : start[d].ids[s] \in Ids(local[d].locations)
<1>1. ASSUME Starts, [StartNext]_allvars PROVE [Complete]_allvars
  <2>1. SUFFICES ASSUME NEW d \in marked' \ marked
                 PROVE  /\ FileKey \subseteq Keys(local[d].users)
                        /\ Names(FileBucket) \subseteq Names(local[d].buckets)
                        /\ \A s \in Slug : start[d].ids[s] \in Ids(local[d].locations)
    OBVIOUS
  <2>2. d \in Daemon /\ Mark(d)
    <3>1. ASSUME NEW e \in Daemon, StartStep(e), ~Mark(e) PROVE UNCHANGED marked
      <4>1. ASSUME \/ Begin(e) \/ LocationsEnd(e) \/ ProbeEnd(e) \/ SyncEnd(e)
                   \/ UsersEnd(e) \/ FileBucketEnd(e)
            PROVE  UNCHANGED marked
        BY <4>1 DEF Begin, LocationsEnd, ProbeEnd, SyncEnd, UsersEnd, FileBucketEnd
      <4>2. ASSUME NEW s \in Slug, \/ AddFileLocation(e, s) \/ AdoptId(e, s)
                                   \/ KeepId(e, s) \/ FileSync(e, s)
            PROVE  UNCHANGED marked
        BY <4>2 DEF AddFileLocation, AdoptId, KeepId, FileSync
      <4>3. ASSUME NEW k \in FileKey, AddFileUser(e, k) PROVE UNCHANGED marked
        BY <4>3 DEF AddFileUser
      <4>4. ASSUME NEW b \in FileBucket, SkipFileBucket(e, b) PROVE UNCHANGED marked
        BY <4>4 DEF SkipFileBucket
      <4>5. ASSUME NEW b \in FileBucket, NEW r \in Request, AddFileBucket(e, b, r)
            PROVE  UNCHANGED marked
        BY <4>5 DEF AddFileBucket
      <4> QED
        BY <3>1, <4>1, <4>2, <4>3, <4>4, <4>5 DEF StartStep
    <3>2. ASSUME NEW e \in Daemon, StopAll(e) PROVE UNCHANGED marked
      BY <3>2 DEF StopAll
    <3>3. UNCHANGED allvars => UNCHANGED marked
      BY DEF allvars
    <3>4. PICK e \in Daemon : Mark(e)
      BY <1>1, <2>1, <3>1, <3>2, <3>3 DEF StartNext
    <3> QED
      BY <2>1, <3>4 DEF Mark
  <2>3. start[d].pc = "buckets" /\ start[d].todo = {}
    BY <2>2 DEF Mark, At
  <2>4. StartSound(d)
    BY <1>1, <2>2 DEF Starts
  <2>5. start[d] \in Starting
    BY <2>2, <2>3, <2>4, StartOf DEF Phase
  <2>6. Located(start[d], local[d].locations) /\ Applied(start[d], local[d])
    BY <2>4, <2>5 DEF StartSound
  <2>7. FileBucket \ start[d].todo = FileBucket /\ Placed(start[d]) = Slug
    BY <2>3 DEF Placed
  <2> QED
    BY <2>3, <2>6, <2>7 DEF Located, Applied
<1> QED
  BY <1>1, TypedIsInductive, PTL DEF StartSpec, MarkedIsComplete

-----------------------------------------------------------------------------
(***************************************************************************)
(* The databases of the buckets                                            *)
(***************************************************************************)

\* A database goes only with a deletion that was begun.
LEMMA DatabasesStay ==
    ASSUME [StartNext]_allvars
    PROVE  /\ doomed \subseteq doomed'
           /\ \A p, i : <<p, i>> \in dbs => <<p, i>> \in dbs' \/ i \in doomed'
<1>1. \/ dbs \subseteq dbs' /\ doomed' = doomed
      \/ \E r \in Request : DeleteDatabase(r)
  <2>1. ASSUME NEW r \in Request, JobStep(r)
        PROVE  (dbs \subseteq dbs' /\ doomed' = doomed) \/ DeleteDatabase(r)
    BY <2>1 DEF JobStep, Save, Send, SendFails, EditUser, RegenerateSecret,
       ResetWebPassword, ToggleUser, CreateUpload, CreateUploadFails, CreateRecord,
       DeleteRecord
  <2>2. ASSUME NEW d \in Daemon, NEW r \in Request, RequestStep(r, d)
        PROVE  dbs' = dbs /\ doomed' = doomed
    BY <2>2 DEF RequestStep, StopFlush, NewUser, DeleteUser, ReadUser, CreateBucket,
       DeleteBucket, WebCreateBucket, S3CreateBucket, AdminCreateBucket,
       S3DeleteBucket, WebDeleteBucket, AdminDeleteBucket
  <2>3. ASSUME NEW d \in Daemon,
               \/ LocationStep(d) \/ MergeStep(d)
               \/ \E l \in local[d].locations : SyncStart(d, l)
        PROVE  dbs' = dbs /\ doomed' = doomed
    BY <2>3 DEF LocationStep, NewLocation, EditLocation, DeleteLocation,
       LocationRequest, MergeStep, MergeLocations, MergeUsers, MergeBuckets,
       SyncFails, SyncStart
  <2>4. ASSUME NEW d \in Daemon, StartStep(d) \/ StopAll(d)
        PROVE  dbs' = dbs /\ doomed' = doomed
    BY <2>4 DEF StartStep, StopAll, Stop, Begin, AddFileLocation, AdoptId, KeepId,
       FileSync, LocationsEnd, ProbeEnd, SyncEnd, AddFileUser, UsersEnd,
       SkipFileBucket, AddFileBucket, FileBucketEnd, Mark, vars
  <2> QED
    BY <2>1, <2>2, <2>3, <2>4 DEF StartNext, StructureStep, allvars, vars
<1>2. ASSUME NEW r \in Request, DeleteDatabase(r)
      PROVE  /\ doomed \subseteq doomed'
             /\ \A p, i : <<p, i>> \in dbs => <<p, i>> \in dbs' \/ i \in doomed'
  BY <1>2 DEF DeleteDatabase, Database
<1> QED
  BY <1>1, <1>2

\* What a job that was not there before begins with.
LEMMA NewJobs ==
    ASSUME NEW f, NEW B, World(f, B), Starts, [StartNext]_allvars, NEW r \in Request
    PROVE  \/ job'[r] = job[r]
           \/ job'[r].pc \notin {"create", "edit", "secret"}
           \/ job'[r].pc \in Change /\ job'[r].row \in local[job'[r].d].users
           \/ /\ job'[r].pc = "create"
              /\ \E d \in Daemon : \E l \in local[d].locations : job'[r].base = l.base
<1> DEFINE Fine(j) ==
             \/ j.pc \notin {"create", "edit", "secret"}
             \/ j.pc \in Change /\ j.row \in local[j.d].users
             \/ /\ j.pc = "create"
                /\ \E d \in Daemon : \E l \in local[d].locations : j.base = l.base
<1>1. ASSUME NEW q \in Request, NEW j, Continue(q, j), Fine(j)
      PROVE  job'[r] = job[r] \/ Fine(job'[r])
  <2>1. job'[q] = j /\ (r # q => job'[r] = job[r])
    BY <1>1, ContinueOne
  <2> QED
    BY <1>1, <2>1
<1>2. Fine(Idle) /\ \A d : Fine(Flushing(d))
  BY DEF Idle, Flushing
<1>3. ASSUME NEW q \in Request, NEW d \in Daemon, NEW name, NEW owner,
             NEW l \in local[d].locations, CreateStart(q, d, name, owner, l)
      PROVE  job'[r] = job[r] \/ Fine(job'[r])
  <2>1. PICK j : Continue(q, j) /\ j.pc = "create" /\ j.base = l.base
    BY <1>3 DEF CreateStart
  <2>2. Fine(j)
    BY <2>1
  <2> QED
    BY <1>1, <2>1, <2>2
<1>4. ASSUME NEW q \in Request, NEW d \in Daemon, RequestStep(q, d)
      PROVE  job'[r] = job[r] \/ Fine(job'[r])
  <2>1. ASSUME \/ StopFlush(q, d) \/ NewUser(q, d)
               \/ \E u \in local[d].users : DeleteUser(q, d, u)
        PROVE  job'[r] = job[r] \/ Fine(job'[r])
    <3>1. Continue(q, Flushing(d))
      BY <2>1 DEF StopFlush, NewUser, DeleteUser
    <3> HIDE DEF Fine
    <3> QED
      BY <1>1, <1>2, <3>1
  <2>2. ASSUME NEW u \in local[d].users, NEW change \in Change, ReadUser(q, d, u, change)
        PROVE  job'[r] = job[r] \/ Fine(job'[r])
    <3>1. PICK j : Continue(q, j) /\ j.pc = change /\ j.d = d /\ j.row = u
      BY <2>2 DEF ReadUser
    <3>2. Fine(j)
      BY <3>1
    <3> QED
      BY <1>1, <3>1, <3>2
  <2>3. ASSUME NEW b \in local[d].buckets, DeleteBucket(q, d, b)
        PROVE  job'[r] = job[r] \/ Fine(job'[r])
    <3>1. PICK j : Continue(q, j) /\ j.pc = "delete"
      BY <2>3 DEF DeleteBucket
    <3>2. Fine(j)
      BY <3>1
    <3> QED
      BY <1>1, <3>1, <3>2
  <2>4. ASSUME NEW name, NEW owner, NEW l \in local[d].locations,
               CreateBucket(q, d, name, owner, l)
        PROVE  job'[r] = job[r] \/ Fine(job'[r])
    BY <1>3, <2>4 DEF CreateBucket
  <2>5. local[d].locations # {} => First(local[d].locations) \in local[d].locations
    <3>1. local[d].locations \in SUBSET Location
      BY Parts DEF Good, GoodLocations
    <3> QED
      BY <3>1, FirstIsOne
  <2>6. \/ StopFlush(q, d) \/ NewUser(q, d)
        \/ \E u \in local[d].users : DeleteUser(q, d, u)
        \/ \E u \in local[d].users, change \in Change : ReadUser(q, d, u, change)
        \/ \E name, owner : \E l \in local[d].locations :
              CreateBucket(q, d, name, owner, l)
        \/ \E b \in local[d].buckets : DeleteBucket(q, d, b)
    BY <1>4, <2>5 DEF RequestStep, Change, WebCreateBucket, S3CreateBucket,
       AdminCreateBucket, S3DeleteBucket, WebDeleteBucket, AdminDeleteBucket
  <2> HIDE DEF Fine
  <2> QED
    BY <2>1, <2>2, <2>3, <2>4, <2>6
<1>5. ASSUME NEW q \in Request, JobStep(q) PROVE job'[r] = job[r] \/ Fine(job'[r])
  <2>1. ASSUME \/ EditUser(q) \/ RegenerateSecret(q) \/ ResetWebPassword(q)
               \/ ToggleUser(q) \/ DeleteRecord(q) \/ Send(q) \/ SendFails(q)
        PROVE  Continue(q, Idle) \/ \E d : Continue(q, Flushing(d))
    BY <2>1 DEF EditUser, RegenerateSecret, ResetWebPassword, ToggleUser,
       DeleteRecord, Send, SendFails
  <2>2. ASSUME Save(q) PROVE \E j : Continue(q, j) /\ j.pc = "send"
    BY <2>2 DEF Save
  <2>3. ASSUME \/ CreateUpload(q) \/ CreateUploadFails(q) \/ CreateRecord(q)
               \/ DeleteDatabase(q)
        PROVE  \/ Continue(q, Idle) \/ \E d : Continue(q, Flushing(d))
               \/ \E j : Continue(q, j) /\ j.pc \in {"record", "unrecord"}
    <3>1. job[q] \in BucketJob
      BY <2>3, Parts, JobKinds
      DEF CreateUpload, CreateUploadFails, CreateRecord, DeleteDatabase
    <3>2. \A pc : [job[q] EXCEPT !.pc = pc].pc = pc
      BY <3>1 DEF BucketJob
    <3>3. \/ Continue(q, Idle) \/ \E d : Continue(q, Flushing(d))
          \/ Continue(q, [job[q] EXCEPT !.pc = "record"])
          \/ Continue(q, [job[q] EXCEPT !.pc = "unrecord"])
      BY <2>3 DEF CreateUpload, CreateUploadFails, CreateRecord, DeleteDatabase
    <3> QED
      BY <3>2, <3>3
  <2>4. \A j : j.pc \in {"send", "record", "unrecord"} => Fine(j)
    OBVIOUS
  <2>5. \/ Continue(q, Idle) \/ \E d : Continue(q, Flushing(d))
        \/ \E j : Continue(q, j) /\ j.pc \in {"send", "record", "unrecord"}
    BY <1>5, <2>1, <2>2, <2>3 DEF JobStep
  <2> HIDE DEF Fine
  <2> QED
    BY <1>1, <1>2, <2>4, <2>5
<1>6. ASSUME NEW d \in Daemon, NEW b \in FileBucket, NEW q \in Request,
             AddFileBucket(d, b, q)
      PROVE  job'[r] = job[r] \/ Fine(job'[r])
  <2>1. b.slug \in Slug
    BY ProvisioningAssumption DEF Valid
  <2>2. FileLocation(d, b.slug) \in local[d].locations
    BY <1>6, <2>1, FileLocationIsOne DEF AddFileBucket, Item, At, Phase, Starts
  <2> QED
    BY <1>3, <1>6, <2>2 DEF AddFileBucket
<1>7. ASSUME NEW d \in Daemon, StopAll(d) PROVE job'[r] = job[r] \/ Fine(job'[r])
  BY <1>2, <1>7 DEF StopAll, Stop, Halt
<1>8. \/ \E q \in Request : JobStep(q) \/ \E d \in Daemon : RequestStep(q, d)
      \/ \E d \in Daemon : \/ StopAll(d)
                           \/ \E b \in FileBucket, q \in Request : AddFileBucket(d, b, q)
      \/ UNCHANGED job
  <2>1. ASSUME NEW d \in Daemon,
               \/ LocationStep(d) \/ MergeStep(d)
               \/ \E l \in local[d].locations : SyncStart(d, l)
        PROVE  UNCHANGED job
    BY <2>1 DEF LocationStep, NewLocation, EditLocation, DeleteLocation,
       LocationRequest, MergeStep, MergeLocations, MergeUsers, MergeBuckets,
       SyncFails, SyncStart
  <2>2. ASSUME NEW d \in Daemon, StartStep(d)
        PROVE  \/ UNCHANGED job
               \/ \E b \in FileBucket, q \in Request : AddFileBucket(d, b, q)
    BY <2>2 DEF StartStep, Begin, AddFileLocation, AdoptId, KeepId, FileSync,
       LocationsEnd, ProbeEnd, SyncEnd, AddFileUser, UsersEnd, SkipFileBucket,
       FileBucketEnd, Mark, vars
  <2> QED
    BY <2>1, <2>2 DEF StartNext, StructureStep, allvars, vars
<1>9. job'[r] = job[r] \/ Fine(job'[r])
  <2> HIDE DEF Fine
  <2> QED
    BY <1>4, <1>5, <1>6, <1>7, <1>8
<1> QED
  BY <1>9

Backed == {i \in Number : i \in doomed \/ \E p \in Place : <<p, i>> \in dbs}

BackedWorld == \E f, B : World(f, B) /\ B \subseteq Backed

LEMMA UploadedSomewhere ==
    ASSUME NEW f, NEW B, World(f, B), NEW C, C = Backed'
    PROVE  Uploaded(C)
<1> SUFFICES ASSUME NEW r \in Request, CreateUpload(r) PROVE job[r].bucket.id \in C
  BY DEF Uploaded
<1>1. job[r] \in BucketJob /\ client[job[r].d] # NoServer
  BY Parts, JobKinds DEF CreateUpload
<1>2. PICK p : p = [server |-> client[job[r].d], base |-> job[r].base]
  OBVIOUS
<1>3. p \in Place /\ job[r].bucket.id \in Number
  BY <1>1, <1>2 DEF World, Simple, BucketJob, Place, Bucket
<1>4. <<p, job[r].bucket.id>> \in dbs'
  BY <1>2 DEF CreateUpload, Database
<1> QED
  BY <1>3, <1>4 DEF Backed

\* No daemon ever learns of a bucket before its database was uploaded: by
\* whatever flushes and merges it came into a table, there is a database of it
\* somewhere or its deletion was begun.
THEOREM BucketsWereUploaded ==
    StartSpec => [](\A d \in Daemon : \A b \in local[d].buckets :
                       b.id \in doomed \/ \E p \in Place : <<p, b.id>> \in dbs)
<1>1. StartInit => BackedWorld /\ Starts
  <2> SUFFICES ASSUME StartInit PROVE BackedWorld /\ Starts
    OBVIOUS
  <2>1. PICK f : World(f, {})
    BY InitialWorld
  <2> QED
    BY <2>1, InitialWorld DEF BackedWorld
<1>2. BackedWorld /\ Starts /\ [StartNext]_allvars => BackedWorld' /\ Starts'
  <2> SUFFICES ASSUME BackedWorld, Starts, [StartNext]_allvars
               PROVE  BackedWorld' /\ Starts'
    OBVIOUS
  <2>1. PICK f, B : World(f, B) /\ B \subseteq Backed
    BY DEF BackedWorld
  <2>2. PICK C : C = Backed'
    OBVIOUS
  <2>3. B \subseteq C
    BY <2>1, <2>2, DatabasesStay DEF Backed
  <2>4. Uploaded(C)
    BY <2>1, <2>2, UploadedSomewhere
  <2>5. PICK g : World(g, C)'
    BY <2>1, <2>3, <2>4, StepKeepsWorld
  <2>6. BackedWorld'
    BY <2>2, <2>5 DEF BackedWorld
  <2> QED
    BY <2>1, <2>6, StepKeepsStarts
<1>3. BackedWorld => \A d \in Daemon : \A b \in local[d].buckets :
                        b.id \in doomed \/ \E p \in Place : <<p, b.id>> \in dbs
  BY Parts DEF BackedWorld, Backed, Good, GoodBuckets
<1> QED
  BY <1>1, <1>2, <1>3, PTL DEF StartSpec

\* All locations of all daemons are at place p.
AllAt(p) == \A d \in Daemon : \A l \in local[d].locations : PlaceOf(l) = p

BackedAt(p) == {i \in Number : i \in doomed \/ <<p, i>> \in dbs}

\* The buckets have their databases at p, where every client and every new
\* bucket is.
PlaceInv(p) ==
    /\ \E f, B : World(f, B) /\ B \subseteq BackedAt(p)
    /\ Starts
    /\ \A d \in Daemon : client[d] \in {p.server, NoServer}
    /\ \A r \in Request : job[r].pc = "create" => job[r].base = p.base

LEMMA ClientAtPlace ==
    ASSUME NEW p, NEW locs \in SUBSET Location, \A l \in locs : PlaceOf(l) = p
    PROVE  ClientFor(locs) \in {p.server, NoServer}
<1>1. CASE locs = {}
  BY <1>1 DEF ClientFor
<1>2. CASE locs # {}
  <2>1. First(locs) \in locs
    BY <1>2, FirstIsOne
  <2> QED
    BY <1>2, <2>1 DEF ClientFor, PlaceOf
<1> QED
  BY <1>1, <1>2

LEMMA ClientsMove ==
    ASSUME NEW f, NEW B, World(f, B), [StartNext]_allvars, NEW e \in Daemon
    PROVE  client'[e] \in {client[e], ClientFor(local[e].locations),
                           ClientFor(local'[e].locations)}
<1>1. client \in [Daemon -> Server \cup {NoServer}]
  BY DEF World, Simple
<1>2. ASSUME NEW d \in Daemon, LocationStep(d)
      PROVE  client'[e] \in {client[e], ClientFor(local'[e].locations)}
  <2>1. PICK rows : SetLocations(d, rows)
    BY <1>2 DEF LocationStep, NewLocation, EditLocation, DeleteLocation
  <2>2. local'[d].locations = rows
    BY <2>1, PutParts DEF SetLocations, World, LocalGood
  <2> QED
    BY <1>1, <2>1, <2>2 DEF SetLocations
<1>3. ASSUME NEW d \in Daemon, Begin(d) \/ ProbeEnd(d)
      PROVE  client'[e] \in {client[e], ClientFor(local[e].locations)}
  BY <1>1, <1>3 DEF Begin, ProbeEnd, Connect
<1>4. \/ UNCHANGED client
      \/ \E d \in Daemon : LocationStep(d) \/ Begin(d) \/ ProbeEnd(d)
  <2>1. ASSUME NEW r \in Request, JobStep(r) PROVE UNCHANGED client
    BY <2>1 DEF JobStep, Save, Send, SendFails, EditUser, RegenerateSecret,
       ResetWebPassword, ToggleUser, CreateUpload, CreateUploadFails, CreateRecord,
       DeleteDatabase, DeleteRecord
  <2>2. ASSUME NEW d \in Daemon, NEW r \in Request, RequestStep(r, d)
        PROVE  UNCHANGED client
    BY <2>2 DEF RequestStep, StopFlush, NewUser, DeleteUser, ReadUser, CreateBucket,
       DeleteBucket, WebCreateBucket, S3CreateBucket, AdminCreateBucket,
       S3DeleteBucket, WebDeleteBucket, AdminDeleteBucket
  <2>3. ASSUME NEW d \in Daemon,
               MergeStep(d) \/ \E l \in local[d].locations : SyncStart(d, l)
        PROVE  UNCHANGED client
    BY <2>3 DEF MergeStep, MergeLocations, MergeUsers, MergeBuckets, SyncFails, SyncStart
  <2>4. ASSUME NEW d \in Daemon, StartStep(d) \/ StopAll(d)
        PROVE  UNCHANGED client \/ Begin(d) \/ ProbeEnd(d)
    BY <2>4 DEF StartStep, StopAll, Stop, AddFileLocation, AdoptId, KeepId,
       FileSync, LocationsEnd, SyncEnd, AddFileUser, UsersEnd,
       SkipFileBucket, AddFileBucket, FileBucketEnd, Mark, vars
  <2> QED
    BY <2>1, <2>2, <2>3, <2>4 DEF StartNext, StructureStep, allvars, vars
<1> QED
  BY <1>2, <1>3, <1>4

LEMMA UploadedAtPlace ==
    ASSUME NEW p \in Place, NEW f, NEW B, World(f, B), PlaceInv(p),
           NEW C, C = BackedAt(p)'
    PROVE  Uploaded(C)
<1> SUFFICES ASSUME NEW r \in Request, CreateUpload(r) PROVE job[r].bucket.id \in C
  BY DEF Uploaded
<1>1. job[r] \in BucketJob /\ job[r].pc = "create" /\ client[job[r].d] # NoServer
  BY Parts, JobKinds DEF CreateUpload
<1>2. job[r].base = p.base /\ client[job[r].d] = p.server
  BY <1>1 DEF PlaceInv, BucketJob
<1>3. [server |-> client[job[r].d], base |-> job[r].base] = p
  BY <1>2 DEF Place
<1>4. <<p, job[r].bucket.id>> \in dbs' /\ job[r].bucket.id \in Number
  BY <1>1, <1>3 DEF CreateUpload, Database, BucketJob, Bucket
<1> QED
  BY <1>4 DEF BackedAt

LEMMA StepKeepsPlace ==
    ASSUME NEW p \in Place, PlaceInv(p), AllAt(p), AllAt(p)', [StartNext]_allvars
    PROVE  PlaceInv(p)'
<1>1. PICK f, B : World(f, B) /\ B \subseteq BackedAt(p)
  BY DEF PlaceInv
<1>2. Starts
  BY DEF PlaceInv
<1>3. PICK C : C = BackedAt(p)'
  OBVIOUS
<1>4. B \subseteq C
  BY <1>1, <1>3, DatabasesStay DEF BackedAt
<1>5. Uploaded(C)
  BY <1>1, <1>3, UploadedAtPlace
<1>6. PICK g : World(g, C)'
  BY <1>1, <1>2, <1>4, <1>5, StepKeepsWorld
<1>7. ASSUME NEW d \in Daemon PROVE client'[d] \in {p.server, NoServer}
  <2>1. local[d].locations \in SUBSET Location
    BY <1>1, Parts DEF Good, GoodLocations
  <2>2. local'[d].locations \in SUBSET Location
    BY <1>6 DEF World, LocalGood, Good, GoodLocations
  <2>3. ClientFor(local[d].locations) \in {p.server, NoServer}
    BY <2>1, ClientAtPlace DEF AllAt
  <2>4. ClientFor(local'[d].locations) \in {p.server, NoServer}
    BY <2>2, ClientAtPlace DEF AllAt
  <2> QED
    BY <1>1, <2>3, <2>4, ClientsMove DEF PlaceInv
<1>8. ASSUME NEW r \in Request, job'[r].pc = "create" PROVE job'[r].base = p.base
  <2>1. \/ job'[r] = job[r]
        \/ \E d \in Daemon : \E l \in local[d].locations : job'[r].base = l.base
    BY <1>1, <1>2, <1>8, NewJobs DEF Change
  <2>2. \A d \in Daemon : \A l \in local[d].locations : l.base = p.base
    BY DEF AllAt, PlaceOf
  <2> QED
    BY <1>8, <2>1, <2>2 DEF PlaceInv
<1>9. Starts'
  BY <1>1, <1>2, StepKeepsStarts
<1> QED
  BY <1>3, <1>6, <1>7, <1>8, <1>9 DEF PlaceInv

\* As long as all locations of all daemons are at one place, every bucket in the
\* tables of any daemon has its database where its location says, unless its
\* deletion was begun; with several places a merge may leave it elsewhere.
THEOREM BucketsHaveDatabases ==
    ASSUME NEW p \in Place
    PROVE  StartSpec /\ []AllAt(p) => []BucketHasDatabase
<1>1. StartInit => PlaceInv(p)
  <2> SUFFICES ASSUME StartInit PROVE PlaceInv(p)
    OBVIOUS
  <2>1. PICK f : World(f, {})
    BY InitialWorld
  <2> QED
    BY <2>1, InitialWorld DEF PlaceInv, StartInit, Init, Idle
<1>2. PlaceInv(p) /\ AllAt(p) /\ AllAt(p)' /\ [StartNext]_allvars => PlaceInv(p)'
  BY StepKeepsPlace
<1>3. PlaceInv(p) /\ AllAt(p) => BucketHasDatabase
  BY Parts DEF PlaceInv, AllAt, BackedAt, Good, GoodBuckets, BucketHasDatabase
<1> QED
  BY <1>1, <1>2, <1>3, PTL DEF StartSpec

-----------------------------------------------------------------------------
(***************************************************************************)
(* Secrets                                                                 *)
(***************************************************************************)

\* The user of a secret that was shown is there with it ...
RowKept(s) ==
    /\ s.d \in Daemon
    /\ s.id \in Ids(local[s.d].users)
    /\ \A u \in local[s.d].users : u.id = s.id => u.secret = s.secret

\* ... and who is about to write the whole row back has it, too.
CopiesKept(s) ==
    \A r \in Request :
        job[r].pc \in {"edit", "secret"} /\ job[r].d = s.d /\ job[r].row.id = s.id
            => job[r].row.secret = s.secret

Secrets == \A s \in shown : RowKept(s) /\ CopiesKept(s)

LEMMA CopiesStay ==
    ASSUME NEW f, NEW B, World(f, B), Starts, [StartNext]_allvars,
           NEW s, RowKept(s), CopiesKept(s)
    PROVE  CopiesKept(s)'
<1> SUFFICES ASSUME NEW r \in Request, job'[r].pc \in {"edit", "secret"},
                    job'[r].d = s.d, job'[r].row.id = s.id
             PROVE  job'[r].row.secret = s.secret
  BY DEF CopiesKept
<1>1. job'[r] = job[r] \/ job'[r].row \in local[job'[r].d].users
  BY NewJobs
<1> QED
  BY <1>1 DEF RowKept, CopiesKept

\* New rows have new ids.
LEMMA RowsAdded ==
    ASSUME NEW s, RowKept(s), NEW rows,
           local'[s.d].users = local[s.d].users \cup rows,
           \A u \in rows : u.id \notin Ids(local[s.d].users)
    PROVE  RowKept(s)'
  BY DEF RowKept, Ids

LEMMA RowsStay ==
    ASSUME NEW s, RowKept(s), local'[s.d].users = local[s.d].users
    PROVE  RowKept(s)'
  BY DEF RowKept

LEMMA UsersOf ==
    ASSUME NEW f, NEW B, World(f, B), NEW d \in Daemon, NEW rows,
           Put(d, "users", rows), NEW e \in Daemon
    PROVE  local'[e].users = IF e = d THEN rows ELSE local[e].users
<1>1. CASE e = d
  BY <1>1, PutParts DEF World, LocalGood
<1>2. CASE e # d
  BY <1>2, Elsewhere
<1> QED
  BY <1>1, <1>2

\* No row and no copy of one has an id that is not drawn yet.
LEMMA NextIdIsNew ==
    ASSUME NEW f, NEW B, World(f, B), Draw
    PROVE  /\ \A d \in Daemon : ids' \notin Ids(local[d].users)
           /\ \A r \in Request : job[r].pc \in Change => job[r].row.id # ids'
<1>1. ids \in Nat /\ ids' = ids + 1
  BY Parts, Numbers DEF Counted, Draw
<1>2. ASSUME NEW u, GoodUser(u, f, ids) PROVE u.id # ids'
  <2>1. u.id \in Nat /\ u.id <= ids
    BY <1>2, Numbers DEF GoodUser, User
  <2> QED
    BY <1>1, <2>1
<1>3. \A d \in Daemon : \A u \in local[d].users : u.id # ids'
  BY <1>2, Parts DEF Good, GoodUsers
<1>4. \A r \in Request : job[r].pc \in Change => job[r].row.id # ids'
  BY <1>2, Parts, JobKinds
<1> QED
  BY <1>3, <1>4 DEF Ids

LEMMA NewUserSecret ==
    ASSUME NEW f, NEW B, World(f, B), Starts, Secrets, [StartNext]_allvars,
           NEW r \in Request, NEW d \in Daemon, NewUser(r, d)
    PROVE  Secrets'
<1>1. PICK u : u = NewRow(ids')
  OBVIOUS
<1>2. u.id = ids' /\ u.secret = ids'
  BY <1>1 DEF NewRow
<1>3. Put(d, "users", local[d].users \cup {u})
  BY <1>1 DEF NewUser
<1>4. Draw
  BY DEF NewUser
<1>5. \A e \in Daemon : local'[e].users = IF e = d THEN local[d].users \cup {u}
                                          ELSE local[e].users
  BY <1>3, UsersOf
<1>6. ASSUME NEW s \in shown PROVE RowKept(s)' /\ CopiesKept(s)'
  <2>1. RowKept(s) /\ CopiesKept(s)
    BY DEF Secrets
  <2>2. s.d \in Daemon
    BY <2>1 DEF RowKept
  <2>3. CASE s.d = d
    <3>1. local'[s.d].users = local[s.d].users \cup {u}
      BY <1>5, <2>2, <2>3
    <3>2. \A v \in {u} : v.id \notin Ids(local[s.d].users)
      BY <1>2, <1>4, <2>2, NextIdIsNew
    <3>3. RowKept(s)'
      BY <2>1, <3>1, <3>2, RowsAdded
    <3> QED
      BY <2>1, <3>3, CopiesStay
  <2>4. CASE s.d # d
    <3>1. RowKept(s)'
      BY <1>5, <2>1, <2>2, <2>4, RowsStay
    <3> QED
      BY <2>1, <3>1, CopiesStay
  <2> QED
    BY <2>3, <2>4
<1>7. ASSUME NEW s, s = [d |-> d, id |-> ids', secret |-> ids']
      PROVE  RowKept(s)' /\ CopiesKept(s)'
  <2>1. s.d = d /\ s.id = ids' /\ s.secret = ids'
    BY <1>7
  <2>2. local'[d].users = local[d].users \cup {u}
    BY <1>5
  <2>3. \A v \in local[d].users : v.id # ids'
    BY <1>4, NextIdIsNew DEF Ids
  <2>4. RowKept(s)'
    BY <1>2, <2>1, <2>2, <2>3 DEF RowKept, Ids
  <2>5. CopiesKept(s)'
    <3>1. \A q \in Request : job'[q] = job[q] \/ job'[q].pc = "save"
      BY ContinueOne DEF NewUser, Flushing
    <3> QED
      BY <1>4, <2>1, <3>1, NextIdIsNew DEF CopiesKept, Change
  <2> QED
    BY <2>4, <2>5
<1>8. \A s \in shown' : s \in shown \/ s = [d |-> d, id |-> ids', secret |-> ids']
  BY DEF NewUser, Show
<1> QED
  BY <1>6, <1>7, <1>8 DEF Secrets

LEMMA DeletedUserSecret ==
    ASSUME NEW f, NEW B, World(f, B), Starts, Secrets, [StartNext]_allvars,
           NEW r \in Request, NEW d \in Daemon, NEW u \in local[d].users,
           DeleteUser(r, d, u)
    PROVE  Secrets'
<1> SUFFICES ASSUME NEW s \in shown' PROVE RowKept(s)' /\ CopiesKept(s)'
  BY DEF Secrets
<1>1. s \in shown /\ (s.d # d \/ s.id # u.id)
  BY DEF DeleteUser
<1>2. RowKept(s) /\ CopiesKept(s)
  BY <1>1 DEF Secrets
<1>3. local'[s.d].users = IF s.d = d THEN local[d].users \ {u} ELSE local[s.d].users
  BY <1>2, UsersOf DEF DeleteUser, RowKept
<1>4. RowKept(s)'
  BY <1>1, <1>2, <1>3 DEF RowKept, Ids
<1> QED
  BY <1>2, <1>4, CopiesStay

\* The rows after the change of job r: its own user, and the others.
LEMMA RowsUpdated ==
    ASSUME NEW f, NEW B, World(f, B), NEW r \in Request, job[r].d \in Daemon,
           NEW F, Put(job[r].d, "users",
                      {IF u.id = job[r].row.id THEN F[u] ELSE u :
                          u \in local[job[r].d].users}),
           \A u \in local[job[r].d].users : u.id = job[r].row.id => F[u].id = u.id,
           NEW s, RowKept(s),
           s.d = job[r].d /\ s.id = job[r].row.id =>
              \A u \in local[job[r].d].users : u.id = s.id => F[u].secret = s.secret
    PROVE  RowKept(s)'
<1> DEFINE us == local[job[r].d].users
           rows == {IF u.id = job[r].row.id THEN F[u] ELSE u : u \in us}
<1>1. CASE s.d # job[r].d
  BY <1>1, Elsewhere DEF RowKept
<1>2. CASE s.d = job[r].d
  <2>1. local'[s.d].users = rows
    BY <1>2, UsersOf
  <2>2. \A v \in rows : \E u \in us :
           /\ v.id = u.id
           /\ \/ v = u /\ u.id # job[r].row.id
              \/ v = F[u] /\ u.id = job[r].row.id
    OBVIOUS
  <2>3. \A u \in us : \E v \in rows : v.id = u.id
    OBVIOUS
  <2>4. /\ s.id \in Ids(us)
        /\ \A u \in us : u.id = s.id => u.secret = s.secret
    BY <1>2 DEF RowKept
  <2> HIDE DEF rows, us
  <2>5. s.id \in Ids(rows)
    BY <2>3, <2>4 DEF Ids
  <2>6. \A u \in us : u.id = s.id /\ s.id = job[r].row.id => F[u].secret = s.secret
    BY <1>2 DEF us
  <2>7. \A v \in rows : v.id = s.id => v.secret = s.secret
    BY <2>2, <2>4, <2>6
  <2> QED
    BY <2>1, <2>5, <2>7 DEF RowKept
<1> QED
  BY <1>1, <1>2

LEMMA ChangeSecrets ==
    ASSUME NEW f, NEW B, World(f, B), Starts, Secrets, [StartNext]_allvars,
           NEW r \in Request, EditUser(r) \/ ResetWebPassword(r) \/ ToggleUser(r)
    PROVE  Secrets'
<1> DEFINE us == local[job[r].d].users
           w == job[r].row
<1>1. job[r] \in ChangeJob
  BY Parts, JobKinds DEF EditUser, ResetWebPassword, ToggleUser, Change
<1>2. job[r].d \in Daemon
  BY <1>1 DEF ChangeJob
<1>3. us \in SUBSET User
  BY <1>2, Parts DEF Good, GoodUsers
<1> SUFFICES ASSUME NEW s \in shown PROVE RowKept(s)' /\ CopiesKept(s)'
  BY DEF Secrets, EditUser, ResetWebPassword, ToggleUser
<1>4. RowKept(s) /\ CopiesKept(s)
  BY DEF Secrets
<1>5. ASSUME EditUser(r) PROVE RowKept(s)'
  <2>1. PICK F : F = [u \in us |-> w]
    OBVIOUS
  <2>2. Put(job[r].d, "users", {IF u.id = w.id THEN F[u] ELSE u : u \in us})
    <3>1. {IF u.id = w.id THEN F[u] ELSE u : u \in us}
             = {IF u.id = w.id THEN w ELSE u : u \in us}
      BY <2>1
    <3> QED
      BY <1>5, <3>1 DEF EditUser, Update
  <2>3. \A u \in us : u.id = w.id => F[u].id = u.id
    BY <2>1
  <2>4. s.d = job[r].d /\ s.id = w.id =>
           \A u \in us : u.id = s.id => F[u].secret = s.secret
    BY <1>4, <1>5, <2>1 DEF CopiesKept, EditUser
  <2> HIDE DEF w
  <2> QED
    BY <1>2, <1>4, <2>2, <2>3, <2>4, RowsUpdated DEF w
<1>6. ASSUME ResetWebPassword(r) PROVE RowKept(s)'
  <2>1. PICK F : F = [u \in us |-> [u EXCEPT !.web = ids']]
    OBVIOUS
  <2>2. Put(job[r].d, "users", {IF u.id = w.id THEN F[u] ELSE u : u \in us})
    <3>1. {IF u.id = w.id THEN F[u] ELSE u : u \in us}
             = {IF u.id = w.id THEN [u EXCEPT !.web = ids'] ELSE u : u \in us}
      BY <2>1
    <3> QED
      BY <1>6, <3>1 DEF ResetWebPassword, Update
  <2>3. \A u \in us : F[u].id = u.id /\ F[u].secret = u.secret
    BY <1>3, <2>1 DEF User
  <2>4. s.d = job[r].d => \A u \in us : u.id = s.id => u.secret = s.secret
    BY <1>4 DEF RowKept
  <2>5. \A u \in us : u.id = w.id => F[u].id = u.id
    BY <2>3
  <2>6. s.d = job[r].d /\ s.id = w.id =>
           \A u \in us : u.id = s.id => F[u].secret = s.secret
    BY <2>3, <2>4
  <2> QED
    BY <1>2, <1>4, <2>2, <2>5, <2>6, RowsUpdated
<1>7. ASSUME ToggleUser(r) PROVE RowKept(s)'
  <2>1. PICK F : F = [u \in us |-> [u EXCEPT !.enabled = ~w.enabled]]
    OBVIOUS
  <2>2. Put(job[r].d, "users", {IF u.id = w.id THEN F[u] ELSE u : u \in us})
    <3>1. {IF u.id = w.id THEN F[u] ELSE u : u \in us}
             = {IF u.id = w.id THEN [u EXCEPT !.enabled = ~w.enabled] ELSE u : u \in us}
      BY <2>1
    <3> QED
      BY <1>7, <3>1 DEF ToggleUser, Update
  <2>3. \A u \in us : F[u].id = u.id /\ F[u].secret = u.secret
    BY <1>3, <2>1 DEF User
  <2>4. s.d = job[r].d => \A u \in us : u.id = s.id => u.secret = s.secret
    BY <1>4 DEF RowKept
  <2>5. \A u \in us : u.id = w.id => F[u].id = u.id
    BY <2>3
  <2>6. s.d = job[r].d /\ s.id = w.id =>
           \A u \in us : u.id = s.id => F[u].secret = s.secret
    BY <2>3, <2>4
  <2> QED
    BY <1>2, <1>4, <2>2, <2>5, <2>6, RowsUpdated
<1> QED
  BY <1>4, <1>5, <1>6, <1>7, CopiesStay

LEMMA RegeneratedSecret ==
    ASSUME NEW f, NEW B, World(f, B), Starts, Secrets, [StartNext]_allvars,
           NEW r \in Request, RegenerateSecret(r)
    PROVE  Secrets'
<1> DEFINE us == local[job[r].d].users
           w == job[r].row
<1>1. job[r] \in ChangeJob
  BY Parts, JobKinds DEF RegenerateSecret, Change
<1>2. job[r].d \in Daemon /\ w \in User
  BY <1>1 DEF ChangeJob
<1>3. PICK x : x = [w EXCEPT !.secret = ids']
  OBVIOUS
<1>4. x.id = w.id /\ x.secret = ids'
  BY <1>2, <1>3 DEF User
<1>5. PICK F : F = [u \in us |-> x]
  OBVIOUS
<1>6. Put(job[r].d, "users", {IF u.id = w.id THEN F[u] ELSE u : u \in us})
  <2>1. {IF u.id = w.id THEN F[u] ELSE u : u \in us}
           = {IF u.id = w.id THEN [w EXCEPT !.secret = ids'] ELSE u : u \in us}
    BY <1>3, <1>5
  <2> QED
    BY <2>1 DEF RegenerateSecret, Update
<1>7. \A u \in us : u.id = w.id => F[u].id = u.id
  BY <1>4, <1>5
<1>8. ASSUME NEW s \in shown, s.d # job[r].d \/ s.id # w.id
      PROVE  RowKept(s)' /\ CopiesKept(s)'
  <2>1. RowKept(s) /\ CopiesKept(s)
    BY DEF Secrets
  <2>2. s.d = job[r].d /\ s.id = w.id =>
           \A u \in us : u.id = s.id => F[u].secret = s.secret
    BY <1>8
  <2>3. RowKept(s)'
    BY <1>2, <1>6, <1>7, <2>1, <2>2, RowsUpdated
  <2> QED
    BY <2>1, <2>3, CopiesStay
<1>9. ASSUME ~Overlaps(r), w.id \in Ids(us),
             NEW s, s = [d |-> job[r].d, id |-> w.id, secret |-> ids']
      PROVE  RowKept(s)' /\ CopiesKept(s)'
  <2>1. s.d = job[r].d /\ s.id = w.id /\ s.secret = ids'
    BY <1>9
  <2>2. local'[s.d].users = {IF u.id = w.id THEN F[u] ELSE u : u \in us}
    BY <1>2, <1>6, <2>1, UsersOf
  <2>3. \A u \in us : F[u] = x
    BY <1>5
  <2>4. PICK v \in us : v.id = w.id
    BY <1>9 DEF Ids
  <2>5. x \in local'[s.d].users
    BY <2>2, <2>3, <2>4
  <2>6. \A u \in local'[s.d].users : u.id = s.id => u = x
    BY <2>1, <2>2, <2>3
  <2>7. RowKept(s)'
    BY <1>2, <1>4, <2>1, <2>5, <2>6 DEF RowKept, Ids
  <2>8. CopiesKept(s)'
    <3>1. SUFFICES ASSUME NEW q \in Request, job'[q].pc \in {"edit", "secret"},
                          job'[q].d = s.d, job'[q].row.id = s.id
                   PROVE  FALSE
      BY DEF CopiesKept
    <3>2. job'[r] = Idle /\ (q # r => job'[q] = job[q])
      BY ContinueOne DEF RegenerateSecret
    <3>3. q # r
      BY <3>1, <3>2 DEF Idle
    <3> QED
      BY <1>9, <2>1, <3>1, <3>2, <3>3 DEF Overlaps
  <2> QED
    BY <2>7, <2>8
<1>10. \A s \in shown' :
          \/ s \in shown /\ (s.d # job[r].d \/ s.id # w.id)
          \/ /\ ~Overlaps(r) /\ w.id \in Ids(us)
             /\ s = [d |-> job[r].d, id |-> w.id, secret |-> ids']
  BY DEF RegenerateSecret, Show
<1> QED
  BY <1>8, <1>9, <1>10 DEF Secrets

\* Rows that a merge or a start adds have ids that are not here.
LEMMA AddedSecrets ==
    ASSUME NEW f, NEW B, World(f, B), Starts, Secrets, [StartNext]_allvars,
           shown' \subseteq shown, NEW d \in Daemon, NEW rows,
           Put(d, "users", local[d].users \cup rows),
           \A u \in rows : u.id \notin Ids(local[d].users)
    PROVE  Secrets'
<1> SUFFICES ASSUME NEW s \in shown' PROVE RowKept(s)' /\ CopiesKept(s)'
  BY DEF Secrets
<1>1. RowKept(s) /\ CopiesKept(s)
  BY DEF Secrets
<1>2. local'[s.d].users = IF s.d = d THEN local[d].users \cup rows ELSE local[s.d].users
  BY <1>1, UsersOf DEF RowKept
<1>3. RowKept(s)'
  BY <1>1, <1>2, RowsAdded, RowsStay
<1> QED
  BY <1>1, <1>3, CopiesStay

LEMMA OtherSecrets ==
    ASSUME NEW f, NEW B, World(f, B), Starts, Secrets, [StartNext]_allvars,
           shown' \subseteq shown,
           \A d \in Daemon : local'[d].users = local[d].users
    PROVE  Secrets'
<1> SUFFICES ASSUME NEW s \in shown' PROVE RowKept(s)' /\ CopiesKept(s)'
  BY DEF Secrets
<1>1. RowKept(s) /\ CopiesKept(s)
  BY DEF Secrets
<1>2. RowKept(s)'
  BY <1>1, RowsStay DEF RowKept
<1> QED
  BY <1>1, <1>2, CopiesStay

LEMMA UsersUntouched ==
    ASSUME NEW f, NEW B, World(f, B),
           \/ UNCHANGED local
           \/ \E d \in Daemon : \E rows : \/ Put(d, "locations", rows)
                                         \/ Put(d, "buckets", rows)
    PROVE  \A d \in Daemon : local'[d].users = local[d].users
<1> SUFFICES ASSUME NEW e \in Daemon PROVE local'[e].users = local[e].users
  OBVIOUS
<1>1. ASSUME NEW d \in Daemon, NEW rows,
             Put(d, "locations", rows) \/ Put(d, "buckets", rows)
      PROVE  local'[e].users = local[e].users
  <2>1. CASE e = d
    BY <1>1, <2>1, PutParts DEF World, LocalGood
  <2>2. CASE e # d
    BY <1>1, <2>2, Elsewhere
  <2> QED
    BY <2>1, <2>2
<1> QED
  BY <1>1

\* The steps that leave the users alone.
LEMMA UserSteplessKinds ==
    ASSUME NEW f, NEW B, World(f, B), [StartNext]_allvars
    PROVE  \/ \E r \in Request :
                 \/ EditUser(r) \/ ResetWebPassword(r) \/ ToggleUser(r)
                 \/ RegenerateSecret(r)
                 \/ \E d \in Daemon :
                       \/ NewUser(r, d)
                       \/ \E u \in local[d].users : DeleteUser(r, d, u)
           \/ \E d \in Daemon : \/ MergeUsers(d)
                                \/ \E k \in FileKey : AddFileUser(d, k)
           \/ /\ UNCHANGED shown
              /\ \A d \in Daemon : local'[d].users = local[d].users
<1> DEFINE Untouched == /\ UNCHANGED shown
                        /\ \A d \in Daemon : local'[d].users = local[d].users
<1>1. ASSUME NEW r \in Request, JobStep(r)
      PROVE  \/ EditUser(r) \/ ResetWebPassword(r) \/ ToggleUser(r)
             \/ RegenerateSecret(r) \/ Untouched
  <2>1. job[r].d \in Daemon
    BY <1>1, JobGoesOn
  <2>2. \/ EditUser(r) \/ ResetWebPassword(r) \/ ToggleUser(r) \/ RegenerateSecret(r)
        \/ /\ UNCHANGED shown
           /\ UNCHANGED local \/ \E rows : Put(job[r].d, "buckets", rows)
    BY <1>1 DEF JobStep, Save, Send, SendFails, CreateUpload, CreateUploadFails,
       CreateRecord, DeleteDatabase, DeleteRecord
  <2> QED
    BY <2>1, <2>2, UsersUntouched
<1>2. ASSUME NEW d \in Daemon, NEW r \in Request, RequestStep(r, d)
      PROVE  \/ NewUser(r, d) \/ \E u \in local[d].users : DeleteUser(r, d, u)
             \/ Untouched
  <2>1. \/ NewUser(r, d) \/ \E u \in local[d].users : DeleteUser(r, d, u)
        \/ UNCHANGED <<shown, local>>
    BY <1>2 DEF RequestStep, StopFlush, ReadUser, CreateBucket,
       DeleteBucket, WebCreateBucket, S3CreateBucket, AdminCreateBucket,
       S3DeleteBucket, WebDeleteBucket, AdminDeleteBucket
  <2> QED
    BY <2>1
<1>3. ASSUME NEW d \in Daemon, LocationStep(d) PROVE Untouched
  <2>1. UNCHANGED shown /\ \E rows : Put(d, "locations", rows)
    BY <1>3 DEF LocationStep, NewLocation, EditLocation, DeleteLocation,
       LocationRequest, SetLocations
  <2> QED
    BY <2>1, UsersUntouched
<1>4. ASSUME NEW d \in Daemon,
             MergeStep(d) \/ \E l \in local[d].locations : SyncStart(d, l)
      PROVE  MergeUsers(d) \/ Untouched
  <2>1. \/ MergeUsers(d)
        \/ /\ UNCHANGED shown
           /\ \/ UNCHANGED local
              \/ \E rows : Put(d, "locations", rows) \/ Put(d, "buckets", rows)
    BY <1>4 DEF MergeStep, MergeLocations, MergeBuckets, SyncFails, SyncStart
  <2> QED
    BY <2>1, UsersUntouched
<1>5. ASSUME NEW d \in Daemon, StartStep(d) \/ StopAll(d)
      PROVE  Untouched \/ \E k \in FileKey : AddFileUser(d, k)
  <2>1. \/ \E k \in FileKey : AddFileUser(d, k)
        \/ /\ UNCHANGED shown
           /\ UNCHANGED local \/ \E rows : Put(d, "locations", rows)
    BY <1>5 DEF StartStep, StopAll, Stop, Begin, AddFileLocation, AdoptId, KeepId,
       FileSync, LocationsEnd, ProbeEnd, SyncEnd, UsersEnd,
       SkipFileBucket, AddFileBucket, FileBucketEnd, Mark, vars
  <2> QED
    BY <2>1, UsersUntouched
<1>6. UNCHANGED allvars => Untouched
  BY DEF allvars, vars
<1> HIDE DEF Untouched
<1>7. \/ \E r \in Request :
            \/ EditUser(r) \/ ResetWebPassword(r) \/ ToggleUser(r)
            \/ RegenerateSecret(r)
            \/ \E d \in Daemon :
                  \/ NewUser(r, d)
                  \/ \E u \in local[d].users : DeleteUser(r, d, u)
      \/ \E d \in Daemon : \/ MergeUsers(d)
                           \/ \E k \in FileKey : AddFileUser(d, k)
      \/ Untouched
  BY <1>1, <1>2, <1>3, <1>4, <1>5, <1>6 DEF StartNext, StructureStep
<1> QED
  BY <1>7 DEF Untouched

LEMMA StepKeepsSecrets ==
    ASSUME NEW f, NEW B, World(f, B), Starts, Secrets, [StartNext]_allvars
    PROVE  Secrets'
<1>1. ASSUME NEW d \in Daemon, MergeUsers(d) PROVE Secrets'
  <2>1. Put(d, "users", local[d].users \cup Added(d)) /\ shown' \subseteq shown
    BY <1>1 DEF MergeUsers, Added
  <2>2. \A u \in Added(d) : u.id \notin Ids(local[d].users)
    BY DEF Added, NewUsers
  <2> QED
    BY <2>1, <2>2, AddedSecrets
<1>2. ASSUME NEW d \in Daemon, NEW k \in FileKey, AddFileUser(d, k) PROVE Secrets'
  <2>1. CASE k \in Keys(local[d].users)
    BY <1>2, <2>1, OtherSecrets DEF AddFileUser
  <2>2. CASE k \notin Keys(local[d].users)
    <3>1. PICK u : u = NewRow(k)
      OBVIOUS
    <3>2. u.id = ids'
      BY <3>1 DEF NewRow
    <3>3. /\ Put(d, "users", local[d].users \cup {u}) /\ Draw
          /\ shown' \subseteq shown
      BY <1>2, <2>2, <3>1 DEF AddFileUser
    <3>4. PICK rows : rows = {u}
      OBVIOUS
    <3>5. \A v \in rows : v.id \notin Ids(local[d].users)
      BY <3>2, <3>3, <3>4, NextIdIsNew
    <3>6. Put(d, "users", local[d].users \cup rows)
      BY <3>3, <3>4
    <3> QED
      BY <3>3, <3>5, <3>6, AddedSecrets
  <2> QED
    BY <2>1, <2>2
<1>3. ASSUME UNCHANGED shown, \A d \in Daemon : local'[d].users = local[d].users
      PROVE  Secrets'
  BY <1>3, OtherSecrets
<1>4. ASSUME NEW r \in Request,
             \/ EditUser(r) \/ ResetWebPassword(r) \/ ToggleUser(r)
             \/ RegenerateSecret(r)
      PROVE  Secrets'
  BY <1>4, ChangeSecrets, RegeneratedSecret
<1>5. ASSUME NEW r \in Request, NEW d \in Daemon,
             NewUser(r, d) \/ \E u \in local[d].users : DeleteUser(r, d, u)
      PROVE  Secrets'
  BY <1>5, NewUserSecret, DeletedUserSecret
<1> QED
  BY <1>1, <1>2, <1>3, <1>4, <1>5, UserSteplessKinds

\* The secret shown last to the administrator is the one in the table until the
\* user is deleted or changed again: neither a merge with older rows nor a later
\* edit of the user takes it back.  Left out are secrets made while another
\* request held a copy of the row.
THEOREM SecretsWork == StartSpec => []ShownSecretWorks
<1>1. StartInit => Secrets
  BY DEF StartInit, Init, Secrets
<1>2. WorldTyped /\ Starts /\ Secrets /\ [StartNext]_allvars => Secrets'
  BY StepKeepsSecrets DEF WorldTyped
<1>3. Secrets => ShownSecretWorks
  BY DEF Secrets, RowKept, ShownSecretWorks
<1> QED
  BY <1>1, <1>2, <1>3, TypedIsInductive, PTL DEF StartSpec

=============================================================================
