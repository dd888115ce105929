# A TLA+ model of webdavs3

webdavs3 is an S3 gateway that stores objects on a WebDAV server and keeps its
metadata in SQLite databases, which are kept locally and uploaded to the same
server. This directory models its concurrent core, model-checks it on small
instances with TLC, and proves its main invariants for all instances with TLAPS.

## Inventory: the system and its parts

| Part | Code | State it keeps | Operations |
|---|---|---|---|
| Object service | `internal/object/service.go` | none of its own: rows in a bucket database, files `{base}_data/{xx}/{sha256}` on the server | Put, Get, Delete, Head, List, chunked Put and Get |
| Multipart service | `internal/object/multipart.go` | upload and part rows, part files `{base}_parts/{upload}/{n}` | Create, UploadPart, Complete, Abort, ListParts, ListUploads |
| Garbage collection | `internal/object/gc.go`, `gc` command | none | collect references of all buckets, then delete the files not referenced |
| Bucket database | `internal/meta/bucketdb.go` | one SQLite file per bucket: objects, chunks, uploads, parts | row operations, each a transaction; `SaveToFile` is `VACUUM INTO` |
| Database cache | `internal/meta/lru.go` | map, list and a lock per open database | Get, Remove, CloseAll |
| Structure database | `internal/meta/structure.go` | locations, users, buckets | row operations, `SaveToFile` |
| Statistics | `internal/meta/stats.go` | a row for each change of the usage, own or merged | AddDelta, total, merge, prune, flush |
| Repair gate | `internal/repair/manager.go` | health of each bucket, in memory | CheckWrite, MarkRepairing, MarkDegraded, MarkHealthy |
| Sync engine | `internal/sync/sync.go` | none | merge of the remote structure, restore and repair of bucket databases, flushes |
| WebDAV client | `internal/webdav/*.go` | the shared client's server; the server's files | upload with retry and verification, temporary file and rename for metadata |
| Buckets | `internal/bucket/service.go` | rows of the structure database, databases on the server | create, delete, list |
| Quota | `internal/quota/quota.go` | none: the sum of the statistics | check |
| Provisioning | `internal/provisioning` | the marker file | validate and apply a file at start, dump |
| S3 front end | `internal/s3api`, `internal/auth` | none | parse, authenticate, call the services |
| Web front ends | `internal/adminui`, `internal/webui` | sessions | change locations, users, buckets; browse, delete and rename files and folders |
| Daemon | `cmd/webdavs3/main.go` | starts everything; timers for sync and statistics; shutdown | run, gc, inspect, setup |

How they interact. Each HTTP request runs in its own goroutine and calls a
service. A service gets the bucket's database from the cache (which locks the
entry against closing, not against other requests), uploads and removes files
on the server, changes rows, and after every change uploads a snapshot of the
whole database. **No lock is held over a request**: two requests, also on one
key, interleave at every call. When the upload of metadata fails, the object
service marks the bucket as repairing, and later writes are refused. The sync
timer and the administrator run the sync engine next to the requests; it evicts
databases from the cache, replaces local files and repairs remote ones. The
daemon may stop at any moment and start again on the same cache directory.

What is hard: interleavings of requests that share files by content; snapshots
that overtake each other; failure between an upload, a row and the upload of
metadata; uploads that fail and still leave something; an eviction that waits
for readers; a sync that replaces what a request uses; restarts that forget
the repair gate; several daemons that merge each other's structure and
statistics; a start that is interrupted and begins again; a walk through pages
that change meanwhile. `PROJECT.json` lists every such hazard with its line and the
properties that cover it.

What makes each part correct: a row never names a missing file (object
service, multipart, garbage collection); an acknowledged change survives and
can be recovered from the server (object service, sync); a database in use is
never closed, and no call waits for itself (cache); a bucket that is not
healthy takes no writes and becomes healthy again (gate, sync); metadata files
on the server are never torn (upload); pages list every object once, and what
walks through them loses nothing (listing, web front end); every change is in
the usage of every daemon once (statistics), and the quota is passed by a
bounded amount (quota); a bucket that a daemon knows has its database, a
secret that was shown works, what is on the server is imported (buckets,
structure, sync); a marker means that the file was applied (provisioning).

## The modules

| Module | Code | Composed with |
|---|---|---|
| `RepairGate` | `repair/manager.go` | extended by the three modules with requests |
| `ObjectStore` | Put and Delete in `object/service.go`, the row operations of `meta/bucketdb.go` | extends `RepairGate` |
| `GarbageCollection` | the data pass of `object/gc.go`, `runGC` in `main.go` | extends `ObjectStore`: its requests run beside the command; implements `DurableMap` |
| `DurableMap` | the abstract specification of the object store | instantiated by `GarbageCollection` |
| `Multipart` | `object/multipart.go`, the chunked Put and Delete, the parts pass of `object/gc.go` | extends `RepairGate` |
| `LRUCache` | `meta/lru.go` and the threads that call it | alone |
| `LRUCacheRemove` | what was open when a sync called `Remove` | extends `LRUCache` with that history |
| `MetaSync` | `sync/sync.go` for bucket databases, shutdown and start in `main.go` | extends `RepairGate` |
| `Stats` | `meta/stats.go`, `quota/quota.go`, `syncStatsDBs` and `FlushStats` in `sync/sync.go` | alone: several daemons and their clients |
| `Structure` | `meta/structure.go`, `bucket/service.go`, the handlers of `adminui/server.go` that change it, its flush and merge in `sync/sync.go` | extended by `Provisioning` |
| `Provisioning` | `provisioning/bootstrap.go` | extends `Structure`: starts run beside another daemon's requests |
| `Listing` | List in `object/service.go` over `meta/bucketdb.go`, folders in `webui/handlers.go` | alone |
| `RetryUpload` | `webdav/retry.go` | implements `AtomicReplace` |
| `AtomicReplace` | the abstract specification of an upload of metadata | instantiated by `RetryUpload` |

`MC*` modules give TLC its symmetry sets and functions; `*Proofs` modules hold
the proofs. `PROJECT.json` maps every definition to its lines.

**ObjectStore.** `records` and `remote` are the local and the remote database
of each bucket, `dataFile` the files on the server, `op[c]` the request of
goroutine `c` with what it keeps in local variables: path, snapshot, buckets
still to count in. One step is one call that another request can observe: an
upload, a transaction, a snapshot (`VACUUM INTO`), the upload of it, the count
in one bucket, the deletion of a file. Each has a failing twin where the code
has an error path; an upload that fails may have changed the server or not, or
left a partial file. `Restart` loses requests and the gate, and keeps the
cache directory. The history variables `raced` and `crossed` remember which
paths and buckets two requests handled in an overlapping way, `acked` what was
acknowledged last.

**GarbageCollection.** The command is a process of its own with its own view
of the databases. It collects references bucket by bucket, lists files, and
deletes one after the other; each call may fail on its own. `raced` gains the
paths of Puts that wait with their row while the command runs, the window that
the comment at `main.go:509` warns of. `clean` tells whether something
disturbed the run. `Writer`, `Progress` and `Clearing` read the state of
`DurableMap` off all this: whose change of a key has no answer, how far each
request has come, and which contents somebody looks for references to. Rows
and files are the map's as they are: a Get finds the content under the key and
is sent what is in the file, which may be absent, cut short or complete.

**Multipart.** Rows of uploads, of parts and of objects with their manifests,
in one bucket; `partFile[u][n]` is the file of a part. A chunked Put is a
request with `chunked` set that makes the same calls itself and aborts when
one fails. `spoiled` remembers the uploads with two requests in each other's
way (the same part sent twice at once, a Complete beside an upload of a part
or an Abort, a Create or Complete while the gc command runs) and those where a
request stopped between its files and its rows. Different parts side by side
are not in each other's way.

**LRUCache.** A critical section of the mutex is one step; an eviction gives
the mutex up, so it is three steps. The read lock of an entry is what `outer`
and `inner` hold, the write lock what `victim` waits for. A request that counts
references holds one entry and calls Get for another, as
`maybeDeleteDataFile` does. So a request may wait for itself (it evicts what it
holds), and requests that count may wait for each other in a circle;
`Deadlocked` says which requests are in one or wait for one.

**MetaSync.** Local databases are files that outlive their name, so a request
with an open handle goes on writing to a file that was replaced. Damage is of
two kinds: `Torn` contents are no database, and every attempt to open them
fails; `Marred` ones open, take rows and are copied like others, and only the
integrity check of a repair or a download tells (an index that does not match
its table is one). Neither `OpenBucketDB` nor `FlushBucketDBs` makes that check,
so requests and the flush at shutdown upload a marred local database. A sync pass
goes from bucket to bucket, oldest first, and stops at the first error.
Uploads by requests are atomic (that is `RetryUpload`), those of the sync
engine go through a plain client and can leave half a file. Faults,
restarts and changes are bounded.

**RetryUpload.** One call is a sequence of attempts (send, verify by size) and,
for a metadata database, a rename from the temporary name. What the server did
and what the client heard are separate choices.

**Stats.** `table[d]` is `usage_delta` of daemon `d`, `remote[i]` the file
`stats-{i}.db`, `pass[d]` the files the pass of `d` has still to merge. A row
carries the file it was merged from and its number there, which together are
its unique key, and in `by` who made it and under which number, for the
properties. A daemon that loses its cache directory takes an id nobody has
and finds what it wrote under the old one as another's. A sync comes to the
statistics last (`ReachesStats`): not where the server has no `structure.db`
yet, and not where the merge of the structure or of the bucket databases
returns an error. `structure` tells the first, and `refused` has the daemons
with such an error, which comes (`Refuse`) and may go (`Accept`) or last.

**Structure and Provisioning.** `local[d]` are the three tables of daemon `d`,
`remote[p]` the `structure.db` at a place (a server with a base directory),
`dbs` the bucket databases there, `client[d]` the server behind the shared
client. A request (`job`) is a sequence of statements and calls; its flush is
a copy and an upload, each a step, so that flushes cross. A merge takes one
step per table. Ids, access keys, secrets and passwords come from one counter.
`start[d]` is the phase of `ApplyStartupProvisioning` and what it has still to
do; a stop at any step leaves the tables and, once written, the marker.
`doomed` remembers buckets whose deletion was begun, `shown` the secret the
administrator saw last, unless another change of that user was under way.

**Listing.** Keys are sequences of segments, in the order of SQLite; a store
maps keys to contents. One job walks through a listing by batches of rows
(`Scan`), pages (`TakePage`) and keys, while `Write` changes the bucket in
between; `start` and `touched` remember what was there and what others changed.
A folder as a token is the path of its marker object, `a/`, so that the next
page starts behind that object.

Each module also holds a few operators headed "Wrong variant". They are not
used by the specification: each is a plausible mistake in the code, and
`PROJECT.json` pairs it with the property that finds it.

## What the runs check

| Run | Question | Bounds |
|---|---|---|
| `store` | Does a row always name a file that is there, does what was acknowledged survive, does the gc command delete exactly what nobody names? Does it all look like a map of keys? | 2 requests at once, 3 in all, 2 buckets on one location, 2 keys, 2 contents of equal size, 1 run of gc |
| `store_dedup_race` | Is the dedup guard exact? No. | 2 at once, 3 in all |
| `lru` | Is a database closed under its user, can the mutex be held while waiting, how far is the capacity exceeded, which evictions end? | 2 requests that both count in other buckets, a sync, the shutdown, 3 buckets, 5 entries, capacity 1 |
| `upload` | Do uploads of a database look atomic to readers; is a data file whole after a success? | 2 calls each on a database and a data file, 2 attempts, a crash |
| `sync_safety` | Do acknowledged rows survive damage, repair, flush, restarts; does damage spread? | 2 requests, 2 changes, 1 sync, 2 faults, 1 restart, 3 files |
| `sync_liveness` | Is a damaged remote database repaired or given up? | 1 bucket, 2 faults, 1 restart |
| `multipart` | Does an object keep the parts it was made of; do rows of parts go with their upload; does gc leave only what is needed? | 2 requests at once, 4 in all, 1 upload of 2 parts, 2 contents, 1 run of gc |
| `stats` | Is every change counted once, in the end on every daemon whose syncs come to the statistics; how far is the quota passed? | 2 daemons with 2 and 1 clients, 3 ids, objects of size 1, quota 1, 2 uploads or deletions, 1 fault, 1 restart |
| `structure` | Does a known bucket have its database, does a shown secret work, is what is on the server imported, is the file applied when the marker says so? | 2 daemons, one with a file of a location, a user and a bucket, 2 requests at once, 2 in all, 1 server, 1 fault or restart, 6 ids |
| `provisioning_twice` | Is the file applied once? No. | 1 daemon, 1 stop |
| `structure_two_bases` | Does a merge leave buckets where they are? No. | 1 daemon, 1 server, 2 base directories |
| `listing` | Are objects listed once; what is left of a folder that was deleted or renamed; which walks end? | every set of 7 keys in 3 levels, 3 folders, 3 renames, pages of 1 and 2, 1 change by another request |

Why these bounds are enough for what they ask: the races between requests need
two of them, and a third to set the scene (a row to delete, a part to
overwrite); the guard between buckets needs two buckets that share a content;
capacity 1 makes every second Get evict, and with three buckets two requests
that count can each evict what the other holds. TLC follows entries, buckets and
requests in the order of their names only (`InOrder`): they differ in nothing
else, and a symmetry set may not be given with a liveness property. One restart and two faults let a
repair fail and be tried again. Two clients of one daemon pass the quota check
together, and a third one of another daemon makes what is merged; the quota
holds one object, which is enough to admit two side by side. The fault may be
that a sync fails before the statistics, for a while or for good, and
`structure.db` may come at any time or never. The seven
keys hold an object beside a folder of its name, a folder marker, a folder in a
folder, and two folders that differ by case; a page of one entry ends behind
every kind of entry. One fault or stop cuts a start, a creation or a flush
between any two calls; the second daemon finds what is left. Where the code's answer depends on how many
there are (requests, buckets, keys, contents), the theorems below do not
depend on the bound. `CHECK_DEADLOCK FALSE` is set where processes may end: the
shutdown of the cache, the main goroutine, finite uploads, a walk that is done,
and numbers that are used up.

Runs that end in a violation show a disagreement between the code and a
sentence of its documentation; the sentence is in the comment of the property,
the explanation in `PROJECT.json` under "findings".

Further configurations are kept to be run by hand. Each is violated, too, and
shows the limits of the properties above (where a file has several,
`-continue` finds them in one run):

| Configuration | Property | What happens |
|---|---|---|
| `ObjectStoreUploadOrder.cfg` | `FreshDaemonRecovers` | two requests upload their snapshots in the other order, and the older one stays: an acknowledged object is missing from the server (`README.md:10`) |
| `LRUCacheWaits.cfg` | `NobodyWaitsForItself` | a Delete that counts references in other buckets evicts the bucket it holds and waits for its own lock (`lru.go:68`) |
| | `NoTwoWaitForEachOther` | two of them evict what the other one holds (`lru.go:68`) |
| `LRUCacheRemove.cfg` | `RemoveClosesBucket` | Remove does not see an entry that an eviction is about to close |
| `MetaSyncFreshDaemon.cfg` | `FreshDaemonKeepsRows` | a Put on a fresh daemon uploads a database that was begun empty over the remote one (`README.md:10`) |
| `MetaSyncStuck.cfg` | `RepairingIsTemporary` | a bucket whose metadata upload failed stays in repair when the remote database is sound (`TODO.md:93`) |
| `MetaSyncLimits.cfg` | `MissingIsNotRepaired` | the check of a missing local database makes an empty one, and the repair goes on with it (`TODO.md:108`) |
| | `UploadsKeepWhole` | the flush at shutdown overwrites a remote database in place and leaves half of it (`TODO.md:28`) |
| | `OverwritesAreChecked` | a local database that opens and fails its integrity check is uploaded by a request or the flush (`TODO.md:121`) |
| `MetaSyncOtherBucket.cfg` | `EveryBucketIsRepaired` | an error in one bucket ends the pass for younger buckets |
| `MultipartLimits.cfg` | `CompletedPartsStay` | a part is sent again and fails, its cleanup removes the good file, and Complete accepts the old row |
| | `OnlyOrphansAreDeleted` | gc cannot read a manifest, goes on, and deletes the parts |
| `ListingLimits.cfg` | `ObjectsAreListedOnce` | a listing of `a/` by pages of one entry takes the folders of `A/` for its own, and skips `a/A` behind the token they give |
| | `FoldersAreListed` | folders behind the last object of a full page are in no page |
| | `OnlyFolderIsDeleted` | deleting `a/` deletes `A/b`, too |
| | `RenameToItselfKeepsObject` | a file that is renamed to its own name is deleted |
| `ListingNested.cfg` | `RenameKeepsObjects` | `a/a/` is renamed to `a/`: `a/a/a/b` is put over `a/a/b`, which is in the way and not yet moved |
| `ListingEnds.cfg` | `ListingEnds` | the token of a page of folders leads to the same folder again |
| `ProvisioningStartFails.cfg` | `StartGoesOn` | a repeated start takes over an id it has already, and fails |
| `ProvisioningBlocked.cfg` | `NeverBlocked` | two daemons that start with one file at once each make its user, and then refuse the other's |
| `StructureDeleted.cfg` | `DeletedStaysDeleted` | a sync brings back a bucket whose deletion was not flushed yet |
| `StructureTwoServers.cfg` | `AppearsWithDatabase` | a bucket at the second server gets its database at the first (`README.md:203`) |

### Fairness

Safety runs assume none. `lru` assumes that a call that can go on goes on and
that a request releases what it holds: nothing but the cache makes it wait.
`stats` and `structure` assume that a daemon that ended is started again, that
what it began goes on, and that its timers go off again and again; whether a
sync then comes to the statistics is not the timer's to say, so `UsageConverges`
has it as a premise (`<>[]ReachesStats`). `listing` assumes that a request is
worked on to its end. `EvictionEnds` and `JobEnds` leave out what the code lets
wait or run for ever: circles of requests that evict what the others hold,
listings with a delimiter, and renames of a folder into itself. `sync_liveness` and
`MetaSyncOtherBucket.cfg` assume that a running request and a running pass
proceed and that the timer starts the next pass again and again (`runDaemon`
starts it with a ticker). Calls to the server return in the end, with or
without success; the README of the repository names the exception, that
"WebDAV operations do not respect request context deadlines" (`README.md:400`),
and a server that never answers is outside these runs. There is no fairness on
restarts, faults, or the admission of requests.

## What is proved

All theorems hold for every value of the constants, under the named assumption
of each module. The proofs are checked by TLAPS, with SMT and Zenon for steps
and LS4 for the temporal conclusion.

* `ObjectStoreProofs`. `TypeCorrect`; `DedupGuardSafe` (`NoDanglingRecord`);
  `AckedRequestsDurable` (`AckedIsDurable`). Neither safety property is
  inductive. `DedupInv` adds that a Put on its way to its row has its file and
  that no bucket a Delete has counted has gained a reference since; this is why
  counting bucket by bucket without a common lock is sound off the raced paths.
  `DurableInv` adds that a request that wrote a row last finds it unchanged
  until it uploads it, and that a snapshot on its way holds everything
  acknowledged. The lemmas on single steps are stated over `Step /\ HistoryKept`
  (the history variables only grow and cover the overlaps), so that they serve
  the composition with the gc command as well. The second half of the module is
  about that composition: the same two invariants and the types with the
  command beside the requests (`CollectionTypes`, `CollectionSafe`,
  `CollectionDurable`), by `SweepInv`: off the raced paths the command has seen
  every reference of the buckets it is done with. `NoOrphanIsLeft`
  (`OrphansAreGone`), by `CleanInv`: as long as nothing disturbs the run, what
  it saw is still referenced and what it is done with is gone or was seen.
  `StoreIsDurableMap` (`ImplementsMap`): requests and command implement
  `DurableMap`, initial states and each step. In the map a request changes one
  key in one step, and a key whose change was answered is found by a daemon
  that has nothing but the server. The files are in the map as what is in store
  of each content, since their sharing shows: a Put that fails to upload sends
  the file again in place and may cut it short under every other key that has
  it, acknowledged ones too (`FailToStore`), and a content in use may be gone if
  it was put and cleared away at the same time (`Clear`). The map allows these
  two and nothing else; that a file goes in no other way needs `DedupInv` and
  `SweepInv` (`FileGoesMaps`), and what a fresh daemon finds needs
  `AckedIsDurable` (`SettledIsRecovered`). With both, uploads, transactions and
  answers are the steps of the map (`RequestMaps`), with the deletions of files,
  and the rest is stuttering. `store_dedup_race` and `ObjectStoreUploadOrder.cfg`
  show that neither `disputed` nor `mixed` can be left out of the map.
* `LRUCacheProofs`. `CacheTypes`, `SafeEviction`, `MutexNeverWaits` and
  `OvershootIsBounded`, from `CacheInv`: an entry is listed once, what is listed
  or on its way into the list is open and condemned by nobody, and what is
  found is listed. The lemmas at its head say what moving, removing and
  prepending an entry does to a list without duplicates.
* `MultipartProofs`. `MultipartTypes`, `WholeObjects` (`ObjectIsWhole`),
  `PartsOfUploads` (`PartsHaveUpload`) and `OrphansAreGone`
  (`OrphanPartsAreGone`). The invariant speaks of one upload at a time that is
  not spoiled: `RowsGood` and `ObjectsGood` are the two properties with the ids
  that may be used again, `FilesGood` says that a row tells what is in its file
  unless a request is at work on that part, `RequestsGood` what each step of a
  request relies on (a sender that its upload is in progress, a Delete that no
  other object has its upload), `Spared` what the gc command has found out. Each
  step either leaves the upload alone (`ElsewhereKeeps`, `QuietKeeps`), or one
  of the requests that it would disturb is in its way, which spoils the upload.
  `UsageInv` bounds the usage by the number of requests that may still change
  it, each once.
* `RetryUploadProofs`. `UploadTypes`, `SuccessIsWhole`, and `UploadIsAtomic`:
  `RetryUpload` implements `AtomicReplace`, initial states and each step, under
  the mapping that hides attempts and the temporary file. The invariant needed
  is that between verification and rename the temporary file is whole.

* `StatsProofs`. `TypesCorrect`, `CountedOnceHolds` (`CountedOnce`) and
  `OvershootIsBounded` (`OvershootBounded`). A table that counts a change twice
  could only come from a file that holds it twice, from a merge of the daemon's
  own file, or from a number that is used again. `UsageInv` rules them out: own
  rows are numbered from one, a row tells the file it came from, which is never
  the daemon's own, and a file has the rows of its id only. `LoadInv` bounds the
  checked rows of the daemon, its negative rows and the checked uploads under way
  together: an upload is let in beside all that the table has, and all the table
  lacks is one upload of every other client (`LoadOfChecked`); a finished upload
  turns into a row of its size (`LoadOfEnd`), and rows of other daemons only
  count where they are negative. The sums are folds of the community modules,
  which take the rows in an order of their own. `Sum` is a sum that does not
  depend on it (`FoldsAgree`, `SumSteps`), and `BytesAreSum` and `InFlightAreSum`
  say that the folds are that sum; these are inductions over the subsets of a
  finite set, which `SubsetInduction` does by the smallest counterexample.
  The theorem assumes `Stocked`: `Sizes` has a maximum, without which there is
  no largest upload to bound by (the code has no limit of its own), and every
  daemon has a client, without which there is nobody to go beyond the quota and
  the bound would be below it.

* `MetaSyncProofs`. `SyncTypes`, `AckedRowsAreKept` (`AckedIsKept`) and
  `DamageDoesNotSpread` (`DamageIsContained`), for any number of requests, passes,
  buckets, rows, faults and restarts. `AckedIsKept` is not inductive: a snapshot
  that is about to be uploaded, or a download that is about to take the place
  of a local database, could lack an acknowledged row. `Good` adds that every
  such copy holds them (`ChangeGood`, `PassGood`, `FlushGood`) and that the
  cache has the file open that is under the name (`CacheLinked`); `Sound`, which
  needs no excuse, that what is about to take a local name was checked, that a
  damaged database is open only under its own name (`Opened`), and that a damaged
  copy is on its way only while the local database is damaged itself; damage of
  a local one does not go away while the daemon runs (`DamageStays`), so an upload
  carries damage from there or not at all (`UploadsCarryDamage`). Each step
  `Advances`: databases only grow, and a bucket that is good stays good unless
  the step makes it exposed or overtaken or two of its uploads were under way.
  The last is needed at one place, where an upload acknowledges a row that
  another snapshot may lack (`ChangeUploadAdvances`). A daemon that starts
  again keeps a file or gives it up (`Restarts`). The module assumes at least
  one bucket, since the record of a pass holds one before it has got to any.

* `ProvisioningProofs`. The structure databases of any number of daemons and
  places, with starts beside requests, passes, flushes and stops:
  `StructureTypes`, `MarkedStarts` (`MarkedIsComplete`), `BucketsWereUploaded`,
  `BucketsHaveDatabases` (`BucketHasDatabase`) and `SecretsWork`
  (`ShownSecretWorks`). Rows wander: a row is copied into a snapshot, uploaded,
  downloaded, merged elsewhere. So the invariant `World` says of every copy of a
  table, wherever it is (on a daemon, at a place, in a flush, in a pass), and of
  every request that it is sound, and that an id goes with the key it was drawn
  with in all of them; this is what keeps a merge by id from mixing rows. On
  top of it, `Starts` says what a start has done by its phase. `PlaceInv` says
  that every bucket in any copy has its database at one place, and that the
  clients and the requests that make buckets use that place. `BucketHasDatabase`
  follows as long as the locations of all daemons are at that place (`AllAt`);
  with several it does not hold, as `structure_two_bases` and
  `StructureTwoServers.cfg` show. The secret a user was shown stays by
  `Secrets`: the row of that user has it, and so has every copy that a request
  is about to write back. A merge leaves the rows alone whose id is there
  already, which is why older copies do no harm.

* `ListingProofs`. `ListingTypes`, `FolderGoes` (`FolderIsDeleted`),
  `PlainListings` and `ListedOnce` (`ObjectsAreListedOnce`), and
  `RenamesLoseNothing` (`RenameKeepsObjects`), for any keys, page sizes, folding
  of case and number of changes by others. The lemmas at the head say that the
  order of keys is total, what the first keys of a set are, and what a batch of
  rows holds. `Covers` is the common core: a key of the folder that nobody
  touched and that comes after the token is among the rows read or still ahead
  of the walk. The other invariants (`DeleteGood`, `ListGood`,
  `RenameGood`) say what has become of the keys behind that place. Two theorems
  have hypotheses, and the proof attempts without them found what goes wrong:
  - `FoldersApart`: with a delimiter, the folder of a key of another case is
    written in the case asked for, and as the token of a page it can be behind
    keys that were not listed yet. With `A/a/b`, `A/b/b` and `a/A` a listing of
    `a/` by pages of one entry skips `a/A` (`ListingLimits.cfg`). The run `listing`
    has one key below `A/`, so that it fulfils the hypothesis; without a delimiter
    none is needed.
  - `MovesAreSafe`: a folder that is renamed into or out of another of its name
    can put one object over another that is still to be moved
    (`ListingNested.cfg`), and `strings.TrimPrefix` leaves a key of another case
    as it is, so that renaming `A/` gives `A/a/x` and `a/x` one name.
  The constants of the run fulfil both.

Only model-checked: the liveness properties, since liveness under fairness and
ENABLED are out of the prover's reach. An induction over data is too, except
where it is one over the subsets of a finite set, as for the sums of `Stats`.

## Abstractions, and what is not modelled

* A database is the table of its rows. A damaged one is one that SQLite refuses
  to open or one that opens and fails its integrity check; the latter keeps
  nothing of its rows in the model, takes every change, and is copied damaged by
  `VACUUM INTO`. The journal files of a replaced database, and damage that the
  check does not find, are left out.
* Contents are told apart by their hash (`ObjectStore`) or ETag (`Multipart`).
  Temporary names do not collide. A verified upload has the right size; a file
  of the right size with wrong bytes only occurs where two contents have equal
  size, and the runs include that.
* In `ObjectStore`, `Multipart` and `MetaSync` the daemon talks to one WebDAV
  server, buckets carry their location, and none is made or deleted meanwhile;
  that is `Structure`'s subject.
* `Stats` has one location, so the map of location ids of a merge is left out;
  an overwrite counts as one more object, as the code counts it. The earlier
  stages of a sync are there only as what keeps it from the statistics.
* In `Structure` the statements of a merge on one table are one step, a change
  of a location is one with the refresh of the client, and editing one reads
  and writes it in one step. A daemon has one pass at a time. Objects and
  bucket databases after their creation are `MetaSync`'s subject. Which names
  are valid is left out. Creation times are all different.
* In `Listing` one job at a time walks through a bucket. Every name a rename
  gives is a key of the model (`MovesAssumption`), so with finitely many keys no
  folder is renamed into itself. The code does not refuse that, and with more
  than the 1000 objects of a page it does not end: renaming `a/` to `a/z/`, each
  page meets what the one before has put ahead of its token
  (`webui/handlers.go:410-429`). `JobEnds` leaves such renames out by name
  (`MovesIntoItself`). The page that shows a folder in a browser lists 1000 entries
  and no more; it is not modelled apart from its first page.
* The row and the manifest of an object are read in one step; Get and Head
  read only and are not actions. A reader of a file that is being replaced is
  the subject of `RetryUpload` only.
* `Multipart` has one bucket and, in its run, one upload. A plain Put over the
  key of an object in parts is left out, and so is the content of snapshots
  (`ObjectStore`'s subject). Empty directories of parts do not count as files.
  The parts of a chunked Put are of one content each.
* The check of the local databases before a gc run counts as passed.
* In `MetaSync` requests only add rows, a run of the daemon makes a bounded
  number of local files, and of the structure database only the set of known
  buckets is kept.
* Not modelled: HTTP parsing and formatting, the reader of aws-chunked bodies,
  signatures, login and sessions of the web interfaces, configuration,
  `inspect`, `setup`, `dump` and the health check. They change nothing that
  the modules above hold. `LoadFromFile` of the structure database is called by
  tests only; upgrades of old schemas happen before anything else runs.

### Where the documentation and the code differ

Besides the findings: `README.md:399` says that deleting a key does not remove
the file, while Delete removes it when no row names it; the README says that
the daemon syncs on startup, while only the timer, provisioning and the admin
interface start a pass; `README.md:204` has `DeleteBucket` "delete an empty
bucket", while the code does not ask whether it is; `README.md:345` says that
`daemon_id` of the configuration is used, while only the file `daemon.id` in the
cache directory is. With a marker file the start does not fail, as
`README.md:126` says, but logs a warning and goes on.

## Plan

Done: `RepairGate`, `ObjectStore`, `GarbageCollection`, `LRUCache`,
`RetryUpload` with `AtomicReplace`, `MetaSync`, `Multipart`, `Stats`,
`Structure`, `Provisioning`, `Listing`, `DurableMap`.

Open, in this order:

1. `Multipart` as an implementation of `DurableMap`, too, with a manifest as the
   content.
2. The reader of aws-chunked bodies as a state machine over a stream, and Get of
   an object in parts beside an overwrite.
3. `Structure` with bucket databases that a merge moves, composed with
   `MetaSync`.
