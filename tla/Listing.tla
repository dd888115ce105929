------------------------------ MODULE Listing -------------------------------
(***************************************************************************)
(* Listings by pages, and the jobs of the web interface that walk through  *)
(* one while they change what is listed: List of internal/object/          *)
(* service.go over ListObjects of internal/meta/bucketdb.go, and deleting  *)
(* and renaming folders in internal/webui/handlers.go.                     *)
(*                                                                         *)
(* A key is the sequence of its path's segments, ordered as SQLite orders  *)
(* the paths.  A folder is a path too; "a/" is <<a>>, its marker object    *)
(* <<a, 0>>.  SQLite's LIKE does not tell the case of letters: Fold maps   *)
(* the segments that it takes for one to the same number.                  *)
(***************************************************************************)
EXTENDS Integers, FiniteSets, SequencesExt

CONSTANTS
    Key,          \* the keys that can be stored
    Folder,       \* the prefixes listed; <<>> is the whole bucket
    Moves,        \* the renames asked for: of what, to what, a folder or not
    Fold,         \* Fold[s]: segment s without the case of its letters
    PageSizes,    \* the page sizes asked for
    Other,        \* contents put by another request
    MaxWrites     \* bound: changes by other requests

ASSUME ListingAssumption ==
    /\ Key \subseteq Seq(Nat) \ {<<>>}
    /\ Folder \subseteq Seq(Nat)
    /\ Other \notin Key
    /\ PageSizes \subseteq Nat \ {0}
    /\ MaxWrites \in Nat

VARIABLES
    store,        \* store[k]: the contents under key k
    job,          \* the request that walks through a listing
    writes,       \* changes by other requests so far (model bound)
    start,        \* history: the store when the job began
    touched       \* history: keys changed by others since

vars == <<store, job, writes, start, touched>>

Idle == [pc |-> "idle"]

Job ==
    [pc     : {"scan", "page", "delete", "copy", "cleanup", "done", "failed"},
     kind   : {"list", "delete", "rename"},
     prefix : Folder \cup Key,   \* what is listed, or the one key renamed
     whole  : BOOLEAN,           \* a folder, not one key
     to     : Folder \cup Key,   \* the new name
     delim  : BOOLEAN,           \* folders below are listed as one entry
     size   : PageSizes,
     token  : Seq(Nat),          \* where the page starts, <<>> at first
     cursor : Seq(Nat),          \* where the next batch of rows starts
     rows   : SUBSET Key,        \* rows of the page read so far
     todo   : SUBSET Key,        \* keys of the page not worked on yet
     key    : Key \cup {<<>>},   \* the key being renamed
     seen   : SUBSET Key,        \* keys the client has got
     dup    : SUBSET Key,        \* keys it has got more than once
     folders : SUBSET Seq(Nat)]  \* common prefixes it has got

TypeOK ==
    /\ DOMAIN store \subseteq Key
    /\ \A k \in DOMAIN store : store[k] \in Key \cup {Other}
    /\ job = Idle \/ job \in Job
    /\ writes \in 0..MaxWrites
    /\ DOMAIN start \subseteq Key
    /\ touched \subseteq Key

-----------------------------------------------------------------------------
(***************************************************************************)
(* Paths                                                                   *)
(***************************************************************************)

\* The order of the keys.
Before(k, l) ==
    \E i \in DOMAIN l :
        /\ \A j \in 1..(i-1) : j <= Len(k) /\ k[j] = l[j]
        /\ i <= Len(k) => k[i] < l[i]

Lowest(paths, n) == {k \in paths : Cardinality({j \in paths : Before(j, k)}) < n}

Highest(paths) == CHOOSE k \in paths : \A j \in paths : ~Before(k, j)

First(paths) == CHOOSE k \in paths : \A j \in paths : ~Before(j, k)

\* What the query takes for a key in the folder, and what is one.
Like(prefix, k) ==
    /\ Len(prefix) < Len(k)
    /\ \A i \in DOMAIN prefix : Fold[prefix[i]] = Fold[k[i]]

Within(prefix, k) == Len(prefix) < Len(k) /\ IsPrefix(prefix, k)

\* Wrong variant: the page starts with the key the last one ended with.
RowsFrom(prefix, after, n) ==
    Lowest({k \in DOMAIN store : Like(prefix, k) /\ ~Before(k, after)}, n)

\* The query: the first n keys like the prefix that come after another one.
Rows(prefix, after, n) ==
    Lowest({k \in DOMAIN store : Like(prefix, k) /\ Before(after, k)}, n)

\* The name of key k after rename m.
NameAfter(m, k) ==
    IF ~m.whole THEN m.to
    ELSE m.to \o (IF Within(m.from, k)
                  THEN SubSeq(k, Len(m.from) + 1, Len(k)) ELSE k)

\* What a rename makes of a key is one, too.  With a Key that is finite this
\* leaves out folders that are moved into themselves.
ASSUME MovesAssumption ==
    \A m \in Moves :
        /\ m.whole \in BOOLEAN
        /\ {m.from, m.to} \subseteq IF m.whole THEN Folder ELSE Key
        /\ m.whole => \A k \in Key : Like(m.from, k) => NameAfter(m, k) \in Key

-----------------------------------------------------------------------------
(***************************************************************************)
(* A page                                                                  *)
(***************************************************************************)

\* A key further down is listed as the folder it is in.
Direct(k) == ~job.delim \/ Len(k) = Len(job.prefix) + 1

FolderOf(k) == Append(job.prefix, k[Len(job.prefix) + 1])

Objects(rows) == {k \in rows : Direct(k)}

Folders(rows) == {FolderOf(k) : k \in rows \ Objects(rows)}

Entries(rows) == Cardinality(Objects(rows)) + Cardinality(Folders(rows))

\* The row that brought folder f up.
RowOf(rows, f) == First({k \in rows \ Objects(rows) : FolderOf(k) = f})

\* The first n folders in the order in which the rows brought them up.
FirstFolders(rows, n) ==
    {f \in Folders(rows) :
        Cardinality({g \in Folders(rows) :
                        Before(RowOf(rows, g), RowOf(rows, f))}) < n}

LastFolder(rows, folders) ==
    CHOOSE f \in folders :
        \A g \in folders : ~Before(RowOf(rows, f), RowOf(rows, g))

\* The path of a folder ends in a slash, as that of its marker object.
Marker(f) == Append(f, 0)

\* Wrong variant: the token is the first key that did not fit.
PageSkipping(rows) ==
    LET objects == Lowest(Objects(rows), job.size)
    IN  [objects |-> objects,
         folders |-> FirstFolders(rows, job.size - Cardinality(objects)),
         token   |-> IF Entries(rows) <= job.size THEN <<>> ELSE Highest(rows)]

\* The answer.  One entry more than asked for tells that there are more; then
\* objects are preferred and the token is the last of them, or the last folder.
Page(rows) ==
    LET objects == Lowest(Objects(rows), job.size)
        folders == FirstFolders(rows, job.size - Cardinality(objects))
    IN  [objects |-> objects,
         folders |-> folders,
         token   |-> IF Entries(rows) <= job.size THEN <<>>
                     ELSE IF objects # {} THEN Highest(objects)
                     ELSE Marker(LastFolder(rows, folders))]

-----------------------------------------------------------------------------
(***************************************************************************)
(* Jobs.  A behaviour follows one of them.                                 *)
(***************************************************************************)

Init ==
    /\ store \in {[k \in keys |-> k] : keys \in {s \in SUBSET Key : IsFiniteSet(s)}}
    /\ job = Idle
    /\ writes = 0
    /\ start = store
    /\ touched = {}

Ended == job.pc \in {"done", "failed"}

Start(kind, prefix, whole, to, delim, size) ==
    /\ job = Idle
    /\ job' = [pc |-> IF whole THEN "scan" ELSE "copy", kind |-> kind,
               prefix |-> prefix, whole |-> whole, to |-> to, delim |-> delim,
               size |-> size, token |-> <<>>, cursor |-> <<>>, rows |-> {},
               todo |-> IF whole THEN {} ELSE {prefix}, key |-> <<>>,
               seen |-> {}, dup |-> {}, folders |-> {}]
    /\ start' = store
    /\ touched' = {}
    /\ UNCHANGED <<store, writes>>

\* A client lists a folder, or the web interface adds up what is in a bucket.
StartList ==
    \E prefix \in Folder, delim \in BOOLEAN, size \in PageSizes :
        Start("list", prefix, TRUE, prefix, delim, size)

StartDelete ==
    \E prefix \in Folder \ {<<>>}, size \in PageSizes :
        Start("delete", prefix, TRUE, prefix, FALSE, size)

\* A folder or a single object gets a new name.
StartRename ==
    \E m \in Moves, size \in PageSizes :
        /\ m.whole => m.from # m.to
        /\ Start("rename", m.from, m.whole, m.to, FALSE, size)

\* A batch of rows is read after the last one.  With a delimiter there may
\* have to be more of them; the rest of a batch is dropped once there is an
\* entry more than asked for.
Scan ==
    /\ job.pc = "scan"
    /\ LET batch == Rows(job.prefix, job.cursor, job.size + 1)
           taken == {k \in batch :
                       Entries(job.rows \cup {j \in batch : Before(j, k)})
                           <= job.size}
           all == job.rows \cup taken
       IN  job' = [job EXCEPT
                     !.rows = all,
                     !.cursor = IF batch = {} THEN @ ELSE Highest(batch),
                     !.pc = IF ~job.delim \/ batch = {} \/ Entries(all) > job.size
                            THEN "page" ELSE "scan"]
    /\ UNCHANGED <<store, writes, start, touched>>

\* The work on a page is done: the next one is asked for, if there is one.
Turn(token, others) ==
    job' = IF token = <<>>
           THEN [others EXCEPT !.pc = "done", !.token = <<>>]
           ELSE [others EXCEPT !.pc = "scan", !.token = token,
                               !.cursor = token, !.rows = {}]

TakePage ==
    /\ job.pc = "page"
    /\ LET page == Page(job.rows)
           taken == [job EXCEPT
                       !.seen = @ \cup page.objects,
                       !.dup = @ \cup (job.seen \cap page.objects),
                       !.folders = @ \cup page.folders]
       IN  IF job.kind = "list" \/ page.objects = {}
           THEN Turn(page.token, taken)
           ELSE job' = [taken EXCEPT
                          !.pc = IF job.kind = "delete" THEN "delete" ELSE "copy",
                          !.token = page.token,
                          !.todo = page.objects]
    /\ UNCHANGED <<store, writes, start, touched>>

\* One key is done: the next one, or the next page.
NextKey(k, pc) ==
    IF job.todo = {k}
    THEN Turn(job.token, [job EXCEPT !.todo = {}])
    ELSE job' = [job EXCEPT !.todo = @ \ {k}, !.pc = pc]

Without(f, k) == [l \in DOMAIN f \ {k} |-> f[l]]

With(f, k, v) == [l \in DOMAIN f \cup {k} |-> IF l = k THEN v ELSE f[l]]

\* The objects of a page are deleted in turn.
DeleteNext ==
    /\ job.pc = "delete"
    /\ LET k == First(job.todo)
       IN  /\ k \in DOMAIN store
           /\ store' = Without(store, k)
           /\ NextKey(k, "delete")
    /\ UNCHANGED <<writes, start, touched>>

\* Wrong variant: the old folder stays in the new name.
NewNameUntrimmed(k) == IF ~job.whole THEN job.to ELSE job.to \o k

NewName(k) ==
    NameAfter([whole |-> job.whole, from |-> job.prefix, to |-> job.to], k)

\* Wrong variant: the old object is deleted before it is copied.
CopyNextMoving ==
    /\ job.pc = "copy"
    /\ LET k == First(job.todo)
       IN  /\ k \in DOMAIN store
           /\ store' = Without(store, k)
           /\ job' = [job EXCEPT !.pc = "cleanup", !.key = k]
    /\ UNCHANGED <<writes, start, touched>>

\* The objects of a page are copied to their new names ...
CopyNext ==
    /\ job.pc = "copy"
    /\ LET k == First(job.todo)
       IN  /\ k \in DOMAIN store
           /\ store' = With(store, NewName(k), store[k])
           /\ job' = [job EXCEPT !.pc = "cleanup", !.key = k]
    /\ UNCHANGED <<writes, start, touched>>

\* ... and deleted, each after its copy; that this failed is only logged.
Cleanup ==
    /\ job.pc = "cleanup"
    /\ store' \in {store, Without(store, job.key)}
    /\ NextKey(job.key, "copy")
    /\ UNCHANGED <<writes, start, touched>>

\* A call fails, or an object is gone when its turn comes: the job ends.
Fail ==
    /\ job.pc \in {"scan", "delete", "copy"}
    /\ job' = [job EXCEPT !.pc = "failed"]
    /\ UNCHANGED <<store, writes, start, touched>>

\* Another request puts or deletes an object.
Write(k) ==
    /\ writes < MaxWrites
    /\ ~Ended /\ job # Idle
    /\ writes' = writes + 1
    /\ \/ store' = With(store, k, Other)
       \/ k \in DOMAIN store /\ store' = Without(store, k)
    /\ touched' = touched \cup {k}
    /\ UNCHANGED <<job, start>>

JobStep ==
    \/ Scan \/ TakePage
    \/ DeleteNext
    \/ CopyNext \/ Cleanup
    \/ Fail

Next ==
    \/ StartList \/ StartDelete \/ StartRename
    \/ JobStep
    \/ \E k \in Key : Write(k)

Spec == Init /\ [][Next]_vars

\* A request that was begun is worked on to its end.
FairSpec == Spec /\ WF_vars(JobStep)

-----------------------------------------------------------------------------
(***************************************************************************)
(* Properties                                                              *)
(***************************************************************************)

Untouched == DOMAIN start \ touched

\* "List objects with prefix, delimiter, and pagination" (README.md:205): page
\* by page every object of the folder that was there all the time is listed,
\* and none twice, whatever is put or deleted between the pages.
ObjectsAreListedOnce ==
    job.pc = "done" /\ job.kind = "list" =>
        /\ \A k \in Untouched :
              Within(job.prefix, k) /\ Direct(k) => k \in job.seen
        /\ job.seen \subseteq DOMAIN start \cup touched
        /\ job.dup = {}

\* "List objects with prefix, delimiter, and pagination" (README.md:205): and
\* so is every folder in it.
FoldersAreListed ==
    job.pc = "done" /\ job.kind = "list" =>
        \A k \in Untouched :
            Within(job.prefix, k) /\ ~Direct(k) => FolderOf(k) \in job.folders

\* A folder that was deleted is empty, but for what was put meanwhile, and what
\* is not like it is still there.
FolderIsDeleted ==
    job.pc # "idle" /\ job.kind = "delete" =>
        \A k \in Untouched :
            /\ job.pc = "done" /\ Within(job.prefix, k) => k \notin DOMAIN store
            /\ ~Like(job.prefix, k) => k \in DOMAIN store

Renamed(k) == IF job.whole THEN Within(job.prefix, k) ELSE k = job.prefix

Kept(k, name) == name \in DOMAIN store /\ store[name] = start[k]

\* A rename loses nothing, wherever it fails: an object is under its old name
\* until it is under its new one, and there at the end.
RenameKeepsObjects ==
    job.pc # "idle" /\ job.kind = "rename" /\ job.prefix # job.to =>
        \A k \in Untouched :
            Renamed(k) /\ NewName(k) \notin touched =>
                /\ Kept(k, k) \/ Kept(k, NewName(k))
                /\ job.pc = "done" => Kept(k, NewName(k))

\* "expected renamed object" (webui/handlers_test.go:881), whatever its new
\* name is: the old one too.
RenameToItselfKeepsObject ==
    job.pc = "done" /\ job.kind = "rename" /\ ~job.whole
        => job.prefix \in touched \/ Kept(job.prefix, job.to)

\* Only a folder's own objects are deleted with it.
OnlyFolderIsDeleted ==
    job.pc # "idle" /\ job.kind = "delete" =>
        \A k \in Untouched : ~Within(job.prefix, k) => k \in DOMAIN store

\* A rename that puts what it moves into the folder it lists.  It may meet what
\* it has put there on a later page: a folder of more than a page that is moved
\* into itself grows ahead of the walk, which has no end (webui/handlers.go:
\* 410-429).  A finite Key has no room for such a folder.
MovesIntoItself ==
    /\ job.kind = "rename" /\ job.whole
    /\ \E k \in Key : Like(job.prefix, k) /\ Like(job.prefix, NewName(k))

\* Whoever walks through a listing gets to its end while others put only so
\* many objects ahead of the walk, unless folders are listed as one entry or a
\* folder is moved into itself.
JobEnds == job # Idle /\ ~job.delim /\ ~MovesIntoItself ~> Ended

\* The same for a listing with a delimiter.
ListingEnds == job # Idle ~> Ended

=============================================================================
