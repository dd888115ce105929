--------------------------- MODULE MetaSyncProofs ---------------------------
(***************************************************************************)
(* Proofs about MetaSync, for any number of requests, passes, buckets,     *)
(* rows, local files, faults and restarts.                                 *)
(***************************************************************************)
EXTENDS MetaSync, WellFoundedInduction, TLAPS

-----------------------------------------------------------------------------
(***************************************************************************)
(* The inductive invariant                                                 *)
(***************************************************************************)

Committed == {"snapshot", "upload"}

\* A file that bucket b has open.  If it is damaged it is under the name of b
\* still: only a start of the daemon meets new damage.
Opened(b, f) == disk[f] \in Openable /\ (disk[f] = Marred => path[b] = f)

\* What a committed change has open, and the damage in what it uploads.
ChangeSound(r) ==
    r.pc \in Committed =>
        /\ r.file \in File /\ Opened(r.bucket, r.file)
        /\ r.pc = "upload" /\ r.snap = Marred => Damaged(r.bucket)

\* What a pass writes was checked, and replaces nothing damaged.
PassSound(p) ==
    /\ p.pc \in {"evict", "evicting", "replace", "repair_upload", "verify"}
          => p.got \in Rows
    /\ p.pc \in {"evict", "evicting", "replace"} => ~Damaged(p.bucket)
    /\ p.pc = "export" => path[p.bucket] # NoFile /\ disk[path[p.bucket]] \in Rows

FlushSound(d) ==
    d.pc = "flush_upload" /\ d.snap = Marred => Damaged(d.bucket)

Sound ==
    /\ \A b \in Bucket : path[b] # NoFile => disk[path[b]] # Unused
    /\ \A b \in Bucket : cached[b] # NoFile => Opened(b, cached[b])
    /\ \A c \in Client : ChangeSound(op[c])
    /\ \A s \in Syncer : PassSound(sync[s])
    /\ FlushSound(daemon)

\* A change of b that is committed is in the local database under its name; a
\* snapshot of it holds everything acknowledged.  Of damaged files nothing is
\* said.
ChangeGood(r, b) ==
    r.pc \in Committed /\ r.bucket = b =>
        /\ r.file = path[b]
        /\ disk[path[b]] \in Rows => r.row \in disk[path[b]]
        /\ r.pc = "upload" /\ r.snap \in Rows
              => acked[b] \subseteq r.snap /\ r.row \in r.snap

\* What a pass has downloaded of b holds everything acknowledged as long as
\* there is no local database; what a repair uploads does.
PassGood(p, b) ==
    p.pc # "idle" /\ p.bucket = b =>
        /\ p.pc \in {"check", "evict", "evicting", "replace"} /\ path[b] = NoFile
              => p.got \in Broken \/ acked[b] \subseteq p.got
        /\ p.pc = "repair_upload" => acked[b] \subseteq p.got

FlushGood(d, b) ==
    d.pc = "flush_upload" /\ d.bucket = b /\ d.snap \in Rows
        => acked[b] \subseteq d.snap

RemoteKept(b) == remote[b] \in Broken \/ acked[b] \subseteq remote[b]

LocalKept(b) ==
    path[b] = NoFile \/ Damaged(b) \/ acked[b] \subseteq disk[path[b]]

CacheLinked(b) == cached[b] # NoFile => cached[b] = path[b]

Good(b) ==
    /\ RemoteKept(b) /\ LocalKept(b) /\ CacheLinked(b)
    /\ \A c \in Client : ChangeGood(op[c], b)
    /\ \A s \in Syncer : PassGood(sync[s], b)
    /\ FlushGood(daemon, b)

BucketsInv ==
    \A b \in Bucket :
        /\ b \notin crossed => ~Crossing(b)
        /\ Ordinary(b) => Good(b)

-----------------------------------------------------------------------------
(***************************************************************************)
(* Lemmas on the definitions                                               *)
(***************************************************************************)

LEMMA EarliestNumber ==
    ASSUME NEW S \in SUBSET Nat, S # {}
    PROVE  \E m \in S : \A n \in S : m <= n
<1> DEFINE R == OpToRel(<, Nat)
<1>1. IsWellFoundedOn(R, Nat)
  BY NatLessThanWellFounded
<1>2. R = {ss \in Nat \X Nat : ss[1] < ss[2]}
  BY DEF OpToRel
<1> HIDE DEF R
<1>3. PICK m \in S : \A n \in S : ~(<<n, m>> \in R)
  BY <1>1, WFMin
<1>4. ASSUME NEW n \in S PROVE m <= n
  <2>1. <<n, m>> \in Nat \X Nat
    OBVIOUS
  <2>2. ~(n < m)
    BY <1>2, <1>3, <2>1
  <2> QED
    BY <2>2
<1> QED
  BY <1>4

LEMMA OldestIsOne ==
    ASSUME NEW S \in SUBSET Bucket, S # {}
    PROVE  Oldest(S) \in S
<1> DEFINE T == {CreatedAt[b] : b \in S}
<1>1. T \in SUBSET Nat /\ T # {}
  BY SyncAssumption
<1>2. PICK m \in T : \A n \in T : m <= n
  BY <1>1, EarliestNumber
<1>3. \E b \in S : \A c \in S : CreatedAt[b] <= CreatedAt[c]
  BY <1>2
<1> QED
  BY <1>3 DEF Oldest

LEMMA RowsAreSets == Rows = SUBSET Row
  BY DEF Rows

LEMMA KindsOfContents ==
    /\ Contents = Openable \cup {Torn} /\ Openable = Rows \cup {Marred}
    /\ Broken = {Torn, Marred}
    /\ Torn \notin Openable /\ Marred \notin Rows /\ Torn # Marred
    /\ Unused \notin Contents /\ NoFile \notin File
    /\ Marred \in Contents /\ Torn \in Contents
    /\ \A x \in Rows : x \notin Broken
  BY SyncAssumption DEF Contents, Openable, Broken

LEMMA WithKeeps ==
    ASSUME NEW x \in Openable, NEW rows \in Rows
    PROVE  /\ With(x, rows) \in Openable
           /\ x \in Rows => With(x, rows) \in Rows /\ x \subseteq With(x, rows)
           /\ x = Marred => With(x, rows) = Marred
           /\ With(x, rows) \in Rows => rows \subseteq With(x, rows)
  BY KindsOfContents, RowsAreSets DEF With

LEMMA ChangeOf ==
    ASSUME TypeOK, NEW c \in Client, op[c].pc # "idle"
    PROVE  op[c] \in Change
  BY DEF TypeOK, Idle

LEMMA PassOf ==
    ASSUME TypeOK, NEW s \in Syncer, sync[s].pc # "idle"
    PROVE  sync[s] \in Pass
  BY DEF TypeOK, Idle

LEMMA FlushOf ==
    ASSUME TypeOK, daemon.pc \in {"flush", "flush_upload"}
    PROVE  daemon \in Flush
  BY DEF TypeOK, Running, Stopped

\* The databases and their names.
LocalType ==
    /\ disk \in [File -> Contents \cup {Unused}]
    /\ path \in [Bucket -> File \cup {NoFile}]
    /\ cached \in [Bucket -> File \cup {NoFile}]
    /\ exposed \subseteq Bucket

\* Databases gain rows and are not given up, while the daemon runs.
Grows ==
    /\ \A f \in File :
          /\ disk[f] \in Rows => disk'[f] \in Rows /\ disk[f] \subseteq disk'[f]
          /\ disk[f] \in Broken => disk'[f] = disk[f]
    /\ \A b \in Bucket :
          /\ path[b] # NoFile => path'[b] # NoFile
          /\ Damaged(b) => path'[b] = path[b]
          /\ path'[b] = path[b] \/ disk'[path'[b]] \in Rows
    /\ \A b \in Bucket : path'[b] # NoFile => disk'[path'[b]] # Unused

\* While the daemon runs, no local database is damaged, and no damage goes.
LEMMA DamageStays ==
    ASSUME TypeOK, Sound, Grows, NEW b \in Bucket
    PROVE  Damaged(b)' <=> Damaged(b)
<1>1. path[b] \in File \cup {NoFile}
  BY DEF TypeOK
<1>2. ASSUME Damaged(b) PROVE Damaged(b)'
  BY <1>1, <1>2 DEF Damaged, Grows
<1>3. ASSUME Damaged(b)' PROVE Damaged(b)
  <2>1. path'[b] # NoFile /\ disk'[path'[b]] \in Broken
    BY <1>3 DEF Damaged
  <2>2. path'[b] = path[b] /\ path[b] \in File
    BY <1>1, <2>1, KindsOfContents DEF Grows
  <2>3. disk[path[b]] \in Contents
    BY <2>2, KindsOfContents DEF Sound, TypeOK
  <2>4. disk[path[b]] \notin Rows
    BY <2>1, <2>2, KindsOfContents DEF Grows
  <2>5. disk[path[b]] \in Broken
    BY <2>3, <2>4, KindsOfContents
  <2> QED
    BY <2>1, <2>2, <2>5 DEF Damaged
<1> QED
  BY <1>2, <1>3

\* What opening a database through its name does.
LEMMA OpenLocalDoes ==
    ASSUME TypeOK, Sound, NEW b \in Bucket, NEW f \in File, NEW rows \in Rows,
           OpenLocal(b, f, rows)
    PROVE  /\ disk' \in [File -> Contents \cup {Unused}]
           /\ path' \in [Bucket -> File \cup {NoFile}]
           /\ exposed' \subseteq Bucket
           /\ path'[b] = f /\ disk'[f] \in Openable
           /\ disk'[f] \in Rows => rows \subseteq disk'[f]
           /\ \A a \in Bucket : a # b => path'[a] = path[a]
           /\ path[b] # NoFile => path' = path
           /\ path[b] = NoFile /\ b \notin exposed' => remote[b] = {}
           /\ exposed \subseteq exposed'
           /\ Grows
<1>1. CASE /\ path[b] = f
           /\ disk[f] \in Openable
           /\ disk' = [disk EXCEPT ![f] = With(disk[f], rows)]
           /\ UNCHANGED <<path, exposed>>
  <2>1. PICK x \in Openable : x = With(disk[f], rows)
    BY <1>1, WithKeeps
  <2>2. /\ disk[f] \in Rows => x \in Rows /\ disk[f] \subseteq x
        /\ disk[f] = Marred => x = Marred
        /\ x \in Rows => rows \subseteq x
    BY <1>1, <2>1, WithKeeps
  <2>3. disk' = [disk EXCEPT ![f] = x]
    BY <1>1, <2>1
  <2>4. disk' \in [File -> Contents \cup {Unused}] /\ disk'[f] = x
    BY <2>3, KindsOfContents DEF TypeOK
  <2>5. Grows
    BY <1>1, <2>2, <2>3, <2>4, KindsOfContents DEF Grows, Sound, TypeOK
  <2> QED
    BY <1>1, <2>2, <2>4, <2>5, KindsOfContents DEF TypeOK
<1>2. CASE /\ path[b] = NoFile
           /\ disk[f] = Unused
           /\ disk' = [disk EXCEPT ![f] = rows]
           /\ path' = [path EXCEPT ![b] = f]
           /\ exposed' = IF remote[b] = {} THEN exposed ELSE exposed \cup {b}
  <2>1. disk' \in [File -> Contents \cup {Unused}] /\ disk'[f] = rows
    BY <1>2, KindsOfContents DEF TypeOK
  <2>2. Grows
    BY <1>2, <2>1, KindsOfContents DEF Grows, Sound, TypeOK, Damaged
  <2> QED
    BY <1>2, <2>1, <2>2, KindsOfContents DEF TypeOK
<1> QED
  BY <1>1, <1>2 DEF OpenLocal

LEMMA OpenCachedDoes ==
    ASSUME TypeOK, Sound, NEW b \in Bucket, NEW f \in File, NEW rows \in Rows,
           OpenCached(b, f, rows)
    PROVE  /\ LocalType'
           /\ cached'[b] = f /\ Opened(b, cached[b])'
           /\ disk'[f] \in Rows => rows \subseteq disk'[f]
           /\ \A a \in Bucket : a # b => path'[a] = path[a] /\ cached'[a] = cached[a]
           /\ path[b] # NoFile => path' = path
           /\ cached[b] = NoFile => path'[b] = f
           /\ cached[b] # NoFile => path' = path /\ f = cached[b]
           /\ path[b] = NoFile /\ cached[b] = NoFile /\ b \notin exposed'
                 => remote[b] = {}
           /\ exposed \subseteq exposed'
           /\ Grows
<1>1. CASE /\ cached[b] = f
           /\ disk' = [disk EXCEPT ![f] = With(disk[f], rows)]
           /\ UNCHANGED <<path, cached, exposed>>
  <2>1. disk[f] \in Openable /\ (disk[f] = Marred => path[b] = f)
    BY <1>1, KindsOfContents DEF Sound, Opened
  <2>2. PICK x \in Openable : x = With(disk[f], rows)
    BY <2>1, WithKeeps
  <2>3. /\ disk[f] \in Rows => x \in Rows /\ disk[f] \subseteq x
        /\ disk[f] = Marred => x = Marred
        /\ x \in Rows => rows \subseteq x
    BY <2>1, <2>2, WithKeeps
  <2>4. disk' = [disk EXCEPT ![f] = x]
    BY <1>1, <2>2
  <2>5. disk' \in [File -> Contents \cup {Unused}] /\ disk'[f] = x
    BY <2>4, KindsOfContents DEF TypeOK
  <2>6. Grows
    BY <1>1, <2>1, <2>3, <2>4, <2>5, KindsOfContents DEF Grows, Sound, TypeOK
  <2>7. x = Marred => path[b] = f
    BY <2>1, <2>3, KindsOfContents
  <2>8. LocalType'
    BY <1>1, <2>5 DEF LocalType, TypeOK
  <2>9. Opened(b, cached[b])'
    BY <1>1, <2>5, <2>7 DEF Opened
  <2> QED
    BY <1>1, <2>3, <2>5, <2>6, <2>8, <2>9, KindsOfContents
<1>2. CASE /\ cached[b] = NoFile
           /\ OpenLocal(b, f, rows)
           /\ cached' = [cached EXCEPT ![b] = f]
  <2>1. /\ disk' \in [File -> Contents \cup {Unused}]
        /\ path' \in [Bucket -> File \cup {NoFile}]
        /\ exposed' \subseteq Bucket
        /\ path'[b] = f /\ disk'[f] \in Openable
        /\ disk'[f] \in Rows => rows \subseteq disk'[f]
        /\ \A a \in Bucket : a # b => path'[a] = path[a]
        /\ path[b] # NoFile => path' = path
        /\ path[b] = NoFile /\ b \notin exposed' => remote[b] = {}
        /\ exposed \subseteq exposed'
        /\ Grows
    BY <1>2, OpenLocalDoes
  <2>2. /\ cached' \in [Bucket -> File \cup {NoFile}] /\ cached'[b] = f
        /\ \A a \in Bucket : a # b => cached'[a] = cached[a]
    BY <1>2 DEF TypeOK
  <2>3. LocalType'
    BY <2>1, <2>2 DEF LocalType
  <2>4. Opened(b, cached[b])'
    BY <2>1, <2>2 DEF Opened
  <2> QED
    BY <1>2, <2>1, <2>2, <2>3, <2>4
<1> QED
  BY <1>1, <1>2 DEF OpenCached

-----------------------------------------------------------------------------
(***************************************************************************)
(* What a step has to keep                                                 *)
(***************************************************************************)

StepTypes ==
    /\ LocalType /\ GateTypeOK
    /\ known \subseteq Bucket
    /\ remote \in [Bucket -> Contents]
    /\ op \in [Client -> Change \cup {Idle}]
    /\ sync \in [Syncer -> Pass \cup {Idle}]
    /\ daemon \in Flush \cup {Running, Stopped}
    /\ faults \in 0..MaxFaults
    /\ started \in 0..MaxOps
    /\ acked \in [Bucket -> Rows]
    /\ overtaken \subseteq Bucket

\* A bucket that nothing crosses and nothing happens to stays good.
Advances ==
    /\ Grows /\ StepTypes' /\ Sound'
    /\ \A b \in Bucket :
          Good(b) /\ ~Crossing(b) /\ b \notin exposed' \cup overtaken' => Good(b)'

LEMMA TypesNow == TypeOK => StepTypes
  BY DEF TypeOK, StepTypes, LocalType

LEMMA SameGrows ==
    ASSUME TypeOK, Sound, UNCHANGED <<disk, path>>
    PROVE  Grows
  BY KindsOfContents DEF Grows, Sound

LEMMA SameTypes ==
    ASSUME TypeOK, UNCHANGED local
    PROVE  LocalType'
  BY DEF TypeOK, LocalType, local

LEMMA FaultTypes ==
    ASSUME TypeOK, UNCHANGED faults \/ Fault
    PROVE  faults' \in 0..MaxFaults
  BY SyncAssumption DEF TypeOK, Fault

LEMMA GateTypes ==
    ASSUME TypeOK, NEW b \in Bucket,
           \/ UNCHANGED status \/ MarkRepairing(b) \/ MarkDegraded(b) \/ MarkHealthy(b)
    PROVE  GateTypeOK'
  BY DEF TypeOK, GateTypeOK, MarkRepairing, MarkDegraded, MarkHealthy, Status,
         Repairing, Degraded, Healthy

LEMMA SoundStep ==
    ASSUME TypeOK, Sound, Grows, StepTypes',
           \A b \in Bucket :
               cached'[b] \in {cached[b], NoFile} \/ Opened(b, cached[b])',
           \A c \in Client : op'[c] = op[c] \/ ChangeSound(op[c])',
           \A s \in Syncer : sync'[s] = sync[s] \/ PassSound(sync[s])',
           daemon' = daemon \/ FlushSound(daemon)'
    PROVE  Sound'
<1>0. ASSUME NEW b \in Bucket, NEW f \in File, Opened(b, f)
      PROVE  disk'[f] \in Openable /\ (disk'[f] = Marred => path'[b] = f)
  <2>1. CASE disk[f] \in Rows
    BY <2>1, KindsOfContents DEF Grows
  <2>2. CASE disk[f] = Marred
    <3>1. path[b] = f /\ Damaged(b)
      BY <1>0, <2>2, KindsOfContents DEF Opened, Damaged
    <3> QED
      BY <2>2, <3>1, KindsOfContents DEF Grows
  <2> QED
    BY <1>0, <2>1, <2>2, KindsOfContents DEF Opened
<1>1. \A b \in Bucket : path'[b] # NoFile => disk'[path'[b]] # Unused
  BY DEF Grows
<1>2. ASSUME NEW b \in Bucket, cached'[b] # NoFile PROVE Opened(b, cached[b])'
  <2>1. CASE cached'[b] = cached[b]
    <3>1. cached[b] \in File /\ Opened(b, cached[b])
      BY <1>2, <2>1 DEF TypeOK, Sound
    <3> QED
      BY <1>0, <2>1, <3>1 DEF Opened
  <2> QED
    BY <1>2, <2>1
<1>3. ASSUME NEW c \in Client PROVE ChangeSound(op[c])'
  <2>1. CASE op'[c] = op[c]
    <3> SUFFICES ASSUME op[c].pc \in Committed
                 PROVE  /\ op[c].file \in File
                        /\ disk'[op[c].file] \in Openable
                        /\ disk'[op[c].file] = Marred
                              => path'[op[c].bucket] = op[c].file
                        /\ op[c].pc = "upload" /\ op[c].snap = Marred
                              => Damaged(op[c].bucket)'
      BY <2>1 DEF ChangeSound, Opened, Damaged
    <3>1. op[c].bucket \in Bucket
      BY ChangeOf DEF Committed, Change
    <3>2. /\ op[c].file \in File /\ Opened(op[c].bucket, op[c].file)
          /\ op[c].pc = "upload" /\ op[c].snap = Marred => Damaged(op[c].bucket)
      BY DEF Sound, ChangeSound
    <3>3. PICK b \in Bucket : b = op[c].bucket
      BY <3>1
    <3>4. Damaged(b)' <=> Damaged(b)
      BY DamageStays
    <3>5. Damaged(op[c].bucket)' <=> Damaged(b)'
      BY <2>1, <3>3 DEF Damaged
    <3> QED
      BY <1>0, <3>2, <3>3, <3>4, <3>5
  <2> QED
    BY <2>1
<1>4. ASSUME NEW s \in Syncer PROVE PassSound(sync[s])'
  <2>1. CASE sync'[s] = sync[s]
    <3>1. PassSound(sync[s])
      BY DEF Sound
    <3>3. ASSUME sync[s].pc \in {"evict", "evicting", "replace"}
          PROVE  ~Damaged(sync[s].bucket)'
      <4>1. sync[s].bucket \in Bucket
        BY <3>3, PassOf DEF Pass
      <4>2. PICK b \in Bucket : b = sync[s].bucket
        BY <4>1
      <4>3. ~Damaged(b)
        BY <3>1, <3>3, <4>2 DEF PassSound
      <4>4. ~Damaged(b)'
        BY <4>3, DamageStays
      <4> QED
        BY <2>1, <4>2, <4>4 DEF Damaged
    <3>2. ASSUME sync[s].pc = "export"
          PROVE  /\ path'[sync[s].bucket] # NoFile
                 /\ disk'[path'[sync[s].bucket]] \in Rows
      <4>1. /\ sync[s].bucket \in Bucket
            /\ path[sync[s].bucket] # NoFile
            /\ path[sync[s].bucket] \in File \cup {NoFile}
            /\ disk[path[sync[s].bucket]] \in Rows
        BY <3>1, <3>2, PassOf DEF PassSound, Pass, TypeOK
      <4> QED
        BY <4>1 DEF Grows
    <3> QED
      BY <2>1, <3>1, <3>2, <3>3 DEF PassSound
  <2> QED
    BY <2>1
<1>5. FlushSound(daemon)'
  <2>1. CASE daemon' = daemon
    <3> SUFFICES ASSUME daemon.pc = "flush_upload", daemon.snap = Marred
                 PROVE  Damaged(daemon.bucket)'
      BY <2>1 DEF FlushSound
    <3>1. daemon.bucket \in Bucket
      BY FlushOf DEF Flush
    <3>2. PICK b \in Bucket : b = daemon.bucket
      BY <3>1
    <3>3. Damaged(b)
      BY <3>2 DEF Sound, FlushSound
    <3>4. Damaged(b)'
      BY <3>3, DamageStays
    <3> QED
      BY <2>1, <3>2, <3>4 DEF Damaged
  <2> QED
    BY <2>1
<1> QED
  BY <1>1, <1>2, <1>3, <1>4, <1>5 DEF Sound

\* Every step but one that acknowledges a change of b, and a restart.
LEMMA GoodStep ==
    ASSUME TypeOK, Sound, Grows, StepTypes', NEW b \in Bucket, Good(b),
           \/ path'[b] = path[b]
           \/ path[b] = NoFile /\ path'[b] # NoFile /\ acked[b] \subseteq disk'[path'[b]],
           acked'[b] = acked[b],
           remote'[b] \in {remote[b]} \cup Broken \/ acked[b] \subseteq remote'[b],
           cached'[b] \in {cached[b], NoFile, path'[b]},
           \A c \in Client : op'[c] = op[c] \/ ChangeGood(op[c], b)',
           \A s \in Syncer : sync'[s] = sync[s] \/ PassGood(sync[s], b)',
           daemon' = daemon \/ FlushGood(daemon, b)'
    PROVE  Good(b)'
<1>0. path[b] \in File \cup {NoFile} /\ acked[b] \in Rows
  BY DEF TypeOK
<1>1. RemoteKept(b)'
  BY DEF Good, RemoteKept
<1>2. LocalKept(b)'
  <2>1. CASE path'[b] = path[b] /\ path[b] # NoFile
    <3>1. disk[path[b]] \in Rows \cup Broken
      BY <1>0, <2>1, KindsOfContents DEF TypeOK, Sound
    <3>2. CASE disk[path[b]] \in Broken
      BY <1>0, <2>1, <3>2 DEF Grows, LocalKept, Damaged
    <3>3. CASE disk[path[b]] \in Rows
      <4>1. acked[b] \subseteq disk[path[b]]
        BY <2>1, <3>3, KindsOfContents DEF Good, LocalKept, Damaged
      <4> QED
        BY <1>0, <2>1, <3>3, <4>1 DEF Grows, LocalKept
    <3> QED
      BY <3>1, <3>2, <3>3
  <2> QED
    BY <2>1 DEF LocalKept
<1>3. CacheLinked(b)'
  BY DEF Good, CacheLinked
<1>4. ASSUME NEW c \in Client, op'[c] = op[c] PROVE ChangeGood(op[c], b)'
  <2> SUFFICES ASSUME op[c].pc \in Committed, op[c].bucket = b
               PROVE  /\ op[c].file = path'[b]
                      /\ disk'[path'[b]] \in Rows => op[c].row \in disk'[path'[b]]
                      /\ op[c].pc = "upload" /\ op[c].snap \in Rows =>
                            acked[b] \subseteq op[c].snap /\ op[c].row \in op[c].snap
    BY <1>4 DEF ChangeGood
  <2>1. /\ op[c].file = path[b]
        /\ disk[path[b]] \in Rows => op[c].row \in disk[path[b]]
        /\ op[c].file \in File /\ disk[path[b]] \in Openable
        /\ op[c].pc = "upload" /\ op[c].snap \in Rows =>
              acked[b] \subseteq op[c].snap /\ op[c].row \in op[c].snap
    BY DEF Good, ChangeGood, Sound, ChangeSound, Opened
  <2>2. path'[b] = path[b] /\ path[b] \in File
    BY <2>1, SyncAssumption
  <2>3. disk'[path'[b]] \in Rows => op[c].row \in disk'[path'[b]]
    BY <2>1, <2>2, KindsOfContents DEF Grows
  <2> QED
    BY <2>1, <2>2, <2>3
<1>5. ASSUME NEW s \in Syncer, sync'[s] = sync[s] PROVE PassGood(sync[s], b)'
  BY <1>5 DEF Good, PassGood
<1>6. daemon' = daemon => FlushGood(daemon, b)'
  BY DEF Good, FlushGood
<1> QED
  BY <1>1, <1>2, <1>3, <1>4, <1>5, <1>6 DEF Good

\* A step that leaves the local databases alone.
LEMMA RemoteStep ==
    ASSUME TypeOK, Sound, StepTypes', UNCHANGED <<local, acked>>,
           \A c \in Client : op'[c] = op[c] \/ ChangeSound(op[c])',
           \A s \in Syncer : sync'[s] = sync[s] \/ PassSound(sync[s])',
           daemon' = daemon \/ FlushSound(daemon)',
           \A b \in Bucket : Good(b) =>
              /\ remote'[b] \in {remote[b]} \cup Broken \/ acked[b] \subseteq remote'[b]
              /\ \A c \in Client : op'[c] = op[c] \/ ChangeGood(op[c], b)'
              /\ \A s \in Syncer : sync'[s] = sync[s] \/ PassGood(sync[s], b)'
              /\ daemon' = daemon \/ FlushGood(daemon, b)'
    PROVE  Advances
<1>1. Grows
  BY SameGrows DEF local
<1>2. Sound'
  BY <1>1, SoundStep DEF local
<1>3. ASSUME NEW b \in Bucket, Good(b) PROVE Good(b)'
  BY <1>1, <1>3, GoodStep DEF local
<1> QED
  BY <1>1, <1>2, <1>3 DEF Advances

-----------------------------------------------------------------------------
(***************************************************************************)
(* Steps of requests                                                       *)
(***************************************************************************)

LEMMA OpMoves ==
    ASSUME TypeOK, NEW c \in Client, NEW r \in Change \cup {Idle},
           op' = [op EXCEPT ![c] = r]
    PROVE  /\ op' \in [Client -> Change \cup {Idle}]
           /\ op'[c] = r
           /\ \A d \in Client : d # c => op'[d] = op[d]
  BY DEF TypeOK

LEMMA IdleChange ==
    /\ Idle.pc = "idle"
    /\ ~(Idle.pc \in Committed)
  BY DEF Idle, Committed

LEMMA ChangeStartAdvances ==
    ASSUME TypeOK, Sound, NEW c \in Client, NEW b \in Bucket, NEW r \in Row,
           ChangeStart(c, b, r)
    PROVE  Advances
<1> DEFINE new == [pc |-> "record", bucket |-> b, row |-> r, file |-> NoFile, snap |-> {}]
<1>1. new \in Change /\ new.pc = "record"
  BY RowsAreSets, KindsOfContents DEF Change
<1>2. op' = [op EXCEPT ![c] = new]
  BY DEF ChangeStart
<1> HIDE DEF new
<1>3. /\ op' \in [Client -> Change \cup {Idle}]
      /\ op'[c].pc = "record"
      /\ \A d \in Client : d # c => op'[d] = op[d]
  BY <1>1, <1>2, OpMoves
<1>4. started' \in 0..MaxOps
  BY SyncAssumption DEF ChangeStart, TypeOK
<1>5. StepTypes'
  BY <1>3, <1>4, SameTypes, GateTypes DEF ChangeStart, StepTypes, TypeOK
<1>6. ChangeSound(op[c])' /\ \A a \in Bucket : ChangeGood(op[c], a)'
  BY <1>3 DEF ChangeSound, ChangeGood, Committed
<1> QED
  BY <1>3, <1>5, <1>6, RemoteStep DEF ChangeStart

LEMMA ChangeRecordAdvances ==
    ASSUME TypeOK, Sound, NEW c \in Client, NEW f \in File, ChangeRecord(c, f)
    PROVE  Advances
<1>1. op[c] \in Change /\ op[c].pc = "record"
  BY ChangeOf DEF ChangeRecord
<1>b. PICK b \in Bucket : b = op[c].bucket
  BY <1>1 DEF Change
<1> DEFINE r == [op[c] EXCEPT !.pc = "snapshot", !.file = f]
<1>2. op[c].row \in Row /\ {op[c].row} \in Rows
  BY <1>1, RowsAreSets DEF Change
<1>3. /\ r \in Change /\ r.pc = "snapshot" /\ r.file = f
      /\ r.bucket = b /\ r.row = op[c].row
  BY <1>1, <1>b DEF Change
<1>4. OpenCached(b, f, {op[c].row})
  BY <1>b DEF ChangeRecord
<1>5. op' = [op EXCEPT ![c] = r]
  BY DEF ChangeRecord
<1> HIDE DEF r
<1>6. /\ LocalType'
      /\ cached'[b] = f /\ Opened(b, cached[b])'
      /\ disk'[f] \in Rows => {op[c].row} \subseteq disk'[f]
      /\ \A a \in Bucket : a # b => path'[a] = path[a] /\ cached'[a] = cached[a]
      /\ path[b] # NoFile => path' = path
      /\ cached[b] = NoFile => path'[b] = f
      /\ cached[b] # NoFile => path' = path /\ f = cached[b]
      /\ path[b] = NoFile /\ cached[b] = NoFile /\ b \notin exposed' => remote[b] = {}
      /\ Grows
  BY <1>2, <1>4, OpenCachedDoes
<1>7. /\ op' \in [Client -> Change \cup {Idle}]
      /\ op'[c] = r
      /\ \A d \in Client : d # c => op'[d] = op[d]
  BY <1>3, <1>5, OpMoves
<1>8. StepTypes'
  BY <1>6, <1>7 DEF ChangeRecord, StepTypes, TypeOK, GateTypeOK
<1>9. ChangeSound(op[c])'
  <2>1. Opened(b, f)'
    BY <1>6 DEF Opened
  <2> QED
    BY <1>3, <1>6, <1>7, <2>1 DEF ChangeSound, Opened
<1>10. \A a \in Bucket :
          cached'[a] \in {cached[a], NoFile} \/ Opened(a, cached[a])'
  BY <1>6
<1>11. Sound'
  BY <1>6, <1>7, <1>8, <1>9, <1>10, SoundStep DEF ChangeRecord
<1>12. ASSUME NEW a \in Bucket, Good(a), a \notin exposed'
       PROVE  Good(a)'
  <2>1. CASE a # b
    <3>1. ChangeGood(op[c], a)'
      BY <1>3, <1>7, <2>1 DEF ChangeGood
    <3> QED
      BY <1>6, <1>7, <1>8, <1>12, <2>1, <3>1, GoodStep DEF ChangeRecord
  <2>2. CASE a = b
    <3>1. path'[b] = f
      BY <1>6, <1>12, <2>2 DEF Good, CacheLinked
    <3>2. ChangeGood(op[c], b)'
      BY <1>3, <1>6, <1>7, <3>1 DEF ChangeGood
    <3>3. \/ path'[b] = path[b]
          \/ path[b] = NoFile /\ path'[b] # NoFile /\ acked[b] \subseteq disk'[path'[b]]
      <4>1. CASE path[b] = NoFile
        <5>1. remote[b] = {}
          BY <1>6, <1>12, <2>2, <4>1 DEF Good, CacheLinked
        <5>2. acked[b] = {}
          BY <1>12, <2>2, <5>1, KindsOfContents, RowsAreSets DEF Good, RemoteKept
        <5> QED
          BY <3>1, <4>1, <5>2, SyncAssumption
      <4>2. CASE path[b] # NoFile
        BY <1>6, <4>2
      <4> QED
        BY <4>1, <4>2
    <3> QED
      BY <1>6, <1>7, <1>8, <1>12, <2>2, <3>1, <3>2, <3>3, GoodStep DEF ChangeRecord
  <2> QED
    BY <2>1, <2>2
<1> QED
  BY <1>6, <1>8, <1>11, <1>12 DEF Advances

\* The change ends without an effect: a file that opens and fails the
\* transaction stays as it is.
LEMMA ChangeRecordFailsAdvances ==
    ASSUME TypeOK, Sound, NEW c \in Client, NEW f \in File,
           ChangeRecordFails(c, f)
    PROVE  Advances
<1>1. /\ op' \in [Client -> Change \cup {Idle}]
      /\ op'[c] = Idle
      /\ \A d \in Client : d # c => op'[d] = op[d]
  BY OpMoves DEF ChangeRecordFails
<1>2. ChangeSound(op[c])' /\ \A a \in Bucket : ChangeGood(op[c], a)'
  BY <1>1, IdleChange DEF ChangeSound, ChangeGood
<1>3. UNCHANGED <<known, remote, status, sync, daemon, faults, started, acked,
                  overtaken>>
  BY DEF ChangeRecordFails
<1>4. CASE UNCHANGED local
  <2>1. StepTypes'
    BY <1>1, <1>3, <1>4, SameTypes, TypesNow DEF StepTypes, GateTypeOK
  <2> QED
    BY <1>1, <1>2, <1>3, <1>4, <2>1, RemoteStep
<1>5. CASE OpenCached(op[c].bucket, f, {}) /\ disk[f] = Marred
  <2>1. PICK b \in Bucket : b = op[c].bucket
    BY ChangeOf DEF ChangeRecordFails, Change
  <2>2. With(disk[f], {}) = Marred /\ disk[f] # Unused
    BY <1>5, KindsOfContents DEF With
  <2>3. /\ UNCHANGED <<disk, path, exposed>> /\ path[b] = f
        /\ cached' = [cached EXCEPT ![b] = f]
    <3>1. CASE /\ cached[b] = f
               /\ disk' = [disk EXCEPT ![f] = With(disk[f], {})]
               /\ UNCHANGED <<path, cached, exposed>>
      <4>1. path[b] = f
        BY <1>5, <3>1, KindsOfContents DEF Sound, Opened
      <4> QED
        BY <1>5, <2>2, <3>1, <4>1 DEF TypeOK
    <3>2. CASE OpenLocal(b, f, {}) /\ cached' = [cached EXCEPT ![b] = f]
      BY <1>5, <2>2, <3>2 DEF OpenLocal, TypeOK
    <3> QED
      BY <1>5, <2>1, <3>1, <3>2 DEF OpenCached
  <2>4. /\ cached' \in [Bucket -> File \cup {NoFile}] /\ cached'[b] = f
        /\ \A a \in Bucket : a # b => cached'[a] = cached[a]
    BY <2>3 DEF TypeOK
  <2>5. StepTypes'
    BY <1>1, <1>3, <2>3, <2>4 DEF StepTypes, LocalType, TypeOK, GateTypeOK
  <2>6. Grows
    BY <2>3, SameGrows
  <2>7. \A a \in Bucket :
           cached'[a] \in {cached[a], NoFile} \/ Opened(a, cached[a])'
    <3>1. Opened(b, cached[b])'
      BY <1>5, <2>3, <2>4, KindsOfContents DEF Opened
    <3> QED
      BY <2>4, <3>1
  <2>8. Sound'
    BY <1>1, <1>2, <1>3, <2>5, <2>6, <2>7, SoundStep
  <2>9. \A a \in Bucket : cached'[a] \in {cached[a], NoFile, path'[a]}
    BY <2>3, <2>4
  <2>10. ASSUME NEW a \in Bucket, Good(a) PROVE Good(a)'
    BY <1>1, <1>2, <1>3, <2>3, <2>5, <2>6, <2>9, <2>10, GoodStep
  <2> QED
    BY <2>5, <2>6, <2>8, <2>10 DEF Advances
<1> QED
  BY <1>4, <1>5 DEF ChangeRecordFails

LEMMA ChangeSnapshotAdvances ==
    ASSUME TypeOK, Sound, NEW c \in Client, ChangeSnapshot(c)
    PROVE  Advances
<1>1. op[c] \in Change /\ op[c].pc = "snapshot"
  BY ChangeOf DEF ChangeSnapshot
<1>2. /\ op[c].file \in File /\ Opened(op[c].bucket, op[c].file)
      /\ disk[op[c].file] \in Openable
  BY <1>1 DEF Sound, ChangeSound, Committed, Opened
<1> DEFINE r == [op[c] EXCEPT !.pc = "upload", !.snap = disk[op[c].file]]
<1>3. /\ r \in Change /\ r.pc = "upload" /\ r.file = op[c].file
      /\ r.bucket = op[c].bucket /\ r.row = op[c].row /\ r.snap = disk[op[c].file]
  BY <1>1, <1>2 DEF Change
<1>4. op' = [op EXCEPT ![c] = r]
  BY DEF ChangeSnapshot
<1> HIDE DEF r
<1>5. /\ op' \in [Client -> Change \cup {Idle}]
      /\ op'[c] = r
      /\ \A d \in Client : d # c => op'[d] = op[d]
  BY <1>3, <1>4, OpMoves
<1>6. StepTypes'
  BY <1>5, SameTypes, TypesNow DEF ChangeSnapshot, StepTypes, GateTypeOK
<1>7. UNCHANGED <<local, acked>> /\ UNCHANGED <<disk, path>>
  BY DEF ChangeSnapshot, local
<1>8. ChangeSound(op[c])'
  <2>1. r.snap = Marred => Damaged(r.bucket)
    BY <1>2, <1>3, KindsOfContents DEF Opened, Damaged
  <2> QED
    BY <1>2, <1>3, <1>5, <1>7, <2>1 DEF ChangeSound, Opened, Damaged
<1>9. ASSUME NEW b \in Bucket, Good(b) PROVE ChangeGood(op[c], b)'
  <2> SUFFICES ASSUME op[c].bucket = b
               PROVE  /\ r.file = path[b]
                      /\ disk[path[b]] \in Rows => r.row \in disk[path[b]]
                      /\ r.snap \in Rows
                            => acked[b] \subseteq r.snap /\ r.row \in r.snap
    BY <1>3, <1>5, <1>7 DEF ChangeGood
  <2>1. /\ op[c].file = path[b]
        /\ disk[path[b]] \in Rows => op[c].row \in disk[path[b]]
    BY <1>1, <1>9 DEF Good, ChangeGood, Committed
  <2>2. disk[path[b]] \in Rows => acked[b] \subseteq disk[path[b]]
    BY <1>2, <1>9, <2>1, KindsOfContents DEF Good, LocalKept, Damaged
  <2> QED
    BY <1>3, <2>1, <2>2
<1> QED
  BY <1>5, <1>6, <1>7, <1>8, <1>9, RemoteStep DEF ChangeSnapshot

\* The damage stays where it is, and the change is not acknowledged.
LEMMA ChangeSnapshotFailsAdvances ==
    ASSUME TypeOK, Sound, NEW c \in Client, ChangeSnapshotFails(c)
    PROVE  Advances
<1>1. op[c].bucket \in Bucket
  BY ChangeOf DEF ChangeSnapshotFails, Change
<1>2. /\ op' \in [Client -> Change \cup {Idle}]
      /\ op'[c] = Idle
      /\ \A d \in Client : d # c => op'[d] = op[d]
  BY OpMoves DEF ChangeSnapshotFails
<1>3. StepTypes'
  BY <1>1, <1>2, SameTypes, GateTypes, TypesNow DEF ChangeSnapshotFails, StepTypes
<1>4. ChangeSound(op[c])' /\ \A a \in Bucket : ChangeGood(op[c], a)'
  BY <1>2, IdleChange DEF ChangeSound, ChangeGood
<1> QED
  BY <1>2, <1>3, <1>4, RemoteStep DEF ChangeSnapshotFails

\* The change is acknowledged.  No other upload of the bucket is under way.
LEMMA ChangeUploadAdvances ==
    ASSUME TypeOK, Sound, NEW c \in Client, ChangeUpload(c)
    PROVE  Advances
<1>1. op[c] \in Change /\ op[c].pc = "upload"
  BY ChangeOf DEF ChangeUpload
<1>b. PICK b \in Bucket : b = op[c].bucket
  BY <1>1 DEF Change
<1>2. op[c].row \in Row /\ op[c].snap \in Openable
  BY <1>1 DEF Change
<1>3. /\ op' \in [Client -> Change \cup {Idle}]
      /\ op'[c] = Idle
      /\ \A d \in Client : d # c => op'[d] = op[d]
  BY OpMoves DEF ChangeUpload
<1>4. /\ remote' \in [Bucket -> Contents]
      /\ remote'[b] = op[c].snap
      /\ \A a \in Bucket : a # b => remote'[a] = remote[a]
  BY <1>b, <1>2, KindsOfContents DEF ChangeUpload, TypeOK
<1>5. /\ acked' \in [Bucket -> Rows]
      /\ acked'[b] = acked[b] \cup {op[c].row}
      /\ \A a \in Bucket : a # b => acked'[a] = acked[a]
  BY <1>b, <1>2, RowsAreSets DEF ChangeUpload, TypeOK
<1>6. UNCHANGED <<disk, path, cached, exposed>> /\ UNCHANGED local
  BY DEF ChangeUpload, local
<1>7. StepTypes'
  BY <1>3, <1>4, <1>5, <1>6, SameTypes, TypesNow DEF ChangeUpload, StepTypes, GateTypeOK
<1>8. ChangeSound(op[c])' /\ \A a \in Bucket : ChangeGood(op[c], a)'
  BY <1>3, IdleChange DEF ChangeSound, ChangeGood
<1>9. Grows
  BY <1>6, SameGrows
<1>10. Sound'
  BY <1>3, <1>6, <1>7, <1>8, <1>9, SoundStep DEF ChangeUpload
<1>11. ASSUME NEW a \in Bucket, Good(a), a # b PROVE Good(a)'
  BY <1>3, <1>4, <1>5, <1>6, <1>7, <1>8, <1>9, <1>11, GoodStep DEF ChangeUpload
<1>12. ASSUME Good(b), ~Crossing(b) PROVE Good(b)'
  <2>1. /\ op[c].file = path[b]
        /\ disk[path[b]] \in Rows => op[c].row \in disk[path[b]]
        /\ op[c].snap \in Rows
              => acked[b] \subseteq op[c].snap /\ op[c].row \in op[c].snap
        /\ op[c].file \in File /\ disk[path[b]] \in Openable
    BY <1>1, <1>b, <1>12
    DEF Good, ChangeGood, Committed, Sound, ChangeSound, Opened
  <2>2. RemoteKept(b)'
    BY <1>2, <1>4, <1>5, <2>1, KindsOfContents DEF RemoteKept
  <2>3. disk[path[b]] \in Rows => acked[b] \subseteq disk[path[b]]
    BY <1>12, <2>1, KindsOfContents DEF Good, LocalKept, Damaged
  <2>4. LocalKept(b)' /\ CacheLinked(b)'
    BY <1>5, <1>6, <1>12, <2>1, <2>3, KindsOfContents
    DEF LocalKept, Good, CacheLinked, Damaged
  <2>5. Uploads(c, b)
    BY <1>1, <1>b DEF Uploads
  <2>6. ASSUME NEW x \in Client \cup Syncer \cup {Main}, x # c PROVE ~Uploads(x, b)
    BY <1>12, <2>5, <2>6 DEF Crossing
  <2>7. ASSUME NEW d \in Client PROVE ChangeGood(op[d], b)'
    <3>1. CASE d = c
      BY <1>2, <1>8, <3>1
    <3>2. CASE d # c
      <4>1. ~(op[d].pc = "upload" /\ op[d].bucket = b)
        BY <2>6, <3>2 DEF Uploads
      <4> QED
        BY <1>3, <1>6, <1>12, <3>2, <4>1 DEF Good, ChangeGood
    <3> QED
      BY <3>1, <3>2
  <2>8. ASSUME NEW s \in Syncer PROVE PassGood(sync[s], b)'
    <3>1. ~(sync[s].pc = "repair_upload" /\ sync[s].bucket = b)
      <4>1. s # c
        BY SyncAssumption
      <4> QED
        BY <2>6, <4>1 DEF Uploads, At
    <3>2. path'[b] # NoFile
      BY <1>6, <2>1, SyncAssumption
    <3> QED
      BY <3>1, <3>2 DEF PassGood, ChangeUpload
  <2>9. FlushGood(daemon, b)'
    <3>1. Main # c
      BY SyncAssumption
    <3>2. ~(daemon.pc = "flush_upload" /\ daemon.bucket = b)
      BY <2>6, <3>1 DEF Uploads
    <3> QED
      BY <3>2 DEF FlushGood, ChangeUpload
  <2> QED
    BY <2>2, <2>4, <2>7, <2>8, <2>9 DEF Good
<1> QED
  BY <1>7, <1>9, <1>10, <1>11, <1>12 DEF Advances

LEMMA ChangeUploadFailsAdvances ==
    ASSUME TypeOK, Sound, NEW c \in Client, ChangeUploadFails(c)
    PROVE  Advances
<1>1. op[c] \in Change /\ op[c].pc = "upload"
  BY ChangeOf DEF ChangeUploadFails
<1>b. PICK b \in Bucket : b = op[c].bucket
  BY <1>1 DEF Change
<1>2. op[c].row \in Row /\ op[c].snap \in Openable
  BY <1>1 DEF Change
<1>3. /\ op' \in [Client -> Change \cup {Idle}]
      /\ op'[c] = Idle
      /\ \A d \in Client : d # c => op'[d] = op[d]
  BY OpMoves DEF ChangeUploadFails
<1>4. /\ remote' \in [Bucket -> Contents]
      /\ remote'[b] \in {remote[b], op[c].snap}
      /\ \A a \in Bucket : a # b => remote'[a] = remote[a]
  BY <1>b, <1>2, KindsOfContents DEF ChangeUploadFails, TypeOK
<1>5. StepTypes'
  BY <1>b, <1>3, <1>4, SameTypes, FaultTypes, GateTypes, TypesNow
  DEF ChangeUploadFails, StepTypes
<1>6. ChangeSound(op[c])' /\ \A a \in Bucket : ChangeGood(op[c], a)'
  BY <1>3, IdleChange DEF ChangeSound, ChangeGood
<1>7. ASSUME NEW a \in Bucket, Good(a)
      PROVE  remote'[a] \in {remote[a]} \cup Broken \/ acked[a] \subseteq remote'[a]
  BY <1>1, <1>b, <1>2, <1>4, <1>7, KindsOfContents DEF Good, ChangeGood, Committed
<1> QED
  BY <1>3, <1>5, <1>6, <1>7, RemoteStep DEF ChangeUploadFails

LEMMA ReadAdvances ==
    ASSUME TypeOK, Sound, NEW b \in Bucket, NEW f \in File, Read(b, f)
    PROVE  Advances
<1>1. OpenCached(b, f, {}) /\ {} \in Rows
  BY RowsAreSets DEF Read
<1>2. /\ LocalType'
      /\ cached'[b] = f /\ Opened(b, cached[b])'
      /\ \A a \in Bucket : a # b => path'[a] = path[a] /\ cached'[a] = cached[a]
      /\ path[b] # NoFile => path' = path
      /\ cached[b] = NoFile => path'[b] = f
      /\ cached[b] # NoFile => path' = path /\ f = cached[b]
      /\ path[b] = NoFile /\ cached[b] = NoFile /\ b \notin exposed' => remote[b] = {}
      /\ Grows
  BY <1>1, OpenCachedDoes
<1>3. StepTypes' /\ UNCHANGED <<op, sync, daemon, acked, remote>>
  BY <1>2 DEF Read, actors, StepTypes, TypeOK, GateTypeOK
<1>4. \A a \in Bucket :
         cached'[a] \in {cached[a], NoFile} \/ Opened(a, cached[a])'
  BY <1>2
<1>5. Sound'
  BY <1>2, <1>3, <1>4, SoundStep
<1>6. ASSUME NEW a \in Bucket, Good(a), a \notin exposed'
      PROVE  Good(a)'
  <2>1. CASE a # b
    BY <1>2, <1>3, <1>6, <2>1, GoodStep
  <2>2. CASE a = b
    <3>1. path'[b] = f
      BY <1>2, <1>6, <2>2 DEF Good, CacheLinked
    <3>2. \/ path'[b] = path[b]
          \/ path[b] = NoFile /\ path'[b] # NoFile /\ acked[b] \subseteq disk'[path'[b]]
      <4>1. CASE path[b] = NoFile
        <5>1. remote[b] = {}
          BY <1>2, <1>6, <2>2, <4>1 DEF Good, CacheLinked
        <5>2. acked[b] = {}
          BY <1>6, <2>2, <5>1, KindsOfContents, RowsAreSets DEF Good, RemoteKept
        <5> QED
          BY <3>1, <4>1, <5>2, SyncAssumption
      <4>2. CASE path[b] # NoFile
        BY <1>2, <4>2
      <4> QED
        BY <4>1, <4>2
    <3> QED
      BY <1>2, <1>3, <1>6, <2>2, <3>1, <3>2, GoodStep
  <2> QED
    BY <2>1, <2>2
<1> QED
  BY <1>2, <1>3, <1>5, <1>6 DEF Advances

\* Databases are closed; nothing else is touched.
LEMMA ClosingAdvances ==
    ASSUME TypeOK, Sound, StepTypes',
           UNCHANGED <<disk, path, exposed, remote, acked, op>>,
           \A b \in Bucket : cached'[b] \in {cached[b], NoFile},
           \A s \in Syncer : sync'[s] = sync[s] \/ PassSound(sync[s])',
           daemon' = daemon \/ FlushSound(daemon)',
           \A b \in Bucket : Good(b) =>
              /\ \A s \in Syncer : sync'[s] = sync[s] \/ PassGood(sync[s], b)'
              /\ daemon' = daemon \/ FlushGood(daemon, b)'
    PROVE  Advances
<1>1. Grows
  BY SameGrows
<1>2. Sound'
  BY <1>1, SoundStep
<1>3. ASSUME NEW b \in Bucket, Good(b) PROVE Good(b)'
  BY <1>1, <1>3, GoodStep
<1> QED
  BY <1>1, <1>2, <1>3 DEF Advances

LEMMA CloseUnusedAdvances ==
    ASSUME TypeOK, Sound, NEW b \in Bucket, CloseUnused(b)
    PROVE  Advances
<1>1. /\ cached' \in [Bucket -> File \cup {NoFile}]
      /\ \A a \in Bucket : cached'[a] \in {cached[a], NoFile}
  BY DEF CloseUnused, TypeOK
<1>2. StepTypes'
  BY <1>1 DEF CloseUnused, actors, StepTypes, LocalType, TypeOK, GateTypeOK
<1> QED
  BY <1>1, <1>2, ClosingAdvances DEF CloseUnused, actors


-----------------------------------------------------------------------------
(***************************************************************************)
(* Steps of a pass                                                         *)
(***************************************************************************)

LEMMA PassMoves ==
    ASSUME TypeOK, NEW s \in Syncer, NEW r \in Pass \cup {Idle},
           sync' = [sync EXCEPT ![s] = r]
    PROVE  /\ sync' \in [Syncer -> Pass \cup {Idle}]
           /\ sync'[s] = r
           /\ \A t \in Syncer : t # s => sync'[t] = sync[t]
  BY DEF TypeOK

LEMMA IdlePass ==
    /\ Idle \in Pass \cup {Idle}
    /\ PassSound(Idle) /\ \A b : PassGood(Idle, b)
  BY DEF Idle, PassSound, PassGood

\* A step that changes nothing but the pass, the gate and the server.
LEMMA PassStep ==
    ASSUME TypeOK, Sound, NEW s \in Syncer, NEW r \in Pass \cup {Idle},
           sync' = [sync EXCEPT ![s] = r],
           UNCHANGED <<local, op, daemon, started, acked, overtaken>>,
           known' \subseteq Bucket, UNCHANGED faults \/ Fault, GateTypeOK',
           remote' \in [Bucket -> Contents], PassSound(r),
           \A b \in Bucket : Good(b) =>
              /\ remote'[b] \in {remote[b]} \cup Broken \/ acked[b] \subseteq remote'[b]
              /\ PassGood(r, b)
    PROVE  Advances
<1>1. /\ sync' \in [Syncer -> Pass \cup {Idle}]
      /\ sync'[s] = r
      /\ \A t \in Syncer : t # s => sync'[t] = sync[t]
  BY PassMoves
<1>2. StepTypes'
  BY <1>1, SameTypes, FaultTypes, TypesNow DEF StepTypes
<1>3. UNCHANGED <<disk, path>> /\ UNCHANGED acked
  BY DEF local
<1>4. PassSound(sync[s])'
  BY <1>1, <1>3 DEF PassSound, Damaged
<1>5. ASSUME NEW b \in Bucket, Good(b) PROVE PassGood(sync[s], b)'
  BY <1>1, <1>3, <1>5 DEF PassGood
<1> QED
  BY <1>1, <1>2, <1>4, <1>5, RemoteStep

LEMMA SyncStartAdvances ==
    ASSUME TypeOK, Sound, NEW s \in Syncer, SyncStart(s)
    PROVE  Advances
<1> DEFINE r == [pc |-> "next", todo |-> Bucket, bucket |-> CHOOSE b \in Bucket : TRUE,
                 got |-> {}, victim |-> NoFile]
<1>1. r \in Pass /\ r.pc = "next"
  BY SyncAssumption, KindsOfContents, RowsAreSets DEF Pass
<1>2. sync' = [sync EXCEPT ![s] = r]
  BY DEF SyncStart
<1> HIDE DEF r
<1>3. PassSound(r) /\ \A b \in Bucket : PassGood(r, b)
  BY <1>1 DEF PassSound, PassGood
<1> QED
  BY <1>1, <1>2, <1>3, PassStep, TypesNow DEF SyncStart, StepTypes, GateTypeOK

LEMMA SyncEndAdvances ==
    ASSUME TypeOK, Sound, NEW s \in Syncer, SyncEnd(s)
    PROVE  Advances
  BY IdlePass, PassStep, TypesNow DEF SyncEnd, EndPass, StepTypes, GateTypeOK

LEMMA SyncFailsAdvances ==
    ASSUME TypeOK, Sound, NEW s \in Syncer, SyncFails(s)
    PROVE  Advances
  BY IdlePass, PassStep, TypesNow DEF SyncFails, EndPass, StepTypes, GateTypeOK

LEMMA SyncDownloadAdvances ==
    ASSUME TypeOK, Sound, NEW s \in Syncer, SyncDownload(s)
    PROVE  Advances
<1>1. sync[s] \in Pass
  BY PassOf DEF SyncDownload, At
<1>2. PICK b \in Bucket : b = Oldest(sync[s].todo)
  BY <1>1, OldestIsOne DEF Pass, SyncDownload
<1> DEFINE r == [sync[s] EXCEPT !.pc = "check", !.bucket = b, !.got = remote[b]]
<1>3. remote[b] \in Contents
  BY DEF TypeOK
<1>4. r \in Pass /\ r.pc = "check" /\ r.bucket = b /\ r.got = remote[b]
  BY <1>1, <1>3 DEF Pass
<1>5. sync' = [sync EXCEPT ![s] = r]
  BY <1>2 DEF SyncDownload
<1> HIDE DEF r
<1>6. PassSound(r)
  BY <1>4 DEF PassSound
<1>7. ASSUME NEW a \in Bucket, Good(a) PROVE PassGood(r, a)
  BY <1>4, <1>7 DEF PassGood, Good, RemoteKept
<1> QED
  BY <1>4, <1>5, <1>6, <1>7, PassStep, TypesNow DEF SyncDownload, StepTypes, GateTypeOK

\* A pass that goes on with its bucket and keeps what it has downloaded.
LEMMA GoesTo ==
    ASSUME TypeOK, NEW s \in Syncer, sync[s].pc # "idle",
           NEW step \in {"evict", "repair_evict", "export", "verify"},
           GoTo(s, step)
    PROVE  \E r \in Pass :
              /\ sync' = [sync EXCEPT ![s] = r]
              /\ r.pc = step /\ r.bucket = sync[s].bucket /\ r.got = sync[s].got
<1> DEFINE r == [sync[s] EXCEPT !.pc = step]
<1>1. sync[s] \in Pass
  BY PassOf
<1>2. r \in Pass /\ r.pc = step /\ r.bucket = sync[s].bucket /\ r.got = sync[s].got
  BY <1>1 DEF Pass
<1>3. sync' = [sync EXCEPT ![s] = r]
  BY DEF GoTo
<1> QED
  BY <1>2, <1>3

LEMMA Continues ==
    ASSUME TypeOK, NEW s \in Syncer, sync[s].pc # "idle", Continue(s)
    PROVE  \E r \in Pass : /\ sync' = [sync EXCEPT ![s] = r]
                           /\ PassSound(r) /\ \A b \in Bucket : PassGood(r, b)
                           /\ r.pc = "next"
<1> DEFINE r == [sync[s] EXCEPT !.pc = "next", !.todo = sync[s].todo \ {sync[s].bucket}]
<1>1. sync[s] \in Pass
  BY PassOf
<1>2. r \in Pass /\ r.pc = "next"
  BY <1>1 DEF Pass
<1>3. sync' = [sync EXCEPT ![s] = r]
  BY DEF Continue
<1> HIDE DEF r
<1> QED
  BY <1>2, <1>3 DEF PassSound, PassGood

LEMMA SyncFindsDamageAdvances ==
    ASSUME TypeOK, Sound, NEW s \in Syncer, SyncFindsDamage(s)
    PROVE  Advances
<1>1. sync[s] \in Pass /\ sync[s].bucket \in Bucket /\ sync[s].pc # "idle"
  BY PassOf DEF SyncFindsDamage, At, Pass
<1>2. PICK r \in Pass : sync' = [sync EXCEPT ![s] = r] /\ r.pc = "repair_evict"
  BY <1>1, GoesTo DEF SyncFindsDamage
<1>3. PassSound(r) /\ \A b \in Bucket : PassGood(r, b)
  BY <1>2 DEF PassSound, PassGood
<1>4. GateTypeOK'
  BY <1>1, GateTypes DEF SyncFindsDamage
<1> QED
  BY <1>2, <1>3, <1>4, PassStep, TypesNow DEF SyncFindsDamage, StepTypes

LEMMA SyncCompareAdvances ==
    ASSUME TypeOK, Sound, NEW s \in Syncer, SyncCompare(s)
    PROVE  Advances
<1>1. /\ sync[s] \in Pass /\ sync[s].bucket \in Bucket /\ sync[s].pc # "idle"
      /\ sync[s].pc = "check" /\ sync[s].got \in Rows
  BY PassOf DEF SyncCompare, At, Pass
<1>2. CASE path[sync[s].bucket] = NoFile /\ GoTo(s, "evict")
  <2>1. PICK r \in Pass : /\ sync' = [sync EXCEPT ![s] = r] /\ r.pc = "evict"
                          /\ r.bucket = sync[s].bucket /\ r.got = sync[s].got
    BY <1>1, <1>2, GoesTo
  <2>2. PassSound(r)
    BY <1>1, <1>2, <2>1 DEF PassSound, Damaged
  <2>3. ASSUME NEW b \in Bucket, Good(b) PROVE PassGood(r, b)
    BY <1>1, <2>1, <2>3 DEF Good, PassGood
  <2> QED
    BY <2>1, <2>2, <2>3, PassStep, TypesNow DEF SyncCompare, StepTypes, GateTypeOK
<1>3. CASE EndPass(s)
  BY <1>3, IdlePass, PassStep, TypesNow DEF SyncCompare, EndPass, StepTypes, GateTypeOK
<1>4. CASE Continue(s)
  BY <1>1, <1>4, Continues, PassStep, TypesNow DEF SyncCompare, StepTypes, GateTypeOK
<1> QED
  BY <1>2, <1>3, <1>4 DEF SyncCompare

\* Both evictions, of the plain pass and of the repair.
LEMMA SyncEvictAdvances ==
    ASSUME TypeOK, Sound, NEW s \in Syncer,
           \/ SyncEvict(s, "evict", "evicting")
           \/ SyncEvict(s, "repair_evict", "repair_evicting")
    PROVE  Advances
<1>1. sync[s] \in Pass /\ sync[s].pc \in {"evict", "repair_evict"}
  BY PassOf DEF SyncEvict, At
<1>2. PICK b \in Bucket : b = sync[s].bucket
  BY <1>1 DEF Pass
<1>3. PICK next \in {"evicting", "repair_evicting"} :
         /\ sync' = [sync EXCEPT ![s] = [sync[s] EXCEPT !.pc = next, !.victim = cached[b]]]
         /\ next = "evicting" => sync[s].pc = "evict"
  BY <1>2 DEF SyncEvict, At
<1> DEFINE r == [sync[s] EXCEPT !.pc = next, !.victim = cached[b]]
<1>4. cached[b] \in File \cup {NoFile}
  BY DEF TypeOK
<1>5. r \in Pass /\ r.pc = next /\ r.bucket = b /\ r.got = sync[s].got
  BY <1>1, <1>2, <1>4 DEF Pass
<1>6. sync' = [sync EXCEPT ![s] = r]
  BY <1>3
<1> HIDE DEF r
<1>7. /\ sync' \in [Syncer -> Pass \cup {Idle}]
      /\ sync'[s] = r
      /\ \A t \in Syncer : t # s => sync'[t] = sync[t]
  BY <1>5, <1>6, PassMoves
<1>8. /\ cached' \in [Bucket -> File \cup {NoFile}]
      /\ \A a \in Bucket : cached'[a] \in {cached[a], NoFile}
      /\ UNCHANGED <<disk, path, exposed, remote, acked, op, daemon>>
  BY <1>2 DEF SyncEvict, TypeOK
<1>9. StepTypes'
  BY <1>7, <1>8 DEF SyncEvict, StepTypes, LocalType, TypeOK, GateTypeOK
<1>10. PassSound(sync[s])'
  BY <1>1, <1>3, <1>5, <1>7, <1>8 DEF Sound, PassSound, Damaged
<1>11. ASSUME NEW a \in Bucket, Good(a) PROVE PassGood(sync[s], a)'
  <2>1. PassGood(sync[s], a)
    BY <1>11 DEF Good
  <2> QED
    BY <1>1, <1>2, <1>3, <1>5, <1>7, <1>8, <2>1 DEF PassGood
<1> QED
  BY <1>7, <1>8, <1>9, <1>10, <1>11, ClosingAdvances

LEMMA SyncEvictedAdvances ==
    ASSUME TypeOK, Sound, NEW s \in Syncer,
           \/ SyncEvicted(s, "evicting", "replace")
           \/ SyncEvicted(s, "repair_evicting", "validate")
    PROVE  Advances
<1>1. sync[s] \in Pass /\ sync[s].pc \in {"evicting", "repair_evicting"}
  BY PassOf DEF SyncEvicted, At
<1>2. PICK next \in {"replace", "validate"} :
         /\ sync' = [sync EXCEPT ![s] = [sync[s] EXCEPT !.pc = next, !.victim = NoFile]]
         /\ next = "replace" => sync[s].pc = "evicting"
  BY DEF SyncEvicted, At
<1> DEFINE r == [sync[s] EXCEPT !.pc = next, !.victim = NoFile]
<1>3. r \in Pass /\ r.pc = next /\ r.bucket = sync[s].bucket /\ r.got = sync[s].got
  BY <1>1 DEF Pass
<1>4. sync' = [sync EXCEPT ![s] = r]
  BY <1>2
<1> HIDE DEF r
<1>5. PassSound(r)
  BY <1>1, <1>2, <1>3 DEF Sound, PassSound
<1>6. ASSUME NEW b \in Bucket, Good(b) PROVE PassGood(r, b)
  <2>1. PassGood(sync[s], b)
    BY <1>6 DEF Good
  <2> QED
    BY <1>1, <1>2, <1>3, <2>1 DEF PassGood
<1> QED
  BY <1>3, <1>4, <1>5, <1>6, PassStep, TypesNow DEF SyncEvicted, StepTypes, GateTypeOK

\* The downloaded file is under the name of the local one.  A bucket whose
\* local database it replaces is overtaken.
LEMMA SyncReplaceAdvances ==
    ASSUME TypeOK, Sound, NEW s \in Syncer, NEW f \in File, SyncReplace(s, f)
    PROVE  Advances
<1>1. /\ sync[s] \in Pass /\ sync[s].pc = "replace" /\ sync[s].pc # "idle"
  BY PassOf DEF SyncReplace, At
<1>2. PICK b \in Bucket : b = sync[s].bucket
  BY <1>1 DEF Pass
<1>3. sync[s].got \in Rows /\ ~Damaged(sync[s].bucket)
  BY <1>1 DEF Sound, PassSound
<1>4. PICK r \in Pass : /\ sync' = [sync EXCEPT ![s] = r] /\ r.pc = "next"
                        /\ PassSound(r) /\ \A a \in Bucket : PassGood(r, a)
  BY <1>1, Continues DEF SyncReplace
<1>5. /\ sync' \in [Syncer -> Pass \cup {Idle}]
      /\ sync'[s] = r
      /\ \A t \in Syncer : t # s => sync'[t] = sync[t]
  BY <1>4, PassMoves
<1>6. /\ disk[f] = Unused
      /\ disk' = [disk EXCEPT ![f] = sync[s].got]
      /\ path' = [path EXCEPT ![b] = f]
      /\ path[b] # NoFile => b \in overtaken'
      /\ overtaken' \subseteq Bucket
      /\ UNCHANGED <<known, cached, exposed, remote, status, op, daemon, faults,
                     started, acked>>
  BY <1>2 DEF SyncReplace, TypeOK
<1>7. /\ disk' \in [File -> Contents \cup {Unused}]
      /\ path' \in [Bucket -> File \cup {NoFile}]
      /\ path'[b] = f /\ disk'[f] = sync[s].got
      /\ \A a \in Bucket : a # b => path'[a] = path[a]
  BY <1>3, <1>6, KindsOfContents DEF TypeOK
<1>8. Grows
  BY <1>2, <1>3, <1>6, <1>7, KindsOfContents DEF Grows, TypeOK, Sound, Damaged
<1>9. StepTypes'
  BY <1>5, <1>6, <1>7 DEF StepTypes, LocalType, TypeOK, GateTypeOK
<1>10. PassSound(sync[s])' /\ \A a \in Bucket : PassGood(sync[s], a)'
  BY <1>4, <1>5 DEF PassSound, PassGood
<1>11. Sound'
  BY <1>5, <1>6, <1>8, <1>9, <1>10, SoundStep
<1>12. ASSUME NEW a \in Bucket, Good(a), a \notin overtaken'
       PROVE  Good(a)'
  <2>1. CASE a # b
    BY <1>5, <1>6, <1>7, <1>8, <1>9, <1>10, <1>12, <2>1, GoodStep
  <2>2. CASE a = b
    <3>1. path[b] = NoFile
      BY <1>6, <1>12, <2>2
    <3>2. acked[b] \subseteq sync[s].got
      BY <1>1, <1>2, <1>3, <1>12, <2>2, <3>1, KindsOfContents DEF Good, PassGood
    <3>3. path'[b] # NoFile /\ acked[b] \subseteq disk'[path'[b]]
      BY <1>7, <3>2, SyncAssumption
    <3> QED
      BY <1>5, <1>6, <1>8, <1>9, <1>10, <1>12, <2>2, <3>1, <3>3, GoodStep
  <2> QED
    BY <2>1, <2>2
<1> QED
  BY <1>8, <1>9, <1>11, <1>12 DEF Advances

\* A repair that checks a missing database makes it.
LEMMA RepairValidateAdvances ==
    ASSUME TypeOK, Sound, NEW s \in Syncer, NEW f \in File, RepairValidate(s, f)
    PROVE  Advances
<1>1. /\ sync[s] \in Pass /\ sync[s].pc # "idle" /\ {} \in Rows
  BY PassOf, RowsAreSets DEF RepairValidate, At
<1>2. PICK b \in Bucket : b = sync[s].bucket
  BY <1>1 DEF Pass
<1>3. PICK r \in Pass : /\ sync' = [sync EXCEPT ![s] = r]
                        /\ r.pc = "export" /\ r.bucket = b
  BY <1>1, <1>2, GoesTo DEF RepairValidate
<1>4. /\ sync' \in [Syncer -> Pass \cup {Idle}]
      /\ sync'[s] = r
      /\ \A t \in Syncer : t # s => sync'[t] = sync[t]
  BY <1>3, PassMoves
<1>5. OpenLocal(b, f, {})
  BY <1>2 DEF RepairValidate
<1>0. disk'[f] \in Rows
  BY DEF RepairValidate
<1>6. /\ disk' \in [File -> Contents \cup {Unused}]
      /\ path' \in [Bucket -> File \cup {NoFile}]
      /\ exposed' \subseteq Bucket
      /\ path'[b] = f /\ disk'[f] \in Openable
      /\ \A a \in Bucket : a # b => path'[a] = path[a]
      /\ path[b] # NoFile => path' = path
      /\ path[b] = NoFile /\ b \notin exposed' => remote[b] = {}
      /\ Grows
  BY <1>1, <1>5, OpenLocalDoes
<1>7. UNCHANGED <<known, cached, remote, status, op, daemon, faults, started,
                  acked, overtaken>>
  BY DEF RepairValidate
<1>8. StepTypes'
  BY <1>4, <1>6, <1>7 DEF StepTypes, LocalType, TypeOK, GateTypeOK
<1>9. PassSound(sync[s])' /\ \A a \in Bucket : PassGood(sync[s], a)'
  BY <1>0, <1>3, <1>4, <1>6, SyncAssumption DEF PassSound, PassGood
<1>10. Sound'
  BY <1>4, <1>6, <1>7, <1>8, <1>9, SoundStep
<1>11. ASSUME NEW a \in Bucket, Good(a), a \notin exposed'
       PROVE  Good(a)'
  <2>1. CASE a # b
    BY <1>4, <1>6, <1>7, <1>8, <1>9, <1>11, <2>1, GoodStep
  <2>2. CASE a = b
    <3>1. \/ path'[b] = path[b]
          \/ path[b] = NoFile /\ path'[b] # NoFile /\ acked[b] \subseteq disk'[path'[b]]
      <4>1. CASE path[b] = NoFile
        <5>1. remote[b] = {}
          BY <1>6, <1>11, <2>2, <4>1
        <5>2. acked[b] = {}
          BY <1>11, <2>2, <5>1, KindsOfContents, RowsAreSets DEF Good, RemoteKept
        <5> QED
          BY <1>6, <4>1, <5>2, SyncAssumption
      <4>2. CASE path[b] # NoFile
        BY <1>6, <4>2
      <4> QED
        BY <4>1, <4>2
    <3> QED
      BY <1>4, <1>6, <1>7, <1>8, <1>9, <1>11, <2>2, <3>1, GoodStep
  <2> QED
    BY <2>1, <2>2
<1> QED
  BY <1>6, <1>8, <1>10, <1>11 DEF Advances

LEMMA RepairCopyFailsAdvances ==
    ASSUME TypeOK, Sound, NEW s \in Syncer, RepairCopyFails(s)
    PROVE  Advances
<1>1. sync[s] \in Pass /\ sync[s].bucket \in Bucket
  BY PassOf DEF RepairCopyFails, At, Pass
<1>2. GateTypeOK'
  BY <1>1, GateTypes DEF RepairCopyFails, RepairFails
<1> QED
  BY <1>2, IdlePass, PassStep, TypesNow
  DEF RepairCopyFails, RepairFails, EndPass, StepTypes

LEMMA RepairExportAdvances ==
    ASSUME TypeOK, Sound, NEW s \in Syncer, RepairExport(s)
    PROVE  Advances
<1>1. sync[s] \in Pass /\ sync[s].pc = "export"
  BY PassOf DEF RepairExport, At
<1>2. PICK b \in Bucket : b = sync[s].bucket
  BY <1>1 DEF Pass
<1>3. path[b] # NoFile /\ disk[path[b]] \in Rows
  BY <1>1, <1>2 DEF Sound, PassSound
<1> DEFINE r == [sync[s] EXCEPT !.pc = "repair_upload", !.got = disk[path[b]]]
<1>4. r \in Pass /\ r.pc = "repair_upload" /\ r.bucket = b /\ r.got = disk[path[b]]
  BY <1>1, <1>2, <1>3, KindsOfContents DEF Pass
<1>5. sync' = [sync EXCEPT ![s] = r]
  BY <1>2 DEF RepairExport
<1> HIDE DEF r
<1>6. PassSound(r)
  BY <1>3, <1>4 DEF PassSound
<1>7. ASSUME NEW a \in Bucket, Good(a) PROVE PassGood(r, a)
  BY <1>3, <1>4, <1>7, KindsOfContents DEF Good, LocalKept, Damaged, PassGood
<1> QED
  BY <1>4, <1>5, <1>6, <1>7, PassStep, TypesNow DEF RepairExport, StepTypes, GateTypeOK

LEMMA RepairUploadAdvances ==
    ASSUME TypeOK, Sound, NEW s \in Syncer, RepairUpload(s)
    PROVE  Advances
<1>1. /\ sync[s] \in Pass /\ sync[s].pc = "repair_upload" /\ sync[s].pc # "idle"
  BY PassOf DEF RepairUpload, At
<1>2. PICK b \in Bucket : b = sync[s].bucket
  BY <1>1 DEF Pass
<1>3. sync[s].got \in Rows
  BY <1>1 DEF Sound, PassSound
<1>4. PICK r \in Pass : /\ sync' = [sync EXCEPT ![s] = r] /\ r.pc = "verify"
                        /\ r.got = sync[s].got
  BY <1>1, GoesTo DEF RepairUpload
<1>5. PassSound(r) /\ \A a \in Bucket : PassGood(r, a)
  BY <1>3, <1>4 DEF PassSound, PassGood
<1>6. /\ remote' \in [Bucket -> Contents]
      /\ remote'[b] = sync[s].got
      /\ \A a \in Bucket : a # b => remote'[a] = remote[a]
  BY <1>2, <1>3, KindsOfContents DEF RepairUpload, TypeOK
<1>7. ASSUME NEW a \in Bucket, Good(a)
      PROVE  remote'[a] \in {remote[a]} \cup Broken \/ acked[a] \subseteq remote'[a]
  BY <1>1, <1>2, <1>6, <1>7 DEF Good, PassGood
<1> QED
  BY <1>4, <1>5, <1>6, <1>7, PassStep, TypesNow DEF RepairUpload, StepTypes, GateTypeOK

LEMMA RepairUploadFailsAdvances ==
    ASSUME TypeOK, Sound, NEW s \in Syncer, RepairUploadFails(s)
    PROVE  Advances
<1>1. sync[s] \in Pass /\ sync[s].pc = "repair_upload"
  BY PassOf DEF RepairUploadFails, At
<1>2. PICK b \in Bucket : b = sync[s].bucket
  BY <1>1 DEF Pass
<1>3. sync[s].got \in Rows
  BY <1>1 DEF Sound, PassSound
<1>4. /\ remote' \in [Bucket -> Contents]
      /\ remote'[b] \in {remote[b], sync[s].got, Torn}
      /\ \A a \in Bucket : a # b => remote'[a] = remote[a]
  BY <1>2, <1>3, KindsOfContents DEF RepairUploadFails, UploadFailsDirectly, TypeOK
<1>5. ASSUME NEW a \in Bucket, Good(a)
      PROVE  remote'[a] \in {remote[a]} \cup Broken \/ acked[a] \subseteq remote'[a]
  BY <1>1, <1>2, <1>4, <1>5, KindsOfContents DEF Good, PassGood
<1>6. GateTypeOK'
  BY <1>2, GateTypes DEF RepairUploadFails, RepairFails
<1> QED
  BY <1>4, <1>5, <1>6, IdlePass, PassStep, TypesNow
  DEF RepairUploadFails, RepairFails, EndPass, StepTypes

LEMMA RepairVerifyAdvances ==
    ASSUME TypeOK, Sound, NEW s \in Syncer, RepairVerify(s)
    PROVE  Advances
<1>1. sync[s].pc # "idle" /\ sync[s].bucket \in Bucket
  BY PassOf DEF RepairVerify, At, Pass
<1>2. GateTypeOK'
  BY <1>1, GateTypes DEF RepairVerify
<1>3. PICK r \in Pass : /\ sync' = [sync EXCEPT ![s] = r]
                        /\ PassSound(r) /\ \A b \in Bucket : PassGood(r, b)
  BY <1>1, Continues DEF RepairVerify
<1> QED
  BY <1>2, <1>3, PassStep, TypesNow DEF RepairVerify, StepTypes

LEMMA RepairVerifyFailsAdvances ==
    ASSUME TypeOK, Sound, NEW s \in Syncer, RepairVerifyFails(s)
    PROVE  Advances
<1>1. sync[s].bucket \in Bucket
  BY PassOf DEF RepairVerifyFails, At, Pass
<1>2. GateTypeOK'
  BY <1>1, GateTypes DEF RepairVerifyFails, RepairFails
<1> QED
  BY <1>2, IdlePass, PassStep, TypesNow
  DEF RepairVerifyFails, RepairFails, EndPass, StepTypes

-----------------------------------------------------------------------------
(***************************************************************************)
(* Steps of the main goroutine and of the server                           *)
(***************************************************************************)

\* A step that changes nothing but the flush and the server.
LEMMA FlushMoves ==
    ASSUME TypeOK, Sound, daemon' \in Flush \cup {Running, Stopped},
           UNCHANGED <<known, local, status, op, sync, started, acked, overtaken>>,
           UNCHANGED faults \/ Fault,
           daemon' = daemon \/ FlushSound(daemon)',
           remote' \in [Bucket -> Contents],
           \A b \in Bucket : Good(b) =>
              /\ remote'[b] \in {remote[b]} \cup Broken \/ acked[b] \subseteq remote'[b]
              /\ daemon' = daemon \/ FlushGood(daemon, b)'
    PROVE  Advances
<1>1. StepTypes'
  BY SameTypes, FaultTypes, TypesNow DEF StepTypes, GateTypeOK
<1> QED
  BY <1>1, RemoteStep

LEMMA ShutdownStartAdvances ==
    ASSUME TypeOK, Sound, ShutdownStart
    PROVE  Advances
<1>1. daemon' \in Flush /\ daemon'.pc = "flush"
  BY SyncAssumption, KindsOfContents, RowsAreSets DEF ShutdownStart, Flush, TypeOK
<1>2. /\ cached' \in [Bucket -> File \cup {NoFile}]
      /\ \A a \in Bucket : cached'[a] \in {cached[a], NoFile}
      /\ UNCHANGED <<disk, path, exposed, remote, acked, op, sync>>
  BY DEF ShutdownStart
<1>3. StepTypes'
  BY <1>1, <1>2 DEF ShutdownStart, StepTypes, LocalType, TypeOK, GateTypeOK
<1>4. FlushSound(daemon)' /\ \A b \in Bucket : FlushGood(daemon, b)'
  BY <1>1 DEF FlushGood, FlushSound
<1> QED
  BY <1>2, <1>3, <1>4, ClosingAdvances

LEMMA FlushSaveAdvances ==
    ASSUME TypeOK, Sound, FlushSave
    PROVE  Advances
<1>1. daemon \in Flush /\ daemon.pc = "flush"
  BY FlushOf DEF FlushSave
<1>2. PICK b \in Bucket : b = Oldest(daemon.todo)
  BY <1>1, OldestIsOne DEF Flush, FlushSave
<1>3. UNCHANGED <<disk, path, acked, remote>>
  BY DEF FlushSave, local
<1>4. CASE daemon' = [daemon EXCEPT !.todo = daemon.todo \ {b}]
  <2>1. daemon' \in Flush /\ daemon'.pc = "flush"
    BY <1>1, <1>4 DEF Flush
  <2>2. FlushSound(daemon)' /\ \A a \in Bucket : FlushGood(daemon, a)'
    BY <2>1 DEF FlushGood, FlushSound
  <2> QED
    BY <1>3, <2>1, <2>2, FlushMoves, TypesNow DEF FlushSave, StepTypes
<1>5. CASE /\ path[b] # NoFile /\ disk[path[b]] \in Openable
           /\ daemon' = [pc |-> "flush_upload", todo |-> daemon.todo \ {b},
                         bucket |-> b, snap |-> disk[path[b]]]
  <2>2. daemon' \in Flush /\ daemon'.bucket = b /\ daemon'.snap = disk[path[b]]
    BY <1>1, <1>5 DEF Flush
  <2>3. ASSUME NEW a \in Bucket, Good(a) PROVE FlushGood(daemon, a)'
    BY <1>3, <1>5, <2>2, <2>3, KindsOfContents DEF FlushGood, Good, LocalKept, Damaged
  <2>4. FlushSound(daemon)'
    BY <1>3, <1>5, <2>2, KindsOfContents DEF FlushSound, Damaged
  <2> QED
    BY <1>3, <2>2, <2>3, <2>4, FlushMoves, TypesNow DEF FlushSave, StepTypes
<1> QED
  BY <1>2, <1>4, <1>5 DEF FlushSave

LEMMA FlushUploadAdvances ==
    ASSUME TypeOK, Sound, FlushUpload
    PROVE  Advances
<1>1. daemon \in Flush /\ daemon.pc = "flush_upload"
  BY FlushOf DEF FlushUpload
<1>2. PICK b \in Bucket : b = daemon.bucket
  BY <1>1 DEF Flush
<1>3. /\ remote' \in [Bucket -> Contents]
      /\ remote'[b] = daemon.snap
      /\ \A a \in Bucket : a # b => remote'[a] = remote[a]
  BY <1>1, <1>2, KindsOfContents DEF FlushUpload, Flush, TypeOK
<1>4. daemon' \in Flush /\ daemon'.pc = "flush"
  BY <1>1 DEF FlushUpload, Flush
<1>5. ASSUME NEW a \in Bucket, Good(a)
      PROVE  /\ remote'[a] \in {remote[a]} \cup Broken \/ acked[a] \subseteq remote'[a]
             /\ FlushGood(daemon, a)'
  BY <1>1, <1>2, <1>3, <1>4, <1>5, KindsOfContents DEF Good, FlushGood, Flush
<1>6. FlushSound(daemon)'
  BY <1>4 DEF FlushSound
<1> QED
  BY <1>3, <1>4, <1>5, <1>6, FlushMoves, TypesNow DEF FlushUpload, StepTypes

LEMMA FlushUploadFailsAdvances ==
    ASSUME TypeOK, Sound, FlushUploadFails
    PROVE  Advances
<1>1. daemon \in Flush /\ daemon.pc = "flush_upload"
  BY FlushOf DEF FlushUploadFails
<1>2. PICK b \in Bucket : b = daemon.bucket
  BY <1>1 DEF Flush
<1>3. /\ remote' \in [Bucket -> Contents]
      /\ remote'[b] \in {remote[b], daemon.snap, Torn}
      /\ \A a \in Bucket : a # b => remote'[a] = remote[a]
  BY <1>1, <1>2, KindsOfContents DEF FlushUploadFails, UploadFailsDirectly, Flush, TypeOK
<1>4. ASSUME NEW a \in Bucket, Good(a)
      PROVE  /\ remote'[a] \in {remote[a]} \cup Broken \/ acked[a] \subseteq remote'[a]
             /\ FlushGood(daemon, a)'
  BY <1>1, <1>2, <1>3, <1>4, KindsOfContents
  DEF Good, FlushGood, FlushUploadFails, Stopped, Flush
<1>5. FlushSound(daemon)'
  BY DEF FlushSound, FlushUploadFails, Stopped
<1> QED
  BY <1>3, <1>4, <1>5, FlushMoves, TypesNow DEF FlushUploadFails, StepTypes

LEMMA FlushEndAdvances ==
    ASSUME TypeOK, Sound, FlushEnd
    PROVE  Advances
<1>1. FlushSound(daemon)' /\ \A b \in Bucket : FlushGood(daemon, b)'
  BY DEF FlushEnd, Stopped, FlushGood, FlushSound
<1> QED
  BY <1>1, FlushMoves, TypesNow DEF FlushEnd, StepTypes

LEMMA RemoteDamageAdvances ==
    ASSUME TypeOK, Sound, NEW b \in Bucket, RemoteDamage(b)
    PROVE  Advances
<1>1. /\ remote' \in [Bucket -> Contents]
      /\ \A a \in Bucket : remote'[a] \in {remote[a]} \cup Broken
  BY DEF RemoteDamage, TypeOK, Contents, Broken
<1> QED
  BY <1>1, FlushMoves, TypesNow DEF RemoteDamage, actors, StepTypes

LEMMA StepAdvances ==
    ASSUME TypeOK, Sound, Step
    PROVE  Advances
<1>1. CASE \E c \in Client, b \in Bucket, r \in Row : ChangeStart(c, b, r)
  BY <1>1, ChangeStartAdvances
<1>2. ASSUME NEW c \in Client, ChangeStep(c) PROVE Advances
  BY <1>2, ChangeRecordAdvances, ChangeRecordFailsAdvances, ChangeSnapshotAdvances,
     ChangeSnapshotFailsAdvances, ChangeUploadAdvances, ChangeUploadFailsAdvances DEF ChangeStep
<1>3. CASE \E b \in Bucket, f \in File : Read(b, f)
  BY <1>3, ReadAdvances
<1>4. CASE \E b \in Bucket : CloseUnused(b)
  BY <1>4, CloseUnusedAdvances
<1>5. ASSUME NEW s \in Syncer, SyncStart(s) \/ SyncStep(s) PROVE Advances
  BY <1>5, SyncStartAdvances, SyncEndAdvances, SyncDownloadAdvances, SyncFailsAdvances,
     SyncFindsDamageAdvances, SyncCompareAdvances, SyncEvictAdvances,
     SyncEvictedAdvances, SyncReplaceAdvances DEF SyncStep
<1>6. ASSUME NEW s \in Syncer, RepairStep(s) PROVE Advances
  BY <1>6, SyncEvictAdvances, SyncEvictedAdvances, RepairValidateAdvances,
     RepairCopyFailsAdvances, RepairExportAdvances, RepairUploadAdvances,
     RepairUploadFailsAdvances, RepairVerifyAdvances, RepairVerifyFailsAdvances
  DEF RepairStep
<1>7. CASE ShutdownStart \/ FlushStep
  BY <1>7, ShutdownStartAdvances, FlushSaveAdvances, FlushUploadAdvances,
     FlushUploadFailsAdvances, FlushEndAdvances DEF FlushStep
<1>8. CASE \E b \in Bucket : RemoteDamage(b)
  BY <1>8, RemoteDamageAdvances
<1> QED
  BY <1>1, <1>2, <1>3, <1>4, <1>5, <1>6, <1>7, <1>8 DEF Step

-----------------------------------------------------------------------------
(***************************************************************************)
(* The daemon starts again                                                 *)
(***************************************************************************)

\* A start keeps names or gives them up, and files as they are or damaged.
Restarts ==
    /\ StepTypes' /\ Sound' /\ restarts' \in 0..MaxRestarts
    /\ \A b \in Bucket : path'[b] # NoFile => path'[b] = path[b]
    /\ \A s \in Syncer : sync'[s] = Idle
    /\ UNCHANGED <<exposed, overtaken>>
    /\ \A b \in Bucket : Good(b) => Good(b)'

LEMMA StartRestarts ==
    ASSUME TypeOK, Sound,
           NEW d \in [File -> Contents \cup {Unused}],
           NEW p \in [Bucket -> File \cup {NoFile}],
           \A b \in Bucket :
              p[b] # NoFile => p[b] = path[b] /\ d[p[b]] \in {disk[p[b]]} \cup Broken,
           Start(d, p), known' \subseteq Bucket, UNCHANGED faults \/ Fault
    PROVE  Restarts
<1>1. /\ op' = [c \in Client |-> Idle] /\ sync' = [s \in Syncer |-> Idle]
      /\ daemon' = Running
      /\ cached' = [b \in Bucket |-> NoFile] /\ path' = p
      /\ disk' = [f \in File |-> IF \E b \in Bucket : p[b] = f THEN d[f] ELSE Unused]
      /\ UNCHANGED <<exposed, remote, started, acked, overtaken>>
  BY DEF Start
<1>2. disk' \in [File -> Contents \cup {Unused}]
  BY <1>1 DEF Contents
<1>3. restarts' \in 0..MaxRestarts
  BY SyncAssumption DEF Start, TypeOK
<1>4. GateTypeOK'
  BY DEF Start, NewManager, GateTypeOK, Status, Healthy
<1>5. StepTypes'
  BY <1>1, <1>2, <1>4, FaultTypes DEF StepTypes, LocalType, TypeOK
<1>6. ASSUME NEW b \in Bucket, p[b] # NoFile
      PROVE  /\ p[b] = path[b] /\ p[b] \in File
             /\ disk'[p[b]] \in {disk[p[b]]} \cup Broken
  BY <1>1, <1>6
<1>7. \A c \in Client : op'[c] = Idle
  BY <1>1
<1>8. \A s \in Syncer : sync'[s] = Idle
  BY <1>1
<1>9. Sound'
  <2>1. \A b \in Bucket : path'[b] # NoFile => disk'[path'[b]] # Unused
    BY <1>1, <1>6, KindsOfContents DEF Sound, Contents
  <2>2. \A b \in Bucket : cached'[b] = NoFile
    BY <1>1
  <2>3. \A c \in Client : ChangeSound(op[c])'
    BY <1>7, IdleChange DEF ChangeSound
  <2>4. \A s \in Syncer : PassSound(sync[s])'
    BY <1>8 DEF PassSound, Idle
  <2>5. FlushSound(daemon)'
    BY <1>1 DEF FlushSound, Running
  <2> QED
    BY <2>1, <2>2, <2>3, <2>4, <2>5 DEF Sound
<1>10. ASSUME NEW b \in Bucket, Good(b) PROVE Good(b)'
  <2>1. RemoteKept(b)'
    BY <1>1, <1>10 DEF Good, RemoteKept
  <2>2. LocalKept(b)'
    BY <1>1, <1>6, <1>10 DEF Good, LocalKept, Damaged
  <2>3. CacheLinked(b)'
    BY <1>1 DEF CacheLinked
  <2>4. \A c \in Client : ChangeGood(op[c], b)'
    BY <1>7, IdleChange DEF ChangeGood
  <2>5. \A s \in Syncer : PassGood(sync[s], b)'
    BY <1>8 DEF PassGood, Idle
  <2>6. FlushGood(daemon, b)'
    BY <1>1 DEF FlushGood, Running
  <2> QED
    BY <2>1, <2>2, <2>3, <2>4, <2>5, <2>6 DEF Good
<1> QED
  BY <1>1, <1>3, <1>5, <1>6, <1>8, <1>9, <1>10 DEF Restarts

LEMMA RestartRestarts ==
    ASSUME TypeOK, Sound, Restart \/ RestartDamaged \/ RestartFresh
    PROVE  Restarts
<1>1. CASE Restart
  BY <1>1, StartRestarts DEF Restart, TypeOK
<1>2. CASE RestartDamaged
  <2>1. PICK b \in Bucket, damage \in Broken :
           /\ path[b] # NoFile
           /\ Start([disk EXCEPT ![path[b]] = damage], path)
    BY <1>2 DEF RestartDamaged
  <2>2. PICK d \in [File -> Contents \cup {Unused}] :
           /\ d = [disk EXCEPT ![path[b]] = damage]
           /\ \A f \in File : d[f] \in {disk[f]} \cup Broken
    <3> DEFINE torn == [disk EXCEPT ![path[b]] = damage]
    <3>1. torn \in [File -> Contents \cup {Unused}]
      BY DEF TypeOK, Contents
    <3>2. \A f \in File : torn[f] \in {disk[f]} \cup Broken
      BY DEF TypeOK
    <3> QED
      BY <3>1, <3>2
  <2>3. Start(d, path)
    BY <2>1, <2>2
  <2>4. \A a \in Bucket :
           path[a] # NoFile => d[path[a]] \in {disk[path[a]]} \cup Broken
    BY <2>2 DEF TypeOK
  <2> QED
    BY <1>2, <2>3, <2>4, StartRestarts DEF RestartDamaged, TypeOK
<1>3. CASE RestartFresh
  <2>1. PICK p \in [Bucket -> File \cup {NoFile}] : p = [b \in Bucket |-> NoFile]
    OBVIOUS
  <2>2. Start(disk, p)
    BY <1>3, <2>1 DEF RestartFresh
  <2> QED
    BY <1>3, <2>1, <2>2, StartRestarts DEF RestartFresh, TypeOK
<1> QED
  BY <1>1, <1>2, <1>3

-----------------------------------------------------------------------------
(***************************************************************************)
(* The theorems                                                            *)
(***************************************************************************)

IInv == TypeOK /\ Sound /\ BucketsInv

LEMMA InitIInv == Init => IInv
<1> SUFFICES ASSUME Init PROVE IInv
  OBVIOUS
<1>1. TypeOK
  BY SyncAssumption, RowsAreSets
  DEF Init, TypeOK, Contents, GateInit, GateTypeOK, NewManager, Status, Healthy
<1>2. Sound
  BY DEF Init, Sound, ChangeSound, PassSound, FlushSound, Idle, Running, Committed
<1>3. ASSUME NEW b \in Bucket PROVE ~Crossing(b)
  BY DEF Init, Crossing, Uploads, At, Idle, Running
<1>4. ASSUME NEW b \in Bucket PROVE Good(b)
  BY DEF Init, Good, RemoteKept, LocalKept, CacheLinked, ChangeGood, PassGood,
         FlushGood, Idle, Running, Committed
<1> QED
  BY <1>1, <1>2, <1>3, <1>4 DEF IInv, BucketsInv

\* A bucket that is out of the ordinary stays so.
LEMMA BucketsStep ==
    ASSUME TypeOK, BucketsInv,
           crossed' = crossed \cup {b \in Bucket : Crossing(b)'},
           exposed \subseteq exposed', overtaken \subseteq overtaken',
           \A b \in Bucket :
              Good(b) /\ ~Crossing(b) /\ b \notin exposed' \cup overtaken' => Good(b)'
    PROVE  BucketsInv'
<1>1. ASSUME NEW b \in Bucket, b \notin crossed' PROVE ~Crossing(b)'
  BY <1>1
<1>2. ASSUME NEW b \in Bucket, Ordinary(b)' PROVE Good(b)'
  <2>1. b \notin exposed' \cup overtaken' /\ Ordinary(b) /\ b \notin crossed
    BY <1>2 DEF Ordinary
  <2> QED
    BY <2>1 DEF BucketsInv
<1> QED
  BY <1>1, <1>2 DEF BucketsInv

LEMMA StepHistories ==
    ASSUME TypeOK, Sound, Step
    PROVE  exposed \subseteq exposed' /\ overtaken \subseteq overtaken'
<1>1. CASE \E c \in Client, b \in Bucket, r \in Row : ChangeStart(c, b, r)
  BY <1>1 DEF ChangeStart, local
<1>2. ASSUME NEW c \in Client, ChangeStep(c)
      PROVE  exposed \subseteq exposed' /\ overtaken \subseteq overtaken'
  BY <1>2 DEF ChangeStep, ChangeRecord, ChangeRecordFails, ChangeSnapshot,
              ChangeSnapshotFails, ChangeUpload, ChangeUploadFails, OpenCached, OpenLocal, local
<1>3. CASE \E b \in Bucket, f \in File : Read(b, f)
  BY <1>3 DEF Read, OpenCached, OpenLocal
<1>4. CASE \E b \in Bucket : CloseUnused(b)
  BY <1>4 DEF CloseUnused
<1>5. ASSUME NEW s \in Syncer, SyncStart(s) \/ SyncStep(s)
      PROVE  exposed \subseteq exposed' /\ overtaken \subseteq overtaken'
  BY <1>5 DEF SyncStart, SyncStep, SyncEnd, SyncDownload, SyncFails, SyncFindsDamage,
              SyncCompare, SyncEvict, SyncEvicted, SyncReplace, local
<1>6. ASSUME NEW s \in Syncer, RepairStep(s)
      PROVE  exposed \subseteq exposed' /\ overtaken \subseteq overtaken'
  BY <1>6 DEF RepairStep, SyncEvict, SyncEvicted, RepairValidate, OpenLocal,
              RepairCopyFails, RepairExport, RepairUpload, RepairUploadFails,
              RepairVerify, RepairVerifyFails, local
<1>7. CASE ShutdownStart \/ FlushStep
  BY <1>7 DEF ShutdownStart, FlushStep, FlushSave, FlushUpload, FlushUploadFails,
              FlushEnd, local
<1>8. CASE \E b \in Bucket : RemoteDamage(b)
  BY <1>8 DEF RemoteDamage, local
<1> QED
  BY <1>1, <1>2, <1>3, <1>4, <1>5, <1>6, <1>7, <1>8 DEF Step

LEMMA NextIInv == IInv /\ [Next]_vars => IInv'
<1> SUFFICES ASSUME IInv, [Next]_vars PROVE IInv'
  OBVIOUS
<1>0. TypeOK /\ Sound /\ BucketsInv
  BY DEF IInv
<1>1. CASE UNCHANGED vars
  <2>1. UNCHANGED <<known, disk, path, cached, exposed, remote, status, op, sync, daemon,
                    faults, restarts, started, acked, overtaken, crossed>>
    BY <1>1 DEF vars, local, actors
  <2>2. TypeOK'
    BY <1>0, <2>1 DEF TypeOK, GateTypeOK
  <2>3. Sound'
    BY <1>0, <2>1 DEF Sound, ChangeSound, PassSound, FlushSound, Opened, Damaged
  <2>4. BucketsInv'
    BY <1>0, <2>1 DEF BucketsInv, Ordinary, Crossing, Uploads, At, Good, RemoteKept,
       LocalKept, CacheLinked, Damaged, ChangeGood, PassGood, FlushGood
  <2> QED
    BY <2>2, <2>3, <2>4 DEF IInv
<1>2. CASE Next
  <2>1. crossed' = crossed \cup {b \in Bucket : Crossing(b)'}
    BY <1>2 DEF Next
  <2>2. crossed' \subseteq Bucket
    BY <1>0, <2>1 DEF TypeOK
  <2>3. CASE Step /\ UNCHANGED restarts
    <3>1. Advances
      BY <1>0, <2>3, StepAdvances
    <3>2. TypeOK'
      BY <1>0, <2>2, <2>3, <3>1 DEF Advances, StepTypes, LocalType, TypeOK
    <3>3. BucketsInv'
      BY <1>0, <2>1, <2>3, <3>1, StepHistories, BucketsStep DEF Advances
    <3> QED
      BY <3>1, <3>2, <3>3 DEF Advances, IInv
  <2>4. CASE Restart \/ RestartDamaged \/ RestartFresh
    <3>1. Restarts
      BY <1>0, <2>4, RestartRestarts
    <3>2. TypeOK'
      BY <2>2, <3>1 DEF Restarts, StepTypes, LocalType, TypeOK
    <3>3. BucketsInv'
      BY <1>0, <2>1, <3>1, BucketsStep DEF Restarts
    <3> QED
      BY <3>1, <3>2, <3>3 DEF Restarts, IInv
  <2> QED
    BY <1>2, <2>3, <2>4 DEF Next
<1> QED
  BY <1>1, <1>2

LEMMA AlwaysIInv == Spec => []IInv
  BY InitIInv, NextIInv, PTL DEF Spec

\* Type correctness.
THEOREM SyncTypes == Spec => []TypeOK
<1>1. IInv => TypeOK
  BY DEF IInv
<1> QED
  BY <1>1, AlwaysIInv, PTL

\* A row whose change was acknowledged is in the remote database and in the
\* local one, unless the file in question is damaged or gone: whatever
\* requests, passes, repairs, the shutdown and restarts do together.
THEOREM AckedRowsAreKept == Spec => []AckedIsKept
<1>1. IInv => AckedIsKept
  BY DEF IInv, BucketsInv, Good, RemoteKept, LocalKept, AckedIsKept
<1> QED
  BY <1>1, AlwaysIInv, PTL

LEMMA WhatChangesRemote ==
    ASSUME Step
    PROVE  \/ UNCHANGED remote
           \/ \E c \in Client : ChangeUpload(c) \/ ChangeUploadFails(c)
           \/ \E s \in Syncer : RepairUpload(s) \/ RepairUploadFails(s)
           \/ FlushUpload \/ FlushUploadFails
           \/ \E b \in Bucket : RemoteDamage(b)
<1>1. CASE \E c \in Client, b \in Bucket, r \in Row : ChangeStart(c, b, r)
  BY <1>1 DEF ChangeStart
<1>2. ASSUME NEW c \in Client, ChangeStep(c)
      PROVE  UNCHANGED remote \/ ChangeUpload(c) \/ ChangeUploadFails(c)
  BY <1>2
  DEF ChangeStep, ChangeRecord, ChangeRecordFails, ChangeSnapshot, ChangeSnapshotFails
<1>3. CASE \E b \in Bucket, f \in File : Read(b, f)
  BY <1>3 DEF Read
<1>4. CASE \E b \in Bucket : CloseUnused(b)
  BY <1>4 DEF CloseUnused
<1>5. ASSUME NEW s \in Syncer, SyncStart(s) \/ SyncStep(s) PROVE UNCHANGED remote
  BY <1>5 DEF SyncStart, SyncStep, SyncEnd, SyncDownload, SyncFails,
     SyncFindsDamage, SyncCompare, SyncEvict, SyncEvicted, SyncReplace
<1>6. ASSUME NEW s \in Syncer, RepairStep(s)
      PROVE  UNCHANGED remote \/ RepairUpload(s) \/ RepairUploadFails(s)
  BY <1>6 DEF RepairStep, SyncEvict, SyncEvicted, RepairValidate, RepairCopyFails,
     RepairExport, RepairVerify, RepairVerifyFails
<1>7. CASE ShutdownStart \/ FlushStep
  BY <1>7 DEF ShutdownStart, FlushStep, FlushSave, FlushEnd
<1>8. CASE \E b \in Bucket : RemoteDamage(b)
  BY <1>8
<1> QED
  BY <1>1, <1>2, <1>3, <1>4, <1>5, <1>6, <1>7, <1>8 DEF Step

\* What an upload puts on the server is damaged only if the local database is.
LEMMA UploadsCarryDamage ==
    ASSUME TypeOK, Sound, Step, NEW b \in Bucket
    PROVE  \/ remote'[b] = remote[b] \/ remote'[b] \in Rows
           \/ faults' # faults
           \/ Damaged(b) /\ UNCHANGED sync
<1> DEFINE Goal == \/ remote'[b] = remote[b] \/ remote'[b] \in Rows
                   \/ faults' # faults
                   \/ Damaged(b) /\ UNCHANGED sync
<1>0. Fault => faults' # faults
  BY SyncAssumption DEF Fault, TypeOK
<1>1. CASE UNCHANGED remote
  BY <1>1
<1>2. ASSUME NEW c \in Client, ChangeUpload(c) PROVE Goal
  <2>1. op[c] \in Change /\ op[c].pc = "upload"
    BY <1>2, ChangeOf DEF ChangeUpload
  <2>2. op[c].snap \in Openable /\ (op[c].snap = Marred => Damaged(op[c].bucket))
    BY <2>1 DEF Change, Sound, ChangeSound, Committed
  <2>3. /\ UNCHANGED sync
        /\ remote'[b] = IF b = op[c].bucket THEN op[c].snap ELSE remote[b]
    BY <1>2 DEF ChangeUpload, TypeOK
  <2> QED
    BY <2>2, <2>3, KindsOfContents
<1>3. ASSUME NEW c \in Client, ChangeUploadFails(c) PROVE Goal
  BY <1>0, <1>3 DEF ChangeUploadFails
<1>4. ASSUME NEW s \in Syncer, RepairUpload(s) PROVE Goal
  <2>1. sync[s].got \in Rows
    BY <1>4 DEF RepairUpload, At, Sound, PassSound
  <2>2. remote'[b] = IF b = sync[s].bucket THEN sync[s].got ELSE remote[b]
    BY <1>4 DEF RepairUpload, TypeOK
  <2> QED
    BY <2>1, <2>2
<1>5. ASSUME NEW s \in Syncer, RepairUploadFails(s) PROVE Goal
  BY <1>0, <1>5 DEF RepairUploadFails
<1>6. CASE FlushUpload
  <2>1. daemon \in Flush /\ daemon.pc = "flush_upload"
    BY <1>6, FlushOf DEF FlushUpload
  <2>2. daemon.snap \in Openable /\ (daemon.snap = Marred => Damaged(daemon.bucket))
    BY <2>1 DEF Flush, Sound, FlushSound
  <2>3. /\ UNCHANGED sync
        /\ remote'[b] = IF b = daemon.bucket THEN daemon.snap ELSE remote[b]
    BY <1>6 DEF FlushUpload, TypeOK
  <2> QED
    BY <2>2, <2>3, KindsOfContents
<1>7. CASE FlushUploadFails
  BY <1>0, <1>7 DEF FlushUploadFails
<1>8. CASE \E a \in Bucket : RemoteDamage(a)
  BY <1>0, <1>8 DEF RemoteDamage
<1>9. Goal
  BY <1>1, <1>2, <1>3, <1>4, <1>5, <1>6, <1>7, <1>8, WhatChangesRemote
<1> QED
  BY <1>9

\* No damaged database takes the name of a local one, and none gets to the
\* server but by a fault, or with an upload of a local database that is damaged
\* itself; a repair uploads none.
THEOREM DamageDoesNotSpread == Spec => DamageIsContained
<1> DEFINE Contained ==
      \A b \in Bucket :
          /\ path'[b] # path[b] /\ path'[b] # NoFile => disk'[path'[b]] \in Rows
          /\ remote[b] \in Rows /\ remote'[b] \in Broken =>
                \/ faults' # faults
                \/ Damaged(b) /\ UNCHANGED sync
<1>1. IInv /\ [Next]_vars => [Contained]_vars
  <2> SUFFICES ASSUME IInv, Next PROVE Contained
    OBVIOUS
  <2>0. TypeOK /\ Sound
    BY DEF IInv
  <2>2. CASE Step
    <3>1. Grows
      BY <2>0, <2>2, StepAdvances DEF Advances
    <3>2. ASSUME NEW b \in Bucket, path'[b] # path[b], path'[b] # NoFile
          PROVE  disk'[path'[b]] \in Rows
      BY <3>1, <3>2 DEF Grows
    <3>3. ASSUME NEW b \in Bucket, remote[b] \in Rows, remote'[b] \in Broken
          PROVE  faults' # faults \/ (Damaged(b) /\ UNCHANGED sync)
      BY <2>0, <2>2, <3>3, UploadsCarryDamage, KindsOfContents
    <3> QED
      BY <3>2, <3>3
  <2>3. CASE Restart \/ RestartDamaged \/ RestartFresh
    <3>1. Restarts
      BY <2>0, <2>3, RestartRestarts
    <3>2. UNCHANGED remote
      BY <2>3 DEF Restart, RestartDamaged, RestartFresh, Start
    <3> QED
      BY <3>1, <3>2, KindsOfContents DEF Restarts
  <2> QED
    BY <2>2, <2>3 DEF Next
<1> QED
  BY <1>1, AlwaysIInv, PTL DEF Spec, DamageIsContained
=============================================================================
