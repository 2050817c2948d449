----------------------------- MODULE IndexStore -----------------------------
(***************************************************************************)
(* The persistent BlockSci index of the PBS stages: its working copy, its  *)
(* S3 backup, and the jobs of pbs/stage_runtime.py that parse, update,     *)
(* back up and read it through pbs/index_store.py.                         *)
(*                                                                         *)
(* A copy is written in several file operations and a job may die between  *)
(* any two; .writing and files.txt tell a whole copy from a half-written   *)
(* one. The backup is an archive object and, written last, a manifest that *)
(* names the archive's checksum; s5cmd's removals are best effort and its  *)
(* uploads may fail. An index of height h stands for its contents.         *)
(*                                                                         *)
(* The lock is taken at its promise (IndexLock): one writer or many        *)
(* readers, and the entry of a killed job stays until it expires.          *)
(*                                                                         *)
(* The second half holds what jobs replace in S3 while others read it,     *)
(* without a lock: a run's reusable index, the Dumplings copy of the       *)
(* synchronization and the block archive. It shares no state with the      *)
(* first half.                                                             *)
(***************************************************************************)
EXTENDS Naturals, FiniteSets

CONSTANTS
    Jobs,
    NoJob,
    Torn,        \* contents that no finished write left
    MaxHeight,
    MaxFaults,   \* bound on faults: a killed job, a failed call of S3 or the parser, a purged file
    Mixes,       \* the job mixes: functions from Jobs to Kinds
    Histories    \* the states an earlier life of the index left: <<height, height of the backup>>

Kinds == {"parse", "update", "read", "kept", "scratch", "backup"}
Heights == 0..MaxHeight   \* 0: absent
Contents == Heights \cup {Torn}

ASSUME StoreAssumption ==
    /\ MaxHeight \in Nat \ {0} /\ MaxFaults \in Nat
    /\ Torn \notin Nat /\ NoJob \notin Jobs
    /\ "main" \notin Jobs /\ "notebook" \notin Jobs
    /\ Mixes \subseteq [Jobs -> Kinds] /\ Histories \subseteq Heights \X Heights

CONSTANTS Actors,      \* the jobs
          Roles,       \* Roles: the mixes, functions from Actors to ActorKinds
          MaxMishaps   \* bound on killed jobs and failed S3 calls

ActorKinds == {"publisher", "cacheReader", "mirror", "baseline", "attach", "packer", "parser"}
Generations == 0..2     \* 0: absent
Bad == 3                \* contents that do not match their checksum
\* The files of Scanner/: the chain's data grows with each generation, the height file
\* keeps its size.
ScannerFiles == {"Coinjoins.txt", "LastProcessedBlockHeight.txt"}
Size(f, g) == IF f = "Coinjoins.txt" THEN g ELSE IF g = 0 THEN 0 ELSE 1

ASSUME CopiesAssumption == MaxMishaps \in Nat /\ Roles \subseteq [Actors -> ActorKinds]

VARIABLES
    kind,        \* kind[j]: what the job does
    pc,
    tgt,         \* tgt[j]: the height a writer asks for
    copy,        \* copy[d]: the index files in directory d
    writer,      \* writer[d]: the job whose entry is .lock/writer
    readers,     \* readers[d]: the jobs with an entry in .lock/readers
    s3,          \* the backup prefix
    sum,         \* sum[j]: the checksum a restore expects, as the height it stands for
    seen,        \* seen[j]: the height the job read, or backed up
    told,        \* told[j]: the height the run's copy of the index manifest names
    faults,
    crossed,     \* history: two backup jobs replaced the backup at once
    kept,        \* history: a removal failed unnoticed
    backedUp     \* history: the index has had a backup

indexVars == <<kind, pc, tgt, copy, writer, readers, s3, sum, seen, told, faults, crossed, kept, backedUp>>

VARIABLES
    role, at,
    gen,         \* gen[x]: the generation a publisher writes
    cache,       \* the run's index: archive, sidecar and manifest in S3
    scanner,     \* scanner[f]: the generation of the file in S3
    listing,     \* the generation the Dumplings manifest names
    block,       \* one block file: raw and zst objects
    got,         \* got[x]: what the actor has read so far
    attached,    \* the notebook's Scanner/ directory, by file; <<>> when it does not exist
    mishaps,
    together     \* history: two pack jobs worked on the block file at once

copiesVars == <<role, at, gen, cache, scanner, listing, block, got, attached, mishaps, together>>

vars == <<indexVars, copiesVars>>

\* index_dir, the notebook's kept directory, and the scratch of each job
Dirs == {"main", "notebook"} \cup Jobs
Dir(j) == CASE kind[j] = "kept" -> "notebook" [] kind[j] = "scratch" -> j [] OTHER -> "main"

Files == [parsed : Contents, config : Heights, files : (Contents \X Heights) \cup {<<>>},
          manifest : Heights, writing : BOOLEAN]
NoFiles == [parsed |-> 0, config |-> 0, files |-> <<>>, manifest |-> 0, writing |-> FALSE]
Whole(h) == IF h = 0 THEN NoFiles
            ELSE [parsed |-> h, config |-> h, files |-> <<h, h>>, manifest |-> h, writing |-> FALSE]

Labels == {"idle", "exclusive", "shared", "refill", "refilled", "reconcile", "restore", "empty", "extract", "unmark",
           "parse", "check", "mark", "parser", "config", "files", "manifest", "publish",
           "record", "open", "reading", "drop", "discard", "upload", "size", "attest", "report",
           "done", "failed", "dead"}
Ended == {"done", "failed", "dead"}

\* The state holds what the jobs' variables, the directories and S3 can hold.
TypeOK ==
    /\ kind \in [Jobs -> Kinds] /\ pc \in [Jobs -> Labels] /\ tgt \in [Jobs -> Heights]
    /\ copy \in [Dirs -> Files]
    /\ writer \in [Dirs -> Jobs \cup {NoJob}] /\ readers \in [Dirs -> SUBSET Jobs]
    /\ s3 \in [manifest : Heights, archive : Contents]
    /\ sum \in [Jobs -> Heights] /\ seen \in [Jobs -> Heights] /\ told \in [Jobs -> Heights]
    /\ faults \in 0..MaxFaults /\ crossed \in BOOLEAN /\ kept \in BOOLEAN
    /\ backedUp \in BOOLEAN

Start(label) ==
    /\ pc = [j \in Jobs |-> label] /\ tgt = [j \in Jobs |-> 0]
    /\ \E h \in Histories :
        /\ copy = [d \in Dirs |-> IF d = "main" THEN Whole(h[1]) ELSE NoFiles]
        /\ s3 = [manifest |-> h[2], archive |-> h[2]]
        /\ backedUp = (h[2] # 0)
    /\ writer = [d \in Dirs |-> NoJob] /\ readers = [d \in Dirs |-> {}]
    /\ sum = [j \in Jobs |-> 0] /\ seen = [j \in Jobs |-> 0] /\ told = [j \in Jobs |-> 0]
    /\ faults = 0 /\ crossed = FALSE /\ kept = FALSE

-----------------------------------------------------------------------------
(***************************************************************************)
(* Pieces.                                                                 *)
(***************************************************************************)
At(j, label) == pc[j] = label
GoTo(j, label) == pc' = [pc EXCEPT ![j] = label]
Fault == faults < MaxFaults /\ faults' = faults + 1

\* inventory(): the data files, by their sizes
Inventory(d) == <<copy[d].parsed, copy[d].config>>

MutComplete(d) == copy[d].manifest # 0 /\ copy[d].files = Inventory(d)
Complete(d) ==
    /\ copy[d].manifest # 0
    /\ copy[d].files # <<>>
    /\ ~copy[d].writing
    /\ copy[d].files = Inventory(d)

\* backup_available looks at the manifest alone.
BackupAvailable == s3.manifest # 0

\* IndexStore.unlock, also the finalizer of every job that opened an index
Unlocked(j) ==
    /\ writer' = [d \in Dirs |-> IF writer[d] = j THEN NoJob ELSE writer[d]]
    /\ readers' = [d \in Dirs |-> readers[d] \ {j}]

Still == UNCHANGED <<kind, tgt, copiesVars>>
KeepLock == UNCHANGED <<writer, readers>>
KeepNotes == UNCHANGED <<sum, seen, told, crossed, kept, backedUp>>

\* The job body ends; finalization releases the lock.
Ends(j, label) == GoTo(j, label) /\ Unlocked(j)

\* A step of a job that fails: an exception leaves everything as it is.
Fails(j) ==
    /\ Ends(j, "failed") /\ Still
    /\ UNCHANGED <<copy, s3>> /\ KeepNotes

\* One file operation in the job's directory.
Writes(j, change, next) ==
    /\ copy' = [copy EXCEPT ![Dir(j)] = change]
    /\ GoTo(j, next)
    /\ Still /\ KeepLock /\ KeepNotes /\ UNCHANGED <<s3, faults>>

-----------------------------------------------------------------------------
(***************************************************************************)
(* Locking.                                                                *)
(***************************************************************************)
\* Which lock the job takes first; a copy in scratch needs none.
Begin(j) ==
    /\ At(j, "idle")
    /\ \E h \in IF kind[j] \in {"parse", "update"} THEN 1..MaxHeight ELSE {0} : tgt' = [tgt EXCEPT ![j] = h]
    /\ GoTo(j, CASE kind[j] \in {"parse", "update"} -> "exclusive" [] kind[j] = "scratch" -> "restore" [] OTHER -> "shared")
    /\ KeepLock /\ KeepNotes /\ UNCHANGED <<kind, copy, s3, faults, copiesVars>>

MutLockExclusive(j) ==
    /\ pc[j] \in {"exclusive", "refill"}
    /\ writer[Dir(j)] = NoJob
    /\ writer' = [writer EXCEPT ![Dir(j)] = j]
    /\ GoTo(j, CASE kind[j] = "parse" -> "parse" [] OTHER -> "reconcile")
    /\ Still /\ KeepNotes /\ UNCHANGED <<copy, s3, readers, faults>>
LockExclusive(j) ==
    /\ pc[j] \in {"exclusive", "refill"}
    /\ writer[Dir(j)] = NoJob /\ readers[Dir(j)] = {}
    /\ writer' = [writer EXCEPT ![Dir(j)] = j]
    /\ GoTo(j, CASE kind[j] = "parse" -> "parse" [] OTHER -> "reconcile")
    /\ Still /\ KeepNotes /\ UNCHANGED <<copy, s3, readers, faults>>

\* refilled: kept_index takes the shared lock again after its restore.
LockShared(j) ==
    /\ pc[j] \in {"shared", "refilled"}
    /\ writer[Dir(j)] = NoJob
    /\ readers' = [readers EXCEPT ![Dir(j)] = @ \cup {j}]
    /\ GoTo(j, IF kind[j] = "kept" /\ At(j, "shared") /\ ~Complete(Dir(j)) THEN "drop" ELSE "open")
    /\ Still /\ KeepNotes /\ UNCHANGED <<copy, s3, writer, faults>>

\* kept_index gives its shared lock up to refill the copy as a writer.
DropShared(j) ==
    /\ kind[j] = "kept" /\ At(j, "drop")
    /\ Ends(j, "refill") /\ Still /\ KeepNotes /\ UNCHANGED <<copy, s3, faults>>

\* The wait for a lock ends at its deadline.
GivesUp(j) ==
    /\ pc[j] \in {"exclusive", "shared", "refill", "refilled"}
    /\ writer[Dir(j)] # NoJob \/ readers[Dir(j)] # {}
    /\ Fails(j) /\ UNCHANGED faults

-----------------------------------------------------------------------------
(***************************************************************************)
(* IndexStore.reconcile and restore.                                       *)
(***************************************************************************)
Reconcile(j) ==
    /\ At(j, "reconcile")
    /\ \/ /\ Complete(Dir(j))
          /\ IF kind[j] = "kept" THEN Ends(j, "refilled") ELSE GoTo(j, "check") /\ KeepLock
       \/ ~Complete(Dir(j)) /\ BackupAvailable /\ GoTo(j, "restore") /\ KeepLock
       \/ ~Complete(Dir(j)) /\ ~BackupAvailable /\ Ends(j, "failed")
    /\ Still /\ UNCHANGED <<copy, s3, sum, seen, told, faults, crossed, kept, backedUp>>

\* The manifest is read, and .writing set before anything is removed.
RestoreBegins(j) ==
    /\ At(j, "restore")
    /\ \/ ~BackupAvailable /\ Fails(j)
       \/ /\ BackupAvailable
          /\ sum' = [sum EXCEPT ![j] = s3.manifest]
          /\ copy' = [copy EXCEPT ![Dir(j)].writing = TRUE]
          /\ GoTo(j, "empty")
          /\ Still /\ KeepLock /\ UNCHANGED <<s3, seen, told, crossed, kept, backedUp>>
    /\ UNCHANGED faults

\* parsed, config.json and files.txt go before manifest.json.
RestoreEmpties(j) ==
    /\ At(j, "empty")
    /\ LET c == copy[Dir(j)] IN
       \/ /\ c.parsed # 0 \/ c.config # 0 \/ c.files # <<>>
          /\ Writes(j, [c EXCEPT !.parsed = 0, !.config = 0, !.files = <<>>], "empty")
       \/ /\ c.parsed = 0 /\ c.config = 0 /\ c.files = <<>>
          /\ Writes(j, [c EXCEPT !.manifest = 0, !.parsed = Torn], "extract")

\* restore_archive streams whatever the archive is by now; the checksum decides at the end.
RestoreExtracts(j) ==
    /\ At(j, "extract")
    /\ \/ /\ s3.archive = sum[j]
          /\ Writes(j, [Whole(sum[j]) EXCEPT !.writing = TRUE], "unmark")
       \/ /\ s3.archive # sum[j]
          /\ \E h \in {0, s3.archive} \ {Torn} :
                copy' = [copy EXCEPT ![Dir(j)] = [Whole(h) EXCEPT !.writing = TRUE, !.parsed = Torn]]
          /\ Ends(j, "failed") /\ Still /\ KeepNotes /\ UNCHANGED <<s3, faults>>

\* .writing goes and the copy is compared with its file list.
RestoreEnds(j) ==
    /\ At(j, "unmark")
    /\ copy' = [copy EXCEPT ![Dir(j)].writing = FALSE]
    /\ IF copy[Dir(j)].files # Inventory(Dir(j)) THEN Ends(j, "failed")
       ELSE CASE kind[j] = "kept" -> Ends(j, "refilled")
              [] kind[j] = "scratch" -> GoTo(j, "open") /\ KeepLock
              [] OTHER -> GoTo(j, "check") /\ KeepLock
    /\ Still /\ KeepNotes /\ UNCHANGED <<s3, faults>>

-----------------------------------------------------------------------------
(***************************************************************************)
(* blocksci_parse and blocksci_update of a persistent index.               *)
(***************************************************************************)
ParseRefused == copy["main"].manifest # 0 \/ BackupAvailable

ParseOpens(j) ==
    /\ At(j, "parse")
    /\ \/ ParseRefused /\ Fails(j) /\ UNCHANGED faults
       \/ ~ParseRefused /\ Writes(j, [copy["main"] EXCEPT !.parsed = 0, !.config = 0, !.files = <<>>], "mark")

\* The manifest is checked for its schema, image, source and network before .writing is set.
UpdateOpens(j) ==
    /\ At(j, "check")
    /\ \/ Fails(j)
       \/ /\ GoTo(j, "mark")
          /\ Still /\ KeepLock /\ KeepNotes /\ UNCHANGED <<copy, s3>>
    /\ UNCHANGED faults

BeginWrite(j) == At(j, "mark") /\ Writes(j, [copy["main"] EXCEPT !.writing = TRUE], "parser")

\* An update refuses a target that is not above the index only now, when the copy is already
\* marked; then the blocks are looked for or fetched, which may fail, and the parser writes. A
\* refusal is no fault: any command with a height too low, or without blocks/, meets it.
MutTooLow(j) == kind[j] = "update" /\ tgt[j] = copy["main"].manifest
TooLow(j) == kind[j] = "update" /\ tgt[j] <= copy["main"].manifest
StartParser(j) ==
    /\ At(j, "parser")
    /\ \/ Fails(j) /\ UNCHANGED faults
       \/ ~TooLow(j) /\ Writes(j, [copy["main"] EXCEPT !.parsed = Torn], "config")

\* The parser ended and verify_chain accepted the chain; publish records config.json first.
ParserEnds(j) ==
    /\ At(j, "config")
    /\ \/ Fails(j) /\ Fault
       \/ Writes(j, [copy["main"] EXCEPT !.parsed = tgt[j], !.config = tgt[j]], "files")
PublishFiles(j) == At(j, "files") /\ Writes(j, [copy["main"] EXCEPT !.files = Inventory("main")], "manifest")
PublishManifest(j) == At(j, "manifest") /\ Writes(j, [copy["main"] EXCEPT !.manifest = tgt[j]], "publish")
PublishWhole(j) == At(j, "publish") /\ Writes(j, [copy["main"] EXCEPT !.writing = FALSE], "record")

\* publish_persistent copies the manifest to the run before it unlocks.
Record(j) ==
    /\ At(j, "record")
    /\ \/ Fails(j) /\ Fault
       \/ /\ told' = [told EXCEPT ![j] = copy["main"].manifest]
          /\ seen' = [seen EXCEPT ![j] = tgt[j]]
          /\ Ends(j, "done") /\ Still
          /\ UNCHANGED <<copy, s3, sum, faults, crossed, kept, backedUp>>

-----------------------------------------------------------------------------
(***************************************************************************)
(* Readers: read_index and blocksci_analysis, blocksci_backup.             *)
(***************************************************************************)
MutOpen(j) ==
    /\ At(j, "open")
    /\ \/ ~Complete(Dir(j)) /\ kind[j] \notin {"kept", "backup"} /\ Fails(j)
       \/ /\ Complete(Dir(j)) \/ kind[j] \in {"kept", "backup"}
          /\ seen' = [seen EXCEPT ![j] = copy[Dir(j)].manifest]
          /\ GoTo(j, IF kind[j] = "backup" THEN "drop" ELSE "reading")
          /\ Still /\ KeepLock /\ UNCHANGED <<copy, s3, sum, told, crossed, kept, backedUp>>
    /\ UNCHANGED faults
\* The copy must be complete under the lock; its manifest goes next to the outputs.
Open(j) ==
    /\ At(j, "open")
    /\ \/ ~Complete(Dir(j)) /\ Fails(j)
       \/ /\ Complete(Dir(j))
          /\ seen' = [seen EXCEPT ![j] = copy[Dir(j)].manifest]
          /\ GoTo(j, IF kind[j] = "backup" THEN "drop" ELSE "reading")
          /\ Still /\ KeepLock /\ UNCHANGED <<copy, s3, sum, told, crossed, kept, backedUp>>
    /\ UNCHANGED faults

EndReading(j) ==
    /\ At(j, "reading")
    /\ told' = [told EXCEPT ![j] = seen[j]]
    /\ Ends(j, "done") /\ Still /\ UNCHANGED <<copy, s3, sum, seen, faults, crossed, kept, backedUp>>

BackingUp == {"discard", "upload", "size", "attest"}
MutDropManifest(j) ==
    /\ kind[j] = "backup" /\ At(j, "drop")
    /\ crossed' = (crossed \/ \E k \in Jobs \ {j} : pc[k] \in BackingUp)
    /\ GoTo(j, "discard")
    /\ Still /\ KeepLock /\ UNCHANGED <<copy, s3, kept, faults, sum, seen, told, backedUp>>
\* remove() is best effort: nobody looks at its result.
DropManifest(j) ==
    /\ kind[j] = "backup" /\ At(j, "drop")
    /\ \/ s3' = [s3 EXCEPT !.manifest = 0] /\ UNCHANGED <<kept, faults>>
       \/ Fault /\ kept' = TRUE /\ UNCHANGED s3
    /\ crossed' = (crossed \/ \E k \in Jobs \ {j} : pc[k] \in BackingUp)
    /\ GoTo(j, "discard")
    /\ Still /\ KeepLock /\ UNCHANGED <<copy, sum, seen, told, backedUp>>
DropArchive(j) ==
    /\ At(j, "discard")
    /\ s3' = [s3 EXCEPT !.archive = 0]
    /\ GoTo(j, "upload")
    /\ Still /\ KeepLock /\ KeepNotes /\ UNCHANGED <<copy, faults>>
\* upload_archive streams the working copy; a failed stream ends the job.
Upload(j) ==
    /\ At(j, "upload")
    /\ \/ Fails(j) /\ Fault
       \/ /\ s3' = [s3 EXCEPT !.archive = copy[Dir(j)].parsed]
          /\ GoTo(j, "size")
          /\ Still /\ KeepLock /\ KeepNotes /\ UNCHANGED <<copy, faults>>
CheckSize(j) ==
    /\ At(j, "size")
    /\ \/ s3.archive # seen[j] /\ Fails(j)
       \/ /\ s3.archive = seen[j] /\ GoTo(j, "attest")
          /\ Still /\ KeepLock /\ KeepNotes /\ UNCHANGED <<copy, s3>>
    /\ UNCHANGED faults

\* The manifest that makes the backup valid; then the lock goes.
WriteBackupManifest(j) ==
    /\ At(j, "attest")
    /\ s3' = [s3 EXCEPT !.manifest = copy[Dir(j)].manifest]
    /\ backedUp' = TRUE
    /\ Ends(j, "report")
    /\ Still /\ UNCHANGED <<copy, sum, seen, told, faults, crossed, kept>>
\* blocksci_backup copies the index manifest to the run after it unlocked.
ReportBackup(j) ==
    /\ At(j, "report")
    /\ \/ copy["main"].manifest = 0 /\ Fails(j)
       \/ /\ copy["main"].manifest # 0
          /\ told' = [told EXCEPT ![j] = copy["main"].manifest]
          /\ GoTo(j, "done")
          /\ Still /\ KeepLock /\ UNCHANGED <<copy, s3, sum, seen, crossed, kept, backedUp>>
    /\ UNCHANGED faults

-----------------------------------------------------------------------------
\* SIGKILL or the node's end, between any two steps: the lock entry stays, and the stream a
\* backup was uploading ends where it was.
Killed(j) ==
    /\ pc[j] \notin Ended \cup {"idle"} /\ Fault
    /\ GoTo(j, "dead")
    /\ s3' = IF At(j, "upload") THEN [s3 EXCEPT !.archive = Torn] ELSE s3
    /\ Still /\ KeepLock /\ KeepNotes /\ UNCHANGED copy

\* clear_expired of a job that waits for the lock.
ClearExpired(j, k) ==
    /\ pc[j] \in {"exclusive", "shared", "refill", "refilled"} /\ At(k, "dead")
    /\ writer[Dir(j)] = k \/ k \in readers[Dir(j)]
    /\ writer' = [writer EXCEPT ![Dir(j)] = IF @ = k THEN NoJob ELSE @]
    /\ readers' = [readers EXCEPT ![Dir(j)] = @ \ {k}]
    /\ Still /\ KeepNotes /\ UNCHANGED <<pc, copy, s3, faults>>

\* MetaCentrum's scratch purge removes a file of a working copy nobody uses.
Purge(d) ==
    /\ d \in {"main", "notebook"} /\ copy[d].parsed \in 1..MaxHeight
    /\ writer[d] = NoJob /\ readers[d] = {} /\ Fault
    /\ copy' = [copy EXCEPT ![d].parsed = Torn]
    /\ Still /\ KeepLock /\ KeepNotes /\ UNCHANGED <<pc, s3>>

-----------------------------------------------------------------------------
(***************************************************************************)
(* Copies in S3:                                                           *)
(*   - the run's reusable index (publish_index and restore_index), an      *)
(*     archive with a checksum sidecar and, last, a manifest;              *)
(*   - the Dumplings copy that a synchronization publishes file by file    *)
(*     (publish_dumplings) and a baseline or a notebook reads;             *)
(*   - the block archive, whose raw files the pack job replaces by         *)
(*     compressed ones (pack_block) while a parse downloads it.            *)
(* One object is written or removed atomically; a sequence of objects is   *)
(* not. Contents are named by the generation that wrote them.              *)
(***************************************************************************)
Over == {"done", "failed", "dead"}
NoFile == [f \in ScannerFiles |-> 0]
Nothing == [manifest |-> 0, sidecar |-> 0, archive |-> 0, files |-> NoFile, form |-> "none"]

CopiesStart(label) ==
    /\ at = [x \in Actors |-> label] /\ gen = [x \in Actors |-> 2]
    /\ \E g \in {0, 1} : cache = [archive |-> g, sidecar |-> g, manifest |-> g]
    /\ scanner = [f \in ScannerFiles |-> 1] /\ listing = 1
    /\ block = [raw |-> 1, zst |-> 0]
    /\ got = [x \in Actors |-> Nothing] /\ attached = <<>> /\ mishaps = 0
    /\ together = FALSE

\* A behaviour exercises one half; the jobs of the other half are over.
Init ==
    \/ kind \in Mixes /\ Start("idle") /\ CopiesStart("done") /\ role = [x \in Actors |-> "parser"] /\ cache.archive = 0
    \/ role \in Roles /\ CopiesStart("idle") /\ Start("done") /\ kind = [j \in Jobs |-> "read"] /\ copy["main"] = NoFiles

Is(x, part, label) == role[x] = part /\ at[x] = label
Step(x, label) == at' = [at EXCEPT ![x] = label]
Mishap == mishaps < MaxMishaps /\ mishaps' = mishaps + 1
Fixed == UNCHANGED <<role, gen, indexVars>>

-----------------------------------------------------------------------------
(***************************************************************************)
(* The run's reusable index.                                               *)
(***************************************************************************)
CacheFrame == UNCHANGED <<scanner, listing, block, attached, together>> /\ Fixed
\* publish_index: the previous manifest goes first (best effort), the new one comes last.
PublishCache(x) ==
    /\ \/ /\ Is(x, "publisher", "idle") /\ Step(x, "1")
          /\ \/ cache' = [cache EXCEPT !.manifest = 0] /\ UNCHANGED mishaps
             \/ Mishap /\ UNCHANGED cache
       \/ Is(x, "publisher", "1") /\ Step(x, "2") /\ cache' = [cache EXCEPT !.archive = gen[x]] /\ UNCHANGED mishaps
       \/ Is(x, "publisher", "2") /\ Step(x, "3") /\ cache' = [cache EXCEPT !.sidecar = gen[x]] /\ UNCHANGED mishaps
       \/ Is(x, "publisher", "3") /\ Step(x, "done") /\ cache' = [cache EXCEPT !.manifest = gen[x]] /\ UNCHANGED mishaps
    /\ CacheFrame /\ UNCHANGED got

\* What restore_index compares: the manifest with its sidecar, then the stream with both.
MutCacheMatches(x) == got[x].manifest = got[x].sidecar
CacheMatches(x) == got[x].manifest = got[x].sidecar /\ got[x].archive = got[x].sidecar
RestoreCache(x) ==
    /\ \/ /\ Is(x, "cacheReader", "idle")
          /\ Step(x, IF cache.manifest = 0 THEN "failed" ELSE "1")
          /\ got' = [got EXCEPT ![x].manifest = cache.manifest]
       \/ /\ Is(x, "cacheReader", "1")
          /\ got' = [got EXCEPT ![x].sidecar = cache.sidecar]
          /\ Step(x, IF cache.sidecar # got[x].manifest THEN "failed" ELSE "2")
       \/ /\ Is(x, "cacheReader", "2") /\ Step(x, "3")
          /\ got' = [got EXCEPT ![x].archive = cache.archive]
       \/ Is(x, "cacheReader", "3") /\ Step(x, IF CacheMatches(x) THEN "done" ELSE "failed") /\ UNCHANGED got
    /\ CacheFrame /\ UNCHANGED <<cache, mishaps>>

-----------------------------------------------------------------------------
(***************************************************************************)
(* The Dumplings copy.                                                     *)
(***************************************************************************)
MirrorFrame == UNCHANGED <<cache, block, together>> /\ Fixed
Sizes(files) == [f \in ScannerFiles |-> Size(f, files[f])]
Of(g) == [f \in ScannerFiles |-> g]

\* publish_dumplings: manifest removed (best effort), changed files synced one by one, sizes
\* compared, manifest written.
PublishDumplings(x) ==
    /\ \/ /\ Is(x, "mirror", "idle") /\ Step(x, "1") /\ UNCHANGED scanner
          /\ \/ listing' = 0 /\ UNCHANGED mishaps
             \/ Mishap /\ UNCHANGED listing
       \/ /\ Is(x, "mirror", "1") /\ \E f \in ScannerFiles : scanner[f] # gen[x] /\ scanner' = [scanner EXCEPT ![f] = gen[x]]
          /\ UNCHANGED <<at, listing, mishaps>>
       \/ /\ Is(x, "mirror", "1") /\ scanner = Of(gen[x])
          /\ Step(x, "2") /\ UNCHANGED <<scanner, listing, mishaps>>
       \/ Is(x, "mirror", "2") /\ Step(x, "done") /\ listing' = gen[x] /\ UNCHANGED <<scanner, mishaps>>
    /\ MirrorFrame /\ UNCHANGED <<got, attached>>

\* s5cmd cp of Scanner/*: the files arrive in any order.
CopyScanner(x, from, to) ==
    \/ /\ at[x] = from
       /\ \E f \in ScannerFiles : got[x].files[f] = 0 /\ got' = [got EXCEPT ![x].files[f] = scanner[f]]
       /\ UNCHANGED at
    \/ at[x] = from /\ (\A f \in ScannerFiles : got[x].files[f] # 0) /\ Step(x, to) /\ UNCHANGED got

MutSizesMatch(x) == DOMAIN got[x].files = ScannerFiles
SizesMatch(x) == Sizes(got[x].files) = Sizes(Of(got[x].manifest))
\* dumplings_baseline and restore_dumplings: the manifest, the files, the sizes.
ReadBaseline(x) ==
    /\ role[x] = "baseline"
    /\ \/ /\ at[x] = "idle" /\ Step(x, IF listing = 0 THEN "failed" ELSE "1")
          /\ got' = [got EXCEPT ![x].manifest = listing]
       \/ CopyScanner(x, "1", "2")
       \/ at[x] = "2" /\ Step(x, IF SizesMatch(x) THEN "done" ELSE "failed") /\ UNCHANGED got
    /\ MirrorFrame /\ UNCHANGED <<scanner, listing, attached, mishaps>>

MutAttach(x) ==
    /\ role[x] = "attach"
    /\ \/ at[x] = "idle" /\ Step(x, IF attached = <<>> THEN "1" ELSE "done") /\ UNCHANGED <<got, attached>>
       \/ CopyScanner(x, "1", "2") /\ attached' = got'[x].files
       \/ at[x] = "2" /\ Step(x, "done") /\ UNCHANGED <<got, attached>>
    /\ MirrorFrame /\ UNCHANGED <<scanner, listing, mishaps>>
\* attach_dumplings: a staging directory is renamed to Scanner/; of two downloads the second is
\* dropped. No manifest is read.
Attach(x) ==
    /\ role[x] = "attach"
    /\ \/ at[x] = "idle" /\ Step(x, IF attached = <<>> THEN "1" ELSE "done") /\ UNCHANGED <<got, attached>>
       \/ CopyScanner(x, "1", "2") /\ UNCHANGED attached
       \/ at[x] = "2" /\ Step(x, "done") /\ attached' = (IF attached = <<>> THEN got[x].files ELSE attached) /\ UNCHANGED got
    /\ MirrorFrame /\ UNCHANGED <<scanner, listing, mishaps>>

-----------------------------------------------------------------------------
(***************************************************************************)
(* The block archive.                                                      *)
(***************************************************************************)
BlockFrame == UNCHANGED <<cache, scanner, listing, attached>> /\ Fixed
\* pack_block: the raw object must match the sidecar, the packed one is uploaded and read back
\* before the raw one goes.
MutPackBlock(x) ==
    /\ role[x] = "packer"
    /\ \/ at[x] = "idle" /\ Step(x, IF block.raw = 0 THEN "failed" ELSE "1") /\ UNCHANGED <<block, mishaps>>
       \/ /\ at[x] = "1" /\ Step(x, "3")
          /\ \/ block' = [block EXCEPT !.zst = 1] /\ UNCHANGED mishaps
             \/ Mishap /\ block' = [block EXCEPT !.zst = Bad]
       \/ at[x] = "3" /\ Step(x, "done") /\ block' = [block EXCEPT !.raw = 0] /\ UNCHANGED mishaps
    /\ together' = (together \/ \E y \in Actors \ {x} : role[y] = "packer" /\ at[y] \notin Over \cup {"idle"})
    /\ BlockFrame /\ UNCHANGED got
PackBlock(x) ==
    /\ role[x] = "packer"
    /\ \/ at[x] = "idle" /\ Step(x, IF block.raw = 0 THEN "failed" ELSE "1") /\ UNCHANGED <<block, mishaps>>
       \/ /\ at[x] = "1" /\ Step(x, "2")
          /\ \/ block' = [block EXCEPT !.zst = 1] /\ UNCHANGED mishaps
             \/ Mishap /\ block' = [block EXCEPT !.zst = Bad]
       \/ at[x] = "2" /\ Step(x, IF block.zst = 1 THEN "3" ELSE "failed") /\ UNCHANGED <<block, mishaps>>
       \/ /\ at[x] = "3"
          /\ \/ Step(x, "done") /\ block' = [block EXCEPT !.raw = 0] /\ UNCHANGED mishaps
             \/ Step(x, "failed") /\ Mishap /\ UNCHANGED block
    /\ together' = (together \/ \E y \in Actors \ {x} : role[y] = "packer" /\ at[y] \notin Over \cup {"idle"})
    /\ BlockFrame /\ UNCHANGED got

MutStoredForm == IF block.zst # 0 THEN "zst" ELSE "raw"
\* download_block_archive: packed when only the .zst is listed; a file with both is mid-packing.
StoredForm == IF block.zst # 0 /\ block.raw = 0 THEN "zst" ELSE "raw"
\* The listing, the download, and verify against the sidecar.
ParseBlock(x) ==
    /\ role[x] = "parser"
    /\ \/ at[x] = "idle" /\ Step(x, "1") /\ got' = [got EXCEPT ![x].form = StoredForm]
       \/ /\ at[x] = "1"
          /\ LET found == IF got[x].form = "raw" THEN block.raw ELSE block.zst IN
             /\ got' = [got EXCEPT ![x].archive = found]
             /\ Step(x, IF found = 1 THEN "done" ELSE "failed")
    /\ BlockFrame /\ UNCHANGED <<block, mishaps, together>>

ActorKilled(x) ==
    /\ at[x] \notin Over \cup {"idle"} /\ Mishap /\ Step(x, "dead")
    /\ UNCHANGED <<indexVars, role, gen, cache, scanner, listing, block, got, attached, together>>

-----------------------------------------------------------------------------
LockStep(j) ==
    Begin(j) \/ LockExclusive(j) \/ LockShared(j) \/ DropShared(j) \/ GivesUp(j)
    \/ \E k \in Jobs : ClearExpired(j, k)
RestoreStep(j) == Reconcile(j) \/ RestoreBegins(j) \/ RestoreEmpties(j) \/ RestoreExtracts(j) \/ RestoreEnds(j)
WriteStep(j) ==
    \/ ParseOpens(j) \/ UpdateOpens(j) \/ BeginWrite(j) \/ StartParser(j) \/ ParserEnds(j)
    \/ PublishFiles(j) \/ PublishManifest(j) \/ PublishWhole(j) \/ Record(j)
ReadStep(j) == Open(j) \/ EndReading(j)
BackupStep(j) ==
    \/ DropManifest(j) \/ DropArchive(j) \/ Upload(j) \/ CheckSize(j) \/ WriteBackupManifest(j) \/ ReportBackup(j)
CopiesStep(x) ==
    \/ PublishCache(x) \/ RestoreCache(x) \/ PublishDumplings(x) \/ ReadBaseline(x) \/ Attach(x)
    \/ PackBlock(x) \/ ParseBlock(x)

Next ==
    \/ \E j \in Jobs : LockStep(j) \/ RestoreStep(j) \/ WriteStep(j) \/ ReadStep(j) \/ BackupStep(j) \/ Killed(j)
    \/ \E d \in Dirs : Purge(d)
    \/ \E x \in Actors : CopiesStep(x) \/ ActorKilled(x)
Spec == Init /\ [][Next]_vars

-----------------------------------------------------------------------------
(***************************************************************************)
(* Properties.                                                             *)
(***************************************************************************)
\* A copy that complete() accepts is whole, of the height its manifest names, whatever
\* write, restore or backup was killed and wherever.
CompleteIsWhole ==
    \A d \in Dirs : Complete(d) => copy[d].parsed = copy[d].manifest /\ copy[d].config = copy[d].manifest

\* What an analysis reads is the index it named next to its outputs, from its first byte to
\* its last; a restored scratch or notebook copy too.
ReadsWhole == \A j \in Jobs : At(j, "reading") => copy[Dir(j)] = Whole(seen[j])

\* A backup with a manifest can be restored, unless two backup jobs ran at once or the old
\* manifest survived its removal.
BackupValid == BackupAvailable /\ ~crossed /\ ~kept => s3.archive = s3.manifest

\* The files of an index, whether or not a writer marked them unfinished.
Intact(d) == copy[d].manifest # 0 /\ [copy[d] EXCEPT !.writing = FALSE] = Whole(copy[d].manifest)

\* Once the index has had a backup, a single fault never costs both, whatever writes were refused:
\* when no writer is at work the index has all its files or the backup can be restored. Intact files
\* may still be marked: an update refused after begin_write leaves .writing on them, complete()
\* turns them away, and without a backup only removing the mark by hand brings them back.
OneFaultKeepsACopy ==
    /\ backedUp /\ faults <= 1 /\ ~crossed
    /\ \A j \in Jobs : writer["main"] = j => At(j, "dead")
    => Intact("main") \/ (BackupAvailable /\ s3.archive = s3.manifest)

\* The height a backup job leaves for the lab is never below the one it backed up, although
\* it is read after the unlock.
HeightNotUnderstated == \A j \in Jobs : At(j, "done") /\ kind[j] = "backup" => told[j] >= seen[j]

\* The backup holds what it says, keeps the index through a fault, and its height reaches the lab.
BackupsHold == BackupValid /\ OneFaultKeepsACopy /\ HeightNotUnderstated

\* A restored index is the one its manifest describes, however a republication, a killed
\* publisher and a manifest that survived its removal interleave with the restore.
CacheIsOneGeneration ==
    \A x \in Actors : Is(x, "cacheReader", "done") => got[x].archive = got[x].manifest /\ got[x].archive # 0

\* An accepted baseline has the data files of the height its manifest names, although the
\* copy may be replaced while it is read.
BaselineDataMatches ==
    \A x \in Actors : Is(x, "baseline", "done") => got[x].files["Coinjoins.txt"] = got[x].manifest

\* The directory notebooks trust holds every file, whoever was killed while downloading.
AttachedIsFinished == attached # <<>> => \A f \in ScannerFiles : attached[f] # 0

\* A block file is never lost: the raw object goes only when a packed one that unpacks to its
\* checksum is there. Two pack jobs at once can lose it (together).
BlockNeverLost == ~together => block.raw = 1 \/ block.zst = 1

\* A download never chooses a packed object that was not verified; what fails it is a raw
\* object removed after the listing.
PicksVerified == \A x \in Actors : Is(x, "parser", "failed") /\ ~together => got[x].form = "raw" /\ block.raw = 0

\* What the jobs of other runs read of the copies in S3 belongs together and is complete: the index
\* cache, the mirrored data, the attached data set, the block files.
CopiesHold == CacheIsOneGeneration /\ BaselineDataMatches /\ AttachedIsFinished /\ BlockNeverLost /\ PicksVerified

\* The store implements the shared index it promises: whole or nothing, unchanged under a reader.
Promise == INSTANCE SharedIndex WITH
    value <- [d \in Dirs |-> IF Complete(d) THEN copy[d].manifest ELSE 0],
    view <- [d \in Dirs |-> [j \in Jobs |-> IF At(j, "reading") /\ Dir(j) = d THEN seen[j] ELSE 0]]
ImplementsSharedIndex == Promise!Spec

\* The lock of the index and that of the kept copy are used as the lock IndexLock implements:
\* the entries are what live jobs hold and what killed ones left.
Entries(d) ==
    [mode : {"exclusive"}, job : {j \in Jobs : writer[d] = j}] \cup [mode : {"shared"}, job : readers[d]]
Live(d) == {a \in Entries(d) : ~At(a.job, "dead")}
MainLock == INSTANCE SharedLock WITH
    holding <- Live("main"), left <- Entries("main") \ Live("main"), broken <- FALSE
NotebookLock == INSTANCE SharedLock WITH
    holding <- Live("notebook"), left <- Entries("notebook") \ Live("notebook"), broken <- FALSE
ImplementsSharedLock == MainLock!Spec /\ NotebookLock!Spec

\* What the store promises its users: an index that is whole and unchanged under the lock they
\* take, and that lock.
ImplementsPromises == ImplementsSharedIndex /\ ImplementsSharedLock
=============================================================================
