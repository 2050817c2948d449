---------------------------- MODULE MainnetSync ----------------------------
(***************************************************************************)
(* Synchronizations of the mainnet dataset (execution/mainnet_runtime.py). *)
(* One run is a chain of PBS jobs - restore, producer, blocksci,           *)
(* checkpoint, pack, clear - each queued until its predecessor succeeded.  *)
(* Nothing stops two runs from overlapping: what keeps them apart is the   *)
(* dataset lock .sync-active, taken and freed by every job but pack, the   *)
(* index lock (module IndexLock, here by what it promises), and the state  *)
(* files in sync/, current-ready.json and the three S3 manifests.          *)
(*                                                                         *)
(* Data are abstracted to the block height they reach.  Every write that a *)
(* crash can leave behind, or another run can see, is a step of its own.   *)
(***************************************************************************)
EXTENDS Naturals, FiniteSets

CONSTANTS Runs,            \* the submitted synchronizations
          NoRun,           \* no run: a missing file or lock
          Unowned,         \* .sync-active exists but not yet its owner.json
          Torn,            \* index files a parser is writing or left half written
          MaxHeight,       \* bound on the chain's height
          MaxFaults,       \* bound on kills, failed commands and lost nodes
          MaxManual,       \* bound on manual index-backup jobs
          MaxOverlap,      \* bound on runs under way at a time
          ClearAfterSync,  \* mainnet.clear_after_sync
          Earlier,         \* a run that finished or was deleted before, or NoRun
          Histories        \* what there is at first: "nothing", or what Earlier left

ASSUME SyncAssumption ==
    /\ MaxHeight \in Nat \ {0} /\ MaxFaults \in Nat /\ MaxManual \in Nat
    /\ ClearAfterSync \in BOOLEAN /\ Earlier \in Runs \cup {NoRun}
    /\ NoRun \notin Runs /\ Unowned \notin Runs /\ NoRun # Unowned
    /\ Torn \notin Nat /\ MaxOverlap \in Nat
    /\ Histories \subseteq {"nothing", "cleared", "kept"}
    /\ Earlier = NoRun => Histories \subseteq {"nothing"}

Stages == {"restore", "producer", "blocksci", "checkpoint", "pack", "clear"}
Backups == {"index", "dumplings", "core"}
Heights == 1..MaxHeight
Heights0 == 0..MaxHeight     \* 0: the files are not there
MaybeRun == Runs \cup {NoRun}

VARIABLES
    stage,      \* stage[r]: the run's queued or running job
    pc,         \* pc[r]: where that job is
    ok,         \* ok[r]: the job's exit status is still 0
    active,     \* .sync-active and its owner.json
    idxWriter,  \* the job that holds the index for writing
    idxReaders, \* the jobs that hold it for reading
    quiescent,  \* stages whose sync/<stage>.quiescent exists
    sync,       \* sync/: ready.json, done.json, restore.json
    disk,       \* the working dataset on the multijob
    s3,         \* s3[b]: manifest (run, height, members) and archive (data, intact) of b
    archived,   \* the block archive in S3 holds block files
    orphans,    \* runs whose worker is gone and whose subprocesses are not
    faults,     \* faults so far
    manual,     \* manual index backups so far
    killed,     \* history: runs a fault left without a confirmed end
    raced,      \* history: runs whose quiescent marker another run removed
    foreignClear \* history: a clear job took on another run's dataset

jobVars == <<stage, pc, ok>>
lockVars == <<active, idxWriter, idxReaders, quiescent>>
dataVars == <<sync, disk, s3, archived>>
histVars == <<killed, raced, foreignClear>>
vars == <<jobVars, lockVars, dataVars, orphans, faults, manual, histVars>>

NoGeneration == [run |-> NoRun, height |-> 0]
EmptyDisk == [core |-> 0, full |-> FALSE, scan |-> 0, archive |-> FALSE, config |-> 0,
              parsed |-> 0, owner |-> NoRun, writing |-> FALSE, current |-> NoGeneration]
NoBackup == [run |-> NoRun, height |-> 0, data |-> 0, intact |-> FALSE, members |-> FALSE]

\* What a run that synchronized to height 1 and finished leaves behind.
SyncedDisk == [core |-> 1, full |-> FALSE, scan |-> 1, archive |-> TRUE, config |-> 1,
               parsed |-> 1, owner |-> Earlier, writing |-> FALSE,
               current |-> [run |-> Earlier, height |-> 1]]
SyncedBackup == [run |-> Earlier, height |-> 1, data |-> 1, intact |-> TRUE, members |-> TRUE]

NextStage(s) ==
    CASE s = "restore" -> "producer"
      [] s = "producer" -> "blocksci"
      [] s = "blocksci" -> "checkpoint"
      [] s = "checkpoint" -> "pack"
      [] OTHER -> "clear"
LastStage == IF ClearAfterSync THEN "clear" ELSE "pack"

\* The state that finished run last left, with dataset d on the multijob; NoRun: nothing yet.
InitAfter(last, d) ==
    /\ stage = [r \in Runs |-> IF r # last THEN "restore" ELSE IF d = EmptyDisk THEN "clear" ELSE "pack"]
    /\ pc = [r \in Runs |-> IF r = Earlier THEN "over" ELSE "queued"]
    /\ ok = [r \in Runs |-> TRUE]
    /\ active = NoRun /\ idxWriter = NoRun /\ idxReaders = {}
    /\ quiescent = IF last = NoRun THEN {} ELSE IF d = EmptyDisk THEN Stages ELSE Stages \ {"clear"}
    /\ sync = [ready |-> IF last = NoRun THEN NoGeneration ELSE [run |-> last, height |-> 1],
               done |-> last, fresh |-> last]
    /\ disk = d
    /\ s3 = [b \in Backups |-> IF last = NoRun THEN NoBackup ELSE SyncedBackup]
    /\ archived = (last # NoRun)
    /\ orphans = {} /\ faults = 0 /\ manual = 0
    /\ killed = {} /\ raced = {} /\ foreignClear = FALSE

\* Before the first synchronization, or after one that cleared the dataset or kept it.
Init ==
    \/ "nothing" \in Histories /\ InitAfter(NoRun, EmptyDisk)
    \/ "cleared" \in Histories /\ InitAfter(Earlier, EmptyDisk)
    \/ "kept" \in Histories /\ InitAfter(Earlier, SyncedDisk)

-----------------------------------------------------------------------------
(***************************************************************************)
(* Pieces of the steps.                                                    *)
(***************************************************************************)
GoTo(r, label) == pc' = [pc EXCEPT ![r] = label]

\* An exception: the job runs its finally block and exits with an error.
Raise(r) == GoTo(r, "finally") /\ ok' = [ok EXCEPT ![r] = FALSE]

\* A step of job s of run r, at label.
At(r, s, label) == stage[r] = s /\ pc[r] = label

\* A check of the job: go on at label if it passes, otherwise raise.
Require(r, condition, label) ==
    IF condition THEN GoTo(r, label) /\ ok' = ok ELSE Raise(r)

OnlyMoves(r) == UNCHANGED <<stage, lockVars, dataVars, orphans, faults, manual, histVars>>

\* Only the dataset on disk changes, and the job goes on at label.
Writes(r, label, newDisk) ==
    /\ disk' = newDisk
    /\ GoTo(r, label)
    /\ UNCHANGED <<stage, ok, lockVars, sync, s3, archived, orphans, faults, manual, histVars>>

FirstStep(s) ==
    CASE s = "restore" -> "reset"
      [] s = "producer" -> "require"
      [] OTHER -> "check"

\* sync_settings: which jobs lock the index, and how.
WritesIndex(s) == s \in {"restore", "blocksci", "clear"}
ReadsIndex(s) == s = "checkpoint"
TakesDataset(s) == s # "pack"

DatasetPresent ==
    disk.core # 0 \/ disk.scan # 0 \/ disk.archive \/ disk.config # 0 \/ disk.parsed # 0
\* resume_signature: the block file of the index's resume point is in Core.
ResumeBytesMatch == disk.core # 0 /\ disk.core >= disk.config
\* files.txt lists exactly what the index holds.
IndexMatchesInventory == disk.config \in Heights /\ disk.config = disk.parsed

-----------------------------------------------------------------------------
(***************************************************************************)
(* The frame of every job: job_script, main, acquire_dataset, complete.    *)
(***************************************************************************)
\* Runs whose first job has started and whose last has not ended.
Underway == {r \in Runs : pc[r] # "over" /\ (stage[r] = "restore" => pc[r] # "queued")}

\* main: the stage's quiescent marker goes before any lock is taken.
Start(r) ==
    /\ pc[r] = "queued"
    /\ Cardinality(Underway \cup {r}) <= MaxOverlap
    /\ GoTo(r, "index")
    /\ ok' = [ok EXCEPT ![r] = TRUE]
    /\ quiescent' = quiescent \ {stage[r]}
    /\ raced' = raced \cup {q \in Runs \ {r} : At(q, stage[r], "handler") /\ stage[r] \in quiescent}
    /\ UNCHANGED <<stage, active, idxWriter, idxReaders, dataVars, orphans, faults, manual,
                   killed, foreignClear>>

\* The job fails before the worker starts, or is deleted from the queue.
Dropped(r) ==
    /\ pc[r] = "queued"
    /\ GoTo(r, "over")
    /\ active' = IF active = r THEN NoRun ELSE active
    /\ UNCHANGED <<stage, ok, idxWriter, idxReaders, quiescent, dataVars, orphans, faults,
                   manual, histVars>>

\* The index lock, without waiting.
LockIndex(r) ==
    LET s == stage[r]
        free == idxWriter = NoRun /\ (WritesIndex(s) => idxReaders = {})
        needed == WritesIndex(s) \/ ReadsIndex(s)
    IN /\ pc[r] = "index"
       /\ Require(r, needed => free, IF TakesDataset(s) THEN "acquire" ELSE "check")
       /\ idxWriter' = IF WritesIndex(s) /\ free THEN r ELSE idxWriter
       /\ idxReaders' = IF ReadsIndex(s) /\ free THEN idxReaders \cup {r} ELSE idxReaders
       /\ UNCHANGED <<stage, active, quiescent, dataVars, orphans, faults, manual, histVars>>

\* acquire_dataset: mkdir decides, owner.json follows.
AcquireDataset(r) ==
    /\ pc[r] = "acquire"
    /\ Require(r, active = NoRun, "own")
    /\ active' = IF active = NoRun THEN Unowned ELSE active
    /\ UNCHANGED <<stage, idxWriter, idxReaders, quiescent, dataVars, orphans, faults, manual,
                   histVars>>

WriteOwner(r) ==
    /\ pc[r] = "own"
    /\ active' = r
    /\ GoTo(r, FirstStep(stage[r]))
    /\ UNCHANGED <<stage, ok, idxWriter, idxReaders, quiescent, dataVars, orphans, faults,
                   manual, histVars>>

\* Mutant: frees the dataset whoever owns it.
MutReleaseAny(r) == active' = NoRun

\* release_dataset frees the dataset only of its recorded owner.
ReleaseDataset(r) == active' = IF active = r THEN NoRun ELSE active

\* complete; the checkpoint job writes its local done.json after it.
Complete(r) ==
    /\ pc[r] = "complete"
    /\ ReleaseDataset(r)
    /\ GoTo(r, IF stage[r] = "checkpoint" THEN "donefile" ELSE "finally")
    /\ UNCHANGED <<stage, ok, idxWriter, idxReaders, quiescent, dataVars, orphans, faults,
                   manual, histVars>>

WriteDoneFile(r) ==
    /\ pc[r] = "donefile"
    /\ sync' = [sync EXCEPT !.done = r]
    /\ GoTo(r, "finally")
    /\ UNCHANGED <<stage, ok, lockVars, disk, s3, archived, orphans, faults, manual, histVars>>

\* main's finally block: the index lock goes first, then cleanup ends the subprocesses.
UnlockIndex(r) ==
    /\ pc[r] = "finally"
    /\ GoTo(r, "cleanup")
    /\ idxWriter' = IF idxWriter = r THEN NoRun ELSE idxWriter
    /\ idxReaders' = idxReaders \ {r}
    /\ UNCHANGED <<stage, ok, active, quiescent, dataVars, orphans, faults, manual, histVars>>

\* Mutant: the marker is written only when the job succeeded.
MutQuiesceOnSuccess(r) ==
    /\ pc[r] = "cleanup"
    /\ quiescent' = IF ok[r] THEN quiescent \cup {stage[r]} ELSE quiescent
    /\ IF ok[r] /\ stage[r] # LastStage
         THEN GoTo(r, "queued") /\ stage' = [stage EXCEPT ![r] = NextStage(@)]
         ELSE GoTo(r, IF ok[r] THEN "over" ELSE "handler") /\ stage' = stage
    /\ UNCHANGED <<ok, active, idxWriter, idxReaders, dataVars, orphans, faults, manual, histVars>>

\* Subprocesses ended: the quiescent marker says so.  PBS then queues the
\* next job (afterok), or the script's trap runs the failed handler.
Quiesce(r) ==
    /\ pc[r] = "cleanup"
    /\ quiescent' = quiescent \cup {stage[r]}
    /\ IF ok[r] /\ stage[r] # LastStage
         THEN GoTo(r, "queued") /\ stage' = [stage EXCEPT ![r] = NextStage(@)]
         ELSE GoTo(r, IF ok[r] THEN "over" ELSE "handler") /\ stage' = stage
    /\ UNCHANGED <<ok, active, idxWriter, idxReaders, dataVars, orphans, faults, manual, histVars>>

\* worker.py failed: frees the dataset if the stage's quiescent marker exists.
FailedHandler(r) ==
    /\ pc[r] = "handler"
    /\ IF stage[r] \in quiescent THEN ReleaseDataset(r) ELSE active' = active
    /\ GoTo(r, "exit")
    /\ UNCHANGED <<stage, ok, idxWriter, idxReaders, quiescent, dataVars, orphans, faults,
                   manual, histVars>>

\* The script exits and PBS ends whatever the job left running.
JobExits(r) ==
    /\ pc[r] = "exit"
    /\ GoTo(r, "over")
    /\ orphans' = orphans \ {r}
    /\ UNCHANGED <<stage, ok, lockVars, dataVars, faults, manual, histVars>>

\* The index lock entry of a killed job expires after its walltime.
IndexEntryExpires(r) ==
    /\ pc[r] = "over"
    /\ r = idxWriter \/ r \in idxReaders
    /\ idxWriter' = IF idxWriter = r THEN NoRun ELSE idxWriter
    /\ idxReaders' = idxReaders \ {r}
    /\ UNCHANGED <<jobVars, active, quiescent, dataVars, orphans, faults, manual, histVars>>

Frame(r) ==
    \/ Start(r) \/ Dropped(r) \/ LockIndex(r) \/ AcquireDataset(r) \/ WriteOwner(r)
    \/ Complete(r) \/ WriteDoneFile(r) \/ UnlockIndex(r) \/ Quiesce(r)
    \/ FailedHandler(r) \/ JobExits(r) \/ IndexEntryExpires(r)

-----------------------------------------------------------------------------
(***************************************************************************)
(* restore: fill an empty dataset from S3.                                 *)
(***************************************************************************)
\* reset_state: the previous run's state files and quiescent markers go.
ResetState(r) ==
    /\ At(r, "restore", "reset")
    /\ sync' = [ready |-> NoGeneration, done |-> NoRun, fresh |-> NoRun]
    /\ quiescent' = quiescent \cap {"restore"}
    /\ GoTo(r, "look")
    /\ UNCHANGED <<stage, ok, active, idxWriter, idxReaders, disk, s3, archived, orphans, faults,
                   manual, histVars>>

Found == {b \in Backups : s3[b].run # NoRun}
\* Mutant: any three manifests will do.
MutAnyBackups == Found = Backups

BackupsBelongTogether ==
    /\ Found = Backups
    /\ \A a, b \in Backups : s3[a].run = s3[b].run /\ s3[a].height = s3[b].height

\* Something is there and complete: nothing to do.
SkipNotEmpty(r) ==
    /\ At(r, "restore", "look")
    /\ DatasetPresent /\ ~disk.writing
    /\ GoTo(r, "complete")
    /\ ok' = ok
    /\ OnlyMoves(r)

\* Nothing here and nothing in S3: the first synchronization.  restore.json says so.
SkipNoBackup(r) ==
    /\ At(r, "restore", "look")
    /\ ~DatasetPresent \/ disk.writing
    /\ Found = {}
    /\ LET first == ~disk.writing /\ ~archived
       IN /\ Require(r, first, "complete")
          /\ sync' = IF first THEN [sync EXCEPT !.fresh = r] ELSE sync
    /\ UNCHANGED <<stage, lockVars, disk, s3, archived, orphans, faults, manual, histVars>>

\* The manifests must be there and belong together before anything is removed.
CheckBackups(r) ==
    /\ At(r, "restore", "look")
    /\ ~DatasetPresent \/ disk.writing
    /\ Found # {}
    /\ Require(r, BackupsBelongTogether, IF disk.writing THEN "discard" ELSE "download")
    /\ OnlyMoves(r)

\* restore_checkpoint and restore_dumplings into staging: checksum and members.
Download(r) ==
    /\ At(r, "restore", "download")
    /\ Require(r, \A b \in Backups : s3[b].intact /\ s3[b].members, "place")
    /\ OnlyMoves(r)

\* Verified copies take their place one rename at a time: Core and the archive
\* state, then Scanner, then the index.
Place(r) ==
    /\ At(r, "restore", "place")
    /\ \/ /\ disk.core = 0
          /\ Writes(r, "place", [disk EXCEPT !.core = s3["core"].data])
       \/ /\ ~disk.archive
          /\ Writes(r, "place", [disk EXCEPT !.archive = TRUE])
       \/ /\ disk.core # 0 /\ disk.archive /\ disk.scan = 0
          /\ Writes(r, "place", [disk EXCEPT !.scan = s3["dumplings"].data])
       \/ /\ disk.scan # 0 /\ disk.config = 0
          /\ Writes(r, "place", [disk EXCEPT !.config = s3["index"].height,
                                             !.owner = s3["index"].run])
       \/ /\ disk.scan # 0 /\ disk.parsed = 0
          /\ Writes(r, "place", [disk EXCEPT !.parsed = s3["index"].data])

VerifyRestored(r) ==
    /\ At(r, "restore", "place")
    /\ disk.scan # 0 /\ disk.config # 0 /\ disk.parsed # 0
    /\ Require(r, IndexMatchesInventory /\ ResumeBytesMatch, "complete")
    /\ OnlyMoves(r)

\* Mutant: .writing goes first.
MutUnmarkFirst(r) ==
    /\ pc[r] = "discard"
    /\ disk.writing
    /\ Writes(r, "discard", [disk EXCEPT !.writing = FALSE])

\* discard_dataset: everything moves aside one rename at a time, first the
\* dataset root in any order, then the index; .writing goes last.
Discard(r) ==
    /\ pc[r] = "discard"
    /\ LET root == disk.core # 0 \/ disk.scan # 0 \/ disk.archive \/ disk.current # NoGeneration
       IN \/ /\ disk.core # 0
             /\ Writes(r, "discard", [disk EXCEPT !.core = 0, !.full = FALSE])
          \/ /\ disk.scan # 0
             /\ Writes(r, "discard", [disk EXCEPT !.scan = 0])
          \/ /\ disk.archive
             /\ Writes(r, "discard", [disk EXCEPT !.archive = FALSE])
          \/ /\ disk.current # NoGeneration
             /\ Writes(r, "discard", [disk EXCEPT !.current = NoGeneration])
          \/ /\ ~root /\ disk.config # 0
             /\ Writes(r, "discard", [disk EXCEPT !.config = 0, !.owner = NoRun])
          \/ /\ ~root /\ disk.config = 0 /\ disk.parsed # 0
             /\ Writes(r, "discard", [disk EXCEPT !.parsed = 0])
          \/ /\ ~root /\ disk.config = 0 /\ disk.parsed = 0
             /\ Writes(r, IF stage[r] = "clear" THEN "complete" ELSE "download",
                       [disk EXCEPT !.writing = FALSE])

Restore(r) ==
    \/ ResetState(r) \/ SkipNotEmpty(r) \/ SkipNoBackup(r) \/ CheckBackups(r)
    \/ Download(r) \/ Place(r) \/ VerifyRestored(r)

-----------------------------------------------------------------------------
(***************************************************************************)
(* producer: extend Core and Dumplings, archive the blocks, publish the    *)
(* generation.                                                             *)
(***************************************************************************)
DatasetComplete == disk.core # 0 /\ disk.archive /\ disk.scan # 0 /\ disk.config # 0
\* Before the first index: the blocks are unpruned and there is no index yet.
UnfinishedFirst == disk.config = 0 /\ disk.core # 0 /\ disk.full
RequiredPresent == disk.core # 0 \/ disk.archive \/ disk.scan # 0 \/ disk.config # 0

\* Mutant: any run's restore.json will do.
MutFreshOfAnyRun(r) ==
    /\ At(r, "producer", "require")
    /\ Require(r, IF RequiredPresent THEN DatasetComplete \/ UnfinishedFirst
                                     ELSE sync.fresh # NoRun, "prepare")
    /\ OnlyMoves(r)

RequireCompleteDataset(r) ==
    /\ At(r, "producer", "require")
    /\ Require(r, IF RequiredPresent THEN DatasetComplete \/ UnfinishedFirst
                                     ELSE sync.fresh = r, "prepare")
    /\ OnlyMoves(r)

\* current-ready.json is invalidated before Core changes.
Prepare(r) ==
    /\ At(r, "producer", "prepare")
    /\ Writes(r, "sync", [disk EXCEPT !.current = [run |-> r, height |-> 0]])

SynchronizeCore(r) ==
    /\ At(r, "producer", "sync")
    /\ \E h \in Heights :
        /\ h >= disk.core
        /\ Writes(r, "scan", [disk EXCEPT !.core = h, !.full = @ \/ disk.core = 0])

\* Mutant: the Dumplings copy is already published by the producer.
MutScanPublishes(r) ==
    /\ At(r, "producer", "scan")
    /\ disk' = [disk EXCEPT !.scan = disk.core]
    /\ s3' = [s3 EXCEPT !["dumplings"] = [run |-> r, height |-> disk.core, data |-> disk.core,
                                          intact |-> TRUE, members |-> TRUE]]
    /\ GoTo(r, "archive")
    /\ UNCHANGED <<stage, ok, lockVars, sync, archived, orphans, faults, manual, histVars>>

ScanDumplings(r) ==
    /\ At(r, "producer", "scan")
    /\ Writes(r, "archive", [disk EXCEPT !.scan = disk.core])

ArchiveBlocks(r) ==
    /\ At(r, "producer", "archive")
    /\ disk' = [disk EXCEPT !.archive = TRUE]
    /\ archived' = TRUE
    /\ GoTo(r, "ready")
    /\ UNCHANGED <<stage, ok, lockVars, sync, s3, orphans, faults, manual, histVars>>

WriteReady(r) ==
    /\ At(r, "producer", "ready")
    /\ sync' = [sync EXCEPT !.ready = [run |-> r, height |-> disk.core]]
    /\ GoTo(r, "current")
    /\ UNCHANGED <<stage, ok, lockVars, disk, s3, archived, orphans, faults, manual, histVars>>

WriteCurrentReady(r) ==
    /\ At(r, "producer", "current")
    /\ Writes(r, "complete", [disk EXCEPT !.current = sync.ready])

Producer(r) ==
    \/ RequireCompleteDataset(r) \/ Prepare(r) \/ SynchronizeCore(r) \/ ScanDumplings(r)
    \/ ArchiveBlocks(r) \/ WriteReady(r) \/ WriteCurrentReady(r)

-----------------------------------------------------------------------------
(***************************************************************************)
(* blocksci: extend the index in place, under .writing.                    *)
(***************************************************************************)
\* Mutant: current-ready.json is not compared.
MutReadyOnly(r) == sync.ready.run = r

OwnGeneration(r) == sync.ready.run = r /\ disk.current = sync.ready

CheckBeforeParse(r) ==
    /\ At(r, "blocksci", "check")
    /\ Require(r, /\ OwnGeneration(r)
                  /\ ~disk.writing
                  /\ IF disk.config # 0 THEN IndexMatchesInventory /\ ResumeBytesMatch
                                        ELSE disk.parsed = 0 /\ disk.full, "mark")
    /\ OnlyMoves(r)

MarkWriting(r) ==
    /\ At(r, "blocksci", "mark")
    /\ Writes(r, "parse", [disk EXCEPT !.writing = TRUE])

\* generate-config on a first parse, then the parser starts to write.
StartParser(r) ==
    /\ At(r, "blocksci", "parse")
    /\ Writes(r, "parsing", [disk EXCEPT !.config = IF @ = 0 THEN Torn ELSE @, !.parsed = Torn])

ParserEnds(r) ==
    /\ At(r, "blocksci", "parsing")
    /\ Writes(r, "publish", [disk EXCEPT !.parsed = disk.core])

\* verify_chain passed: manifest.json and files.txt.
PublishIndex(r) ==
    /\ At(r, "blocksci", "publish")
    /\ Writes(r, "unmark", [disk EXCEPT !.config = sync.ready.height, !.owner = r])

UnmarkWriting(r) ==
    /\ At(r, "blocksci", "unmark")
    /\ Writes(r, "complete", [disk EXCEPT !.writing = FALSE])

Blocksci(r) ==
    \/ CheckBeforeParse(r) \/ MarkWriting(r) \/ StartParser(r) \/ ParserEnds(r)
    \/ PublishIndex(r) \/ UnmarkWriting(r)

-----------------------------------------------------------------------------
(***************************************************************************)
(* checkpoint: replace the three backups one after another; pruning comes  *)
(* before the Core backup.                                                 *)
(***************************************************************************)
CheckBeforeBackup(r) ==
    /\ At(r, "checkpoint", "check")
    /\ Require(r, /\ OwnGeneration(r)
                  /\ ~disk.writing
                  /\ disk.owner = r
                  /\ disk.config = sync.ready.height
                  /\ IndexMatchesInventory /\ ResumeBytesMatch, "drop-index")
    /\ OnlyMoves(r)

\* Deletes the manifest and the old archive.  s5cmd's failure to delete the
\* manifest goes unnoticed (a fault); the archive is overwritten all the same.
DropBackup(r, b, label) ==
    /\ \/ /\ s3' = [s3 EXCEPT ![b] = NoBackup]
          /\ faults' = faults
       \/ /\ s3[b].run # NoRun /\ faults < MaxFaults
          /\ s3' = [s3 EXCEPT ![b].intact = FALSE]
          /\ faults' = faults + 1
    /\ GoTo(r, label)
    /\ UNCHANGED <<stage, ok, lockVars, sync, disk, archived, orphans, manual, histVars>>

\* The stream's end, the size check and the manifest.
UploadBackup(r, b, data, label) ==
    /\ s3' = [s3 EXCEPT ![b] = [run |-> r, height |-> sync.ready.height, data |-> data,
                               intact |-> TRUE, members |-> TRUE]]
    /\ GoTo(r, label)
    /\ UNCHANGED <<stage, ok, lockVars, sync, disk, archived, orphans, faults, manual, histVars>>

BackupIndex(r) ==
    \/ At(r, "checkpoint", "drop-index") /\ DropBackup(r, "index", "up-index")
    \/ At(r, "checkpoint", "up-index") /\ UploadBackup(r, "index", disk.parsed, "drop-dumplings")

\* scanner_complete comes first: Scanner/ has reached the generation's height.
PublishDumplings(r) ==
    \/ /\ At(r, "checkpoint", "drop-dumplings")
       /\ IF disk.scan = sync.ready.height
            THEN DropBackup(r, "dumplings", "up-dumplings")
            ELSE Raise(r) /\ OnlyMoves(r)
    \/ /\ At(r, "checkpoint", "up-dumplings")
       /\ UploadBackup(r, "dumplings", disk.scan, "prune")

\* Offline Core must still be at the generation's height.
Prune(r) ==
    /\ At(r, "checkpoint", "prune")
    /\ Require(r, disk.core = sync.ready.height, "drop-core")
    /\ disk' = IF disk.core = sync.ready.height THEN [disk EXCEPT !.full = FALSE] ELSE disk
    /\ UNCHANGED <<stage, lockVars, sync, s3, archived, orphans, faults, manual, histVars>>

BackupCore(r) ==
    \/ At(r, "checkpoint", "drop-core") /\ DropBackup(r, "core", "up-core")
    \/ At(r, "checkpoint", "up-core") /\ UploadBackup(r, "core", disk.core, "complete")

Checkpoint(r) ==
    CheckBeforeBackup(r) \/ BackupIndex(r) \/ PublishDumplings(r) \/ Prune(r) \/ BackupCore(r)

-----------------------------------------------------------------------------
(***************************************************************************)
(* pack and clear: both want done.json to be this run's.                   *)
(***************************************************************************)
\* pack compresses raw block files in S3, which this module does not follow.
Pack(r) ==
    /\ At(r, "pack", "check")
    /\ Require(r, sync.done = r /\ disk.core # 0, "complete")
    /\ OnlyMoves(r)

Clear(r) ==
    /\ At(r, "clear", "check")
    /\ Require(r, sync.done = r, "discard")
    /\ foreignClear' = (foreignClear \/ (sync.done = r /\ disk.current.run # r))
    /\ UNCHANGED <<stage, lockVars, dataVars, orphans, faults, manual, killed, raced>>

-----------------------------------------------------------------------------
(***************************************************************************)
(* Faults, and the one manual job that writes a shared backup.             *)
(***************************************************************************)
Over == {"queued", "handler", "exit", "over"}
InWorker(r) == pc[r] \notin Over

\* Steps during which the worker may have subprocesses that write: Bitcoin Core,
\* the scanner, the archiver or the parser.
WithChildren == {"sync", "scan", "archive", "ready", "parse", "parsing", "prune"}

\* A failing command, lost storage or SIGTERM: an exception in the worker.
Interrupted(r) ==
    /\ InWorker(r) /\ pc[r] \notin {"finally", "cleanup"}
    /\ faults < MaxFaults
    /\ faults' = faults + 1
    /\ Raise(r)
    /\ UNCHANGED <<stage, lockVars, dataVars, orphans, manual, histVars>>

\* SIGKILL or OOM of the worker, or an error in cleanup: no quiescent marker, the
\* job script's trap still runs.
WorkerKilled(r) ==
    /\ InWorker(r)
    /\ faults < MaxFaults
    /\ faults' = faults + 1
    /\ GoTo(r, "handler")
    /\ ok' = [ok EXCEPT ![r] = FALSE]
    /\ orphans' \in {orphans} \cup (IF pc[r] \in WithChildren THEN {orphans \cup {r}} ELSE {})
    /\ killed' = killed \cup {r}
    /\ UNCHANGED <<stage, lockVars, dataVars, manual, raced, foreignClear>>

\* The node: nothing of the job runs on.
NodeLost(r) ==
    /\ InWorker(r) \/ pc[r] \in {"handler", "exit"}
    /\ faults < MaxFaults
    /\ faults' = faults + 1
    /\ GoTo(r, "over")
    /\ orphans' = orphans \ {r}
    /\ killed' = killed \cup {r}
    /\ UNCHANGED <<stage, ok, lockVars, dataVars, manual, raced, foreignClear>>

\* blocksci_backup: an index-backup job of its own, under the shared lock.  Its
\* manifest lists no members.
ManualIndexBackup ==
    /\ manual < MaxManual
    /\ idxWriter = NoRun
    /\ ~disk.writing /\ IndexMatchesInventory
    /\ manual' = manual + 1
    /\ s3' = [s3 EXCEPT !["index"] = [run |-> disk.owner, height |-> disk.config,
                                      data |-> disk.parsed, intact |-> TRUE, members |-> FALSE]]
    /\ UNCHANGED <<jobVars, lockVars, sync, disk, archived, orphans, faults, histVars>>

Fault(r) == Interrupted(r) \/ WorkerKilled(r) \/ NodeLost(r)

Next ==
    \/ \E r \in Runs :
        \/ Frame(r) \/ Restore(r) \/ Discard(r) \/ Producer(r) \/ Blocksci(r)
        \/ Checkpoint(r) \/ Pack(r) \/ Clear(r) \/ Fault(r)
    \/ ManualIndexBackup

Spec == Init /\ [][Next]_vars

-----------------------------------------------------------------------------
(***************************************************************************)
(* Properties.                                                             *)
(***************************************************************************)
Labels ==
    {"queued", "index", "acquire", "own", "reset", "look", "download", "place", "discard",
     "require", "prepare", "sync", "scan", "archive", "ready", "current", "check", "mark",
     "parse", "parsing", "publish", "unmark", "drop-index", "up-index", "drop-dumplings",
     "up-dumplings", "prune", "drop-core", "up-core", "complete", "donefile", "finally",
     "cleanup", "handler", "exit", "over"}

Generations == [run : MaybeRun, height : Heights0]

JobTypes ==
    /\ stage \in [Runs -> Stages] /\ pc \in [Runs -> Labels] /\ ok \in [Runs -> BOOLEAN]
    /\ active \in MaybeRun \cup {Unowned}
SyncTypes == sync \in [ready : Generations, done : MaybeRun, fresh : MaybeRun]
DiskTypes ==
    disk \in [core : Heights0, full : BOOLEAN, scan : Heights0, archive : BOOLEAN,
              config : Heights0 \cup {Torn}, parsed : Heights0 \cup {Torn},
              owner : MaybeRun, writing : BOOLEAN, current : Generations]
S3Types ==
    /\ s3 \in [Backups -> [run : MaybeRun, height : Heights0, data : Heights0 \cup {Torn},
                           intact : BOOLEAN, members : BOOLEAN]]
    /\ s3["core"].data # Torn /\ s3["dumplings"].data # Torn
OtherTypes ==
    /\ idxWriter \in MaybeRun /\ idxReaders \subseteq Runs
    /\ quiescent \subseteq Stages
    /\ archived \in BOOLEAN
    /\ orphans \subseteq Runs
    /\ faults \in 0..MaxFaults /\ manual \in 0..MaxManual
    /\ killed \subseteq Runs /\ raced \subseteq Runs /\ foreignClear \in BOOLEAN

\* Type invariant of the jobs, the locks, the state files, the dataset and S3.
TypeOK == JobTypes /\ SyncTypes /\ DiskTypes /\ S3Types /\ OtherTypes

\* A job between acquire_dataset and complete.
AtWork(r) ==
    /\ stage[r] # "pack"
    /\ pc[r] \notin Over \cup {"index", "acquire", "own", "donefile", "finally", "cleanup"}

\* Every job that works on the dataset is the recorded owner of .sync-active,
\* whatever other runs' jobs and their failed handlers do.
WorkOwnsDataset == \A r \in Runs : AtWork(r) => active = r

\* After a failed stage the dataset stays locked only if the worker's end was
\* not confirmed, or a job of the same stage of another run removed the marker
\* that confirmed it before the failed handler looked.
LeftLockedOnlyAfterKill == \A r \in Runs : pc[r] = "over" /\ active = r => r \in killed \cup raced

\* The Core data that blocksci is about to index, or checkpoint to back up, are
\* those its own run's producer left: a job that waited in the queue while
\* another run changed the dataset refuses.
QueuedJobSeesOwnData ==
    \A r \in Runs :
        At(r, "blocksci", "mark") \/ At(r, "checkpoint", "drop-index") =>
            disk.current = [run |-> r, height |-> disk.core]

\* Half-written index files are always under the .writing marker, also when
\* discard_dataset is killed between two renames.
TornIsMarked == disk.parsed = Torn => disk.writing

\* A dataset that restore assembled is one generation.
RestoredTogether ==
    \A r \in Runs :
        At(r, "restore", "place") /\ disk.scan # 0 /\ disk.config # 0 /\ disk.parsed # 0 =>
            disk.core = disk.scan /\ disk.core = disk.config /\ disk.core = disk.parsed

\* A producer starts an initial block download only while S3 holds no archived
\* block whose files the new download would contradict.
FreshOnlyOnEmptyArchive ==
    \A r \in Runs : At(r, "producer", "sync") /\ disk.core = 0 => ~archived

\* S3 alone can rebuild the dataset.
Restorable == BackupsBelongTogether /\ \A b \in Backups : s3[b].intact /\ s3[b].members

\* The working dataset alone can go on: complete, or still with every block.
Usable ==
    \/ disk.core # 0 /\ disk.full
    \/ DatasetComplete /\ IndexMatchesInventory /\ ~disk.writing
    \/ \E r \in Runs : stage[r] = "blocksci" /\ AtWork(r)

\* No single fault loses the synchronized data: with at most one fault so far,
\* S3 or the multijob still holds a whole generation.  Left out are
\* executions in which a clear job took on another run's dataset, and manual
\* index backups, which restore cannot read.
OneFaultLosesNothing ==
    faults <= 1 /\ ~foreignClear /\ manual = 0 => (archived => Restorable \/ Usable)

\* clear only empties a dataset that "the next restore job refills from S3".
ClearOnlyRestorable == \A r \in Runs : At(r, "clear", "discard") => Restorable
=============================================================================
