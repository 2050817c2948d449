# A TLA+ model of coinjoin-pipeline

`coinjoin-pipeline` runs CoinJoin emulations on Kubernetes, analyses them (or
Bitcoin mainnet) in PBS jobs on a shared cluster, and keeps every result in S3.
Its programs are short-lived; what is hard about it is the state they share
without a server in between: directories that serve as locks, marker files in
S3, job IDs in small files, a dataset of hundreds of gigabytes that jobs extend
in place, and three backups of it that are replaced one after another. This
directory models that state and the programs that change it, checks small
instances with TLC, and proves with TLAPS every safety property of its state machines, for
every number of jobs, commands, stages and faults, and what its rules, plans and reports
promise, for every input of their types.

Paths below are relative to the repository; `X/` stands for
`src/coinjoin_pipeline/execution/`.

## 1. Inventory

| Component | State | Operations | What makes it correct |
|---|---|---|---|
| Index lock (`X/pbs/index_store.py`) | directories `.lock/writer`, `.lock/readers/<job>` | `lock_shared`, `lock_exclusive`, `unlock`, `clear_expired` | one writer or many readers; an ended call leaves no entry; every call ends |
| Index store (same file) | `parsed/`, `config.json`, `manifest.json`, `files.txt`, `.writing`; one S3 backup | `begin_write`, `publish`, `backup`, `restore`, `reconcile` | half-written files are always marked; a backup without manifest is none |
| Mainnet synchronization (`X/mainnet_runtime.py`, `mainnet_sync.py`) | Core, Scanner and index on the multijob, `.sync-active`, state files in `sync/`, three S3 backups, the block archive | six chained jobs: restore, producer, blocksci, checkpoint, pack, clear | one worker on the dataset; a queued job never works on another run's data; one crash never loses the data |
| S3 submission (`X/s3_submission.py`, `pbs/submission.py`, `locks.py`) | `.pbs-submit.lock`, `.pbs/<stage>.jobid`, the PBS queue | lock, overlap check, marker clearing, qsub, persisting IDs, rollback | a stage of a run has one job at a time |
| S3 full-run (`X/s3_workflow.py`, `s3_markers.py`, `storage/s3.py`) | the wait's deadlines and `terminal_seen` | `wait_for_s3_marker`, cancelling dependents | ends; sees only its own jobs' markers; no completed run with foreign or missing outputs |
| PBS stage runtime (`X/pbs/stage_runtime.py`) | outputs and `done`/`failed` marker in S3 | stage bodies, `finalize`, `finish`, TERM handler | an ended stage has a marker that tells the truth |
| Stage graph (`X/stages.py`, `stage_executor.py`) | none / thread pool | `ordered`, `dependents_of`, plans, execution | plans are acyclic; exactly the transitive dependents are cancelled |
| Shared-storage PBS (`X/shared_storage_pbs.py`, `pbs/submission_local.py`) | markers on disk | submit, wait, cancel siblings | as for S3, without marker clearing at submission |
| Emulation (`X/s3_staging.py`, `s3_emulation.py`, `kubernetes.py`, `k8s_s3_*.sh`) | Kubernetes Job, upload markers | preflight, staging, upload | one run per prefix; a marker only after all artifacts |
| Block archive (`X/block_archive.py`, `mainnet_runtime.pack`) | raw and packed block files in S3 | archive, pack, prune | every block stays readable |
| Local commands (`main`, `research.py`, `X/containers.py`, `X/logging.py`) | run directories, `research_manifest.json`, lock files, containers | launch, import, export, analyze, emulate | a command records how it ended; no two commands of a kind work on one run; a report belongs to its inputs |
| Dumplings mirror (`publish_dumplings`, `dumplings_baseline`) | Scanner copy in S3 | publish, read | readers never see a half-replaced copy |
| Configuration (`configuration.py`, `arguments.py`, `option_rules.py`) | none | validation | rules agree with the plans |
| Exporters (`pipeline/exporters/`) | none | chain verification, comparison, heuristics, liquidity, report | functional |
| Host utilities (`watch.py`, `clean_s3.py`, `download_report.py`, `doctor.py`, `registry.py`, `run_catalog.py`) | polling state of `watch` | single-shot commands | cleanup never removes a running command's data |

How they interact: frontend commands write `.jobid` files and clear markers;
PBS starts the jobs they submitted when their `afterok` dependencies succeeded;
jobs write markers and outputs that the frontend polls. Mainnet jobs, index
jobs and notebooks meet at the index lock; mainnet jobs of different runs meet
at `.sync-active`, at the fixed state directory `sync/` and at the fixed backup
prefixes. Nothing but these files keeps two submissions of a synchronization
apart. On one host the commands meet at a run directory and its lock files; the
emulation's front end, its Kubernetes Job, report jobs, downloads and cleanups meet
at the prefix of a run ID.

The behaviours that are hard to test are listed, each at its line, under
"hazards" in `PROJECT.json`.

## 2. Modules

State machines:

| Module | Models | Proofs | Instances |
|---|---|---|---|
| `IndexLock` | the lock of `index_store.py`, per file system call | `IndexLockProofs` | `MCIndexLock` |
| `MainnetSync` | all runs of the mainnet synchronization, their locks, dataset and backups | `MainnetSyncProofs` | `MCMainnetSync` |
| `S3Run` | the commands given for one run ID, their PBS jobs, markers and outputs | `S3RunProofs` | `MCS3Run` |
| `StageExecutor` | the thread pool of a local analysis, its PBS jobs and markers on disk | `StageExecutorProofs` | `MCStageExecutor` |
| `IndexStore` | the index directory, its backup, and what jobs replace in S3 while others read it | `IndexStoreProofs` | `MCIndexStore` |
| `SharedIndex` | what an index promises the jobs that share it (abstract) | `IndexStoreProofs` | `MCIndexStore` |
| `SharedLock` | what the lock promises its writers and readers (abstract) | `IndexLockProofs`, `IndexStoreProofs` | `MCIndexLock`, `MCIndexStore` |
| `RunPrefix` | one run ID: staging, the Kubernetes Job, its pod, reports, downloads, cleanup | `RunPrefixProofs` | `MCRunPrefix` |
| `RunFolder` | the commands of one host over one run directory | `HostProofs` | `MCAlgorithms` |
| `Watch` | `cjp watch`: readers, queue, printing loop | `HostProofs` | `MCAlgorithms` |

Algorithms and rules, as operators that `MCAlgorithms` applies to enumerated inputs:

| Module | Computes |
|---|---|
| `Records`, `Heuristics` | the exporters' records, the Wasabi and JoinMarket rules and the subset search |
| `Liquidity` | classification of coinjoin inputs and outputs, the pool and its decompositions |
| `ReportLabels` | producer manifests, label sources, matching, labels |
| `BlockSciExport` | pinned chain, scan window, records, mix events, diagnostics, the worker's phases |
| `UnifiedReport` | normalization, comparison, matrix, clusters, warnings, the assembled report |
| `BlockArchive` | sidecars, the set of block files a job downloads, the sweep over their heights, the digest an update pins |
| `RunOptions` | `from_mapping` and every cross-field rule |
| `StagePlan` | graphs, their order, and the inputs and outputs of each stage's job |
| `CoinjoinTools` | the operations of coinjoin-analysis and where they find their data |
| `Preflight` | doctor's checks against what each dispatched action uses |
| `SyncOptions` | prefixes and directories of a synchronization and of its restore check |
| `Options` | the variable `input`, the types of the inputs, and what accepted options promise |
| `Reports` | what a report promises, on the same inputs |
| `Detectors` | what the detectors' rules and the subset search promise, on the same inputs |
| `Pools` | what the pool liquidity promises, on the same inputs |
| `Plans` | what stage graphs, submissions and block archives promise, on the same inputs |

`HostProofs` proves what `Options` and `Plans` promise, `ReportProofs` what `Reports`, `Detectors` and
`Pools` promise, and both the lemmas about the other modules this takes.
The subset search is a function of the inputs left: its lists of values and buckets are sorted in
the code, here `Largest` and `Fullest` pick the next of them, and a bucket is what it misses of its
goal. Its `depth` is a result and an argument, since the code counts the calls of the whole search.
The sweep of `verify` over the sorted ranges is stated without its loop: `Past` is how far
some ranges carry it, `Joins` whether a range starts before that, `Swept` the ranges in front
of the first that does not.

Definitions whose name begins with `Mut` are not part of any specification.
Each is a plausible mistake in the operator that follows it (a dropped guard, a
missing reset, a swapped order); put in that operator's place it makes TLC
violate the property `PROJECT.json` pairs it with.

### IndexLock

A job is a writer (parse, update, a synchronization's restore, blocksci or
clear) or a reader (backup, analyses, a checkpoint). `dir[p]` is what is at a
path: nothing, an empty directory, or the entry of a job. `_create` renames a
prepared directory, which is atomic and succeeds on an absent or empty target;
`shutil.rmtree` first unlinks the files and then removes the directory, two
steps between which another job may rename its entry into place.
`clear_expired` lists the entries, inspects one after another and removes by
path in later steps. `unlock` removes by path too.

Time enters in two ways only: a waiting call may give up at any poll, and the
entry of a killed job may expire. An entry's expiry lies 600 s past its job's
walltime (`mainnet_sync.py:175`), so the entry of a live job does not expire.
`robbed` is a history variable: jobs whose entry another job emptied while they
counted on it.

### MainnetSync

A run is a chain of jobs; `stage[r]`, `pc[r]` and `ok[r]` say where it is. Each
label of `pc` is a point where a crash or another run can observe the state.
`Start` to `FailedHandler` are the frame every job runs in (`main`, and the
`trap` of the job script); `Restore`, `Producer`, `Blocksci`, `Checkpoint`,
`Pack` and `Clear` are the jobs.

Data are abstracted to the height they reach. `disk` holds the heights of Core,
Scanner, the index files and the index's inventory, whether blocks are unpruned
(`full`), `.writing` and `current-ready.json`. `s3[b]` is a backup's manifest
(`run`, `height`, `members`) and its archive (`data`, `intact`). `sync` is the
state directory: `ready.json`, `done.json`, `restore.json`. The resume
signature, which compares the bytes of the block file the index stopped at, is
abstracted to that file being among the blocks Core has. The index lock is
composed by what `IndexLock` shows it promises.

Faults are bounded by `MaxFaults`: an exception or SIGTERM in the worker
(`Interrupted`), a SIGKILL or an error in its cleanup
(`WorkerKilled`; the job script's handler still runs), the loss of the node
(`NodeLost`), and a delete of an old manifest that fails unnoticed
(`DropBackup`). `ManualIndexBackup` is an index-backup job of the ordinary
workflow, atomic here because it holds the index lock and its order (manifest
last) is that of `backup`.
`killed`, `raced` and `foreignClear` are history variables: runs whose end was
not confirmed, runs whose confirmation a job of another run removed, and
whether a clear job took on a dataset another run had extended.

### S3Run

A job is the pair of the command that submitted it and its stage. A command
goes through `AcquireLock`, `CheckOverlap`, and per stage `ClearMarkers`,
`Qsub`, `Record`; a full-run then polls (`CheckFailed`, `CheckDone`, `Probe`,
`Verdict`) stage after stage; each look at S3 or at qstat is a step of its own.
PBS is external: it starts a queued job when its ancestors succeeded
(`Starts`), and may drop or hold a job whose ancestor failed (`AfterokFails`).
A job runs its body, `finalize`, `finish` and `clean_scratch`; TERM and SIGKILL
can hit it anywhere. `Blocked` is `dependents_of` by its own loop, as a
recursive function.

Deadlines are abstracted to `late`, which may become true at any moment of a
wait. A SIGKILL that follows a qdel counts as a fault like any other. `ghosts`
are jobs whose ID was never persisted; `stale` are jobs that read another
command's outputs; `lost` are jobs killed outright or whose marker upload
failed.

### StageExecutor

Two kinds of commands work on one run directory on shared storage: a graph
(`execute_analysis`) and a single stage. The main thread of a graph submits the first
ready stage, collects ended threads, and cancels what runs when one failed;
`pending`, `running`, `completed`, `failures` and `cancelled` are its variables by
the same names. The submission of a PBS stage has four steps: `Qsub`, `Record` (the
rename of the `.jobid` file), `StartThread` and `Enter` (into `running`); `starting` is
the stage that is between them. A signal (`Interrupt`) can fall anywhere: it frees the
locks, and `_cancel_running` then cancels what is in `running` only, while the pool's
exit waits for every thread that was started (`Drain`). A thread waits: it reads the job ID once (`wid`), then alternates
between the marker files and qstat, with one more look after a terminal state
(`seen`). The `.done` and `.failed` files do not say whose they are; the model keeps
the writer, which the properties talk about and the code cannot see. A job removes
both markers when it starts, runs its body, and writes one at its exit; TERM and
SIGKILL can hit it between any two of these.

`mixed` is the history of stages that met another attempt: a live job of the
stage, another command at work on it, or an old marker. Nothing on shared storage
prevents that (S3 submission does), and what the properties promise excludes it.
`ghosts` are jobs whose ID was never recorded (the signal or the error came between
`Qsub` and `Record`), `late` threads that gave up at their deadline, `stale` stages that read outputs of another command, `struck` the
cancellations.

### IndexStore and SharedIndex

First half: jobs parse, update, back up and read one index directory, restore it
into a directory of their own (`scratch`) or into the one notebooks keep (`kept`).
`copy[d]` has the parts of a directory that are written by separate operations:
`parsed/`, `config.json`, `files.txt`, `manifest.json`, `.writing`. A height stands for
the contents of an index of that height; `Torn` stands for contents no finished
write left. The lock is taken at its promise, with entries of killed jobs that stay
until they expire. A failed removal in S3 passes unnoticed (`kept`), a failed upload
raises; two backups at once (`crossed`) exclude the claims on the backup. `faults` counts
killed jobs, failed calls of S3 and the parser, and purges; a refused job costs none, nor
does an update that finds no blocks.

`SharedIndex` is the abstract specification: a directory has a whole index of some
height or nothing that may be read, and only changes while nobody reads it.
`ImplementsSharedIndex` maps a directory to the height `complete()` would accept and
a reading job to the height it was given.

Second half, with no lock and no state in common with the first: the reusable index
in a run's prefix, the mainnet's Dumplings copy, the directory attached to a
notebook, and `pack_block` against the downloads of stored block files.

### RunPrefix

`part[p]` is what a process does: a full-run or `emulate` (staging, `kubectl apply`,
the wait and the roll-back), a resumed run, a report job, a download, or clean-s3.
The prefix is that of a run id; the fixed state prefix, whose exporters are refreshed by
every run, is not followed.
The Job has one pod; the pod's preflight, controller and uploader take separate steps,
and the uploader only tests for the controller's marker. Kubernetes is modelled from what
`kubernetes.py` relies on. `obj[k]` and `got[p]` hold, per object, the uid of the Job or the number of
the process it is from, so that properties can say whose an object is. `overlap`,
`swept`, `slipped` and `disturbed` are history: two front ends at once, a clean-s3
that was between its listing and its end while others were at work, a killed front end
or failed deletion, a report that changed while it was read. `MaxUid` bounds the Jobs of one name, `Rounds` the reports published again.

### RunFolder

`folder` is one run directory: the host manifest, the imported baseline and sidecars, the
analyses, the report with the inputs it hashed, and the run manifest. A command
takes the steps of `main` (launch, lock, work, end) and of its action, so that two
commands that hold different lock files overlap. `FolderSpec` begins with any
assignment of commands to slots over an empty directory or an emulated run; the
instance begins with six of them. A SIGKILL leaves the command's container
running without its lock (`killed`). `overtaken` are the reports whose inputs another
command changed while they were assembled, by an analysis under another lock or by an import's
copies; `early` are the launches whose last look found no provenance. The properties
except both (section 4).

### Watch

`watch.py` starts a reader per source and prints one queue. A log is a sequence of
line numbers that can grow, start over, or arrive after the end (PBS output that is
copied back); a reader remembers its position, PBS states come from `qstat`, and a
job that the server forgot has no state. `Lines`, `Replay` and `IdlePolls` bound the
lines of a log, its restarts, and the polls after the end. The code's two idle polls
are needed: with one, what the job wrote between a read and the `qstat` that found it
ended would be left, and the assumption on `IdlePolls` says so.

### Algorithms

`MCAlgorithms` picks one input of one algorithm and compares the result with a
reference definition: the subset search with all partitions, the liquidity pool with
the coins that nothing has spent yet, the archive selection with the heights its files hold, the stage plans
with the data flow of their jobs, and so on. The inputs are all small ones of a shape
(`Archives`, `Spenders`, `Manifests`); values and heights are small numbers, with the
sizes the rules compare with as constants, so that a small transaction can be a
Wasabi coinjoin. Inputs are filtered by the code's own rules: only accepted
configurations, only reports that were assembled.

## 3. Runs

"pass" runs finish without error; a "violation" run shows that the code does
not do what a line of the repository says (section 4).

| Run | Instance | Shows |
|---|---|---|
| `index_lock` | 2 writers, 1 reader, fairness | `ExclusionUnlessRobbed`, `NoEntryLeftBehind`, `LockCallEnds`, `ImplementsSharedLock` |
| `sync_overlap` | 2 overlapping runs, 2 faults, heights 1–2; nothing yet, or an earlier run that cleared or kept its dataset | `WorkOwnsDataset`, `LeftLockedOnlyAfterKill`, `QueuedJobSeesOwnData`, `FreshOnlyOnEmptyArchive`, `OneFaultLosesNothing` |
| `sync_serial` | 3 runs in a row, 3 faults, 1 manual index backup | `RestoredTogether`, `TornIsMarked` |
| `s3_run_resumed` | a full-run and a pbs-from-s3 of one run ID, 2 faults | `OneJobPerStage`, `OwnMarkersOnly`, `DoneIsSeen`, `CompletedIsWhole` |
| `s3_run_ends` | one full-run over two analyzers and a report, 1 fault, fairness | `CommandEnds` |
| `shared_stages` | a parallel full analysis of four stages and a mappings command on the same directory, 1 fault | `SuccessIsOwn`, `SuccessIsSeen`, `OkIsWhole`, `NoJobLeftBehind`, `CancelsOwnJobs`, `NeverStuck` |
| `index_store` | 8 mixes of three index jobs from 5 histories, 3 faults; 5 mixes of three jobs over the copies in S3, 2 mishaps | `CompleteIsWhole`, `ReadsWhole`, `BackupsHold`, `CopiesHold`, `ImplementsPromises` |
| `run_prefix` | 9 casts of two or three processes on one run ID, 1 fault, fairness | `RunIsOwn`, `NoOrphans`, `ReportHolds`, `RunEnds` |
| `algorithms` | every small input of 17 algorithms; casts of three commands on a run directory, 1 kill; 6 watches, fairness | below |
| `index_lock_robbed` | 3 writers | `Exclusion` fails |
| `sync_foreign_clear` | 2 runs, 1 fault | `ClearOnlyRestorable` fails |
| `s3_run_unmarked` | one full-run, 1 fault | `EndedJobLeftMarker` fails |

The type invariants of `IndexLock`, `MainnetSync`, `S3Run`, `StageExecutor`,
`IndexStore` and `RunPrefix` are proved and not run. Where several statements concern one promise, a run checks their
conjunction, and each conjunct was given a mutant that breaks it:

| Property | Conjuncts |
|---|---|
| `ImplementsPromises` (`IndexStore`) | `ImplementsSharedIndex`, `ImplementsSharedLock` |
| `BackupsHold` | `BackupValid`, `OneFaultKeepsACopy`, `HeightNotUnderstated` |
| `CopiesHold` | `CacheIsOneGeneration`, `BaselineDataMatches`, `AttachedIsFinished`, `BlockNeverLost`, `PicksVerified` |
| `RunIsOwn` | `OkIsOwn`, `OneExporterVersion`, `GraceSeesDone` |
| `ReportHolds` | `ReportNeverLost`, `DownloadIsOneReport` |
| `RunEnds` | `FrontEnds`, `ClusterEmptied` |
| `DetectorsAgree` (`Detectors`) | `DetectorTyped`, `SubsetSearch`, `DefinitePossible`, `ChangeCounted`, `WasabiRelaxes` |
| `LiquidityAddsUp` (`Pools`) | `PoolTyped`, `LiquidityConserved`, `UnmovedIsStay`, `OwnersAddUp`, `DetectionAgrees` |
| `ReportIsSound` (`Reports`) | `SectionTyped`, `LabelsClosed`, `MatrixCounts`, `ClustersAgree`, `ReportCounts`, `ScannedMisses`, `SoundDiagnostics`, `WorkerParses` |
| `InputsArePresent` (`Plans`) | `PlanTyped`, `ArchiveCovers`, `ArchivePinned`, `GraphOrdered`, `InputsFound`, `NoRace`, `RefusedInTime` |
| `OptionsAreSound` (`Options`) | `InputTyped`, `WindowInsidePin`, `ToolsFindData`, `HostReady`, `ChainFound`, `ClearsItsOwn` |
| `FolderHolds` (`RunFolder`) | `FolderTypeOK`, `ImportIsWhole`, `ValidIsCurrent`, `NoneLeftPrepared` |
| `WatchHolds` (`Watch`) | `WatchTypeOK`, `WatchShowsTheEnd` |

`algorithms` checks the last seven, `ProvenanceKept` (`RunFolder`) and `WatchReturns`
(`Watch`). These parts share one run because none shares state with another; each
behaviour is of one of them.

Bounds. Two writers and a reader give every pairing of the handshakes and a job
that robs another; two writers in the lock take a third, and the theorems cover
every number. Two heights distinguish old from new data, and two overlapping
runs plus the finished one whose state they find (`Earlier`) give every overlap
of two chains. A run whose last job is deleted from the queue (`Dropped`) does
what a run with `clear_after_sync: false` does, so `ClearAfterSync` is TRUE
there; `sync_serial` has it FALSE. Two faults let a second one come after a
first was handled. `sync_serial` trades overlap for depth (`MaxOverlap` = 1): a
dataset that mixes generations needs a failed checkpoint, a failed restore and a
third run. The states `InitAfter` gives an earlier run are the ones a finished
run leaves, which the runs of the empty start reach themselves. Symmetry is over
the runs; the liveness runs use none. The chain of two stages in
`s3_run_resumed` has what the properties tell apart, a stage and one that
depends on it; the fork in `s3_run_ends` adds a sibling and a join.
`shared_stages` has the shape of `analysis_plan`: two independent stages, of which
one is local, one that depends on a local stage, and the report that joins them; the
second command meets it at one stage. Its theorems hold for every graph, command and
fault count.
In `index_store` three jobs of every useful mix are enough for a writer that
replaces what a second job reads and a third backs up; three faults are needed for
the worst known case (a killed writer, a failed upload, a failed removal). Each mix is
an initial state, not a constant, so that one run has all.
`run_prefix` deals the processes their parts in the same way; two uids are a Job and
the next one of the same name. One fault leaves out two failures at once in the same
front end, which only add an ending that is excluded as `slipped`.
The inputs of `algorithms` are the smallest at which every branch of the code is
taken and each of the mutants shows: archives and chains have three or four heights,
graphs three stages, transactions a few inputs and outputs, and a report may be asked for
with other bounds than its artifact has. `InputTyped`, `SectionTyped` and `PlanTyped`, from
which the theorems about the algorithms start, are checked on every one of them.

Deadlock checking is off: all of these systems stop when their commands, jobs or
runs are over.

Fairness. `IndexLock`: a job inside a lock call keeps running (weak fairness of
its steps); its deadline is a fixed moment (`time.time() + wait_seconds`), so a
call that polls for ever is at a poll after it infinitely often (strong fairness
of giving up). Nothing makes a job start, let the index go, or die. `S3Run`: the
frontend process runs, the clock runs (`DeadlinePasses`), PBS starts the jobs
it can start, and a worker past its marker exits. A job's body is not fair: it
may hang, and the command must end all the same. `RunPrefix`: processes take their
next step; a pod may hang, but `activeDeadlineSeconds` ends it (`PodKilled`) and the TTL
and garbage collectors collect what they may (`Collects`), which are promises of
Kubernetes; the front end's start deadline passes while the Job was
never found, with strong fairness, because the probe may fail and answer in turns and
the clock does not stop for that. `Watch`: its threads and loop run, and the job and the pod it follows
end; nothing makes a log grow, and a watch of a job that runs for ever does not end.

`CommandEnds` has one exception, `Contradicted`. If the upload of a done marker
stores it and still reports an error, the full-run sees the stage done while
the job fails; PBS then may hold the dependents for ever, and as a held job
counts as queued the start deadline is extended without end.

## 4. Where the code and its own words differ

Each of the first three is a violation run, with its trace; `PROJECT.json` quotes the lines.

1. `index_lock_robbed`: `clear_expired` decides on one entry and removes, by
   path, whatever is there later. An entry that `unlock` has half removed reads
   as expired, and the next writer's fresh entry is removed in its place.
2. `sync_foreign_clear`: `clear` compares only `done.json`'s run ID. If another
   run's producer extended the dataset since, and its checkpoint dropped a
   backup and failed, clear removes the only copy. A second way there: the local
   `done.json` is written after `complete` freed the dataset.
3. `s3_run_unmarked`: a TERM in `finalize` or `finish` raises `SystemExit`, which
   they do not catch; the job ends without a marker.

The following were met while modelling. The models take each step that leads there; a
property that would fail is stated with the exception, named by a history variable.

Mainnet and index:

* `sync/<stage>.quiescent` belongs to the stage, not to the run. A refused job of
  another run writes it, and the failed handler of a killed job frees the dataset
  under its live subprocesses.
* `discard_dataset` moves the members aside one by one; a kill in between leaves a
  dataset that the producer refuses.
* The manifest of a manual index backup has no `members`, which restore notices only
  after it emptied the dataset.
* `index_store.py:311` advises "parse again", but `parse` refuses an index directory
  whose `manifest.json` exists (`stage_runtime.py:882`); an update whose target lies
  below the index has already called `begin_write` when it notices (931 before 951). So a
  refused update leaves `.writing` on an intact index, which `complete()` then turns
  away: with a backup the next update replaces the index by it, even by one of a lower
  height; without one, after a backup job was killed between its removal and its upload,
  `reconcile` fails and only removing the mark by hand brings the index back.
  `OneFaultKeepsACopy` therefore speaks of the index's files (`Intact`), marked or not.
* `stage_runtime.py:1095` copies the index manifest to the run after the unlock, so it
  may be of a later height than the backup (`HeightNotUnderstated` is what remains).
* `docs/mainnet-synchronization.md` compares Dumplings files by size; files of equal
  size from two generations pass (`BaselineDataMatches` is about the data files).
* Two concurrent backups can leave a manifest without its archive (`crossed`); two pack
  jobs and a bad upload can lose a block file (`together`).
* `mainnet_sync.py:119` compares prefixes by identity (`is not`), so a YAML alias for two
  of them passes. A backup kept below `<state>-restore-check/<run>` would be cleared by
  the restore check.

S3 runs and emulation:

* In `wait_for_s3_marker` the deadline check precedes the extra poll after a terminal
  report that its docstring promises, so at the deadline a marker that raced the
  probe loses.
* The pod of a Job deleted with `--wait=false` may still upload into a prefix that was
  cleaned and reused; front ends on different hosts do not exclude each other, and a
  roll-back deletes the other's Job; clean-s3 excludes no writer.
* A Job that was collected before the first probe is `UNKNOWN` until the start deadline.
* On shared storage nothing clears markers at submission or refuses a second attempt
  (`mixed`): a wait can end on an old marker, and a cancellation can hit the other
  attempt's job.
* An interrupt of a local analysis between the recording of a stage's job ID
  (`submission_local.py:146`) and its entry into `running` (`stage_executor.py:79`)
  leaves that job in the queue: `_cancel_running` does not know it, and if its thread was
  not started nobody waits for it. `test_stage_executor.py:246`, which says that submitted
  work is cancelled on an interrupt, raises it before the second submission.
  `NoJobLeftBehind` says what remains: it is one job, and its `.jobid` file names it. An
  interrupted single stage leaves its recorded job by design.
* `tests/pipeline/test_s3_backend.py:1080` says a parse needs no exporters; `blocksci_parse`
  (`stage_runtime.py:875`) needs them.

Options and reports:

* A reusable script, notebook or backup with an `index_dir` is refused by the parse
  renderer only; a scan start above the pin without a scan end fails only in the worker.
* Backend `s3` on a local action skips the runtime and image checks; images with a "/"
  are pulled with `--pull=always` although the preflight accepts a local copy;
  `--blocksciPbs` without `pbs.bitcoin_datadir` is refused only at submission, after the
  emulation of a full run; a full run on Docker with it parses whatever chain the
  datadir held before, and a plain `emulate` merges into the existing data volume.
* A copy of a Kubernetes emulation's chain into the BlockSci volume that fails is only a
  warning (`kubernetes_launch.py:224`), and the full run goes on to the local BlockSci;
  `ChainFound` excepts it (`CopyFailed`).
* `compare_run_manifests` does not compare the input hashes and the exporter tree that
  `docs/analysis-semantics.md:203` names; clustering, mix events and diagnostics open
  the index without the pin; a coinjoin without a height comes last in the
  liquidity curve, yet counts as height 0 where `spend_distance` bisects the heights (the
  exported blocks always hold one).

Commands on a host:

* The locks `.research.lock`, `.pipeline.lock` and `.<run>.lock` do not exclude each other,
  so a report can be assembled while its inputs change, and then hashes the new ones
  (`overtaken`). `report_input_hashes` is computed after the inputs were read.
* `start_host_manifest` precedes the lock, so a refused second launch records its own
  failure while the first still runs; an export that looked before an import wrote the
  manifest can overwrite its provenance, and so can a launch that looked after such an overwriting (`early`).
* An import killed between its `mkdir` and its manifest leaves a run that is neither new
  nor resumable; a later `export --run-dir` writes a manifest of mode "emulator" there.
  The export of an external run, which `runs inspect` suggests, refuses the artifact's mode.
* Compose's fixed container names let one run's analysis remove another's containers;
  the SIGKILL of a command leaves its container at work.
* `watch`: a log begun anew and grown past the old position between two polls loses
  lines; output copied back more than two polls after the end is not shown;
  `--frontend-log` with follow never ends; a frontend log's older job ID overrides a
  newer `.jobid`.

## 5. Theorems

All are proved for every value of the constants the named assumptions allow.

* `IndexLockProofs`, from `LockAssumption`: `TypeCorrect`, `MutualExclusion`
  (`ExclusionUnlessRobbed`), `NothingLeftBehind` (`NoEntryLeftBehind`). Exclusion
  is not inductive: nothing in it says why the entries a reader and a writer look
  for are there. `LockInv` adds that a job which counts on its entry has it
  (`Owns`), that a holder never removes its own entry (`NoSuicide`), where an
  entry's job can be (`EntryAt`), where a holder can be (`HolderAt`), and that
  only dead jobs' entries expire. `Owns`, `NoSuicide` and `Exclusion` are claimed
  while nobody is robbed; the step that robs is the one that breaks them.
  `LockIsShared` (`ImplementsSharedLock`): until a robbery the lock is the abstract one whose
  promise `IndexStore` and `MainnetSync` take. A claim is held by a job that counts on its
  entry and left behind by a killed one with an entry; each step then takes a claim (`Enters`), lets one go
  (`Leaves`), kills its job (`Dies`), clears it away (`Clears`), breaks the lock (`Breaks`), or
  changes nothing its users see (`Unseen`, all in `LockSeen`).
* `MainnetSyncProofs`, from `SyncAssumption`: `DatasetHasOneWorker`
  (`WorkOwnsDataset`), `LockOutlivesOnlyKills` (`LeftLockedOnlyAfterKill`) and
  `SyncTypeCorrect`. `OwnInv` adds that between mkdir and `owner.json` the lock is
  nobody's and one job is there, and accounts for the owner at every point of its
  job: at work, failing, in the handler with its quiescent marker, or killed. One
  lemma (`WorkStepMoves`) says what all steps of the jobs' own work have in
  common, so that they need one proof. Its second half is about the data:
  `TornAlwaysMarked`, `QueuedJobsSeeOwnData`, `RestoredIsOneGeneration`,
  `FreshArchiveIsEmpty`, `OneFaultIsSurvived`, for any runs, heights, faults and manual
  backups. Every step is work by the only job at work (`WorksAlone`) or leaves the data
  alone (`Quiet`); so an invariant about the data needs one lemma per job, and none per
  pair of jobs. A job that may write the index holds the index lock (`LockedInv`);
  `TornInv` follows the marker through a job; `GenerationInv` says whose run the dataset
  is between producer and clear; `RestoreInv` that an archive belongs to its manifest and
  what restore has put in place so far to the one it chose. `FreshInv` and `ArchiveInv`
  tie the block archive to what Core has. `LossInv` states, for executions with at most
  one fault (`Mild`), where the chain is kept at each label of a job: before the fault in
  S3 or complete in the dataset, after it in one of the two.
* `S3RunProofs`, from `RunAssumption`: `RunTypeCorrect`, `StageHasOneJob`
  (`OneJobPerStage`), `MarkersAreOwn` (`OwnMarkersOnly`), for every acyclic stage
  order, any commands and any number of faults. `RunInv` links lock, `.jobid`
  files, jobs and markers: a command inside holds the lock (`HolderInside`), each
  live job is recorded but for one whose qsub just returned (`Recorded`), past the
  overlap check no other command's job lives (`Alone`), and the markers of the
  stages submitted so far are the command's own (`MarkersCleared`). `DoneIsNeverMissed`
  (`DoneIsSeen`) adds that a wait which saw its job gone looks at the marker once more
  (`GraceInv`). `CompletedRunIsWhole` (`CompletedIsWhole`) adds what the plan of a
  waiting command implies (`PlanInv`) and who wrote the outputs at a stage with a done
  marker (`WholeInv`): while no job ID was lost, only the command that submitted it.
* `StageExecutorProofs`, from `ExecutorAssumption`: all safety properties of the run
  `shared_stages`, for every stage graph whose order respects its dependencies, any
  commands, pool size and number of faults. `IInv` has twelve parts. `PoolInv`: every
  stage of the plan is pending, starting, running or completed until one fails; with the least
  position of the pending stages (`SomethingCanBeSubmitted`, from the
  well-foundedness of finite sets) it gives `NeverStuck`. `OwnInv`: while a command
  works, a stage of it that met no other attempt has the marker files, the job ID
  file and the outputs to itself; it carries the argument, because every other part
  reads a file only through it. `MarkInv` and `SeenInv` tie markers and terminal
  states to jobs that ended; `ResultInv` then says what a thread may report
  (`SuccessIsOwn`, `SuccessIsSeen`), `LiveInv` who still waits for a live job and
  `NamedInv` which file names it (`NoJobLeftBehind`; `MeetInv` is what `NamedInv` needs:
  whoever is about to record an ID over another's has met it), and `DoomInv` that a lost ID, a given-up wait or a foreign input
  dooms the command or shows up as a mixed stage (`OkIsWhole`). `FreshInv`, `ThreadInv`
  and `JobInv` say which stages can have threads and jobs. Steps of a main thread,
  of a waiting thread and of a job are summarized by one lemma each (`CommandSteps`,
  `ThreadMoves`, `JobMoves`), so that an invariant about one of them passes over the
  others.
* `IndexStoreProofs`, from `StoreAssumption`:
  `StoreTypes` (`TypeOK`), `WholeWhenComplete` (`CompleteIsWhole`), `ReadersReadWhole`
  (`ReadsWhole`) and `StoreImplements` (`ImplementsSharedIndex`, the refinement), for any
  jobs, mixes, heights, earlier histories and number of faults. `StoreInv` has a part
  per job and a part per directory. A job at work has its lock entry (`HoldAt`), so
  that a writer is alone in its directory (`Alone`) and a purge meets nobody
  (`NobodyThere`); what a writer has written so far follows its program (`StageAt`),
  under `.writing` until the file list and the manifest agree (`FilesAt`); a reader's
  copy is the whole one it noted (`ReadAt`). Steps of other jobs need one lemma
  (`OthersKept`), because a step writes only its own directory and only where it is a
  writer (`OwnWrites`). In the refinement every write is a `Replace` with no reader, an
  `Open` is a `StartRead`, the end or death of a reader an `EndRead`.
  `StorePromises` (`ImplementsPromises`) adds that the locks of both directories are abstract
  locks too, so that the store is proved on what `IndexLock` is proved to give.
  `BackupsAreKept` (`BackupsHold`): a job that writes the backup is alone, or the
  history is `crossed` (`AloneAt`); what a backup or a restore has read of its source
  still stands there (`SourceAt`); a backup whose manifest is there is whole. `FaultInv`
  counts: before the first fault only a backup job makes the backup unusable, after it a
  writer at work or the files of the index stand in. A refused update is no fault; it
  leaves the files, and marks them. `HeightInv` keeps the heights a manifest
  could come from above the one a backup job is about to report.
  `CopiesAreOneGeneration` (`CopiesHold`), about the second half: what each reader has
  compared so far (`ReaderAt`), and that a lone pack job leaves the raw block until the
  packed one was read back (`PackAt`).
* `RunPrefixProofs`, from `PrefixAssumption`: all safety properties of the run
  `run_prefix`, for any number of processes, casts, Jobs and faults. `TypesHold` includes
  what a pod can be doing while its Job is in each state (`PodInv`). `RoleInv` says who
  may be where. `NothingIsOrphaned` (`NoOrphans`): until each support object has its
  owner, a front end is there to give it one or to roll it back (`OrphanInv`).
  `DownloadsHold` (`ReportHolds`): a report once downloaded is in the output directory or
  in one set aside that nobody is about to discard (`KeepInv`); while clean-s3 met no one,
  whatever is at the prefix it has listed (`SweepInv`); a report with its marker is one
  report, of which an undisturbed download has read only parts (`ReportInv`). `RunsAreOwn`
  (`RunIsOwn`) is claimed for calm histories, one front end at a time and no cleanup
  beside it, where each step that matters is one of the front end's own or of its pod's:
  exporters are there while they may be read, and of one version (`StagedInv`,
  `VersionInv`); from the empty prefix on the front end's Job is the only one and its
  marker comes last (`OwnInv`); no pod is left when the probe has found the Job ended
  (`GraceInv`).
* `HostProofs`, from `HostAssumption`: `FolderIsTyped`, `ImportsAreWhole`
  (`ImportIsWhole`), `ProvenanceIsKept` (`ProvenanceKept`), `LaunchesAreEnded`
  (`NoneLeftPrepared`), `ValidReportsAreCurrent` (`ValidIsCurrent`) and all of them in
  one, `FolderCommandsHold` (`FolderHolds`), for any number of slots, commands and kills.
  The flows are sequences; what comes after a label is computed once for each
  (`AfterIs`), so that a step is a move from a label to the next. A command at work holds
  its lock unless it was killed (`HeldBy`), and the imports share one: past its `mkdir`
  one import is at work, and a manifest it wrote names it (`ImportInv`). `PreparedInv`: a
  launch the manifest calls prepared is still owed an end. `CurrentInv`: what an assembly
  has read is what is there, and what it hashed is what it read, or it was overtaken.
* `HostProofs`, from `WatchAssumption`: `WatchShowsAll` (`WatchHolds`), for logs of any
  length, any replay and idle polls from two on. `StreamInv`: a watch has its source for
  the job until all of it is printed. `EndInv`: the end of the source is the last of its
  messages in the queue. `LineInv`: each line read is in the queue or printed. `ReadInv`:
  an idle poll was of an ended job, whose log no longer changes, so that the second one
  has read it to its end.

* `HostProofs` and `ReportProofs`, about one value of `input`, from `NoneAssumption`, `TipMarginAssumption` and
  the types of the inputs:
  * `OptionsHold` (`OptionsAreSound`), in `HostProofs`. A rule is a condition on the configuration, and an
    accepted one satisfies none (`AcceptedByAll`); what a dispatched action requires of the host
    is the union of what its stages require, each of which `doctor` checks (`UsesCovered`,
    `HostChecked`). `ResolvesToResolved` derives the type `Resolved` from the code's own
    resolution of action and backend.
  * `InputsHold` (`InputsArePresent`), in `HostProofs`, from four theorems. `GraphHolds`: a graph with a name per
    stage is ordered exactly if it has no cycle, and a failure blocks exactly what depends on it.
    The order is a recursive function of the rounds, so it needs that the rounds exist
    (`Recursion`), that each keeps the placed stages good (`PlacesGood`), and that stages left
    over when none is ready hold a cycle: each waits for another, and a finite set cannot do so
    for ever (`StuckIsCyclic`). `PlanHolds`: every plan consists of at most six parts
    (`PlanOfParts`), each behind those it waits for (`PlanInOrder`); what a part reads and writes
    follows from the rules its configuration passed (`AnalysisJob` to `LastJobs`); what it reads
    was at hand from the start or made by a part it waits for. `CoverageHolds`: the sweep
    passes exactly if each height lies in a range (`SweepCovers`, by the first range past a gap),
    and the plan keeps every file that holds a height of the request (`PlannedFiles`), whatever order the
    heights have in the files. `PinnedHolds`: the digest of an index covers the checksum of
    every file it has seen.
  * `ReportHolds` (`ReportIsSound`), in `ReportProofs`, from `LabelsHold`, `MatrixHolds`, `ClustersHold`,
    `CountsHold`, `MissesHold`, `DiagnosticsHold` and `WorkerHolds`: for any two partitions of a
    finite set of addresses, any artifact, bounds and lists. `FourParts` splits the transactions of
    either side by what each side says of them; `PairsJoined` counts the pairs of a cluster; a
    chain opened at the pin holds what lies under it (`UnderThePin`); the worker's phases run one by
    one leave the artifacts of one run.
  * `DetectorsHold` (`DetectorsAgree`), in `ReportProofs`, from `SearchHolds`, `DefiniteHolds`, `ChangeHolds` and
    `WasabiHolds`. The search recurs over the set of inputs left and, inside a call, over the set
    of unfilled buckets; `SetRecursion` and `SetInduction` give the values of such recursions.
    The answer of a call is right (`Right`): a fill gives the largest input to some unfilled bucket
    or can be changed to (`FillOne`), a sum too small cannot fill (`FillTotal`), and only the depth
    limit gives up. `DefiniteHolds` turns a fill of all participants' buckets into one of the two
    buckets of the possible rules (`FillTwo`): the mixed outputs of a fresh transaction are
    unknown ones (`CandidateIs`), and if another value is as frequent among those, each participant has
    change of it, which makes up for the other fee (`FeesCompare`). `ChangeHolds`: half the outputs
    are mixed, so the changes are no more than the buckets (`ChangesFit`), and the goals add up
    output by output (`GoalsSum`).
  * `LiquidityHolds` (`LiquidityAddsUp`), in `ReportProofs`. An output is known by its place, the positions of
    its coinjoin and of itself; sums are over sets of places, split by `SumsByParts`.
    A ledger links the coins (`CoinsLinked`, from `ClassifiedLinked`): a remixed output is spent by
    one input of one other coinjoin, of the same value and wallet. Conservation
    (`PoolIsConserved`) is an induction over the coinjoins: the interim liquidity is the fees and what
    is outstanding, and no coinjoin comes before one it spends (`SpendsForward`, a precondition:
    two coinjoins of a block may be ordered against their spends).
    `UnmovedIsWhatStays` needs no such order. `SeriesAddUp` adds the wallets' series column by
    column (`ColumnsAddUp`, `UnmovedAddsUp`, `TotalsAddUp`); a group with every wallet owns every coin
    (`GroupOwnsAll`), hence has the pool's series (`SameSeriesIs`), and all that leaves inside the
    window is its own (`WindowIs`, `PrecisionIsWhole`). `PerfectDetectionHolds` compares the two
    classifications item by item.

  `ReportHolds`, `MissesHold`, `WorkerHolds`, `PinnedHolds`, `InputsHold` and `LiquidityHolds` also assume
  `NoFunction(None)`: a missing value is no function, so it is no record and no sequence either.
  The code tests `is None` on all three.

Where a proof failed for a reason, the model or the property was corrected: an import's
copies can change the inputs of an assembly at work, which `overtaken` had left out; with four
commands on a run directory provenance can be lost twice (`early`), which three cannot
show; clean-s3 meets the reports and front ends that start under it too (`swept`); the
`CASE` arms of two operators overlapped; one idle poll would lose lines of a log.

Only model-checked: the liveness properties (`LockCallEnds`, `CommandEnds`, `RunEnds`,
`WatchReturns`), which need fairness, out of reach of the prover. No module declares a `RECURSIVE` operator:
recursion is written as recursive functions, whose values `Recursion` makes available where the induction is over numbers up to a bound and
`SetRecursion` where it is over the subsets of a finite set. Sums are `SumFunction` of the
community modules; `SumFold` and `SumStep` show of it, from the definition of its fold, what a sum
gains with an element.

## 6. Not modelled

PBS status formatting and Kerberos renewal, scenario lookup, registry queries,
notebooks and helper scripts keep no state the pipeline shares. Left out of modelled
components: the text of scripts, Kubernetes manifests and Markdown; command line
syntax and console output; credentials; Bitcoin Core's and BlockSci's own behaviour
beyond the heights, blocks and verdicts they produce; chain reorganizations; expiry of
objects in S3. `PROJECT.json` lists every component with what is left out of it.

The mapped share of `pipeline/exporters` and of the notebooks stays low on purpose:
`markdown_report.py` and `Analysis.ipynb` are layout.

## 7. What is left

1. Larger instances for the liveness properties: two faults in `run_prefix`, whose state
   space is at the limit of minutes.
2. Sequences of `mainnet-sync` with `restore-check` jobs against a running
   synchronization.
