------------------------- MODULE MainnetSyncProofs -------------------------
(***************************************************************************)
(* Proofs about MainnetSync, for any number of runs, any chain height and  *)
(* any number of faults: who may work on the dataset, who may leave it     *)
(* locked, and what becomes of the data the jobs write.                    *)
(***************************************************************************)
EXTENDS MainnetSync, TLAPS

\* Where a job is between acquire_dataset and complete.
WorkLabels ==
    {"reset", "look", "download", "place", "discard",
     "require", "prepare", "sync", "scan", "archive", "ready", "current", "check", "mark",
     "parse", "parsing", "publish", "unmark", "drop-index", "up-index", "drop-dumplings",
     "up-dumplings", "prune", "drop-core", "up-core", "complete"}

WorkStep(r) ==
    Restore(r) \/ Discard(r) \/ Producer(r) \/ Blocksci(r) \/ Checkpoint(r) \/ Pack(r) \/ Clear(r)

\* Between mkdir and owner.json the lock is nobody's, and one job is there.
OwnIsUnowned == \A r \in Runs : pc[r] = "own" => active = Unowned
OneAtOwn == \A r, q \in Runs : pc[r] = "own" /\ pc[q] = "own" => r = q

\* Where a recorded owner can be: at work, in its finally block with an error,
\* or past it, in which case its quiescent marker will free the dataset unless
\* a kill or another run's job came in between.
OwnerAccounted ==
    \A r \in Runs : active = r =>
        \/ AtWork(r)
        \/ pc[r] \in {"finally", "cleanup"} /\ ok[r] = FALSE
        \/ pc[r] = "handler" /\ (stage[r] \in quiescent \/ r \in killed \cup raced)
        \/ pc[r] \in {"exit", "over"} /\ r \in killed \cup raced

\* A pack job takes no dataset lock.
PackTakesNothing == \A r \in Runs : pc[r] \in {"acquire", "own"} => stage[r] # "pack"
OwnerNotPacking == \A r \in Runs : active = r => stage[r] # "pack"

OwnInv ==
    /\ JobTypes /\ WorkOwnsDataset /\ OwnIsUnowned /\ OneAtOwn /\ PackTakesNothing
    /\ OwnerNotPacking /\ OwnerAccounted

-----------------------------------------------------------------------------
\* What every step of the six jobs' own work has in common: it is taken from a
\* work label to a work label or, with an error, to the finally block; it takes
\* and frees no lock; and only a restore job removes quiescent markers.
LEMMA WorkStepMoves ==
  ASSUME NEW r \in Runs, WorkStep(r), JobTypes
  PROVE  /\ pc[r] \in WorkLabels
         /\ stage' = stage /\ active' = active /\ killed' = killed /\ raced' = raced
         /\ \/ ok' = ok /\ \E l \in WorkLabels : pc' = [pc EXCEPT ![r] = l]
            \/ ok' = [ok EXCEPT ![r] = FALSE] /\ pc' = [pc EXCEPT ![r] = "finally"]
         /\ quiescent' = quiescent \/ stage[r] = "restore"
  <1>1. CASE Restore(r)
    BY <1>1 DEF Restore, ResetState, SkipNotEmpty, SkipNoBackup, CheckBackups, Download, Place,
       VerifyRestored, Writes, GoTo, Raise, At, Require, OnlyMoves, lockVars, histVars, WorkLabels
  <1>2. CASE Discard(r)
    BY <1>2 DEF Discard, Writes, GoTo, lockVars, histVars, WorkLabels
  <1>3. CASE Producer(r)
    BY <1>3 DEF Producer, RequireCompleteDataset, Prepare, SynchronizeCore, ScanDumplings,
       ArchiveBlocks, WriteReady, WriteCurrentReady, Writes, GoTo, Raise, At, Require, OnlyMoves,
       lockVars, histVars, WorkLabels
  <1>4. CASE Blocksci(r)
    BY <1>4 DEF Blocksci, CheckBeforeParse, MarkWriting, StartParser, ParserEnds, PublishIndex,
       UnmarkWriting, Writes, GoTo, Raise, At, Require, OnlyMoves, lockVars, histVars, WorkLabels
  <1>5. CASE Checkpoint(r)
    BY <1>5 DEF Checkpoint, CheckBeforeBackup, BackupIndex, PublishDumplings, Prune, BackupCore,
       DropBackup, UploadBackup, GoTo, Raise, At, Require, OnlyMoves, lockVars, histVars, WorkLabels
  <1>6. CASE Pack(r)
    BY <1>6 DEF Pack, GoTo, Raise, At, Require, OnlyMoves, lockVars, histVars, WorkLabels
  <1>7. CASE Clear(r)
    BY <1>7 DEF Clear, GoTo, Raise, At, Require, lockVars, WorkLabels
  <1> QED
    BY <1>1, <1>2, <1>3, <1>4, <1>5, <1>6, <1>7 DEF WorkStep

\* A job is at work exactly at the work labels.
LEMMA AtWorkLabels ==
  ASSUME JobTypes, NEW r \in Runs
  PROVE  AtWork(r) <=> stage[r] # "pack" /\ pc[r] \in WorkLabels
  BY DEF JobTypes, AtWork, Over, Labels, WorkLabels

\* Its successor in the next state.
LEMMA AtWorkLabelsNext ==
  ASSUME JobTypes', NEW r \in Runs
  PROVE  AtWork(r)' <=> stage'[r] # "pack" /\ pc'[r] \in WorkLabels
  BY DEF JobTypes, AtWork, Over, Labels, WorkLabels

\* A job that moves keeps the types.
LEMMA MoveKeepsTypes ==
  ASSUME JobTypes, NEW r \in Runs, NEW l \in Labels, pc' = [pc EXCEPT ![r] = l],
         ok' = ok \/ ok' = [ok EXCEPT ![r] = TRUE] \/ ok' = [ok EXCEPT ![r] = FALSE],
         stage' = stage, active' \in MaybeRun \cup {Unowned}
  PROVE  /\ JobTypes' /\ pc'[r] = l
         /\ \A q \in Runs \ {r} : pc'[q] = pc[q] /\ ok'[q] = ok[q]
  <1>1. ok' \in [Runs -> BOOLEAN]
    BY Zenon DEF JobTypes
  <1>2. pc' \in [Runs -> Labels] /\ pc'[r] = l /\ \A q \in Runs \ {r} : pc'[q] = pc[q]
    BY DEF JobTypes
  <1>3. \A q \in Runs \ {r} : ok'[q] = ok[q]
    BY DEF JobTypes
  <1> QED
    BY <1>1, <1>2, <1>3 DEF JobTypes

\* Every step of the six jobs' own work keeps the invariant.
LEMMA WorkKeepsOwnInv ==
  ASSUME OwnInv, NEW r \in Runs, WorkStep(r)
  PROVE  OwnInv'
  <1>1. /\ pc[r] \in WorkLabels
        /\ stage' = stage /\ active' = active /\ killed' = killed /\ raced' = raced
        /\ \/ ok' = ok /\ \E l \in WorkLabels : pc' = [pc EXCEPT ![r] = l]
           \/ ok' = [ok EXCEPT ![r] = FALSE] /\ pc' = [pc EXCEPT ![r] = "finally"]
        /\ quiescent' = quiescent \/ stage[r] = "restore"
    BY WorkStepMoves DEF OwnInv
  <1>2. JobTypes'
    <2>1. "finally" \in Labels /\ WorkLabels \subseteq Labels
      BY DEF Labels, WorkLabels
    <2>2. ok' \in [Runs -> BOOLEAN]
      BY <1>1, Zenon DEF OwnInv, JobTypes
    <2>3. pc' \in [Runs -> Labels]
      BY <1>1, <2>1 DEF OwnInv, JobTypes
    <2> QED
      BY <1>1, <2>2, <2>3 DEF OwnInv, JobTypes
  <1>3. /\ \A q \in Runs \ {r} : pc'[q] = pc[q] /\ ok'[q] = ok[q]
        /\ \/ pc'[r] \in WorkLabels
           \/ pc'[r] = "finally" /\ ok'[r] = FALSE
    BY <1>1 DEF OwnInv, JobTypes
  <1>4. WorkOwnsDataset'
    BY <1>1, <1>2, <1>3, AtWorkLabels, AtWorkLabelsNext DEF OwnInv, WorkOwnsDataset, WorkLabels
  <1>5. OwnIsUnowned' /\ OneAtOwn' /\ PackTakesNothing'
    BY <1>1, <1>3 DEF OwnInv, OwnIsUnowned, OneAtOwn, PackTakesNothing, WorkLabels
  <1>6. OwnerNotPacking'
    BY <1>1 DEF OwnInv, OwnerNotPacking
  <1>7. OwnerAccounted'
    <2> SUFFICES ASSUME NEW q \in Runs, active = q
                 PROVE  \/ AtWork(q)'
                        \/ pc'[q] \in {"finally", "cleanup"} /\ ok'[q] = FALSE
                        \/ pc'[q] = "handler" /\ (stage'[q] \in quiescent' \/ q \in killed \cup raced)
                        \/ pc'[q] \in {"exit", "over"} /\ q \in killed \cup raced
      BY <1>1 DEF OwnerAccounted
    <2>1. CASE q = r
      BY <2>1, <1>1, <1>2, <1>3, AtWorkLabelsNext DEF OwnInv, OwnerNotPacking
    <2>2. CASE q # r
      <3>1. quiescent' = quiescent
        BY <2>2, <1>1, AtWorkLabels DEF OwnInv, WorkOwnsDataset
      <3> QED
        BY <2>2, <3>1, <1>1, <1>2, <1>3, AtWorkLabels, AtWorkLabelsNext DEF OwnInv, OwnerAccounted
    <2> QED
      BY <2>1, <2>2
  <1> QED
    BY <1>2, <1>4, <1>5, <1>6, <1>7 DEF OwnInv

\* Every step of the frame of the jobs keeps the invariant.
LEMMA FrameKeepsOwnInv ==
  ASSUME OwnInv, NEW r \in Runs, Frame(r)
  PROVE  OwnInv'
  <1>1. CASE Start(r)
    <2>1. /\ JobTypes'
          /\ \A q \in Runs \ {r} : pc'[q] = pc[q] /\ ok'[q] = ok[q]
          /\ pc'[r] = "index"
      BY <1>1, MoveKeepsTypes DEF Start, GoTo, MaybeRun, Labels, OwnInv, JobTypes
    <2>2. /\ pc[r] = "queued" /\ stage' = stage /\ active' = active /\ killed' = killed
          /\ quiescent' = quiescent \ {stage[r]}
          /\ raced \subseteq raced'
          /\ \A q \in Runs \ {r} : /\ stage[q] = stage[r] /\ pc[q] = "handler"
                                   /\ stage[r] \in quiescent
                                   => q \in raced'
      BY <1>1 DEF Start, At
    <2>3. active # r
      BY <2>2 DEF OwnInv, OwnerAccounted, AtWork, Over
    <2>4. WorkOwnsDataset' /\ OwnIsUnowned' /\ OneAtOwn' /\ PackTakesNothing' /\ OwnerNotPacking'
      BY <2>1, <2>2 DEF OwnInv, WorkOwnsDataset, OwnIsUnowned, OneAtOwn, PackTakesNothing, OwnerNotPacking, AtWork
    <2>5. OwnerAccounted'
      BY <2>1, <2>2, <2>3 DEF OwnInv, OwnerAccounted, AtWork
    <2> QED
      BY <2>1, <2>4, <2>5 DEF OwnInv
  <1>2. CASE Dropped(r)
    BY <1>2, SyncAssumption DEF Dropped, GoTo, lockVars, histVars, jobVars, MaybeRun, Labels,
       JobTypes, OwnInv, WorkOwnsDataset, OwnIsUnowned, OneAtOwn, PackTakesNothing, OwnerNotPacking,
       OwnerAccounted, AtWork, Over
  <1>3. CASE LockIndex(r)
    <2>1. /\ JobTypes'
          /\ \A q \in Runs \ {r} : pc'[q] = pc[q] /\ ok'[q] = ok[q]
          /\ pc'[r] \in {"finally", "acquire"} \/ (stage[r] = "pack" /\ pc'[r] = "check")
      <3>1. PICK l \in {"finally", "acquire", "check"} :
                /\ pc' = [pc EXCEPT ![r] = l]
                /\ ok' = ok \/ ok' = [ok EXCEPT ![r] = FALSE]
                /\ l = "check" => stage[r] = "pack"
        BY <1>3 DEF LockIndex, Require, Raise, TakesDataset, GoTo
      <3>2. l \in Labels /\ stage' = stage /\ active' = active
        BY <1>3 DEF LockIndex, Labels
      <3>3. active \in MaybeRun \cup {Unowned} /\ JobTypes
        BY DEF OwnInv, JobTypes
      <3> QED
        BY <3>1, <3>2, <3>3, MoveKeepsTypes
    <2>2. /\ pc[r] = "index" /\ stage' = stage /\ active' = active /\ killed' = killed
          /\ raced' = raced /\ quiescent' = quiescent
          /\ pc'[r] = "acquire" => stage[r] # "pack"
      BY <1>3, <2>1 DEF LockIndex, Require, Raise, TakesDataset, GoTo, histVars, OwnInv, JobTypes
    <2>3. active # r
      BY <2>2 DEF OwnInv, OwnerAccounted, AtWork, Over
    <2>4. WorkOwnsDataset' /\ OwnIsUnowned' /\ OneAtOwn' /\ PackTakesNothing' /\ OwnerNotPacking'
      BY <2>1, <2>2 DEF OwnInv, WorkOwnsDataset, OwnIsUnowned, OneAtOwn, PackTakesNothing,
         OwnerNotPacking, AtWork
    <2>5. OwnerAccounted'
      BY <2>1, <2>2, <2>3 DEF OwnInv, OwnerAccounted, AtWork
    <2> QED
      BY <2>1, <2>4, <2>5 DEF OwnInv
  <1>4. CASE AcquireDataset(r)
    <2>1. /\ JobTypes'
          /\ \A q \in Runs \ {r} : pc'[q] = pc[q] /\ ok'[q] = ok[q]
          /\ pc'[r] = IF active = NoRun THEN "own" ELSE "finally"
      BY <1>4, MoveKeepsTypes DEF AcquireDataset, Require, Raise, GoTo, MaybeRun, Labels, OwnInv, JobTypes
    <2> QED
      BY <1>4, <2>1, SyncAssumption DEF AcquireDataset, Require, Raise, lockVars, histVars, JobTypes, MaybeRun,
         OwnInv, WorkOwnsDataset, OwnIsUnowned, OneAtOwn, PackTakesNothing, OwnerNotPacking,
         OwnerAccounted, AtWork, Over
  <1>5. CASE WriteOwner(r)
    <2>1. /\ JobTypes'
          /\ \A q \in Runs \ {r} : pc'[q] = pc[q] /\ ok'[q] = ok[q]
          /\ pc'[r] \in WorkLabels
      BY <1>5, MoveKeepsTypes DEF WriteOwner, FirstStep, WorkLabels, GoTo, MaybeRun, Labels, OwnInv, JobTypes
    <2>2. pc[r] = "own" /\ active' = r /\ stage' = stage /\ active = Unowned
      BY <1>5 DEF WriteOwner, OwnInv, OwnIsUnowned
    <2>3. \A q \in Runs : ~AtWork(q) /\ (pc[q] = "own" => q = r)
      BY <2>2, SyncAssumption DEF OwnInv, WorkOwnsDataset, OneAtOwn
    <2>4. stage[r] # "pack"
      BY <2>2 DEF OwnInv, PackTakesNothing
    <2>5. WorkOwnsDataset' /\ OwnIsUnowned' /\ OneAtOwn' /\ PackTakesNothing' /\ OwnerNotPacking' /\ OwnerAccounted'
      BY <2>1, <2>2, <2>3, <2>4, AtWorkLabels, AtWorkLabelsNext
         DEF OwnInv, WorkOwnsDataset, OwnIsUnowned, OneAtOwn, PackTakesNothing, OwnerNotPacking, OwnerAccounted, WorkLabels
    <2> QED
      BY <2>1, <2>5 DEF OwnInv
  <1>6. CASE Complete(r)
    BY <1>6, SyncAssumption DEF Complete, ReleaseDataset, GoTo, lockVars, histVars, jobVars, MaybeRun, Labels,
       JobTypes, OwnInv, WorkOwnsDataset, OwnIsUnowned, OneAtOwn, PackTakesNothing, OwnerNotPacking,
       OwnerAccounted, AtWork, Over
  <1>7. CASE WriteDoneFile(r)
    BY <1>7, SyncAssumption DEF WriteDoneFile, GoTo, lockVars, histVars, jobVars, MaybeRun, Labels,
       JobTypes, OwnInv, WorkOwnsDataset, OwnIsUnowned, OneAtOwn, PackTakesNothing, OwnerNotPacking,
       OwnerAccounted, AtWork, Over
  <1>8. CASE UnlockIndex(r)
    BY <1>8, SyncAssumption DEF UnlockIndex, GoTo, lockVars, histVars, jobVars, MaybeRun, Labels,
       JobTypes, OwnInv, WorkOwnsDataset, OwnIsUnowned, OneAtOwn, PackTakesNothing, OwnerNotPacking,
       OwnerAccounted, AtWork, Over
  <1>9. CASE Quiesce(r)
    BY <1>9, SyncAssumption DEF Quiesce, NextStage, Stages, GoTo, lockVars, histVars, jobVars, MaybeRun, Labels,
       JobTypes, OwnInv, WorkOwnsDataset, OwnIsUnowned, OneAtOwn, PackTakesNothing, OwnerNotPacking,
       OwnerAccounted, AtWork, Over
  <1>10. CASE FailedHandler(r)
    BY <1>10, SyncAssumption DEF FailedHandler, ReleaseDataset, GoTo, lockVars, histVars, jobVars, MaybeRun, Labels,
       JobTypes, OwnInv, WorkOwnsDataset, OwnIsUnowned, OneAtOwn, PackTakesNothing, OwnerNotPacking,
       OwnerAccounted, AtWork, Over
  <1>11. CASE JobExits(r)
    BY <1>11, SyncAssumption DEF JobExits, GoTo, lockVars, histVars, jobVars, MaybeRun, Labels,
       JobTypes, OwnInv, WorkOwnsDataset, OwnIsUnowned, OneAtOwn, PackTakesNothing, OwnerNotPacking,
       OwnerAccounted, AtWork, Over
  <1>12. CASE IndexEntryExpires(r)
    BY <1>12, SyncAssumption DEF IndexEntryExpires, GoTo, lockVars, histVars, jobVars, MaybeRun, Labels,
       JobTypes, OwnInv, WorkOwnsDataset, OwnIsUnowned, OneAtOwn, PackTakesNothing, OwnerNotPacking,
       OwnerAccounted, AtWork, Over
  <1> QED
    BY <1>1, <1>2, <1>3, <1>4, <1>5, <1>6, <1>7, <1>8, <1>9, <1>10, <1>11, <1>12 DEF Frame

\* Faults and manual jobs keep the invariant.
LEMMA FaultKeepsOwnInv ==
  ASSUME OwnInv, (\E r \in Runs : Fault(r)) \/ ManualIndexBackup
  PROVE  OwnInv'
  <1>1. ASSUME NEW r \in Runs, Interrupted(r) PROVE OwnInv'
    BY <1>1, SyncAssumption DEF Interrupted, InWorker, Raise, GoTo, lockVars, histVars, Labels,
       JobTypes, OwnInv, WorkOwnsDataset, OwnIsUnowned, OneAtOwn, PackTakesNothing, OwnerNotPacking,
       OwnerAccounted, AtWork, Over
  <1>2. ASSUME NEW r \in Runs, WorkerKilled(r) PROVE OwnInv'
    BY <1>2, SyncAssumption DEF WorkerKilled, InWorker, GoTo, lockVars, Labels,
       JobTypes, OwnInv, WorkOwnsDataset, OwnIsUnowned, OneAtOwn, PackTakesNothing, OwnerNotPacking,
       OwnerAccounted, AtWork, Over
  <1>3. ASSUME NEW r \in Runs, NodeLost(r) PROVE OwnInv'
    BY <1>3, SyncAssumption DEF NodeLost, InWorker, GoTo, lockVars, Labels,
       JobTypes, OwnInv, WorkOwnsDataset, OwnIsUnowned, OneAtOwn, PackTakesNothing, OwnerNotPacking,
       OwnerAccounted, AtWork, Over
  <1>4. CASE ManualIndexBackup
    BY <1>4 DEF ManualIndexBackup, jobVars, lockVars, histVars,
       JobTypes, OwnInv, WorkOwnsDataset, OwnIsUnowned, OneAtOwn, PackTakesNothing, OwnerNotPacking,
       OwnerAccounted, AtWork
  <1> QED
    BY <1>1, <1>2, <1>3, <1>4 DEF Fault

\* The inductive invariant holds throughout every execution.
\* At first no job runs and nobody holds the dataset.
LEMMA InitJobs ==
  ASSUME Init
  PROVE  JobTypes /\ active = NoRun /\ \A r \in Runs : pc[r] \in {"queued", "over"}
  <1>1. PICK last \in MaybeRun, d \in {EmptyDisk, SyncedDisk} : InitAfter(last, d)
    BY SyncAssumption DEF Init, MaybeRun
  <1>2. stage \in [Runs -> Stages]
    BY <1>1 DEF InitAfter, Stages
  <1>3. pc \in [Runs -> {"queued", "over"}]
    BY <1>1 DEF InitAfter
  <1>4. ok \in [Runs -> BOOLEAN] /\ active = NoRun
    BY <1>1 DEF InitAfter
  <1> QED
    BY <1>2, <1>3, <1>4 DEF JobTypes, Labels, MaybeRun

LEMMA OwnInvariant == Spec => []OwnInv
  <1>1. Init => OwnInv
    <2> SUFFICES ASSUME Init PROVE OwnInv
      OBVIOUS
    <2>1. JobTypes /\ active = NoRun /\ \A r \in Runs : pc[r] \in {"queued", "over"}
      BY InitJobs
    <2> QED
      BY <2>1, SyncAssumption DEF OwnInv, WorkOwnsDataset, OwnIsUnowned, OneAtOwn,
         PackTakesNothing, OwnerNotPacking, OwnerAccounted, AtWork, Over
  <1>2. OwnInv /\ [Next]_vars => OwnInv'
    <2>1. ASSUME OwnInv, Next PROVE OwnInv'
      BY <2>1, WorkKeepsOwnInv, FrameKeepsOwnInv, FaultKeepsOwnInv DEF Next, WorkStep
    <2>2. ASSUME OwnInv, UNCHANGED vars PROVE OwnInv'
      BY <2>2 DEF vars, jobVars, lockVars, histVars,
         JobTypes, OwnInv, WorkOwnsDataset, OwnIsUnowned, OneAtOwn, PackTakesNothing, OwnerNotPacking,
         OwnerAccounted, AtWork
    <2> QED
      BY <2>1, <2>2
  <1> QED
    BY <1>1, <1>2, PTL DEF Spec

\* However many runs overlap, crash and free what they hold, every job at work
\* on the dataset is the recorded owner of .sync-active.
THEOREM DatasetHasOneWorker == Spec => []WorkOwnsDataset
  <1>1. OwnInv => WorkOwnsDataset
    BY DEF OwnInv
  <1> QED
    BY <1>1, OwnInvariant, PTL

\* A run that is over still locks the dataset only if its worker's end was never
\* confirmed, or a job of another run removed the confirmation.
THEOREM LockOutlivesOnlyKills == Spec => []LeftLockedOnlyAfterKill
  <1>1. OwnInv => LeftLockedOnlyAfterKill
    BY DEF OwnInv, OwnerAccounted, LeftLockedOnlyAfterKill, AtWork, Over
  <1> QED
    BY <1>1, OwnInvariant, PTL

-----------------------------------------------------------------------------
\* The records that stand for missing files and backups are well typed.
LEMMA EmptyRecords ==
  /\ NoGeneration \in Generations
  /\ NoBackup \in [run : MaybeRun, height : Heights0, data : Heights0 \cup {Torn},
                   intact : BOOLEAN, members : BOOLEAN]
  /\ NoBackup.data = 0 /\ 0 \in Heights0 /\ Torn # 0
  BY SyncAssumption DEF NoGeneration, NoBackup, Generations, Heights0, MaybeRun

\* The frame of the jobs writes no data but done.json.
LEMMA FrameKeepsTypes ==
  ASSUME TypeOK, NEW r \in Runs, Frame(r)
  PROVE  SyncTypes' /\ DiskTypes' /\ S3Types' /\ OtherTypes'
  <1>1. DiskTypes' /\ S3Types'
    BY DEF Frame, Start, Dropped, LockIndex, AcquireDataset, WriteOwner, Complete, WriteDoneFile,
       UnlockIndex, Quiesce, FailedHandler, JobExits, IndexEntryExpires, dataVars, TypeOK,
       DiskTypes, S3Types
  <1>2. SyncTypes'
    BY DEF Frame, Start, Dropped, LockIndex, AcquireDataset, WriteOwner, Complete, WriteDoneFile,
       UnlockIndex, Quiesce, FailedHandler, JobExits, IndexEntryExpires, dataVars, TypeOK,
       SyncTypes, MaybeRun
  <1>3. stage[r] \in Stages
    BY DEF TypeOK, JobTypes
  <1>4. OtherTypes'
    BY <1>3 DEF Frame, Start, Dropped, LockIndex, AcquireDataset, WriteOwner, Complete,
       WriteDoneFile, UnlockIndex, Quiesce, FailedHandler, JobExits, IndexEntryExpires, lockVars,
       dataVars, histVars, TypeOK, OtherTypes, MaybeRun
  <1> QED
    BY <1>1, <1>2, <1>4

\* restore and discard_dataset.
LEMMA RestoreKeepsTypes ==
  ASSUME TypeOK, NEW r \in Runs, Restore(r) \/ Discard(r)
  PROVE  SyncTypes' /\ DiskTypes' /\ S3Types' /\ OtherTypes'
  <1>0. S3Types'
    BY DEF Restore, ResetState, SkipNotEmpty, SkipNoBackup, CheckBackups, Download,
       Place, VerifyRestored, Discard, Writes, OnlyMoves, dataVars, TypeOK, S3Types
  <1>1. SyncTypes'
    <2>1. \/ sync' = [ready |-> NoGeneration, done |-> NoRun, fresh |-> NoRun]
          \/ sync' = [sync EXCEPT !.fresh = r]
          \/ sync' = sync
      BY DEF Restore, ResetState, SkipNotEmpty, SkipNoBackup, CheckBackups, Download, Place,
         VerifyRestored, Discard, Writes, OnlyMoves, dataVars
    <2> QED
      BY <2>1, EmptyRecords DEF TypeOK, SyncTypes, MaybeRun
  <1>2. OtherTypes'
    BY DEF Restore, ResetState, SkipNotEmpty, SkipNoBackup, CheckBackups, Download,
       Place, VerifyRestored, Discard, Writes, OnlyMoves, lockVars, dataVars, histVars, TypeOK,
       OtherTypes
  <1>3. ASSUME Place(r) PROVE DiskTypes'
    <2>1. /\ s3["core"].data \in Heights0 /\ s3["dumplings"].data \in Heights0
          /\ s3["index"].height \in Heights0 /\ s3["index"].run \in MaybeRun
          /\ s3["index"].data \in Heights0 \cup {Torn}
      BY DEF TypeOK, S3Types, Backups
    <2> QED
      BY <1>3, <2>1 DEF Place, Writes, TypeOK, DiskTypes
  <1>4. ASSUME Discard(r) PROVE DiskTypes'
    <2>1. \/ disk' = [disk EXCEPT !.core = 0, !.full = FALSE]
          \/ disk' = [disk EXCEPT !.scan = 0]
          \/ disk' = [disk EXCEPT !.archive = FALSE]
          \/ disk' = [disk EXCEPT !.current = NoGeneration]
          \/ disk' = [disk EXCEPT !.config = 0, !.owner = NoRun]
          \/ disk' = [disk EXCEPT !.parsed = 0]
          \/ disk' = [disk EXCEPT !.writing = FALSE]
      BY <1>4 DEF Discard, Writes
    <2>2. 0 \in Heights0 /\ NoRun \in MaybeRun /\ NoGeneration \in Generations
      BY EmptyRecords DEF MaybeRun
    <2>3. CASE disk' = [disk EXCEPT !.core = 0, !.full = FALSE]
      BY <2>2, <2>3 DEF TypeOK, DiskTypes
    <2>4. CASE disk' = [disk EXCEPT !.config = 0, !.owner = NoRun]
      BY <2>2, <2>4 DEF TypeOK, DiskTypes
    <2>5. CASE disk' = [disk EXCEPT !.scan = 0] \/ disk' = [disk EXCEPT !.parsed = 0]
      BY <2>2, <2>5 DEF TypeOK, DiskTypes
    <2>6. CASE disk' = [disk EXCEPT !.archive = FALSE] \/ disk' = [disk EXCEPT !.writing = FALSE]
      BY <2>6 DEF TypeOK, DiskTypes
    <2>7. CASE disk' = [disk EXCEPT !.current = NoGeneration]
      BY <2>2, <2>7 DEF TypeOK, DiskTypes
    <2> QED
      BY <2>1, <2>3, <2>4, <2>5, <2>6, <2>7
  <1>5. Place(r) \/ Discard(r) \/ disk' = disk
    BY DEF Restore, ResetState, SkipNotEmpty, SkipNoBackup, CheckBackups, Download,
       VerifyRestored, OnlyMoves, dataVars
  <1> QED
    BY <1>0, <1>1, <1>2, <1>3, <1>4, <1>5 DEF TypeOK, DiskTypes

\* producer and blocksci.
LEMMA ExtendKeepsTypes ==
  ASSUME TypeOK, NEW r \in Runs, Producer(r) \/ Blocksci(r)
  PROVE  SyncTypes' /\ DiskTypes' /\ S3Types' /\ OtherTypes'
  <1>0. s3' = s3 /\ (sync' = sync \/ WriteReady(r))
    BY DEF Producer, RequireCompleteDataset, Prepare, SynchronizeCore, ScanDumplings,
       ArchiveBlocks, WriteReady, WriteCurrentReady, Blocksci, CheckBeforeParse, MarkWriting,
       StartParser, ParserEnds, PublishIndex, UnmarkWriting, Writes, OnlyMoves, dataVars
  <1>1. SyncTypes' /\ S3Types'
    BY <1>0 DEF WriteReady, TypeOK, SyncTypes, DiskTypes, S3Types, Generations, MaybeRun
  <1>2. OtherTypes'
    BY DEF Producer, RequireCompleteDataset, Prepare, SynchronizeCore, ScanDumplings,
       ArchiveBlocks, WriteReady, WriteCurrentReady, Blocksci, CheckBeforeParse, MarkWriting,
       StartParser, ParserEnds, PublishIndex, UnmarkWriting, Writes, OnlyMoves, lockVars, dataVars,
       histVars, TypeOK, OtherTypes
  <1>3. ASSUME SynchronizeCore(r) PROVE DiskTypes'
    <2>1. PICK h \in Heights, f \in BOOLEAN : disk' = [disk EXCEPT !.core = h, !.full = f]
      BY <1>3 DEF SynchronizeCore, Writes
    <2>2. h \in Heights0
      BY DEF Heights, Heights0
    <2>3. CASE f = TRUE
      BY <2>1, <2>2, <2>3 DEF TypeOK, DiskTypes
    <2>4. CASE f = FALSE
      BY <2>1, <2>2, <2>4 DEF TypeOK, DiskTypes
    <2> QED
      BY <2>3, <2>4
  <1>4. ASSUME Producer(r), ~SynchronizeCore(r) PROVE DiskTypes'
    <2>1. /\ [run |-> r, height |-> 0] \in Generations /\ sync.ready \in Generations
          /\ disk.core \in Heights0
      BY EmptyRecords DEF TypeOK, SyncTypes, DiskTypes, Generations, MaybeRun
    <2> QED
      BY <1>4, <2>1 DEF Producer, RequireCompleteDataset, Prepare, ScanDumplings, ArchiveBlocks,
         WriteReady, WriteCurrentReady, Writes, OnlyMoves, dataVars, TypeOK, DiskTypes
  <1>5. ASSUME Blocksci(r) PROVE DiskTypes'
    <2>1. disk.core \in Heights0 /\ sync.ready.height \in Heights0
      BY DEF TypeOK, SyncTypes, DiskTypes, Generations
    <2> QED
      BY <1>5, <2>1 DEF Blocksci, CheckBeforeParse, MarkWriting, StartParser, ParserEnds,
         PublishIndex, UnmarkWriting, Writes, OnlyMoves, dataVars, TypeOK, DiskTypes, MaybeRun
  <1> QED
    BY <1>1, <1>2, <1>3, <1>4, <1>5

\* One backup dropped or uploaded.
LEMMA BackupKeepsTypes ==
  ASSUME TypeOK, NEW r \in Runs, NEW b \in Backups, NEW l, NEW data \in Heights0 \cup {Torn},
         b # "index" => data # Torn,
         DropBackup(r, b, l) \/ UploadBackup(r, b, data, l)
  PROVE  SyncTypes' /\ DiskTypes' /\ S3Types' /\ OtherTypes'
  <1>1. SyncTypes' /\ DiskTypes'
    BY DEF DropBackup, UploadBackup, TypeOK, SyncTypes, DiskTypes
  <1>2. OtherTypes'
    BY SyncAssumption DEF DropBackup, UploadBackup, lockVars, histVars, TypeOK, OtherTypes
  <1> DEFINE Record == [run : MaybeRun, height : Heights0, data : Heights0 \cup {Torn},
                        intact : BOOLEAN, members : BOOLEAN]
             Damaged == [s3[b] EXCEPT !.intact = FALSE]
             Uploaded == [run |-> r, height |-> sync.ready.height, data |-> data,
                          intact |-> TRUE, members |-> TRUE]
  <1>3. s3[b] \in Record /\ (b # "index" => s3[b].data # Torn)
    BY DEF TypeOK, S3Types, Backups
  <1>4. Damaged \in Record /\ (b # "index" => Damaged.data # Torn)
    BY <1>3
  <1>5. Uploaded \in Record /\ (b # "index" => Uploaded.data # Torn)
    BY DEF TypeOK, SyncTypes, Generations, MaybeRun
  <1>6. NoBackup \in Record /\ NoBackup.data # Torn
    BY EmptyRecords
  <1>7. \/ s3' = [s3 EXCEPT ![b] = NoBackup]
        \/ s3' = [s3 EXCEPT ![b] = Damaged]
        \/ s3' = [s3 EXCEPT ![b] = Uploaded]
    BY DEF DropBackup, UploadBackup
  <1> HIDE DEF Damaged, Uploaded
  <1>8. PICK x \in Record : s3' = [s3 EXCEPT ![b] = x] /\ (b # "index" => x.data # Torn)
    BY <1>4, <1>5, <1>6, <1>7
  <1>9. S3Types'
    BY <1>8 DEF TypeOK, S3Types, Backups
  <1> QED
    BY <1>1, <1>2, <1>9

\* checkpoint, pack and clear.
LEMMA CheckpointKeepsTypes ==
  ASSUME TypeOK, NEW r \in Runs, Checkpoint(r) \/ Pack(r) \/ Clear(r)
  PROVE  SyncTypes' /\ DiskTypes' /\ S3Types' /\ OtherTypes'
  <1>1. /\ disk.parsed \in Heights0 \cup {Torn}
        /\ disk.scan \in Heights0 \cup {Torn} /\ disk.scan # Torn
        /\ disk.core \in Heights0 \cup {Torn} /\ disk.core # Torn
        /\ "index" \in Backups /\ "dumplings" \in Backups /\ "core" \in Backups
    BY SyncAssumption DEF TypeOK, DiskTypes, Backups, Heights0
  <1>2. CASE BackupIndex(r)
    BY <1>1, <1>2, BackupKeepsTypes DEF BackupIndex
  <1>3. CASE BackupCore(r)
    BY <1>1, <1>3, BackupKeepsTypes DEF BackupCore
  <1>4. CASE PublishDumplings(r)
    <2>1. CASE DropBackup(r, "dumplings", "up-dumplings")
               \/ UploadBackup(r, "dumplings", disk.scan, "prune")
      BY <1>1, <2>1, BackupKeepsTypes
    <2>2. CASE OnlyMoves(r)
      BY <2>2 DEF OnlyMoves, dataVars, lockVars, histVars, TypeOK, SyncTypes, DiskTypes, S3Types,
         OtherTypes
    <2> QED
      BY <1>4, <2>1, <2>2 DEF PublishDumplings
  <1>5. CASE CheckBeforeBackup(r) \/ Pack(r) \/ Clear(r)
    BY <1>5 DEF CheckBeforeBackup, Pack, Clear, OnlyMoves, dataVars, lockVars, histVars, TypeOK,
       SyncTypes, DiskTypes, S3Types, OtherTypes
  <1>6. CASE Prune(r)
    BY <1>6 DEF Prune, dataVars, lockVars, histVars, TypeOK, SyncTypes, DiskTypes, S3Types,
       OtherTypes
  <1> QED
    BY <1>2, <1>3, <1>4, <1>5, <1>6 DEF Checkpoint

\* Faults and the manual index backup.
LEMMA FaultKeepsTypes ==
  ASSUME TypeOK, (\E r \in Runs : Fault(r)) \/ ManualIndexBackup
  PROVE  SyncTypes' /\ DiskTypes' /\ S3Types' /\ OtherTypes'
  <1>1. CASE \E r \in Runs : Fault(r)
    BY <1>1, SyncAssumption DEF Fault, Interrupted, WorkerKilled, NodeLost, dataVars, lockVars,
       histVars, TypeOK, SyncTypes, DiskTypes, S3Types, OtherTypes
  <1>2. CASE ManualIndexBackup
    <2>1. SyncTypes' /\ DiskTypes' /\ OtherTypes'
      BY <1>2, SyncAssumption DEF ManualIndexBackup, lockVars, histVars, TypeOK, SyncTypes,
         DiskTypes, OtherTypes
    <2>2. disk.owner \in MaybeRun /\ disk.config \in Heights0 /\ disk.parsed \in Heights0 \cup {Torn}
      BY <1>2 DEF ManualIndexBackup, IndexMatchesInventory, TypeOK, DiskTypes, Heights, Heights0
    <2>3. S3Types'
      BY <1>2, <2>2 DEF ManualIndexBackup, TypeOK, S3Types, Backups
    <2> QED
      BY <2>1, <2>3
  <1> QED
    BY <1>1, <1>2

\* Type correctness of the jobs, the locks, the state files, the dataset and
\* the backups.
THEOREM SyncTypeCorrect == Spec => []TypeOK
  <1>1. Init => TypeOK
    <2> SUFFICES ASSUME Init PROVE TypeOK
      OBVIOUS
    <2>0. PICK last \in MaybeRun, d \in {EmptyDisk, SyncedDisk} : InitAfter(last, d)
      BY SyncAssumption DEF Init, MaybeRun
    <2>1. 0 \in Heights0 /\ 1 \in Heights0 /\ Earlier \in MaybeRun /\ NoRun \in MaybeRun
      BY SyncAssumption DEF Heights0, MaybeRun
    <2>2. JobTypes
      BY InitJobs
    <2>3. SyncTypes
      BY <2>0, <2>1 DEF InitAfter, SyncTypes, NoGeneration, Generations
    <2>4. DiskTypes
      <3>1. disk = EmptyDisk \/ disk = SyncedDisk
        BY <2>0, Zenon DEF InitAfter
      <3>2. CASE disk = EmptyDisk
        BY <2>1, <3>2 DEF DiskTypes, EmptyDisk, NoGeneration, Generations
      <3>3. CASE disk = SyncedDisk
        BY <2>1, <3>3 DEF DiskTypes, SyncedDisk, Generations
      <3> QED
        BY <3>1, <3>2, <3>3
    <2>5. S3Types
      BY <2>0, <2>1, EmptyRecords, SyncAssumption DEF InitAfter, S3Types, NoBackup, SyncedBackup, Backups
    <2>6. archived \in BOOLEAN
      BY <2>0, Zenon DEF InitAfter
    <2>7. quiescent \subseteq Stages
      BY <2>0 DEF InitAfter
    <2>8. faults \in 0..MaxFaults /\ manual \in 0..MaxManual
      BY <2>0, SyncAssumption DEF InitAfter
    <2>9. OtherTypes
      BY <2>0, <2>1, <2>6, <2>7, <2>8 DEF InitAfter, OtherTypes
    <2> QED
      BY <2>2, <2>3, <2>4, <2>5, <2>9 DEF TypeOK
  <1>2. TypeOK /\ OwnInv' /\ [Next]_vars => TypeOK'
    <2>1. ASSUME TypeOK, OwnInv', Next PROVE TypeOK'
      <3>1. JobTypes'
        BY <2>1 DEF OwnInv
      <3>2. SyncTypes' /\ DiskTypes' /\ S3Types' /\ OtherTypes'
        BY <2>1, FrameKeepsTypes, RestoreKeepsTypes, ExtendKeepsTypes, CheckpointKeepsTypes,
           FaultKeepsTypes DEF Next
      <3> QED
        BY <3>1, <3>2 DEF TypeOK
    <2>2. ASSUME TypeOK, UNCHANGED vars PROVE TypeOK'
      BY <2>2 DEF vars, jobVars, lockVars, dataVars, histVars, TypeOK, JobTypes, SyncTypes,
         DiskTypes, S3Types, OtherTypes
    <2> QED
      BY <2>1, <2>2
  <1> QED
    BY <1>1, <1>2, OwnInvariant, PTL DEF Spec

-----------------------------------------------------------------------------
(***************************************************************************)
(* The data that the jobs write: half-written index files, the generation  *)
(* of the queued jobs, restored datasets, the first synchronization, and   *)
(* what one fault can lose.                                                *)
(***************************************************************************)
\* The job of r is at one of these labels of stage s.
In(r, s, labels) == stage[r] = s /\ pc[r] \in labels

-----------------------------------------------------------------------------
(***************************************************************************)
(* Every step is work by the only job at work, or leaves the data alone.   *)
(***************************************************************************)
\* discard_dataset runs in two stages only, done.json is one stage's, and a job
\* that may write the index holds its lock as long as it works.
LockedAt(r) ==
    /\ pc[r] = "discard" => stage[r] \in {"restore", "clear"}
    /\ pc[r] = "donefile" => stage[r] = "checkpoint"
    /\ WritesIndex(stage[r]) /\ pc[r] \in WorkLabels \cup {"acquire", "own"} => idxWriter = r
LockedInv == \A r \in Runs : LockedAt(r)

\* Labels where nothing is known of a job's data.
Outer == {"queued", "index", "acquire", "own", "reset", "require", "check", "donefile",
          "finally", "cleanup", "handler", "exit", "over"}

DataWork(r) ==
    Restore(r) \/ Discard(r) \/ Producer(r) \/ Blocksci(r) \/ Checkpoint(r) \/ Clear(r)

\* A step of r's work, while no other job but pack is at work.
WorksAlone(r) ==
    /\ DataWork(r) /\ stage[r] # "pack"
    /\ stage' = stage /\ idxWriter' = idxWriter
    /\ pc[r] \in WorkLabels
    /\ pc'[r] \in WorkLabels \/ pc'[r] = "finally"
    /\ \A q \in Runs \ {r} : pc'[q] = pc[q] /\ (stage[q] = "pack" \/ pc[q] \notin WorkLabels)

Starting == {"queued", "index", "acquire", "own"}

\* How a job moves in a step that is no work: not at all, within pack, to an
\* outer label, or on to its run's next job.
Moves(q) ==
    \/ stage'[q] = stage[q] /\ pc'[q] = pc[q]
    \/ stage'[q] = stage[q] /\ stage[q] = "pack" /\ pc'[q] \in {"complete", "finally"}
    \/ /\ stage'[q] = stage[q] /\ pc'[q] \in Outer
       /\ pc'[q] \in Starting \cup {"reset", "require", "check"} => pc[q] \in Starting
       /\ pc'[q] = "donefile" => pc[q] = "complete" /\ stage[q] = "checkpoint"
       /\ pc[q] \in WorkLabels \ {"complete"} => faults' = faults + 1
    \/ pc[q] = "cleanup" /\ pc'[q] = "queued" /\ stage'[q] = NextStage(stage[q])

\* A step that leaves the dataset, the generation and the archive as they are.
Quiet ==
    /\ disk' = disk /\ archived' = archived
    /\ sync'.ready = sync.ready /\ sync'.fresh = sync.fresh
    /\ sync'.done = sync.done \/ \E r \in Runs :
        sync'.done = r /\ pc[r] = "donefile" /\ pc'[r] = "finally" /\ stage'[r] = stage[r]
    /\ s3' = s3 \/ ManualIndexBackup
    /\ \A q \in Runs : Moves(q)

\* Frame steps and faults keep the lock on the index with the job that writes it.
LEMMA LockedStep ==
  ASSUME TypeOK, OwnInv, LockedInv, [Next]_vars
  PROVE  LockedInv'
  <1>0. JobTypes /\ idxWriter \in MaybeRun
    BY DEF TypeOK, OtherTypes
  <1>1. ASSUME NEW r \in Runs, WorkStep(r) PROVE LockedInv'
    <2>1. /\ pc[r] \in WorkLabels /\ stage' = stage
          /\ \A q \in Runs \ {r} : pc'[q] = pc[q]
          /\ pc'[r] \in WorkLabels \/ pc'[r] = "finally"
      BY <1>0, <1>1, WorkStepMoves DEF JobTypes
    <2>2. idxWriter' = idxWriter
      BY <1>1 DEF WorkStep, Restore, ResetState, SkipNotEmpty, SkipNoBackup, CheckBackups,
         Download, Place, VerifyRestored, Discard, Producer, RequireCompleteDataset, Prepare,
         SynchronizeCore, ScanDumplings, ArchiveBlocks, WriteReady, WriteCurrentReady, Blocksci,
         CheckBeforeParse, MarkWriting, StartParser, ParserEnds, PublishIndex, UnmarkWriting,
         Checkpoint, CheckBeforeBackup, BackupIndex, PublishDumplings, Prune, BackupCore,
         DropBackup, UploadBackup, Pack, Clear, Writes, OnlyMoves, lockVars
    <2>3. pc'[r] = "discard" => stage[r] \in {"restore", "clear"}
      <3>1. \/ pc[r] = "discard"
            \/ stage[r] \in {"restore", "clear"}
            \/ pc'[r] # "discard"
        BY <1>0, <1>1 DEF JobTypes, WorkStep, Restore, ResetState, SkipNotEmpty, SkipNoBackup,
           CheckBackups, Download, Place, VerifyRestored, Discard, Producer,
           RequireCompleteDataset, Prepare, SynchronizeCore, ScanDumplings, ArchiveBlocks,
           WriteReady, WriteCurrentReady, Blocksci, CheckBeforeParse, MarkWriting, StartParser,
           ParserEnds, PublishIndex, UnmarkWriting, Checkpoint, CheckBeforeBackup, BackupIndex,
           PublishDumplings, Prune, BackupCore, DropBackup, UploadBackup, Pack, Clear, Writes, At,
           Require, Raise, GoTo
      <3> QED
        BY <3>1 DEF LockedInv, LockedAt
    <2> QED
      BY <2>1, <2>2, <2>3 DEF LockedInv, LockedAt, WorkLabels
  <1>2. ASSUME NEW r \in Runs, Frame(r) PROVE LockedInv'
    <2>1. CASE LockIndex(r)
      <3>1. /\ pc' = [pc EXCEPT ![r] = pc'[r]] /\ pc'[r] \in {"finally", "acquire", "check"}
            /\ pc'[r] = "acquire" /\ WritesIndex(stage[r]) => idxWriter = NoRun /\ idxWriter' = r
            /\ pc'[r] = "check" => stage[r] = "pack"
            /\ idxWriter' = idxWriter \/ idxWriter = NoRun
            /\ stage' = stage
        BY <2>1, <1>0 DEF LockIndex, Require, Raise, GoTo, TakesDataset, JobTypes
      <3> QED
        BY <3>1, <1>0, SyncAssumption DEF LockedInv, LockedAt, WritesIndex, JobTypes, WorkLabels
    <2>2. CASE UnlockIndex(r) \/ IndexEntryExpires(r)
      BY <2>2, <1>0, SyncAssumption DEF UnlockIndex, IndexEntryExpires, jobVars, GoTo, LockedInv,
         LockedAt, JobTypes, WorkLabels
    <2>3. CASE Quiesce(r)
      BY <2>3, <1>0 DEF Quiesce, GoTo, LockedInv, LockedAt, JobTypes, WorkLabels
    <2>4. CASE \/ Start(r) \/ Dropped(r) \/ AcquireDataset(r) \/ WriteOwner(r) \/ Complete(r)
               \/ WriteDoneFile(r) \/ FailedHandler(r) \/ JobExits(r)
      <3>1. idxWriter' = idxWriter /\ stage' = stage
        BY <2>4 DEF Start, Dropped, AcquireDataset, WriteOwner, Complete, WriteDoneFile,
           FailedHandler, JobExits, lockVars
      <3>2. PICK l \in Labels :
              /\ pc' = [pc EXCEPT ![r] = l]
              /\ l \in WorkLabels \cup {"acquire", "own"} => pc[r] \in WorkLabels \cup {"acquire", "own"}
              /\ l # "discard" /\ (l = "donefile" => stage[r] = "checkpoint")
        BY <2>4, <1>0 DEF Start, Dropped, AcquireDataset, WriteOwner, Complete, WriteDoneFile,
           FailedHandler, JobExits, GoTo, Require, Raise, FirstStep, Labels, WorkLabels
      <3> QED
        BY <3>1, <3>2, <1>0 DEF LockedInv, LockedAt, JobTypes
    <2> QED
      BY <1>2, <2>1, <2>2, <2>3, <2>4 DEF Frame
  <1>3. ASSUME NEW r \in Runs, Fault(r) PROVE LockedInv'
    <2>1. /\ idxWriter' = idxWriter /\ stage' = stage
          /\ \E l \in {"finally", "handler", "over"} : pc' = [pc EXCEPT ![r] = l]
      BY <1>3 DEF Fault, Interrupted, WorkerKilled, NodeLost, Raise, GoTo, lockVars
    <2> QED
      BY <2>1, <1>0 DEF LockedInv, LockedAt, JobTypes, WorkLabels
  <1>4. CASE ManualIndexBackup \/ UNCHANGED vars
    BY <1>4 DEF ManualIndexBackup, vars, jobVars, lockVars, LockedInv, LockedAt
  <1> QED
    BY <1>1, <1>2, <1>3, <1>4 DEF Next, WorkStep

\* Where a job may discard data and write done.json, and that it holds the index lock
\* while it works.
LEMMA LockedInvariant == Spec => []LockedInv
  <1>1. Init => LockedInv
    <2> SUFFICES ASSUME Init PROVE LockedInv
      OBVIOUS
    <2> QED
      BY InitJobs DEF LockedInv, LockedAt, WorkLabels
  <1> QED
    BY <1>1, LockedStep, OwnInvariant, SyncTypeCorrect, PTL DEF Spec

\* A step is one job's work while the others are idle, or it is quiet.
LEMMA StepKinds ==
  ASSUME TypeOK, OwnInv, LockedInv, [Next]_vars
  PROVE  Quiet \/ \E r \in Runs : WorksAlone(r)
  <1>0. JobTypes
    BY DEF TypeOK
  <1>1. ASSUME NEW r \in Runs, WorkStep(r), stage[r] # "pack" PROVE WorksAlone(r)
    <2>1. /\ pc[r] \in WorkLabels /\ stage' = stage
          /\ \A q \in Runs \ {r} : pc'[q] = pc[q]
          /\ pc'[r] \in WorkLabels \/ pc'[r] = "finally"
      BY <1>0, <1>1, WorkStepMoves DEF JobTypes
    <2>2. idxWriter' = idxWriter
      BY <1>1 DEF WorkStep, Restore, ResetState, SkipNotEmpty, SkipNoBackup, CheckBackups,
         Download, Place, VerifyRestored, Discard, Producer, RequireCompleteDataset, Prepare,
         SynchronizeCore, ScanDumplings, ArchiveBlocks, WriteReady, WriteCurrentReady, Blocksci,
         CheckBeforeParse, MarkWriting, StartParser, ParserEnds, PublishIndex, UnmarkWriting,
         Checkpoint, CheckBeforeBackup, BackupIndex, PublishDumplings, Prune, BackupCore,
         DropBackup, UploadBackup, Pack, Clear, Writes, OnlyMoves, lockVars
    <2>3. \A q \in Runs \ {r} : stage[q] = "pack" \/ pc[q] \notin WorkLabels
      BY <1>0, <1>1, <2>1, AtWorkLabels DEF OwnInv, WorkOwnsDataset
    <2> QED
      BY <1>1, <2>1, <2>2, <2>3 DEF WorksAlone, DataWork, WorkStep, Pack, At
  <1>2. ASSUME NEW r \in Runs, WorkStep(r), stage[r] = "pack" PROVE Quiet
    <2>1. Pack(r)
      BY <1>2 DEF WorkStep, Restore, ResetState, SkipNotEmpty, SkipNoBackup, CheckBackups,
         Download, Place, VerifyRestored, Discard, Producer, RequireCompleteDataset, Prepare,
         SynchronizeCore, ScanDumplings, ArchiveBlocks, WriteReady, WriteCurrentReady, Blocksci,
         CheckBeforeParse, MarkWriting, StartParser, ParserEnds, PublishIndex, UnmarkWriting,
         Checkpoint, CheckBeforeBackup, BackupIndex, PublishDumplings, Prune, BackupCore,
         Clear, At, LockedInv, LockedAt
    <2> QED
      BY <1>0, <1>2, <2>1 DEF Pack, Require, Raise, GoTo, OnlyMoves, dataVars, Quiet, Moves, JobTypes
  <1>3. ASSUME NEW r \in Runs, Frame(r) \/ Fault(r) PROVE Quiet
    <2>1. \A q \in Runs : Moves(q)
      <3>1. CASE IndexEntryExpires(r)
        BY <3>1 DEF IndexEntryExpires, jobVars, Moves
      <3>2. CASE Quiesce(r)
        BY <1>0, <3>2 DEF Quiesce, GoTo, JobTypes, Moves, Outer, Starting, WorkLabels
      <3>3. CASE Frame(r) /\ ~IndexEntryExpires(r) /\ ~Quiesce(r)
        <4>1. PICK l \in Outer :
                /\ pc' = [pc EXCEPT ![r] = l] /\ stage' = stage
                /\ l \in Starting \cup {"reset", "require", "check"} => pc[r] \in Starting
                /\ l = "donefile" => pc[r] = "complete" /\ stage[r] = "checkpoint"
                /\ pc[r] \notin WorkLabels \ {"complete"}
          BY <3>3 DEF Frame, Start, Dropped, LockIndex, AcquireDataset, WriteOwner, Complete,
             WriteDoneFile, UnlockIndex, FailedHandler, JobExits, Require, Raise, GoTo, FirstStep,
             Outer, Starting, WorkLabels
        <4> QED
          BY <1>0, <4>1 DEF JobTypes, Moves
      <3>4. CASE Fault(r)
        <4>1. PICK l \in {"finally", "handler", "over"} :
                pc' = [pc EXCEPT ![r] = l] /\ stage' = stage /\ faults' = faults + 1
          BY <3>4 DEF Fault, Interrupted, WorkerKilled, NodeLost, Raise, GoTo
        <4> QED
          BY <1>0, <4>1 DEF JobTypes, Moves, Outer, Starting
      <3> QED
        BY <1>3, <3>1, <3>2, <3>3, <3>4
    <2>2. disk' = disk /\ archived' = archived /\ s3' = s3 /\ (sync' = sync \/ WriteDoneFile(r))
      BY <1>3 DEF Frame, Start, Dropped, LockIndex, AcquireDataset, WriteOwner, Complete,
         WriteDoneFile, UnlockIndex, Quiesce, FailedHandler, JobExits, IndexEntryExpires, Fault,
         Interrupted, WorkerKilled, NodeLost, dataVars
    <2>3. /\ sync'.ready = sync.ready /\ sync'.fresh = sync.fresh
          /\ sync'.done = sync.done \/ (sync'.done = r /\ WriteDoneFile(r))
      BY <2>2 DEF WriteDoneFile, TypeOK, SyncTypes
    <2>4. WriteDoneFile(r) => pc[r] = "donefile" /\ pc'[r] = "finally" /\ stage'[r] = stage[r]
      BY <1>0 DEF WriteDoneFile, GoTo, JobTypes
    <2> QED
      BY <2>1, <2>2, <2>3, <2>4 DEF Quiet
  <1>4. CASE ManualIndexBackup \/ UNCHANGED vars
    BY <1>4 DEF ManualIndexBackup, vars, jobVars, dataVars, Quiet, Moves
  <1> QED
    BY <1>1, <1>2, <1>3, <1>4 DEF Next, WorkStep

\* What a job's work does to the state files.
LEMMA SyncMoves ==
  ASSUME TypeOK, NEW r \in Runs, WorksAlone(r)
  PROVE  \/ sync' = [ready |-> NoGeneration, done |-> NoRun, fresh |-> NoRun]
         \/ \E x \in Generations : sync' = [sync EXCEPT !.ready = x]
         \/ sync' = [sync EXCEPT !.fresh = r]
         \/ sync' = sync
  <1>1. CASE WriteReady(r)
    BY <1>1 DEF WriteReady, TypeOK, DiskTypes, Generations, MaybeRun
  <1>2. CASE ~WriteReady(r)
    BY <1>2 DEF WorksAlone, DataWork, Restore, ResetState, SkipNotEmpty, SkipNoBackup,
       CheckBackups, Download, Place, VerifyRestored, Discard, Producer, RequireCompleteDataset,
       Prepare, SynchronizeCore, ScanDumplings, ArchiveBlocks, WriteCurrentReady, Blocksci,
       CheckBeforeParse, MarkWriting, StartParser, ParserEnds, PublishIndex, UnmarkWriting,
       Checkpoint, CheckBeforeBackup, BackupIndex, PublishDumplings, Prune, BackupCore,
       DropBackup, UploadBackup, Clear, Writes, OnlyMoves, dataVars
  <1> QED
    BY <1>1, <1>2

-----------------------------------------------------------------------------
(***************************************************************************)
(* Half-written index files.                                               *)
(***************************************************************************)
Parsing == {"parse", "parsing", "publish", "unmark"}
\* The marker stands while the parser may write, and what the parser left is whole.
TornAt(r) ==
    /\ In(r, "blocksci", Parsing) => disk.writing
    /\ In(r, "blocksci", {"publish", "unmark"}) => disk.parsed # Torn
    /\ In(r, "checkpoint", {"drop-index", "up-index"}) => disk.parsed # Torn
TornInv ==
    /\ TornIsMarked
    /\ s3["index"].data # Torn
    /\ \A r \in Runs : TornAt(r)

\* Torn is no height, and the missing file neither.
LEMMA TornIsNoHeight == Torn \notin Heights /\ Torn \notin Heights0 /\ 0 \in Heights0 /\ 0 \notin Heights
  BY SyncAssumption DEF Heights, Heights0

\* The checkpoint job drops and uploads one backup after another.
Dropping == [index |-> "drop-index", dumplings |-> "drop-dumplings", core |-> "drop-core"]
Uploading == [index |-> "up-index", dumplings |-> "up-dumplings", core |-> "up-core"]
Uploaded == [index |-> "drop-dumplings", dumplings |-> "prune", core |-> "complete"]
Copied == [index |-> disk.parsed, dumplings |-> disk.scan, core |-> disk.core]

\* A dropped backup is gone, or its manifest stays with a damaged archive.
Drops(r, b) ==
    /\ pc[r] = Dropping[b] /\ pc'[r] = Uploading[b]
    /\ b = "dumplings" => disk.scan = sync.ready.height
    /\ disk' = disk
    /\ \A c \in Backups \ {b} : s3'[c] = s3[c]
    /\ \/ s3'[b] = NoBackup /\ faults' = faults
       \/ /\ s3[b].run # NoRun /\ faults' = faults + 1
          /\ s3'[b].run = s3[b].run /\ s3'[b].height = s3[b].height
          /\ s3'[b].data = s3[b].data /\ ~s3'[b].intact /\ s3'[b].members = s3[b].members

\* An uploaded backup is whole and named for its run.
Uploads(r, b) ==
    /\ pc[r] = Uploading[b] /\ pc'[r] = Uploaded[b]
    /\ disk' = disk /\ faults' = faults
    /\ \A c \in Backups \ {b} : s3'[c] = s3[c]
    /\ s3'[b] = [run |-> r, height |-> sync.ready.height, data |-> Copied[b],
                 intact |-> TRUE, members |-> TRUE]

\* What drop_manifest leaves: the copy without its manifest, whether or not the
\* removal was interrupted.
LEMMA DropEffect ==
  ASSUME TypeOK, NEW b \in Backups, NEW r \in Runs, DropBackup(r, b, Uploading[b]),
         pc[r] = Dropping[b], b = "dumplings" => disk.scan = sync.ready.height
  PROVE  Drops(r, b)
  <1>1. s3 = [c \in Backups |-> s3[c]]
    BY DEF TypeOK, S3Types
  <1>2. s3[b] = [run |-> s3[b].run, height |-> s3[b].height, data |-> s3[b].data,
                 intact |-> s3[b].intact, members |-> s3[b].members]
    BY DEF TypeOK, S3Types
  <1>3. disk' = disk /\ pc'[r] = Uploading[b]
    BY DEF DropBackup, GoTo, TypeOK, JobTypes
  <1>4. CASE s3' = [s3 EXCEPT ![b] = NoBackup] /\ faults' = faults
    BY <1>1, <1>3, <1>4 DEF Drops
  <1>5. CASE s3[b].run # NoRun /\ s3' = [s3 EXCEPT ![b].intact = FALSE] /\ faults' = faults + 1
    <2>1. s3'[b] = [s3[b] EXCEPT !.intact = FALSE] /\ \A c \in Backups \ {b} : s3'[c] = s3[c]
      BY <1>1, <1>5
    <2>2. s3'[b] = [run |-> s3[b].run, height |-> s3[b].height, data |-> s3[b].data,
                    intact |-> FALSE, members |-> s3[b].members]
      BY <1>2, <2>1
    <2> QED
      BY <1>3, <1>5, <2>1, <2>2 DEF Drops
  <1> QED
    BY <1>4, <1>5 DEF DropBackup

\* What a step of the checkpoint job does to its backups.
LEMMA CheckpointWrites ==
  ASSUME TypeOK, NEW r \in Runs, Checkpoint(r)
  PROVE  /\ stage[r] = "checkpoint" /\ sync' = sync /\ archived' = archived
         /\ manual' = manual /\ foreignClear' = foreignClear
         /\ \/ \E b \in Backups : Drops(r, b) \/ Uploads(r, b)
            \/ /\ s3' = s3 /\ faults' = faults /\ disk' = disk /\ pc'[r] = "finally"
               /\ \/ pc[r] = "drop-dumplings" /\ disk.scan # sync.ready.height
                  \/ pc[r] = "prune" /\ disk.core # sync.ready.height
            \/ s3' = s3 /\ faults' = faults /\ disk' = disk /\ CheckBeforeBackup(r)
            \/ /\ s3' = s3 /\ faults' = faults /\ Prune(r) /\ pc'[r] = "drop-core"
               /\ disk.core = sync.ready.height /\ disk' = [disk EXCEPT !.full = FALSE]
  <1>1. /\ stage[r] = "checkpoint" /\ sync' = sync /\ archived' = archived
        /\ manual' = manual /\ foreignClear' = foreignClear
    BY DEF Checkpoint, CheckBeforeBackup, BackupIndex, PublishDumplings, Prune, BackupCore, At,
       DropBackup, UploadBackup, OnlyMoves, dataVars, histVars
  <1>2. pc \in [Runs -> Labels]
    BY DEF TypeOK, JobTypes
  <1>3. s3 = [c \in Backups |-> s3[c]]
    BY DEF TypeOK, S3Types
  <1>4. CASE CheckBeforeBackup(r)
    BY <1>1, <1>4 DEF CheckBeforeBackup, OnlyMoves, dataVars
  <1>5. CASE BackupIndex(r)
    <2>1. CASE At(r, "checkpoint", "drop-index") /\ DropBackup(r, "index", "up-index")
      BY <1>1, <2>1, DropEffect DEF At, Backups, Dropping, Uploading
    <2>2. CASE At(r, "checkpoint", "up-index") /\ UploadBackup(r, "index", disk.parsed, "drop-dumplings")
      <3>1. Uploads(r, "index")
        BY <1>2, <1>3, <2>2 DEF UploadBackup, GoTo, At, Uploads, Uploading, Uploaded, Copied, Backups
      <3> QED
        BY <1>1, <3>1 DEF Backups
    <2> QED
      BY <1>5, <2>1, <2>2 DEF BackupIndex
  <1>6. CASE PublishDumplings(r)
    <2>1. CASE /\ At(r, "checkpoint", "drop-dumplings") /\ disk.scan = sync.ready.height
               /\ DropBackup(r, "dumplings", "up-dumplings")
      BY <1>1, <2>1, DropEffect DEF At, Backups, Dropping, Uploading
    <2>2. CASE /\ At(r, "checkpoint", "up-dumplings")
               /\ UploadBackup(r, "dumplings", disk.scan, "prune")
      <3>1. Uploads(r, "dumplings")
        BY <1>2, <1>3, <2>2 DEF UploadBackup, GoTo, At, Uploads, Uploading, Uploaded, Copied, Backups
      <3> QED
        BY <1>1, <3>1 DEF Backups
    <2>3. CASE /\ At(r, "checkpoint", "drop-dumplings") /\ disk.scan # sync.ready.height
               /\ Raise(r) /\ OnlyMoves(r)
      BY <1>1, <1>2, <2>3 DEF At, Raise, GoTo, OnlyMoves, dataVars
    <2> QED
      BY <1>6, <2>1, <2>2, <2>3 DEF PublishDumplings
  <1>7. CASE Prune(r)
    BY <1>1, <1>2, <1>7 DEF Prune, At, Require, Raise, GoTo
  <1>8. CASE BackupCore(r)
    <2>1. CASE At(r, "checkpoint", "drop-core") /\ DropBackup(r, "core", "up-core")
      BY <1>1, <2>1, DropEffect DEF At, Backups, Dropping, Uploading
    <2>2. CASE At(r, "checkpoint", "up-core") /\ UploadBackup(r, "core", disk.core, "complete")
      <3>1. Uploads(r, "core")
        BY <1>2, <1>3, <2>2 DEF UploadBackup, GoTo, At, Uploads, Uploading, Uploaded, Copied, Backups
      <3> QED
        BY <1>1, <3>1 DEF Backups
    <2> QED
      BY <1>8, <2>1, <2>2 DEF BackupCore
  <1> QED
    BY <1>4, <1>5, <1>6, <1>7, <1>8 DEF Checkpoint

\* A manual backup replaces the index backup alone.
LEMMA ManualWrites ==
  ASSUME TypeOK, ManualIndexBackup
  PROVE  /\ s3'["core"] = s3["core"] /\ s3'["dumplings"] = s3["dumplings"]
         /\ s3'["index"] = [run |-> disk.owner, height |-> disk.config, data |-> disk.parsed,
                            intact |-> TRUE, members |-> FALSE]
  BY DEF ManualIndexBackup, TypeOK, S3Types, Backups

\* Every step keeps the half-written files marked.
LEMMA TornStep ==
  ASSUME TypeOK, OwnInv, LockedInv, TornInv, [Next]_vars
  PROVE  TornInv'
  <1>0. JobTypes /\ DiskTypes
    BY DEF TypeOK
  <1>1. CASE Quiet
    <2>1. s3'["index"].data # Torn
      BY <1>1, ManualWrites, TornIsNoHeight
         DEF Quiet, TornInv, TornIsMarked, ManualIndexBackup
    <2>2. TornIsMarked' /\ \A r \in Runs : TornAt(r)'
      BY <1>1 DEF Quiet, Moves, TornInv, TornIsMarked, TornAt, In, Parsing, Outer
    <2> QED
      BY <2>1, <2>2 DEF TornInv
  <1>2. ASSUME NEW r \in Runs, WorksAlone(r) PROVE TornInv'
    <2>1. \A q \in Runs \ {r} : TornAt(q)'
      BY <1>2 DEF WorksAlone, TornAt, In, Parsing, WorkLabels
    <2>2. CASE Restore(r)
      <3>1. stage[r] = "restore" /\ s3' = s3 /\ (disk' = disk \/ Place(r))
        BY <2>2 DEF Restore, ResetState, SkipNotEmpty, SkipNoBackup, CheckBackups, Download,
           Place, VerifyRestored, At, Writes, OnlyMoves, dataVars
      <3>2. TornIsMarked'
        BY <3>1, <1>0, TornIsNoHeight DEF Place, Writes, TornInv, TornIsMarked, DiskTypes
      <3> QED
        BY <1>2, <2>1, <3>1, <3>2 DEF WorksAlone, TornInv, TornAt, In
    <2>3. CASE Discard(r)
      <3>1. stage[r] \in {"restore", "clear"} /\ s3' = s3
        BY <2>3 DEF Discard, Writes, LockedInv, LockedAt
      <3>2. TornIsMarked'
        BY <2>3, <1>0, TornIsNoHeight DEF Discard, Writes, TornInv, TornIsMarked, DiskTypes
      <3> QED
        BY <1>2, <2>1, <3>1, <3>2 DEF WorksAlone, TornInv, TornAt, In
    <2>4. CASE Producer(r)
      <3>1. stage[r] = "producer" /\ s3' = s3
        BY <2>4 DEF Producer, RequireCompleteDataset, Prepare, SynchronizeCore, ScanDumplings,
           ArchiveBlocks, WriteReady, WriteCurrentReady, At, Writes, OnlyMoves, dataVars
      <3>2. disk'.parsed = disk.parsed /\ disk'.writing = disk.writing
        BY <2>4, <1>0 DEF Producer, RequireCompleteDataset, Prepare, SynchronizeCore,
           ScanDumplings, ArchiveBlocks, WriteReady, WriteCurrentReady, At, Writes, OnlyMoves,
           dataVars, DiskTypes
      <3> QED
        BY <1>2, <2>1, <3>1, <3>2 DEF WorksAlone, TornInv, TornIsMarked, TornAt, In
    <2>5. CASE Blocksci(r)
      <3>1. stage[r] = "blocksci" /\ s3' = s3
        BY <2>5 DEF Blocksci, CheckBeforeParse, MarkWriting, StartParser, ParserEnds,
           PublishIndex, UnmarkWriting, At, Writes, OnlyMoves, dataVars
      <3>2. TornIsMarked' /\ TornAt(r)'
        BY <1>0, <1>2, <2>5, <3>1, TornIsNoHeight DEF Blocksci, CheckBeforeParse, MarkWriting,
           StartParser, ParserEnds, PublishIndex, UnmarkWriting, At, Writes, OnlyMoves, dataVars,
           GoTo, Require, Raise, WorksAlone, TornInv, TornIsMarked, TornAt, In, Parsing,
           JobTypes, DiskTypes
      <3> QED
        BY <2>1, <3>1, <3>2 DEF TornInv
    <2>6. CASE Checkpoint(r)
      <3>1. disk'.parsed = disk.parsed /\ disk'.writing = disk.writing /\ stage[r] = "checkpoint"
        BY <2>6, <1>0, CheckpointWrites DEF Drops, Uploads, DiskTypes
      <3>2. s3'["index"].data # Torn
        <4>1. ASSUME NEW b \in Backups, Drops(r, b) PROVE s3'["index"].data # Torn
          BY <4>1, EmptyRecords DEF Drops, TornInv, Backups
        <4>2. ASSUME NEW b \in Backups, Uploads(r, b) PROVE s3'["index"].data # Torn
          <5>1. b = "index" => pc[r] = "up-index" /\ s3'["index"].data = disk.parsed
            BY <4>2 DEF Uploads, Uploading, Copied
          <5> QED
            BY <3>1, <4>2, <5>1 DEF Uploads, TornInv, TornAt, In, Backups
        <4> QED
          BY <2>6, <4>1, <4>2, CheckpointWrites DEF TornInv
      <3>3. pc'[r] \in {"drop-index", "up-index"} => disk.parsed # Torn
        BY <1>0, <2>6, TornIsNoHeight DEF Checkpoint, CheckBeforeBackup, BackupIndex,
           PublishDumplings, Prune, BackupCore, DropBackup, UploadBackup, At, GoTo,
           Require, Raise, JobTypes, TornInv, TornAt, In, IndexMatchesInventory
      <3> QED
        BY <1>2, <2>1, <3>1, <3>2, <3>3 DEF WorksAlone, TornInv, TornIsMarked, TornAt, In
    <2>7. CASE Clear(r)
      BY <1>2, <2>1, <2>7 DEF Clear, At, dataVars, WorksAlone, TornInv, TornIsMarked, TornAt, In
    <2> QED
      BY <1>2, <2>2, <2>3, <2>4, <2>5, <2>6, <2>7 DEF WorksAlone, DataWork
  <1> QED
    BY <1>1, <1>2, StepKinds

\* Half-written index files are marked in every reachable state.
LEMMA TornInvariant == Spec => []TornInv
  <1>1. Init => TornInv
    <2> SUFFICES ASSUME Init PROVE TornInv
      OBVIOUS
    <2>1. \A r \in Runs : TornAt(r)
      BY InitJobs DEF TornAt, In, Parsing
    <2>2. PICK last \in MaybeRun, d \in {EmptyDisk, SyncedDisk} : InitAfter(last, d)
      BY SyncAssumption DEF Init, MaybeRun
    <2>3. disk.parsed \in {0, 1} /\ s3["index"].data \in {0, 1}
      BY <2>2 DEF InitAfter, EmptyDisk, SyncedDisk, NoBackup, SyncedBackup, Backups
    <2> QED
      BY <2>1, <2>3, SyncAssumption DEF TornInv, TornIsMarked
  <1> QED
    BY <1>1, TornStep, LockedInvariant, OwnInvariant, SyncTypeCorrect, PTL DEF Spec

\* Half-written index files are always under the .writing marker, whichever
\* runs overlap, crash or discard the dataset.
THEOREM TornAlwaysMarked == Spec => []TornIsMarked
  <1>1. TornInv => TornIsMarked
    BY DEF TornInv
  <1> QED
    BY <1>1, TornInvariant, PTL

-----------------------------------------------------------------------------
(***************************************************************************)
(* The generation in sync/ready.json and current-ready.json.               *)
(***************************************************************************)
Made == {"drop-index", "up-index", "drop-dumplings", "up-dumplings", "prune", "drop-core", "up-core"}
Indexing == {"mark", "parse", "parsing", "publish", "unmark"}

\* Both files name r, at the height of the Core data.
OwnData(r) ==
    sync.ready = [run |-> r, height |-> disk.core] /\ disk.current = sync.ready /\ disk.core # 0

GenerationAt(r) ==
    /\ In(r, "producer", {"sync", "scan", "archive", "ready"}) => disk.current = [run |-> r, height |-> 0]
    /\ In(r, "producer", {"scan", "archive", "ready", "current"}) => disk.core # 0
    /\ In(r, "producer", {"current"}) => sync.ready = [run |-> r, height |-> disk.core]
    /\ In(r, "restore", {"look", "discard", "download", "place"}) => sync.ready = NoGeneration
    /\ In(r, "blocksci", Indexing) => OwnData(r)
    /\ In(r, "checkpoint", Made) => OwnData(r)

\* While current-ready.json agrees with ready.json, Core is at that height or gone.
AgreedHeight ==
    disk.current = sync.ready /\ sync.ready # NoGeneration /\ disk.core # 0 =>
        disk.core = sync.ready.height

GenerationInv ==
    /\ sync.ready # NoGeneration => sync.ready.run \in Runs /\ sync.ready.height # 0
    /\ AgreedHeight
    /\ disk.full => disk.core # 0
    /\ \A r \in Runs : GenerationAt(r)

\* Every step keeps the jobs of a run on one generation.
LEMMA GenerationStep ==
  ASSUME TypeOK, OwnInv, LockedInv, GenerationInv, [Next]_vars
  PROVE  GenerationInv'
  <1>0. JobTypes /\ DiskTypes /\ SyncTypes
    BY DEF TypeOK
  <1>1. CASE Quiet
    BY <1>1 DEF Quiet, Moves, GenerationInv, AgreedHeight, GenerationAt, OwnData, In, Made,
       Indexing, Outer
  <1>2. ASSUME NEW r \in Runs, WorksAlone(r) PROVE GenerationInv'
    <2>1. \A q \in Runs \ {r} : GenerationAt(q)'
      BY <1>2 DEF WorksAlone, GenerationAt, In, Made, Indexing, WorkLabels
    <2>2. CASE Restore(r)
      <3>1. stage[r] = "restore" /\ stage'[r] = "restore"
        BY <1>2, <2>2 DEF WorksAlone, Restore, ResetState, SkipNotEmpty, SkipNoBackup,
           CheckBackups, Download, Place, VerifyRestored, At
      <3>2. CASE ResetState(r)
        <4>1. sync'.ready = NoGeneration /\ disk' = disk
          BY <3>2 DEF ResetState
        <4> QED
          BY <2>1, <3>1, <4>1 DEF GenerationInv, AgreedHeight, GenerationAt, In
      <3>3. CASE ~ResetState(r)
        <4>1. pc[r] \in {"look", "download", "place"} /\ sync'.ready = sync.ready
          BY <1>0, <2>2, <3>3 DEF Restore, SkipNotEmpty, SkipNoBackup, CheckBackups, Download,
             Place, VerifyRestored, At, Writes, OnlyMoves, dataVars, SyncTypes
        <4>2. sync.ready = NoGeneration
          BY <3>1, <4>1 DEF GenerationInv, GenerationAt, In
        <4>3. disk'.full => disk'.core # 0
          <5>1. CASE Place(r)
            BY <1>0, <5>1 DEF Place, Writes, DiskTypes, GenerationInv
          <5>2. CASE ~Place(r)
            BY <2>2, <3>3, <5>2 DEF Restore, SkipNotEmpty, SkipNoBackup, CheckBackups,
               Download, VerifyRestored, OnlyMoves, dataVars, GenerationInv
          <5> QED
            BY <5>1, <5>2
        <4> QED
          BY <2>1, <3>1, <4>1, <4>2, <4>3 DEF GenerationInv, AgreedHeight, GenerationAt, In
      <3> QED
        BY <3>2, <3>3
    <2>3. CASE Discard(r)
      <3>1. stage[r] \in {"restore", "clear"} /\ pc[r] = "discard" /\ sync' = sync
        BY <2>3 DEF Discard, Writes, LockedInv, LockedAt
      <3>2. /\ disk'.core \in {0, disk.core} /\ (disk'.full => disk.full /\ disk'.core = disk.core)
            /\ disk'.current = disk.current \/ disk'.current = NoGeneration
        BY <2>3, <1>0 DEF Discard, Writes, DiskTypes
      <3>3. stage[r] = "restore" => sync.ready = NoGeneration
        BY <3>1 DEF GenerationInv, GenerationAt, In
      <3> QED
        BY <1>2, <2>1, <3>1, <3>2, <3>3 DEF WorksAlone, GenerationInv, AgreedHeight, GenerationAt, In
    <2>4. CASE Producer(r)
      <3>1. stage[r] = "producer" /\ stage'[r] = "producer"
        BY <1>2, <2>4 DEF WorksAlone, Producer, RequireCompleteDataset, Prepare, SynchronizeCore,
           ScanDumplings, ArchiveBlocks, WriteReady, WriteCurrentReady, At
      <3>2. CASE WriteReady(r) \/ WriteCurrentReady(r)
        BY <1>0, <2>1, <3>1, <3>2 DEF WriteReady, WriteCurrentReady, At, Writes, GoTo,
           GenerationInv, AgreedHeight, GenerationAt, In, JobTypes, SyncTypes, DiskTypes,
           Generations
      <3>3. CASE RequireCompleteDataset(r)
        BY <1>0, <2>1, <3>1, <3>3 DEF RequireCompleteDataset, At, GoTo, Require, Raise, OnlyMoves,
           dataVars, GenerationInv, AgreedHeight, GenerationAt, In, JobTypes
      <3>4. CASE Prepare(r)
        <4>1. disk'.current = [run |-> r, height |-> 0] /\ disk'.core = disk.core /\ disk'.full = disk.full
          BY <1>0, <3>4 DEF Prepare, Writes, DiskTypes
        <4>2. pc'[r] = "sync" /\ sync' = sync
          BY <1>0, <3>4 DEF Prepare, Writes, GoTo, JobTypes
        <4>3. disk'.current = sync.ready /\ sync.ready # NoGeneration => FALSE
          BY <4>1 DEF GenerationInv
        <4> QED
          BY <2>1, <3>1, <4>1, <4>2, <4>3 DEF GenerationInv, AgreedHeight, GenerationAt, In
      <3>5. CASE SynchronizeCore(r)
        <4>1. disk'.current = disk.current /\ disk'.core # 0
          BY <1>0, <3>5, TornIsNoHeight DEF SynchronizeCore, Writes, DiskTypes
        <4>2. pc[r] = "sync" /\ pc'[r] = "scan" /\ sync' = sync
          BY <1>0, <3>5 DEF SynchronizeCore, At, Writes, GoTo, JobTypes
        <4>3. disk.current = [run |-> r, height |-> 0]
          BY <3>1, <4>2 DEF GenerationInv, GenerationAt, In
        <4>4. disk'.current = sync.ready /\ sync.ready # NoGeneration => FALSE
          BY <4>1, <4>3 DEF GenerationInv
        <4> QED
          BY <2>1, <3>1, <4>1, <4>2, <4>3, <4>4 DEF GenerationInv, AgreedHeight, GenerationAt, In
      <3>6. CASE ScanDumplings(r) \/ ArchiveBlocks(r)
        BY <1>0, <2>1, <3>1, <3>6 DEF ScanDumplings, ArchiveBlocks,
           At, Writes, GoTo, GenerationInv, AgreedHeight, GenerationAt, In, JobTypes, DiskTypes
      <3> QED
        BY <2>4, <3>2, <3>3, <3>6, <3>4, <3>5 DEF Producer
    <2>5. CASE Blocksci(r)
      <3>1. stage[r] = "blocksci" /\ stage'[r] = "blocksci" /\ sync' = sync
        BY <1>2, <2>5 DEF WorksAlone, Blocksci, CheckBeforeParse, MarkWriting, StartParser,
           ParserEnds, PublishIndex, UnmarkWriting, At, Writes, OnlyMoves, dataVars
      <3>2. disk'.core = disk.core /\ disk'.full = disk.full /\ disk'.current = disk.current
        BY <1>0, <2>5 DEF Blocksci, CheckBeforeParse, MarkWriting, StartParser, ParserEnds,
           PublishIndex, UnmarkWriting, Writes, OnlyMoves, dataVars, DiskTypes
      <3>3. pc'[r] \in Indexing => OwnData(r)
        <4>1. CASE CheckBeforeParse(r) /\ pc'[r] # "finally"
          <5>1. sync.ready.run = r /\ disk.current = sync.ready /\ disk.core # 0
            BY <1>0, <4>1 DEF CheckBeforeParse, Require, Raise, GoTo, JobTypes, OwnGeneration,
               ResumeBytesMatch, GenerationInv
          <5>2. sync.ready # NoGeneration
            BY <5>1, SyncAssumption DEF NoGeneration
          <5> QED
            BY <1>0, <5>1, <5>2 DEF GenerationInv, AgreedHeight, OwnData, SyncTypes, Generations
        <4>2. CASE CheckBeforeParse(r) /\ pc'[r] = "finally"
          BY <4>2 DEF Indexing
        <4>3. CASE ~CheckBeforeParse(r)
          BY <2>5, <4>3 DEF Blocksci, MarkWriting, StartParser, ParserEnds, PublishIndex,
             UnmarkWriting, At, GenerationInv, GenerationAt, In, Indexing
        <4> QED
          BY <4>1, <4>2, <4>3
      <3> QED
        BY <2>1, <3>1, <3>2, <3>3 DEF GenerationInv, AgreedHeight, GenerationAt, OwnData, In
    <2>6. CASE Checkpoint(r)
      <3>1. /\ stage[r] = "checkpoint" /\ stage'[r] = "checkpoint" /\ sync' = sync
            /\ disk'.core = disk.core /\ disk'.current = disk.current
            /\ disk'.full => disk.full
        BY <1>0, <1>2, <2>6, CheckpointWrites DEF WorksAlone, Drops, Uploads, DiskTypes
      <3>2. pc'[r] \in Made => OwnData(r)
        <4>1. CASE CheckBeforeBackup(r) /\ pc'[r] # "finally"
          <5>1. sync.ready.run = r /\ disk.current = sync.ready /\ disk.core # 0
            BY <1>0, <4>1 DEF CheckBeforeBackup, Require, Raise, GoTo, JobTypes, OwnGeneration,
               ResumeBytesMatch
          <5>2. sync.ready # NoGeneration
            BY <5>1, SyncAssumption DEF NoGeneration
          <5> QED
            BY <1>0, <5>1, <5>2 DEF GenerationInv, AgreedHeight, OwnData, SyncTypes, Generations
        <4>2. CASE CheckBeforeBackup(r) /\ pc'[r] = "finally"
          BY <4>2 DEF Made
        <4>3. CASE ~CheckBeforeBackup(r)
          BY <2>6, <4>3 DEF Checkpoint, BackupIndex, PublishDumplings, Prune, BackupCore, At,
             GenerationInv, GenerationAt, In, Made
        <4> QED
          BY <4>1, <4>2, <4>3
      <3> QED
        BY <2>1, <3>1, <3>2 DEF GenerationInv, AgreedHeight, GenerationAt, OwnData, In
    <2>7. CASE Clear(r)
      BY <1>2, <2>1, <2>7 DEF Clear, At, dataVars, WorksAlone, GenerationInv, AgreedHeight,
         GenerationAt, In
    <2> QED
      BY <1>2, <2>2, <2>3, <2>4, <2>5, <2>6, <2>7 DEF WorksAlone, DataWork
  <1> QED
    BY <1>1, <1>2, StepKinds

\* The jobs of a run see one generation in every reachable state.
LEMMA GenerationInvariant == Spec => []GenerationInv
  <1>1. Init => GenerationInv
    <2> SUFFICES ASSUME Init PROVE GenerationInv
      OBVIOUS
    <2>1. \A r \in Runs : GenerationAt(r)
      BY InitJobs DEF GenerationAt, In, Made, Indexing
    <2>2. PICK last \in MaybeRun, d \in {EmptyDisk, SyncedDisk} : InitAfter(last, d) /\ last \in {NoRun, Earlier}
      BY SyncAssumption DEF Init, MaybeRun
    <2>3. disk.core \in {0, 1} /\ disk.full = FALSE
      BY <2>2 DEF InitAfter, EmptyDisk, SyncedDisk
    <2>4. \/ sync.ready = NoGeneration
          \/ last # NoRun /\ last \in Runs /\ sync.ready = [run |-> last, height |-> 1]
      BY <2>2, SyncAssumption DEF InitAfter, MaybeRun
    <2> QED
      BY <2>1, <2>3, <2>4 DEF GenerationInv, AgreedHeight
  <1> QED
    BY <1>1, GenerationStep, LockedInvariant, OwnInvariant, SyncTypeCorrect, PTL DEF Spec

\* The Core data that blocksci is about to index, or checkpoint to back up, are
\* those its own run's producer left, whatever other runs did while the job
\* waited in the queue.
THEOREM QueuedJobsSeeOwnData == Spec => []QueuedJobSeesOwnData
  <1>1. GenerationInv => QueuedJobSeesOwnData
    BY DEF GenerationInv, GenerationAt, OwnData, In, Made, Indexing, At, QueuedJobSeesOwnData
  <1> QED
    BY <1>1, GenerationInvariant, PTL

-----------------------------------------------------------------------------
(***************************************************************************)
(* Backups hold what they say, and restore finds them as it checked them.  *)
(***************************************************************************)
EmptyDataset == disk.core = 0 /\ disk.scan = 0 /\ disk.config = 0 /\ disk.parsed = 0

\* What is in place comes from the checked backups, block files first.
Placed ==
    /\ \A b \in Backups : s3[b].intact
    /\ disk.core \in {0, s3["core"].data} /\ disk.scan \in {0, s3["dumplings"].data}
    /\ disk.config \in {0, s3["index"].height} /\ disk.parsed \in {0, s3["index"].data}
    /\ disk.scan # 0 => disk.core # 0

RestoreAt(r) ==
    /\ In(r, "restore", {"discard", "download", "place"}) => BackupsBelongTogether
    /\ In(r, "restore", {"download"}) => EmptyDataset
    /\ In(r, "restore", {"place"}) => Placed
    /\ In(r, "checkpoint", {"drop-index", "up-index"}) => disk.parsed = sync.ready.height
    /\ In(r, "checkpoint", {"up-dumplings"}) => disk.scan = sync.ready.height
    /\ In(r, "checkpoint", {"drop-core", "up-core"}) => disk.core = sync.ready.height

ArchivesMatch == \A b \in Backups : s3[b].intact => s3[b].data = s3[b].height

RestoreInv == ArchivesMatch /\ \A r \in Runs : RestoreAt(r)

\* While a job restores, nothing is written to S3.
LEMMA NoManualDuringRestore ==
  ASSUME LockedInv, ManualIndexBackup, NEW r \in Runs, stage[r] = "restore"
  PROVE  pc[r] \notin {"look", "discard", "download", "place"}
  BY SyncAssumption DEF LockedInv, LockedAt, ManualIndexBackup, WritesIndex, WorkLabels

\* Every step keeps what restore has downloaded to one generation.
LEMMA RestoreStep ==
  ASSUME TypeOK, OwnInv, LockedInv, RestoreInv, [Next]_vars
  PROVE  RestoreInv'
  <1>0. JobTypes /\ DiskTypes /\ SyncTypes
    BY DEF TypeOK
  <1>1. CASE Quiet
    <2>1. CASE s3' = s3
      BY <1>1, <2>1 DEF Quiet, Moves, RestoreInv, ArchivesMatch, RestoreAt, In,
         BackupsBelongTogether, Found, EmptyDataset, Placed, Outer
    <2>2. CASE ManualIndexBackup
      <3>1. ArchivesMatch'
        BY <2>2, ManualWrites DEF ManualIndexBackup, IndexMatchesInventory, RestoreInv,
           ArchivesMatch, Backups
      <3>2. sync' = sync /\ disk' = disk /\ pc' = pc /\ stage' = stage
        BY <2>2 DEF ManualIndexBackup, jobVars
      <3> QED
        BY <2>2, <3>1, <3>2, NoManualDuringRestore DEF RestoreInv, RestoreAt, In
    <2> QED
      BY <1>1, <2>1, <2>2 DEF Quiet
  <1>2. ASSUME NEW r \in Runs, WorksAlone(r) PROVE RestoreInv'
    <2>1. \A q \in Runs \ {r} : RestoreAt(q)'
      BY <1>2 DEF WorksAlone, RestoreAt, In, WorkLabels
    <2>2. CASE Restore(r)
      <3>1. stage[r] = "restore" /\ stage'[r] = "restore" /\ s3' = s3
        BY <1>2, <2>2 DEF WorksAlone, Restore, ResetState, SkipNotEmpty, SkipNoBackup,
           CheckBackups, Download, Place, VerifyRestored, At, Writes, OnlyMoves, dataVars
      <3>2. BackupsBelongTogether' <=> BackupsBelongTogether
        BY <3>1 DEF BackupsBelongTogether, Found
      <3>3. CASE Place(r)
        <4>1. BackupsBelongTogether /\ Placed
          BY <3>1, <3>3 DEF Place, At, RestoreInv, RestoreAt, In
        <4>2. Placed'
          BY <1>0, <3>1, <3>3, <4>1 DEF Place, Writes, DiskTypes, Placed
        <4>3. pc'[r] = "place"
          BY <1>0, <3>3 DEF Place, Writes, GoTo, JobTypes
        <4> QED
          BY <2>1, <3>1, <3>2, <4>1, <4>2, <4>3 DEF RestoreInv, ArchivesMatch, RestoreAt, In
      <3>4. CASE ResetState(r) \/ SkipNotEmpty(r) \/ SkipNoBackup(r) \/ VerifyRestored(r)
        <4>1. pc'[r] \notin {"discard", "download", "place"}
          BY <1>0, <3>4 DEF ResetState, SkipNotEmpty, SkipNoBackup, VerifyRestored, GoTo, Require,
             Raise, JobTypes
        <4> QED
          BY <2>1, <3>1, <4>1 DEF RestoreInv, ArchivesMatch, RestoreAt, In
      <3>5. CASE CheckBackups(r)
        <4>1. /\ disk' = disk
              /\ \/ pc'[r] = "finally"
                 \/ pc'[r] = "discard" /\ BackupsBelongTogether
                 \/ pc'[r] = "download" /\ BackupsBelongTogether /\ ~DatasetPresent
          BY <1>0, <3>5 DEF CheckBackups, GoTo, Require, Raise, OnlyMoves, dataVars, JobTypes
        <4> QED
          BY <2>1, <3>1, <3>2, <4>1
             DEF RestoreInv, ArchivesMatch, RestoreAt, In, DatasetPresent, EmptyDataset
      <3>6. CASE Download(r)
        <4>1. /\ disk' = disk /\ pc[r] = "download"
              /\ \/ pc'[r] = "finally"
                 \/ pc'[r] = "place" /\ \A b \in Backups : s3[b].intact
          BY <1>0, <3>6 DEF Download, At, GoTo, Require, Raise, OnlyMoves, dataVars, JobTypes
        <4> QED
          BY <2>1, <3>1, <3>2, <4>1
             DEF RestoreInv, ArchivesMatch, RestoreAt, In, EmptyDataset, Placed
      <3> QED
        BY <2>2, <3>3, <3>4, <3>5, <3>6 DEF Restore
    <2>3. CASE Discard(r)
      <3>1. /\ stage[r] \in {"restore", "clear"} /\ stage'[r] = stage[r] /\ pc[r] = "discard"
            /\ s3' = s3 /\ pc'[r] \in {"discard", "download", "complete"}
        BY <1>0, <1>2, <2>3 DEF Discard, Writes, GoTo, LockedInv, LockedAt, WorksAlone, JobTypes
      <3>2. pc'[r] = "download" => EmptyDataset'
        BY <1>0, <2>3 DEF Discard, Writes, GoTo, JobTypes, DiskTypes, EmptyDataset
      <3>3. BackupsBelongTogether' <=> BackupsBelongTogether
        BY <3>1 DEF BackupsBelongTogether, Found
      <3> QED
        BY <2>1, <3>1, <3>2, <3>3 DEF RestoreInv, ArchivesMatch, RestoreAt, In
    <2>4. CASE Producer(r) \/ Blocksci(r) \/ Clear(r)
      <3>1. stage[r] \in {"producer", "blocksci", "clear"} /\ s3' = s3
        BY <2>4 DEF Producer, RequireCompleteDataset, Prepare, SynchronizeCore, ScanDumplings,
           ArchiveBlocks, WriteReady, WriteCurrentReady, Blocksci, CheckBeforeParse, MarkWriting,
           StartParser, ParserEnds, PublishIndex, UnmarkWriting, Clear, At, Writes, OnlyMoves, dataVars
      <3> QED
        BY <1>2, <2>1, <3>1 DEF WorksAlone, RestoreInv, ArchivesMatch, RestoreAt, In
    <2>5. CASE Checkpoint(r)
      <3>1. stage[r] = "checkpoint" /\ stage'[r] = "checkpoint" /\ sync' = sync
        BY <1>2, <2>5, CheckpointWrites DEF WorksAlone
      <3>2. ASSUME NEW b \in Backups, Drops(r, b) PROVE RestoreInv'
        <4>1. ArchivesMatch'
          BY <3>2 DEF Drops, NoBackup, RestoreInv, ArchivesMatch
        <4>2. RestoreAt(r)'
          BY <3>1, <3>2 DEF Drops, Dropping, Uploading, Backups, RestoreInv, RestoreAt, In
        <4> QED
          BY <2>1, <4>1, <4>2 DEF RestoreInv
      <3>3. ASSUME NEW b \in Backups, Uploads(r, b) PROVE RestoreInv'
        <4>1. Copied[b] = sync.ready.height
          BY <3>1, <3>3 DEF Uploads, Uploading, Copied, Backups, RestoreInv, RestoreAt, In
        <4>2. ArchivesMatch'
          BY <3>3, <4>1 DEF Uploads, RestoreInv, ArchivesMatch
        <4>3. pc'[r] \in {"drop-dumplings", "prune", "complete"}
          BY <3>3 DEF Uploads, Uploaded, Backups
        <4> QED
          BY <2>1, <3>1, <4>2, <4>3 DEF RestoreInv, RestoreAt, In
      <3>4. CASE s3' = s3 /\ disk' = disk /\ pc'[r] = "finally"
        BY <2>1, <3>1, <3>4 DEF RestoreInv, ArchivesMatch, RestoreAt, In
      <3>5. CASE s3' = s3 /\ disk' = disk /\ CheckBeforeBackup(r)
        <4>1. pc'[r] = "finally" \/ (pc'[r] = "drop-index" /\ disk.parsed = sync.ready.height)
          BY <1>0, <3>5 DEF CheckBeforeBackup, Require, Raise, GoTo, IndexMatchesInventory, JobTypes
        <4> QED
          BY <2>1, <3>1, <3>5, <4>1 DEF RestoreInv, ArchivesMatch, RestoreAt, In
      <3>6. CASE s3' = s3 /\ pc'[r] = "drop-core" /\ disk.core = sync.ready.height
                 /\ disk' = [disk EXCEPT !.full = FALSE]
        <4>1. disk'.core = disk.core
          BY <1>0, <3>6 DEF DiskTypes
        <4> QED
          BY <2>1, <3>1, <3>6, <4>1 DEF RestoreInv, ArchivesMatch, RestoreAt, In
      <3> QED
        BY <2>5, <3>2, <3>3, <3>4, <3>5, <3>6, CheckpointWrites
    <2> QED
      BY <1>2, <2>2, <2>3, <2>4, <2>5 DEF WorksAlone, DataWork
  <1> QED
    BY <1>1, <1>2, StepKinds

\* What restore has downloaded is of one generation in every reachable state.
LEMMA RestoreInvariant == Spec => []RestoreInv
  <1>1. Init => RestoreInv
    <2> SUFFICES ASSUME Init PROVE RestoreInv
      OBVIOUS
    <2>1. \A r \in Runs : RestoreAt(r)
      BY InitJobs DEF RestoreAt, In
    <2>2. PICK last \in MaybeRun, d \in {EmptyDisk, SyncedDisk} : InitAfter(last, d)
      BY SyncAssumption DEF Init, MaybeRun
    <2> QED
      BY <2>1, <2>2 DEF RestoreInv, ArchivesMatch, InitAfter, NoBackup, SyncedBackup
  <1> QED
    BY <1>1, RestoreStep, LockedInvariant, OwnInvariant, SyncTypeCorrect, PTL DEF Spec

\* A dataset that restore assembled is one generation, whatever other runs and
\* manual index backups do meanwhile.
THEOREM RestoredIsOneGeneration == Spec => []RestoredTogether
  <1>1. RestoreInv => RestoredTogether
    BY DEF RestoreInv, ArchivesMatch, RestoreAt, Placed, In, BackupsBelongTogether, At,
       RestoredTogether, Backups
  <1> QED
    BY <1>1, RestoreInvariant, PTL

-----------------------------------------------------------------------------
(***************************************************************************)
(* restore.json: the run that found no data anywhere.                      *)
(***************************************************************************)
NoDataset == disk.core = 0 /\ disk.scan = 0 /\ disk.config = 0 /\ ~disk.archive

\* Where a run can be before its producer has archived anything.
ToArchive(r) ==
    \/ stage[r] = "restore"
    \/ In(r, "producer", {"queued", "index", "acquire", "own", "require", "prepare", "sync",
                          "scan", "archive"})
Downloading(r) == In(r, "producer", {"scan", "archive"})

FreshAt(r) ==
    /\ In(r, "restore", {"look", "discard", "download", "place"}) => sync.fresh = NoRun
    /\ In(r, "producer", {"prepare", "sync", "scan", "archive", "ready", "current"}) =>
        disk.core # 0 \/ sync.fresh = r
    /\ sync.fresh = r /\ ToArchive(r) => ~archived /\ (Downloading(r) \/ NoDataset)
FreshInv == \A r \in Runs : FreshAt(r)

\* A quiet step takes no job back before its archiving.
LEMMA QuietArchiving ==
  ASSUME JobTypes, Quiet, NEW q \in Runs, ToArchive(q)'
  PROVE  ToArchive(q) /\ (Downloading(q) => Downloading(q)')
  <1>1. Moves(q) /\ stage[q] \in Stages
    BY DEF Quiet, JobTypes
  <1>2. CASE stage'[q] = stage[q] /\ ~(pc[q] = "cleanup" /\ pc'[q] = "queued")
    BY <1>1, <1>2 DEF Moves, ToArchive, Downloading, In, Starting, Outer
  <1>3. CASE pc[q] = "cleanup" /\ pc'[q] = "queued" /\ stage'[q] = NextStage(stage[q])
    <2>1. stage'[q] \in {"restore", "producer"} => stage[q] = "restore"
      BY <1>1, <1>3 DEF NextStage, Stages
    <2> QED
      BY <1>3, <2>1 DEF ToArchive, Downloading, In
  <1>4. CASE stage'[q] = stage[q] /\ pc[q] = "cleanup" /\ pc'[q] = "queued"
    BY <1>1, <1>4 DEF Moves, NextStage, Stages, ToArchive, Downloading, In, Starting
  <1> QED
    BY <1>1, <1>2, <1>3, <1>4 DEF Moves

\* No other run's work disturbs what the run named in restore.json found.
LEMMA FreshUndisturbed ==
  ASSUME TypeOK, OwnInv, LockedInv, GenerationInv, FreshInv, NEW r \in Runs, WorksAlone(r),
         NEW q \in Runs \ {r}, sync.fresh = q, sync'.fresh = q, ToArchive(q)
  PROVE  ~archived' /\ NoDataset'
  <1>0. JobTypes /\ DiskTypes /\ SyncTypes
    BY DEF TypeOK
  <1>1. ~archived /\ NoDataset
    BY DEF WorksAlone, FreshInv, FreshAt, Downloading, In, WorkLabels
  <1>2. CASE Restore(r)
    <2>1. ResetState(r) \/ In(r, "restore", {"look", "download", "place"})
      BY <1>2 DEF Restore, SkipNotEmpty, SkipNoBackup, CheckBackups, Download, Place,
         VerifyRestored, At, In
    <2>2. ~ResetState(r)
      BY SyncAssumption DEF ResetState
    <2> QED
      BY <2>1, <2>2, SyncAssumption DEF FreshInv, FreshAt, In
  <1>3. CASE Discard(r)
    <2>1. archived' = archived
      BY <1>3 DEF Discard, Writes
    <2>2. disk'.core = 0 /\ disk'.scan = 0 /\ disk'.config = 0 /\ ~disk'.archive
      BY <1>0, <1>1, <1>3 DEF Discard, Writes, DiskTypes, NoDataset
    <2> QED
      BY <1>1, <2>1, <2>2 DEF NoDataset
  <1>4. CASE Producer(r)
    <2>1. \/ RequireCompleteDataset(r)
          \/ In(r, "producer", {"prepare", "sync", "scan", "archive", "ready", "current"})
      BY <1>4 DEF Producer, Prepare, SynchronizeCore, ScanDumplings, ArchiveBlocks, WriteReady,
         WriteCurrentReady, At, In
    <2> QED
      <3>1. CASE RequireCompleteDataset(r)
        BY <1>1, <3>1 DEF RequireCompleteDataset, OnlyMoves, dataVars, NoDataset
      <3>2. CASE In(r, "producer", {"prepare", "sync", "scan", "archive", "ready", "current"})
        BY <1>1, <3>2 DEF FreshInv, FreshAt, NoDataset
      <3> QED
        BY <2>1, <3>1, <3>2
  <1>5. CASE Blocksci(r)
    <2>1. CheckBeforeParse(r) \/ In(r, "blocksci", Indexing)
      BY <1>5 DEF Blocksci, MarkWriting, StartParser, ParserEnds, PublishIndex, UnmarkWriting, At,
         In, Indexing
    <2> QED
      <3>1. CASE CheckBeforeParse(r)
        BY <1>1, <3>1 DEF CheckBeforeParse, OnlyMoves, dataVars, NoDataset
      <3>2. CASE In(r, "blocksci", Indexing)
        BY <1>1, <3>2 DEF GenerationInv, GenerationAt, OwnData, NoDataset
      <3> QED
        BY <2>1, <3>1, <3>2
  <1>6. CASE Checkpoint(r)
    <2>1. CheckBeforeBackup(r) \/ In(r, "checkpoint", Made)
      BY <1>6 DEF Checkpoint, BackupIndex, PublishDumplings, Prune, BackupCore, At, In, Made
    <2> QED
      <3>1. CASE CheckBeforeBackup(r)
        BY <1>1, <3>1 DEF CheckBeforeBackup, OnlyMoves, dataVars, NoDataset
      <3>2. CASE In(r, "checkpoint", Made)
        BY <1>1, <3>2 DEF GenerationInv, GenerationAt, OwnData, NoDataset
      <3> QED
        BY <2>1, <3>1, <3>2
  <1>7. CASE Clear(r)
    BY <1>1, <1>7 DEF Clear, dataVars, NoDataset
  <1> QED
    BY <1>2, <1>3, <1>4, <1>5, <1>6, <1>7 DEF WorksAlone, DataWork

\* Every step keeps a first synchronization on an empty archive.
LEMMA FreshStep ==
  ASSUME TypeOK, OwnInv, LockedInv, GenerationInv, FreshInv, [Next]_vars
  PROVE  FreshInv'
  <1>0. JobTypes /\ DiskTypes /\ SyncTypes
    BY DEF TypeOK
  <1>1. CASE Quiet
    <2> SUFFICES ASSUME NEW q \in Runs PROVE FreshAt(q)'
      BY DEF FreshInv
    <2>1. sync'.fresh = q /\ ToArchive(q)' => ~archived' /\ (Downloading(q)' \/ NoDataset')
      BY <1>0, <1>1, QuietArchiving DEF Quiet, FreshInv, FreshAt, NoDataset
    <2>2. Moves(q) /\ disk' = disk /\ sync'.fresh = sync.fresh /\ FreshAt(q)
      BY <1>1 DEF Quiet, FreshInv
    <2> QED
      BY <2>1, <2>2 DEF Moves, FreshAt, In, Outer
  <1>2. ASSUME NEW r \in Runs, WorksAlone(r) PROVE FreshInv'
    <2>0. stage'[r] = stage[r]
      BY <1>2 DEF WorksAlone
    <2>1. ASSUME NEW q \in Runs \ {r} PROVE FreshAt(q)'
      <3>1. pc'[q] = pc[q] /\ stage'[q] = stage[q] /\ (stage[q] = "pack" \/ pc[q] \notin WorkLabels)
        BY <1>2 DEF WorksAlone
      <3>2. sync'.fresh = q => sync.fresh = q
        <4>1. sync'.fresh = sync.fresh \/ sync'.fresh \in {NoRun, r}
          BY <1>0, <1>2, SyncMoves DEF SyncTypes
        <4> QED
          BY <4>1, SyncAssumption
      <3>3. sync'.fresh = q /\ ToArchive(q)' => ~archived' /\ NoDataset'
        <4>1. ToArchive(q)' => ToArchive(q)
          BY <3>1 DEF ToArchive, In
        <4> QED
          BY <1>2, <3>2, <4>1, FreshUndisturbed
      <3> QED
        BY <3>1, <3>3 DEF FreshAt, In, WorkLabels
    <2>2. CASE Restore(r)
      <3>1. stage[r] = "restore"
        BY <2>2 DEF Restore, ResetState, SkipNotEmpty, SkipNoBackup, CheckBackups, Download,
           Place, VerifyRestored, At
      <3>2. CASE ResetState(r)
        BY <2>0, <2>1, <3>1, <3>2, SyncAssumption DEF ResetState, FreshInv, FreshAt, In
      <3>3. CASE ~ResetState(r)
        <4>1. sync.fresh = NoRun
          BY <2>2, <3>3 DEF Restore, SkipNotEmpty, SkipNoBackup, CheckBackups, Download, Place,
             VerifyRestored, At, FreshInv, FreshAt, In
        <4>2. CASE SkipNoBackup(r) /\ pc'[r] = "complete"
          <5>1. ~archived /\ ~DatasetPresent /\ disk' = disk /\ archived' = archived
            BY <1>0, <4>2 DEF SkipNoBackup, Require, Raise, GoTo, JobTypes
          <5> QED
            BY <2>0, <2>1, <3>1, <4>2, <5>1
               DEF FreshInv, FreshAt, ToArchive, Downloading, In, DatasetPresent, NoDataset
        <4>3. CASE ~(SkipNoBackup(r) /\ pc'[r] = "complete")
          <5>1. sync' = sync
            BY <1>0, <2>2, <3>3, <4>3 DEF Restore, SkipNotEmpty, SkipNoBackup, CheckBackups,
               Download, Place, VerifyRestored, Writes, OnlyMoves, dataVars, Require, Raise, GoTo,
               JobTypes
          <5> QED
            BY <2>0, <2>1, <3>1, <4>1, <5>1, SyncAssumption DEF FreshInv, FreshAt, In
        <4> QED
          BY <4>2, <4>3
      <3> QED
        BY <3>2, <3>3
    <2>3. CASE Discard(r)
      <3>1. stage[r] \in {"restore", "clear"} /\ pc[r] = "discard" /\ sync' = sync
        BY <2>3 DEF Discard, Writes, LockedInv, LockedAt
      <3> QED
        BY <2>0, <2>1, <3>1, SyncAssumption DEF FreshInv, FreshAt, ToArchive, In
    <2>4. CASE Producer(r)
      <3>1. stage[r] = "producer" /\ sync'.fresh = sync.fresh
        BY <1>0, <2>4 DEF Producer, RequireCompleteDataset, Prepare, SynchronizeCore, ScanDumplings,
           ArchiveBlocks, WriteReady, WriteCurrentReady, At, Writes, OnlyMoves, dataVars, SyncTypes
      <3>2. CASE RequireCompleteDataset(r)
        <4>1. /\ disk' = disk /\ archived' = archived /\ pc[r] = "require"
              /\ \/ pc'[r] = "finally"
                 \/ pc'[r] = "prepare" /\ (disk.core # 0 \/ sync.fresh = r)
          BY <1>0, <3>2 DEF RequireCompleteDataset, At, Require, Raise, GoTo, OnlyMoves, dataVars,
             DatasetComplete, UnfinishedFirst, JobTypes
        <4> QED
          BY <2>0, <2>1, <3>1, <4>1 DEF FreshInv, FreshAt, ToArchive, Downloading, In, NoDataset
      <3>3. CASE Prepare(r)
        <4>1. /\ disk'.core = disk.core /\ disk'.scan = disk.scan /\ disk'.config = disk.config
              /\ disk'.archive = disk.archive /\ archived' = archived
              /\ pc[r] = "prepare" /\ pc'[r] = "sync"
          BY <1>0, <3>3 DEF Prepare, At, Writes, GoTo, JobTypes, DiskTypes
        <4> QED
          BY <2>0, <2>1, <3>1, <4>1 DEF FreshInv, FreshAt, ToArchive, Downloading, In, NoDataset
      <3>4. CASE SynchronizeCore(r)
        <4>1. disk'.core # 0 /\ archived' = archived /\ pc[r] = "sync" /\ pc'[r] = "scan"
          BY <1>0, <3>4, TornIsNoHeight DEF SynchronizeCore, At, Writes, GoTo, JobTypes, DiskTypes
        <4> QED
          BY <2>0, <2>1, <3>1, <4>1 DEF FreshInv, FreshAt, ToArchive, Downloading, In
      <3>5. CASE ScanDumplings(r)
        <4>1. disk'.core = disk.core /\ archived' = archived /\ pc[r] = "scan" /\ pc'[r] = "archive"
          BY <1>0, <3>5 DEF ScanDumplings, At, Writes, GoTo, JobTypes, DiskTypes
        <4> QED
          BY <2>0, <2>1, <3>1, <4>1 DEF FreshInv, FreshAt, ToArchive, Downloading, In
      <3>6. CASE ArchiveBlocks(r) \/ WriteReady(r) \/ WriteCurrentReady(r)
        <4>1. /\ disk'.core = disk.core /\ pc[r] \in {"archive", "ready", "current"}
              /\ pc'[r] \in {"ready", "current", "complete"}
          BY <1>0, <3>6 DEF ArchiveBlocks, WriteReady, WriteCurrentReady, At, Writes, GoTo, JobTypes,
             DiskTypes
        <4> QED
          BY <2>0, <2>1, <3>1, <4>1 DEF FreshInv, FreshAt, ToArchive, In
      <3> QED
        BY <2>4, <3>2, <3>3, <3>4, <3>5, <3>6 DEF Producer
    <2>5. CASE Blocksci(r) \/ Checkpoint(r) \/ Clear(r)
      <3>1. stage[r] \in {"blocksci", "checkpoint", "clear"}
        BY <2>5 DEF Blocksci, CheckBeforeParse, MarkWriting, StartParser, ParserEnds, PublishIndex,
           UnmarkWriting, Checkpoint, CheckBeforeBackup, BackupIndex, PublishDumplings, Prune,
           BackupCore, Clear, At
      <3> QED
        BY <2>0, <2>1, <3>1 DEF FreshInv, FreshAt, ToArchive, In
    <2> QED
      BY <1>2, <2>2, <2>3, <2>4, <2>5 DEF WorksAlone, DataWork
  <1> QED
    BY <1>1, <1>2, StepKinds

\* A first synchronization finds an empty archive in every reachable state.
LEMMA FreshInvariant == Spec => []FreshInv
  <1>1. Init => FreshInv
    <2> SUFFICES ASSUME Init, NEW r \in Runs PROVE FreshAt(r)
      BY DEF FreshInv
    <2>1. PICK last \in MaybeRun, d \in {EmptyDisk, SyncedDisk} : InitAfter(last, d)
      BY SyncAssumption DEF Init, MaybeRun
    <2>2. sync.fresh = r => r = last
      BY <2>1 DEF InitAfter
    <2>3. r = last => stage[r] \in {"clear", "pack"}
      BY <2>1 DEF InitAfter
    <2>4. pc[r] \in {"queued", "over"}
      BY InitJobs
    <2> QED
      BY <2>2, <2>3, <2>4 DEF FreshAt, ToArchive, In
  <1> QED
    BY <1>1, FreshStep, GenerationInvariant, LockedInvariant, OwnInvariant, SyncTypeCorrect, PTL DEF Spec

\* A producer starts an initial block download only while S3 holds no archived
\* block, however long its job waited in the queue.
THEOREM FreshArchiveIsEmpty == Spec => []FreshOnlyOnEmptyArchive
  <1>1. FreshInv => FreshOnlyOnEmptyArchive
    BY DEF FreshInv, FreshAt, ToArchive, Downloading, In, At, FreshOnlyOnEmptyArchive
  <1> QED
    BY <1>1, FreshInvariant, PTL

-----------------------------------------------------------------------------
(***************************************************************************)
(* What one fault can lose.                                                *)
(***************************************************************************)
\* Every generation, backup and published index comes after an archived block;
\* before the first one, Core still has every block.
ArchiveInv ==
    /\ sync.ready # NoGeneration \/ Found # {} \/ disk.config \in Heights => archived
    /\ \A r \in Runs : In(r, "producer", {"ready", "current"}) => archived
    /\ ~archived /\ disk.core # 0 => disk.full

\* done.json names a run whose checkpoint job is past its work.
Leaving == {"finally", "cleanup", "handler", "exit", "over"}
DoneInv ==
    \A r \in Runs : sync.done = r => stage[r] \in {"pack", "clear"} \/ In(r, "checkpoint", Leaving)

\* A generation of a run's own is there, so its blocks are archived.
LEMMA OwnDataArchived ==
  ASSUME ArchiveInv, NEW r \in Runs, OwnData(r)
  PROVE  /\ archived /\ sync.ready # NoGeneration
         /\ sync.ready.run = r /\ sync.ready.height = disk.core /\ disk.current.run = r
  <1>1. sync.ready.run = r /\ sync.ready.height = disk.core /\ disk.current.run = r
    BY DEF OwnData
  <1>2. NoGeneration.run = NoRun
    BY DEF NoGeneration
  <1>3. sync.ready # NoGeneration
    BY <1>1, <1>2, SyncAssumption
  <1> QED
    BY <1>1, <1>3 DEF ArchiveInv

\* Every step keeps the archive as the jobs expect it.
LEMMA ArchiveStep ==
  ASSUME TypeOK, OwnInv, LockedInv, GenerationInv, RestoreInv, ArchiveInv, [Next]_vars
  PROVE  ArchiveInv'
  <1>0. JobTypes /\ DiskTypes /\ SyncTypes
    BY DEF TypeOK
  <1>1. CASE Quiet
    <2>1. ManualIndexBackup => disk.config \in Heights
      BY DEF ManualIndexBackup, IndexMatchesInventory
    <2>2. sync'.ready # NoGeneration \/ Found' # {} \/ disk'.config \in Heights => archived'
      <3>1. CASE s3' = s3
        BY <1>1, <3>1 DEF Quiet, ArchiveInv, Found
      <3>2. CASE ManualIndexBackup
        BY <1>1, <2>1, <3>2 DEF Quiet, ArchiveInv
      <3> QED
        BY <1>1, <3>1, <3>2 DEF Quiet
    <2>3. \A r \in Runs : In(r, "producer", {"ready", "current"})' => archived'
      BY <1>1 DEF Quiet, Moves, ArchiveInv, In, Outer
    <2> QED
      BY <1>1, <2>2, <2>3 DEF Quiet, ArchiveInv
  <1>2. ASSUME NEW r \in Runs, WorksAlone(r) PROVE ArchiveInv'
    <2>0. stage'[r] = stage[r]
      BY <1>2 DEF WorksAlone
    <2>1. \A q \in Runs \ {r} : ~In(q, "producer", {"ready", "current"})'
      BY <1>2 DEF WorksAlone, In, WorkLabels
    <2>2. CASE Restore(r)
      <3>0. /\ stage[r] = "restore" /\ s3' = s3 /\ archived' = archived
            /\ \/ sync' = [ready |-> NoGeneration, done |-> NoRun, fresh |-> NoRun]
               \/ sync' = [sync EXCEPT !.fresh = r]
               \/ sync' = sync
        BY <2>2 DEF Restore, ResetState, SkipNotEmpty, SkipNoBackup, CheckBackups, Download,
           Place, VerifyRestored, At, Writes, OnlyMoves, dataVars
      <3>1. /\ stage[r] = "restore" /\ s3' = s3 /\ archived' = archived
            /\ sync'.ready \in {sync.ready, NoGeneration}
        BY <1>0, <3>0 DEF SyncTypes
      <3>2. CASE Place(r)
        <4>1. BackupsBelongTogether
          BY <3>1, <3>2 DEF Place, At, RestoreInv, RestoreAt, In
        <4>2. archived
          BY <4>1 DEF BackupsBelongTogether, Backups, ArchiveInv
        <4> QED
          BY <2>0, <2>1, <3>1, <4>2 DEF ArchiveInv, In
      <3>3. CASE ~Place(r)
        <4>1. disk' = disk
          BY <2>2, <3>3 DEF Restore, ResetState, SkipNotEmpty, SkipNoBackup, CheckBackups,
             Download, VerifyRestored, OnlyMoves, dataVars
        <4> QED
          BY <2>0, <2>1, <3>1, <4>1 DEF ArchiveInv, Found, In
      <3> QED
        BY <3>2, <3>3
    <2>3. CASE Discard(r)
      <3>1. /\ stage[r] \in {"restore", "clear"} /\ s3' = s3 /\ archived' = archived /\ sync' = sync
        BY <2>3 DEF Discard, Writes, LockedInv, LockedAt
      <3>2. /\ disk'.config \in {0, disk.config}
            /\ disk'.core # 0 => disk'.core = disk.core /\ disk'.full = disk.full
        BY <1>0, <2>3 DEF Discard, Writes, DiskTypes
      <3> QED
        BY <2>0, <2>1, <3>1, <3>2, TornIsNoHeight DEF ArchiveInv, Found, In
    <2>4. CASE Producer(r)
      <3>1. stage[r] = "producer" /\ s3' = s3 /\ disk'.config = disk.config
        BY <1>0, <2>4 DEF Producer, RequireCompleteDataset, Prepare, SynchronizeCore, ScanDumplings,
           ArchiveBlocks, WriteReady, WriteCurrentReady, At, Writes, OnlyMoves, dataVars, DiskTypes
      <3>2. CASE ArchiveBlocks(r) \/ WriteReady(r) \/ WriteCurrentReady(r)
        <4>1. archived'
          BY <3>1, <3>2 DEF ArchiveBlocks, WriteReady, WriteCurrentReady, Writes, At, ArchiveInv, In
        <4> QED
          BY <4>1 DEF ArchiveInv
      <3>3. CASE SynchronizeCore(r)
        <4>1. /\ pc'[r] = "scan" /\ archived' = archived /\ sync' = sync
              /\ disk'.full = (disk.full \/ disk.core = 0)
          BY <1>0, <3>3 DEF SynchronizeCore, Writes, GoTo, JobTypes, DiskTypes
        <4> QED
          BY <2>0, <2>1, <3>1, <4>1 DEF ArchiveInv, Found, In
      <3>4. CASE RequireCompleteDataset(r) \/ Prepare(r) \/ ScanDumplings(r)
        <4>1. /\ pc'[r] \in {"finally", "prepare", "sync", "archive"} /\ archived' = archived
              /\ sync' = sync /\ disk'.full = disk.full /\ disk'.core = disk.core
          BY <1>0, <3>4 DEF RequireCompleteDataset, Prepare, ScanDumplings, Writes, Require, Raise,
             GoTo, OnlyMoves, dataVars, JobTypes, DiskTypes
        <4> QED
          BY <2>0, <2>1, <3>1, <4>1 DEF ArchiveInv, Found, In
      <3> QED
        BY <2>4, <3>2, <3>3, <3>4 DEF Producer
    <2>5. CASE Blocksci(r)
      <3>1. /\ stage[r] = "blocksci" /\ s3' = s3 /\ archived' = archived /\ sync' = sync
            /\ disk'.full = disk.full /\ disk'.core = disk.core
        BY <1>0, <2>5 DEF Blocksci, CheckBeforeParse, MarkWriting, StartParser, ParserEnds,
           PublishIndex, UnmarkWriting, At, Writes, OnlyMoves, dataVars, DiskTypes
      <3>2. CASE PublishIndex(r)
        <4>1. archived
          BY <3>1, <3>2, OwnDataArchived DEF PublishIndex, At, GenerationInv, GenerationAt, In,
             Indexing
        <4> QED
          BY <3>1, <4>1 DEF ArchiveInv
      <3>3. CASE ~PublishIndex(r)
        <4>1. disk'.config \in {Torn, disk.config}
          BY <1>0, <2>5, <3>3 DEF Blocksci, CheckBeforeParse, MarkWriting, StartParser, ParserEnds,
             UnmarkWriting, Writes, OnlyMoves, dataVars, DiskTypes
        <4> QED
          BY <2>0, <2>1, <3>1, <4>1, TornIsNoHeight DEF ArchiveInv, Found, In
      <3> QED
        BY <3>2, <3>3
    <2>6. CASE Checkpoint(r)
      <3>1. stage[r] = "checkpoint" /\ archived' = archived /\ sync' = sync
        BY <2>6, CheckpointWrites
      <3>2. CASE CheckBeforeBackup(r)
        BY <2>0, <2>1, <3>1, <3>2 DEF CheckBeforeBackup, OnlyMoves, dataVars, ArchiveInv, Found, In
      <3>3. CASE ~CheckBeforeBackup(r)
        <4>1. In(r, "checkpoint", Made)
          BY <2>6, <3>3 DEF Checkpoint, BackupIndex, PublishDumplings, Prune, BackupCore, At, In, Made
        <4>2. archived
          BY <4>1, OwnDataArchived DEF GenerationInv, GenerationAt
        <4> QED
          BY <3>1, <4>2 DEF ArchiveInv
      <3> QED
        BY <3>2, <3>3
    <2>7. CASE Clear(r)
      BY <2>0, <2>1, <2>7 DEF Clear, At, dataVars, ArchiveInv, Found, In
    <2> QED
      BY <1>2, <2>2, <2>3, <2>4, <2>5, <2>6, <2>7 DEF WorksAlone, DataWork
  <1> QED
    BY <1>1, <1>2, StepKinds

\* The archive is as the jobs expect it in every reachable state.
LEMMA ArchiveInvariant == Spec => []ArchiveInv
  <1>1. Init => ArchiveInv
    <2> SUFFICES ASSUME Init PROVE ArchiveInv
      OBVIOUS
    <2>1. PICK last \in MaybeRun, d \in {EmptyDisk, SyncedDisk} :
            InitAfter(last, d) /\ (last = NoRun => d = EmptyDisk)
      BY SyncAssumption DEF Init, MaybeRun
    <2>2. \A r \in Runs : ~In(r, "producer", {"ready", "current"})
      BY InitJobs DEF In
    <2>3. archived = (last # NoRun)
      BY <2>1, Zenon DEF InitAfter
    <2>4. CASE last = NoRun
      <3>1. sync.ready = NoGeneration /\ disk.config = 0 /\ disk.core = 0
        BY <2>1, <2>4 DEF InitAfter, EmptyDisk
      <3>2. Found = {}
        BY <2>1, <2>4 DEF InitAfter, NoBackup, Found
      <3> QED
        BY <2>2, <3>1, <3>2, TornIsNoHeight DEF ArchiveInv
    <2>5. CASE last # NoRun
      BY <2>3, <2>5 DEF ArchiveInv
    <2> QED
      BY <2>4, <2>5
  <1> QED
    BY <1>1, ArchiveStep, RestoreInvariant, GenerationInvariant, LockedInvariant, OwnInvariant,
       SyncTypeCorrect, PTL DEF Spec

\* Every step keeps done.json to the last run.
LEMMA DoneStep ==
  ASSUME TypeOK, OwnInv, LockedInv, DoneInv, [Next]_vars
  PROVE  DoneInv'
  <1>0. JobTypes /\ SyncTypes
    BY DEF TypeOK
  <1>1. CASE Quiet
    <2> SUFFICES ASSUME NEW r \in Runs, sync'.done = r
                 PROVE  stage'[r] \in {"pack", "clear"} \/ In(r, "checkpoint", Leaving)'
      BY DEF DoneInv
    <2>1. CASE sync.done = r
      <3>1. stage[r] \in {"pack", "clear"} \/ In(r, "checkpoint", Leaving)
        BY <2>1 DEF DoneInv
      <3>2. Moves(r) /\ stage[r] \in Stages
        BY <1>0, <1>1 DEF Quiet, JobTypes
      <3> QED
        BY <3>1, <3>2 DEF Moves, NextStage, In, Leaving, Outer, Starting
    <2>2. CASE sync.done # r
      BY <1>1, <2>2 DEF Quiet, LockedInv, LockedAt, In, Leaving
    <2> QED
      BY <2>1, <2>2
  <1>2. ASSUME NEW r \in Runs, WorksAlone(r) PROVE DoneInv'
    <2>1. sync'.done \in {sync.done, NoRun}
      <3>1. \/ sync' = [ready |-> NoGeneration, done |-> NoRun, fresh |-> NoRun]
            \/ \E x \in Generations : sync' = [sync EXCEPT !.ready = x]
            \/ sync' = [sync EXCEPT !.fresh = r]
            \/ sync' = sync
        BY <1>2, SyncMoves
      <3> QED
        BY <1>0, <3>1 DEF SyncTypes
    <2>2. \A q \in Runs : stage'[q] = stage[q] /\ (q # r => pc'[q] = pc[q])
      BY <1>2 DEF WorksAlone
    <2>3. pc[r] \notin Leaving
      BY <1>2 DEF WorksAlone, WorkLabels, Leaving
    <2> QED
      BY <2>1, <2>2, <2>3, SyncAssumption DEF DoneInv, In
  <1> QED
    BY <1>1, <1>2, StepKinds

\* done.json names at most the last run in every reachable state.
LEMMA DoneInvariant == Spec => []DoneInv
  <1>1. Init => DoneInv
    <2> SUFFICES ASSUME Init, NEW r \in Runs, sync.done = r PROVE stage[r] \in {"pack", "clear"}
      BY DEF DoneInv
    <2>1. PICK last \in MaybeRun, d \in {EmptyDisk, SyncedDisk} : InitAfter(last, d)
      BY SyncAssumption DEF Init, MaybeRun
    <2> QED
      BY <2>1 DEF InitAfter
  <1> QED
    BY <1>1, DoneStep, LockedInvariant, OwnInvariant, SyncTypeCorrect, PTL DEF Spec

\* At most one fault so far, and neither of the excluded executions.
Mild == faults <= 1 /\ ~foreignClear /\ manual = 0

\* Three ways for the data to be there: in S3 (Restorable), all blocks in Core,
\* or a complete indexed dataset.
Full == disk.core # 0 /\ disk.full
Good == DatasetComplete /\ IndexMatchesInventory /\ ~disk.writing

\* Backup b is r's own, whole, and of its generation.
Backed(r, b) ==
    s3[b] = [run |-> r, height |-> sync.ready.height, data |-> sync.ready.height,
             intact |-> TRUE, members |-> TRUE]

\* What the jobs at work rely on and leave behind.
ProducedAt(r) ==
    /\ In(r, "producer", {"archive", "ready", "current"}) => disk.scan = disk.core
    /\ In(r, "producer", {"ready", "current"}) => disk.archive
IndexedAt(r) ==
    /\ In(r, "blocksci", Indexing) => disk.scan = disk.core /\ disk.archive
    /\ In(r, "blocksci", {"publish", "unmark"}) => disk.parsed = disk.core
    /\ In(r, "blocksci", {"unmark"}) => disk.config = disk.core
    /\ In(r, "blocksci", {"complete"}) => Good
BackedUpAt(r) ==
    /\ In(r, "checkpoint", Made) => Good /\ disk.scan = disk.core /\ disk.parsed = disk.core
    /\ In(r, "checkpoint", {"drop-dumplings", "up-dumplings", "prune", "drop-core", "up-core"}) =>
        Backed(r, "index")
    /\ In(r, "checkpoint", {"prune", "drop-core", "up-core"}) => Backed(r, "dumplings")
    /\ In(r, "checkpoint", {"complete"}) => Restorable
DiscardedAt(r) ==
    /\ In(r, "clear", {"discard"}) => disk.current.run \in {r, NoRun}
    /\ pc[r] = "discard" => Restorable
WorkAt(r) == ProducedAt(r) /\ IndexedAt(r) /\ BackedUpAt(r) /\ DiscardedAt(r)

\* A finished checkpoint stays restorable as long as the dataset is its run's.
FinishedAt(r) ==
    /\ In(r, "checkpoint", {"donefile"}) /\ disk.current.run = r => Restorable
    /\ sync.done = r /\ disk.current.run = r => Restorable

\* While r's generation is the current one, Core, the scan and the archive
\* state are there at its height.
WholeAt(r) ==
    disk.current = sync.ready /\ sync.ready.run = r /\ stage[r] # "clear" =>
        disk.core = sync.ready.height /\ disk.scan = disk.core /\ disk.archive

ManifestsHold ==
    \A b \in Backups : s3[b].run # NoRun =>
        /\ s3[b].members
        /\ s3[b].intact \/ (faults = 1 /\ \E r \in Runs : In(r, "checkpoint", {Uploading[b]}))

\* Without a fault, the data are in S3 or all in Core, but for a checkpoint job
\* at work; after one, a dataset that blocksci left or is extending may be all.
KeptFaultless ==
    archived /\ faults = 0 => Restorable \/ Full \/ \E r \in Runs : In(r, "checkpoint", Made)
KeptAfterOne ==
    archived => Restorable \/ Full \/ Good
                \/ \E r \in Runs : In(r, "blocksci", Indexing \cup {"complete"})

Kept ==
    /\ \A r \in Runs : WorkAt(r) /\ FinishedAt(r) /\ WholeAt(r)
    /\ ManifestsHold /\ KeptFaultless /\ KeptAfterOne
LossInv == Mild => Kept

\* Everything the proof of LossInv rests on.
Basis ==
    /\ TypeOK /\ OwnInv /\ LockedInv /\ GenerationInv /\ RestoreInv /\ ArchiveInv /\ DoneInv
    /\ faults \in Nat /\ Mild /\ Kept

\* An excluded execution stays excluded.
LEMMA MildBefore ==
  ASSUME TypeOK, [Next]_vars, Mild'
  PROVE  Mild /\ ~ManualIndexBackup /\ faults \in Nat /\ faults' \in Nat /\ faults <= faults'
  <1>0. faults \in Nat /\ manual \in Nat
    BY SyncAssumption DEF TypeOK, OtherTypes
  <1>1. faults' \in {faults, faults + 1} /\ manual' \in {manual, manual + 1}
        /\ (foreignClear => foreignClear') /\ (ManualIndexBackup => manual' = manual + 1)
    <2>1. CASE ManualIndexBackup
      BY <2>1 DEF ManualIndexBackup, histVars
    <2>2. ASSUME NEW r \in Runs, Frame(r) PROVE faults' = faults /\ manual' = manual /\ foreignClear' = foreignClear
      BY <2>2 DEF Frame, Start, Dropped, LockIndex, AcquireDataset, WriteOwner, Complete,
         WriteDoneFile, UnlockIndex, Quiesce, FailedHandler, JobExits, IndexEntryExpires, histVars
    <2>3. ASSUME NEW r \in Runs, Fault(r) PROVE faults' = faults + 1 /\ manual' = manual /\ foreignClear' = foreignClear
      BY <2>3 DEF Fault, Interrupted, WorkerKilled, NodeLost, histVars
    <2>4. ASSUME NEW r \in Runs, WorkStep(r)
          PROVE  faults' \in {faults, faults + 1} /\ manual' = manual /\ (foreignClear => foreignClear')
      <3>1. CASE Clear(r)
        <4>1. faults' = faults /\ manual' = manual
          BY <3>1 DEF Clear
        <4>2. foreignClear => foreignClear'
          BY <3>1, Zenon DEF Clear
        <4> QED
          BY <4>1, <4>2
      <3>2. ASSUME ~Clear(r)
            PROVE  (faults' = faults \/ faults' = faults + 1) /\ manual' = manual /\ foreignClear' = foreignClear
        BY <2>4, <3>2 DEF WorkStep, Restore, ResetState, SkipNotEmpty, SkipNoBackup, CheckBackups,
           Download, Place, VerifyRestored, Discard, Producer, RequireCompleteDataset, Prepare,
           SynchronizeCore, ScanDumplings, ArchiveBlocks, WriteReady, WriteCurrentReady, Blocksci,
           CheckBeforeParse, MarkWriting, StartParser, ParserEnds, PublishIndex, UnmarkWriting,
           Checkpoint, CheckBeforeBackup, BackupIndex, PublishDumplings, Prune, BackupCore,
           DropBackup, UploadBackup, Pack, Writes, OnlyMoves, histVars
      <3>3. CASE ~Clear(r)
        BY <3>2, <3>3
      <3> QED
        BY <3>1, <3>3
    <2>5. CASE UNCHANGED vars
      BY <2>5 DEF vars, histVars, ManualIndexBackup
    <2>6. ManualIndexBackup \/ UNCHANGED vars \/ \E r \in Runs : Frame(r) \/ Fault(r) \/ WorkStep(r)
      BY DEF Next, WorkStep
    <2>7. (\E r \in Runs : Frame(r) \/ Fault(r) \/ WorkStep(r)) /\ manual' = manual => ~ManualIndexBackup
      BY <1>0 DEF ManualIndexBackup
    <2> QED
      BY <2>1, <2>2, <2>3, <2>4, <2>5, <2>6, <2>7
  <1> QED
    BY <1>0, <1>1 DEF Mild

\* A quiet step loses nothing.
LEMMA LossQuiet ==
  ASSUME Basis, Mild', Quiet, ~ManualIndexBackup, faults <= faults', faults' \in Nat
  PROVE  Kept'
  <1>0. /\ disk' = disk /\ archived' = archived /\ s3' = s3 /\ sync'.ready = sync.ready
        /\ Kept /\ faults \in Nat /\ faults' \in Nat /\ faults' <= 1
    BY DEF Quiet, Basis, Mild
  <1>1. (Restorable' <=> Restorable) /\ (Full' <=> Full) /\ (Good' <=> Good)
    BY <1>0 DEF Restorable, BackupsBelongTogether, Found, Full, Good, DatasetComplete,
       IndexMatchesInventory
  <1>2. ASSUME NEW r \in Runs PROVE WorkAt(r)' /\ FinishedAt(r)' /\ WholeAt(r)'
    <2>1. Moves(r) /\ WorkAt(r) /\ FinishedAt(r) /\ WholeAt(r) /\ stage[r] \in Stages
      BY <1>0 DEF Quiet, Kept, Basis, TypeOK, JobTypes
    <2>2. ProducedAt(r)' /\ IndexedAt(r)' /\ DiscardedAt(r)'
      <3>1. ProducedAt(r)'
        BY <1>0, <2>1 DEF Moves, WorkAt, ProducedAt, In, Outer
      <3>2. IndexedAt(r)'
        BY <1>0, <1>1, <2>1 DEF Moves, WorkAt, IndexedAt, In, Outer, Indexing
      <3>3. pc'[r] = "discard" => Restorable
        <4>1. CASE pc'[r] = pc[r]
          BY <2>1, <4>1 DEF WorkAt, DiscardedAt
        <4>2. CASE pc'[r] # pc[r]
          BY <2>1, <4>2 DEF Moves, Outer
        <4> QED
          BY <4>1, <4>2
      <3>4. DiscardedAt(r)'
        BY <1>0, <1>1, <2>1, <3>3 DEF Moves, WorkAt, DiscardedAt, In, Outer
      <3> QED
        BY <3>1, <3>2, <3>4
    <2>3. BackedUpAt(r)'
      BY <1>0, <1>1, <2>1 DEF Moves, WorkAt, BackedUpAt, Backed, In, Outer, Made
    <2>4. FinishedAt(r)'
      <3>1. In(r, "checkpoint", {"donefile"})' /\ disk.current.run = r => Restorable
        BY <2>1 DEF Moves, WorkAt, BackedUpAt, FinishedAt, In, Outer
      <3>2. sync'.done = r /\ disk.current.run = r => Restorable
        BY <2>1 DEF Quiet, Basis, LockedInv, LockedAt, FinishedAt, In
      <3> QED
        BY <1>0, <1>1, <3>1, <3>2 DEF FinishedAt
    <2>5. WholeAt(r)'
      BY <1>0, <2>1 DEF Moves, NextStage, WholeAt
    <2> QED
      BY <2>2, <2>3, <2>4, <2>5 DEF WorkAt
  <1>3. \A r \in Runs : pc[r] \in WorkLabels \ {"complete"} /\ stage[r] # "pack" =>
            stage'[r] = stage[r] /\ (pc'[r] = pc[r] \/ faults' = faults + 1)
    BY DEF Quiet, Moves, WorkLabels
  <1>4. ManifestsHold'
    <2> SUFFICES ASSUME NEW b \in Backups, s3[b].run # NoRun, ~s3[b].intact
                 PROVE  faults' = 1 /\ \E r \in Runs : In(r, "checkpoint", {Uploading[b]})'
      BY <1>0 DEF ManifestsHold, Kept
    <2>1. PICK r \in Runs : faults = 1 /\ In(r, "checkpoint", {Uploading[b]})
      BY <1>0 DEF ManifestsHold, Kept
    <2>2. faults' = 1 /\ pc[r] \in WorkLabels \ {"complete"} /\ stage[r] # "pack"
      BY <1>0, <2>1 DEF In, Uploading, WorkLabels, Backups
    <2> QED
      BY <1>3, <2>1, <2>2 DEF In
  <1>5. KeptFaultless'
    <2> SUFFICES ASSUME archived, faults' = 0
                 PROVE  Restorable \/ Full \/ \E r \in Runs : In(r, "checkpoint", Made)'
      BY <1>0, <1>1 DEF KeptFaultless
    <2>1. faults = 0
      BY <1>0
    <2>2. CASE \E r \in Runs : In(r, "checkpoint", Made)
      <3>1. PICK r \in Runs : In(r, "checkpoint", Made)
        BY <2>2
      <3>2. pc[r] \in WorkLabels \ {"complete"} /\ stage[r] # "pack"
        BY <3>1 DEF In, Made, WorkLabels
      <3> QED
        BY <1>3, <2>1, <3>1, <3>2 DEF In
    <2> QED
      BY <1>0, <2>1, <2>2 DEF Kept, KeptFaultless
  <1>6. KeptAfterOne'
    <2> SUFFICES ASSUME archived, ~Restorable, ~Full, ~Good
                 PROVE  \E r \in Runs : In(r, "blocksci", Indexing \cup {"complete"})'
      BY <1>0, <1>1 DEF KeptAfterOne
    <2>1. PICK r \in Runs : In(r, "blocksci", Indexing \cup {"complete"})
      BY <1>0 DEF Kept, KeptAfterOne
    <2>2. In(r, "blocksci", Indexing)
      BY <1>0, <2>1 DEF Kept, WorkAt, IndexedAt, In
    <2>3. pc[r] \in WorkLabels \ {"complete"} /\ stage[r] # "pack"
      BY <2>2 DEF In, Indexing, WorkLabels
    <2>4. ~\E q \in Runs : In(q, "checkpoint", Made)
      <3> SUFFICES ASSUME NEW q \in Runs, In(q, "checkpoint", Made) PROVE FALSE
        OBVIOUS
      <3>1. AtWork(q) /\ AtWork(r) /\ q # r
        BY <2>2, <2>3, AtWorkLabels DEF In, Made, WorkLabels, Basis, OwnInv
      <3> QED
        BY <3>1 DEF Basis, OwnInv, WorkOwnsDataset
    <2>5. faults # 0
      BY <1>0, <2>4 DEF Kept, KeptFaultless
    <2> QED
      BY <1>0, <1>3, <2>2, <2>3, <2>5 DEF In
  <1> QED
    BY <1>2, <1>4, <1>5, <1>6 DEF Kept

\* While r works, nothing is claimed of the other jobs' work.
LEMMA OthersIdle ==
  ASSUME Basis, NEW r \in Runs, WorksAlone(r), NEW q \in Runs \ {r}
  PROVE  /\ WorkAt(q)'
         /\ \A b \in Backups : ~In(q, "checkpoint", {Uploading[b]})
         /\ ~In(q, "checkpoint", Made) /\ ~In(q, "blocksci", Indexing \cup {"complete"})
  <1>1. stage'[q] = stage[q] /\ pc'[q] = pc[q] /\ (stage[q] = "pack" \/ pc[q] \notin WorkLabels)
    BY DEF WorksAlone
  <1>2. pc[q] # "discard"
    BY <1>1 DEF Basis, LockedInv, LockedAt, WorkLabels
  <1>3. WorkAt(q)'
    BY <1>1, <1>2 DEF WorkAt, ProducedAt, IndexedAt, BackedUpAt, DiscardedAt, In, WorkLabels,
       Indexing, Made
  <1>4. \A b \in Backups : Uploading[b] \in WorkLabels
    BY DEF Uploading, Backups, WorkLabels
  <1> QED
    BY <1>1, <1>3, <1>4 DEF In, Made, Indexing, WorkLabels

\* restore loses nothing: it fills only what is missing, and discards only what
\* S3 can rebuild.
LEMMA LossRestore ==
  ASSUME Basis, Mild', NEW r \in Runs, WorksAlone(r), Restore(r)
  PROVE  Kept'
  <1>0. JobTypes /\ DiskTypes /\ SyncTypes /\ Kept
    BY DEF Basis, TypeOK
  <1>1. /\ stage[r] = "restore" /\ stage'[r] = "restore" /\ s3' = s3 /\ archived' = archived
        /\ faults' = faults
    BY DEF WorksAlone, Restore, ResetState, SkipNotEmpty, SkipNoBackup, CheckBackups, Download,
       Place, VerifyRestored, At, Writes, OnlyMoves, dataVars
  <1>2. (Restorable' <=> Restorable) /\ (BackupsBelongTogether' <=> BackupsBelongTogether)
    BY <1>1 DEF Restorable, BackupsBelongTogether, Found
  <1>3. ManifestsHold' /\ \A b \in Backups : s3[b].run # NoRun => s3[b].members /\ s3[b].intact
    <2>1. \A b \in Backups : s3[b].run # NoRun => s3[b].members /\ s3[b].intact
      BY <1>0, <1>1, OthersIdle DEF Kept, ManifestsHold, In
    <2> QED
      BY <1>1, <2>1 DEF ManifestsHold
  <1>4. disk'.current = disk.current /\ (disk' = disk \/ Place(r))
    BY <1>0 DEF Restore, ResetState, SkipNotEmpty, SkipNoBackup, CheckBackups, Download,
       Place, VerifyRestored, Writes, OnlyMoves, dataVars, DiskTypes
  <1>5. ResetState(r) \/ sync.ready = NoGeneration
    BY <1>1 DEF Restore, SkipNotEmpty, SkipNoBackup, CheckBackups, Download, Place,
       VerifyRestored, At, Basis, GenerationInv, GenerationAt, In
  <1>6. sync'.ready = NoGeneration /\ sync'.done \in {sync.done, NoRun}
    <2>1. CASE ResetState(r)
      BY <2>1 DEF ResetState
    <2>2. CASE ~ResetState(r)
      BY <1>0, <1>5, <2>2 DEF Restore, SkipNotEmpty, SkipNoBackup, CheckBackups, Download,
         Place, VerifyRestored, Writes, OnlyMoves, dataVars, SyncTypes
    <2> QED
      BY <2>1, <2>2
  <1>7. \A q \in Runs : FinishedAt(q)' /\ WholeAt(q)'
    <2> SUFFICES ASSUME NEW q \in Runs PROVE FinishedAt(q)' /\ WholeAt(q)'
      OBVIOUS
    <2>1. WholeAt(q)'
      BY <1>6, SyncAssumption DEF WholeAt, NoGeneration
    <2>2. FinishedAt(q) /\ stage'[q] = stage[q] /\ (q # r => pc'[q] = pc[q])
      BY <1>0 DEF Kept, WorksAlone
    <2> QED
      BY <1>1, <1>2, <1>4, <1>6, <2>1, <2>2, SyncAssumption DEF FinishedAt, In
  <1>8. WorkAt(r)'
    <2>1. CASE pc'[r] = "discard"
      <3>1. CheckBackups(r)
        BY <1>0, <2>1 DEF Restore, ResetState, SkipNotEmpty, SkipNoBackup, CheckBackups, Download,
           Place, VerifyRestored, At, Writes, Require, Raise, GoTo, JobTypes
      <3>2. BackupsBelongTogether
        BY <1>0, <2>1, <3>1 DEF CheckBackups, Require, Raise, GoTo, JobTypes
      <3>3. Restorable
        BY <1>3, <3>2 DEF Restorable, BackupsBelongTogether, Found, Backups
      <3> QED
        BY <1>1, <1>2, <3>3 DEF WorkAt, ProducedAt, IndexedAt, BackedUpAt, DiscardedAt, In
    <2>2. CASE pc'[r] # "discard"
      BY <1>1, <2>2 DEF WorkAt, ProducedAt, IndexedAt, BackedUpAt, DiscardedAt, In
    <2> QED
      BY <2>1, <2>2
  <1>9. (Full => Full') /\ (Good => Good')
    <2>1. CASE disk' = disk
      BY <2>1 DEF Full, Good, DatasetComplete, IndexMatchesInventory
    <2>2. CASE Place(r)
      <3>1. Full => Full'
        BY <1>0, <2>2 DEF Place, Writes, Full, DiskTypes
      <3>2. ~Good
        BY <2>2, TornIsNoHeight DEF Place, Good, DatasetComplete, IndexMatchesInventory
      <3> QED
        BY <3>1, <3>2
    <2> QED
      BY <1>4, <2>1, <2>2
  <1>10. KeptFaultless' /\ KeptAfterOne'
    <2>1. archived /\ faults = 0 => Restorable \/ Full
      BY <1>0, <1>1, OthersIdle DEF Kept, KeptFaultless, In
    <2>2. archived => Restorable \/ Full \/ Good
      BY <1>0, <1>1, OthersIdle DEF Kept, KeptAfterOne, In
    <2> QED
      BY <1>1, <1>2, <1>9, <2>1, <2>2 DEF KeptFaultless, KeptAfterOne
  <1> QED
    BY <1>3, <1>7, <1>8, <1>10, OthersIdle DEF Kept

\* discard_dataset runs only while S3 can rebuild everything.
LEMMA LossDiscard ==
  ASSUME Basis, Mild', NEW r \in Runs, WorksAlone(r), Discard(r)
  PROVE  Kept'
  <1>0. JobTypes /\ DiskTypes /\ SyncTypes /\ Kept
    BY DEF Basis, TypeOK
  <1>1. /\ stage[r] \in {"restore", "clear"} /\ stage'[r] = stage[r] /\ pc[r] = "discard"
        /\ s3' = s3 /\ archived' = archived /\ sync' = sync /\ faults' = faults
    BY DEF Basis, LockedInv, LockedAt, WorksAlone, Discard, Writes
  <1>2. Restorable
    BY <1>0, <1>1 DEF Kept, WorkAt, DiscardedAt
  <1>3. Restorable'
    BY <1>1, <1>2 DEF Restorable, BackupsBelongTogether, Found
  <1>4. ManifestsHold'
    BY <1>1, <1>3 DEF Restorable, ManifestsHold
  <1>5. disk'.current \in {disk.current, NoGeneration}
    BY <1>0 DEF Discard, Writes, DiskTypes
  <1>6. \A q \in Runs : FinishedAt(q)'
    BY <1>3 DEF FinishedAt
  <1>7. \A q \in Runs : WholeAt(q)'
    <2> SUFFICES ASSUME NEW q \in Runs, disk'.current = sync.ready, sync.ready.run = q,
                        stage[q] # "clear"
                 PROVE  FALSE
      BY <1>1 DEF WholeAt, WorksAlone
    <2>1. CASE stage[r] = "restore"
      <3>1. sync.ready = NoGeneration
        BY <1>1, <2>1 DEF Basis, GenerationInv, GenerationAt, In
      <3> QED
        BY <3>1, SyncAssumption DEF NoGeneration
    <2>2. CASE stage[r] = "clear"
      <3>1. disk.current.run \in {r, NoRun}
        BY <1>0, <1>1, <2>2 DEF Kept, WorkAt, DiscardedAt, In
      <3>2. disk'.current.run \in {r, NoRun}
        BY <1>5, <3>1 DEF NoGeneration
      <3> QED
        BY <2>2, <3>2, SyncAssumption
    <2> QED
      BY <1>1, <2>1, <2>2
  <1>8. WorkAt(r)'
    <2>1. stage[r] = "clear" => disk'.current.run \in {r, NoRun}
      BY <1>0, <1>1, <1>5 DEF Kept, WorkAt, DiscardedAt, In, NoGeneration
    <2> QED
      BY <1>1, <1>3, <2>1 DEF WorkAt, ProducedAt, IndexedAt, BackedUpAt, DiscardedAt, In
  <1>9. KeptFaultless' /\ KeptAfterOne'
    BY <1>3 DEF KeptFaultless, KeptAfterOne
  <1> QED
    BY <1>4, <1>6, <1>7, <1>8, <1>9, OthersIdle DEF Kept

\* The producer disturbs no finished checkpoint and no other run's generation;
\* when it archives the first blocks, Core has them all.
LEMMA LossProducer ==
  ASSUME Basis, Mild', NEW r \in Runs, WorksAlone(r), Producer(r)
  PROVE  Kept'
  <1>0. JobTypes /\ DiskTypes /\ SyncTypes /\ Kept
    BY DEF Basis, TypeOK
  <1>1. /\ stage[r] = "producer" /\ stage'[r] = "producer" /\ s3' = s3 /\ faults' = faults
        /\ archived' = archived \/ (ArchiveBlocks(r) /\ archived')
    BY DEF WorksAlone, Producer, RequireCompleteDataset, Prepare, SynchronizeCore, ScanDumplings,
       ArchiveBlocks, WriteReady, WriteCurrentReady, At, Writes, OnlyMoves, dataVars
  <1>2. Restorable' <=> Restorable
    BY <1>1 DEF Restorable, BackupsBelongTogether, Found
  <1>3. ManifestsHold'
    BY <1>0, <1>1, OthersIdle DEF Kept, ManifestsHold, In
  <1>4. /\ sync'.done = sync.done /\ sync.done # r
        /\ disk'.config = disk.config /\ disk'.parsed = disk.parsed /\ disk'.writing = disk.writing
    <2>1. sync.done # r
      BY <1>1 DEF Basis, DoneInv, In
    <2> QED
      BY <1>0, <2>1 DEF Producer, RequireCompleteDataset, Prepare, SynchronizeCore, ScanDumplings,
         ArchiveBlocks, WriteReady, WriteCurrentReady, Writes, OnlyMoves, dataVars, DiskTypes, SyncTypes
  <1>5. GenerationAt(r) /\ ProducedAt(r)
    BY <1>0 DEF Basis, GenerationInv, Kept, WorkAt
  <1>6. disk'.current = disk.current \/ disk'.current.run = r
    <2>1. CASE WriteCurrentReady(r)
      <3>1. disk'.current = sync.ready
        BY <1>0, <2>1 DEF WriteCurrentReady, Writes, DiskTypes
      <3>2. sync.ready.run = r
        BY <1>1, <1>5, <2>1 DEF WriteCurrentReady, At, GenerationAt, In
      <3> QED
        BY <3>1, <3>2
    <2>2. CASE Prepare(r)
      <3>1. disk'.current = [run |-> r, height |-> 0]
        BY <1>0, <2>2 DEF Prepare, Writes, DiskTypes
      <3> QED
        BY <3>1
    <2>3. CASE ~WriteCurrentReady(r) /\ ~Prepare(r)
      BY <1>0, <2>3 DEF Producer, RequireCompleteDataset, SynchronizeCore, ScanDumplings,
         ArchiveBlocks, WriteReady, Writes, OnlyMoves, dataVars, DiskTypes
    <2> QED
      BY <2>1, <2>2, <2>3
  <1>7. \A q \in Runs : FinishedAt(q)'
    <2> SUFFICES ASSUME NEW q \in Runs PROVE FinishedAt(q)'
      OBVIOUS
    <2>1. CASE q = r
      BY <1>1, <1>4, <2>1 DEF FinishedAt, In
    <2>2. CASE q # r
      <3>1. FinishedAt(q) /\ stage'[q] = stage[q] /\ pc'[q] = pc[q]
        BY <1>0, <2>2 DEF Kept, WorksAlone
      <3>2. disk'.current.run = q => disk.current.run = q
        BY <1>6, <2>2
      <3> QED
        BY <1>2, <1>4, <3>1, <3>2 DEF FinishedAt, In
    <2> QED
      BY <2>1, <2>2
  <1>8. \A q \in Runs : WholeAt(q)'
    <2> SUFFICES ASSUME NEW q \in Runs, disk'.current = sync'.ready, sync'.ready.run = q
                 PROVE  WholeAt(q)'
      BY DEF WholeAt
    <2>1. CASE RequireCompleteDataset(r)
      <3>1. disk' = disk /\ sync' = sync /\ stage' = stage /\ WholeAt(q)
        BY <1>0, <2>1 DEF RequireCompleteDataset, OnlyMoves, dataVars, Kept
      <3> QED
        BY <3>1 DEF WholeAt
    <2>2. CASE WriteCurrentReady(r)
      <3>1. /\ sync' = sync /\ disk'.core = disk.core /\ disk'.scan = disk.scan
            /\ disk'.archive = disk.archive
        BY <1>0, <2>2 DEF WriteCurrentReady, Writes, DiskTypes
      <3>2. sync.ready.height = disk.core /\ disk.scan = disk.core /\ disk.archive
        BY <1>1, <1>5, <2>2 DEF WriteCurrentReady, At, GenerationAt, ProducedAt, In
      <3> QED
        BY <3>1, <3>2 DEF WholeAt
    <2>3. CASE WriteReady(r)
      <3>1. sync'.ready.height = disk.core /\ disk' = disk
        BY <1>0, <2>3 DEF WriteReady, SyncTypes
      <3>2. disk.core # 0 /\ disk.current.height = 0
        BY <1>1, <1>5, <2>3 DEF WriteReady, At, GenerationAt, In
      <3> QED
        BY <3>1, <3>2
    <2>4. CASE Prepare(r) \/ SynchronizeCore(r) \/ ScanDumplings(r) \/ ArchiveBlocks(r)
      <3>1. sync' = sync /\ (disk'.current = disk.current \/ Prepare(r))
        BY <1>0, <2>4 DEF Prepare, SynchronizeCore, ScanDumplings, ArchiveBlocks, Writes, DiskTypes
      <3>2. disk'.current.height = 0
        <4>1. CASE Prepare(r)
          <5>1. disk'.current = [run |-> r, height |-> 0]
            BY <1>0, <4>1 DEF Prepare, Writes, DiskTypes
          <5> QED
            BY <5>1
        <4>2. CASE ~Prepare(r)
          <5>1. disk.current = [run |-> r, height |-> 0]
            BY <1>1, <1>5, <2>4, <4>2 DEF SynchronizeCore, ScanDumplings, ArchiveBlocks, At,
               GenerationAt, In
          <5> QED
            BY <3>1, <4>2, <5>1
        <4> QED
          BY <4>1, <4>2
      <3>3. sync.ready # NoGeneration
        BY <3>1, SyncAssumption DEF NoGeneration
      <3> QED
        BY <3>1, <3>2, <3>3 DEF Basis, GenerationInv
    <2> QED
      BY <2>1, <2>2, <2>3, <2>4 DEF Producer
  <1>9. WorkAt(r)'
    <2>1. ProducedAt(r)'
      <3>1. CASE ScanDumplings(r)
        <4>1. disk'.scan = disk'.core /\ pc'[r] = "archive"
          BY <1>0, <3>1 DEF ScanDumplings, Writes, GoTo, JobTypes, DiskTypes
        <4> QED
          BY <4>1 DEF ProducedAt, In
      <3>2. CASE ArchiveBlocks(r) \/ WriteReady(r) \/ WriteCurrentReady(r)
        <4>1. /\ pc[r] \in {"archive", "ready", "current"}
              /\ disk'.scan = disk.scan /\ disk'.core = disk.core
              /\ disk'.archive = disk.archive \/ disk'.archive
              /\ pc[r] = "archive" => disk'.archive
          BY <1>0, <3>2 DEF ArchiveBlocks, WriteReady, WriteCurrentReady, At, Writes, DiskTypes
        <4> QED
          BY <1>1, <1>5, <4>1 DEF ProducedAt, In
      <3>3. CASE RequireCompleteDataset(r) \/ Prepare(r) \/ SynchronizeCore(r)
        <4>1. pc'[r] \in {"finally", "prepare", "sync", "scan"}
          BY <1>0, <3>3 DEF RequireCompleteDataset, Prepare, SynchronizeCore, Require, Raise,
             Writes, GoTo, JobTypes
        <4> QED
          BY <4>1 DEF ProducedAt, In
      <3> QED
        BY <3>1, <3>2, <3>3 DEF Producer
    <2>2. pc'[r] # "discard"
      BY <1>0 DEF Producer, RequireCompleteDataset, Prepare, SynchronizeCore, ScanDumplings,
         ArchiveBlocks, WriteReady, WriteCurrentReady, Writes, Require, Raise, GoTo, JobTypes
    <2> QED
      BY <1>1, <2>1, <2>2 DEF WorkAt, IndexedAt, BackedUpAt, DiscardedAt, In
  <1>10. (Full => Full') /\ (Good => Good')
    <2>1. CASE SynchronizeCore(r)
      <3>1. /\ disk'.core # 0 /\ disk'.full = (disk.full \/ disk.core = 0)
            /\ disk'.scan = disk.scan /\ disk'.archive = disk.archive
        BY <1>0, <2>1, TornIsNoHeight DEF SynchronizeCore, Writes, DiskTypes
      <3> QED
        BY <1>4, <3>1 DEF Full, Good, DatasetComplete, IndexMatchesInventory
    <2>2. CASE ScanDumplings(r)
      <3>1. /\ disk'.core = disk.core /\ disk'.full = disk.full /\ disk'.scan = disk.core
            /\ disk'.archive = disk.archive
        BY <1>0, <2>2 DEF ScanDumplings, Writes, DiskTypes
      <3> QED
        BY <1>4, <3>1 DEF Full, Good, DatasetComplete, IndexMatchesInventory
    <2>3. CASE ~SynchronizeCore(r) /\ ~ScanDumplings(r)
      <3>1. /\ disk'.core = disk.core /\ disk'.full = disk.full /\ disk'.scan = disk.scan
            /\ disk.archive => disk'.archive
        BY <1>0, <2>3 DEF Producer, RequireCompleteDataset, Prepare, ArchiveBlocks, WriteReady,
           WriteCurrentReady, Writes, OnlyMoves, dataVars, DiskTypes
      <3> QED
        BY <1>4, <3>1 DEF Full, Good, DatasetComplete, IndexMatchesInventory
    <2> QED
      BY <2>1, <2>2, <2>3
  <1>11. KeptFaultless' /\ KeptAfterOne'
    <2>1. archived /\ faults = 0 => Restorable \/ Full
      BY <1>0, <1>1, OthersIdle DEF Kept, KeptFaultless, In
    <2>2. archived => Restorable \/ Full \/ Good
      BY <1>0, <1>1, OthersIdle DEF Kept, KeptAfterOne, In
    <2>3. ArchiveBlocks(r) => archived \/ Full
      BY <1>1, <1>5 DEF ArchiveBlocks, At, GenerationAt, In, Basis, ArchiveInv, Full
    <2> QED
      BY <1>1, <1>2, <1>10, <2>1, <2>2, <2>3 DEF KeptFaultless, KeptAfterOne
  <1> QED
    BY <1>3, <1>7, <1>8, <1>9, <1>11, OthersIdle DEF Kept

\* blocksci works on the generation of its own run and leaves a whole index.
LEMMA LossBlocksci ==
  ASSUME Basis, Mild', NEW r \in Runs, WorksAlone(r), Blocksci(r)
  PROVE  Kept'
  <1>0. JobTypes /\ DiskTypes /\ SyncTypes /\ Kept
    BY DEF Basis, TypeOK
  <1>1. /\ stage[r] = "blocksci" /\ stage'[r] = "blocksci" /\ s3' = s3 /\ faults' = faults
        /\ archived' = archived /\ sync' = sync
    BY DEF WorksAlone, Blocksci, CheckBeforeParse, MarkWriting, StartParser, ParserEnds,
       PublishIndex, UnmarkWriting, At, Writes, OnlyMoves, dataVars
  <1>2. Restorable' <=> Restorable
    BY <1>1 DEF Restorable, BackupsBelongTogether, Found
  <1>3. ManifestsHold'
    BY <1>0, <1>1, OthersIdle DEF Kept, ManifestsHold, In
  <1>4. /\ disk'.core = disk.core /\ disk'.full = disk.full /\ disk'.scan = disk.scan
        /\ disk'.archive = disk.archive /\ disk'.current = disk.current
    BY <1>0 DEF Blocksci, CheckBeforeParse, MarkWriting, StartParser, ParserEnds, PublishIndex,
       UnmarkWriting, Writes, OnlyMoves, dataVars, DiskTypes
  <1>5. \A q \in Runs : FinishedAt(q)' /\ WholeAt(q)'
    <2> SUFFICES ASSUME NEW q \in Runs PROVE FinishedAt(q)' /\ WholeAt(q)'
      OBVIOUS
    <2>1. FinishedAt(q) /\ WholeAt(q) /\ stage'[q] = stage[q] /\ (q # r => pc'[q] = pc[q])
      BY <1>0 DEF Kept, WorksAlone
    <2> QED
      BY <1>1, <1>2, <1>4, <2>1 DEF FinishedAt, WholeAt, In
  <1>6. WorkAt(r)'
    <2>0. GenerationAt(r) /\ IndexedAt(r) /\ WholeAt(r)
      BY <1>0 DEF Basis, GenerationInv, Kept, WorkAt
    <2>1. IndexedAt(r)'
      <3>1. CASE CheckBeforeParse(r)
        <4>1. pc'[r] = "finally" \/ (pc'[r] = "mark" /\ OwnGeneration(r))
          BY <1>0, <3>1 DEF CheckBeforeParse, Require, Raise, GoTo, JobTypes
        <4>2. OwnGeneration(r) => disk.scan = disk.core /\ disk.archive
          BY <1>1, <2>0 DEF OwnGeneration, WholeAt
        <4> QED
          BY <1>4, <4>1, <4>2 DEF IndexedAt, In, Indexing
      <3>2. CASE MarkWriting(r) \/ StartParser(r)
        <4>1. pc[r] \in {"mark", "parse"} /\ pc'[r] \in {"parse", "parsing"}
          BY <1>0, <3>2 DEF MarkWriting, StartParser, At, Writes, GoTo, JobTypes
        <4> QED
          BY <1>1, <1>4, <2>0, <4>1 DEF IndexedAt, In, Indexing
      <3>3. CASE ParserEnds(r)
        <4>1. pc[r] = "parsing" /\ pc'[r] = "publish" /\ disk'.parsed = disk.core
          BY <1>0, <3>3 DEF ParserEnds, At, Writes, GoTo, JobTypes, DiskTypes
        <4> QED
          BY <1>1, <1>4, <2>0, <4>1 DEF IndexedAt, In, Indexing
      <3>4. CASE PublishIndex(r)
        <4>1. /\ pc[r] = "publish" /\ pc'[r] = "unmark" /\ disk'.parsed = disk.parsed
              /\ disk'.config = sync.ready.height
          BY <1>0, <3>4 DEF PublishIndex, At, Writes, GoTo, JobTypes, DiskTypes
        <4>2. sync.ready.height = disk.core
          BY <1>1, <2>0, <4>1 DEF GenerationAt, OwnData, In, Indexing
        <4> QED
          BY <1>1, <1>4, <2>0, <4>1, <4>2 DEF IndexedAt, In, Indexing
      <3>5. CASE UnmarkWriting(r)
        <4>1. /\ pc[r] = "unmark" /\ pc'[r] = "complete" /\ ~disk'.writing
              /\ disk'.config = disk.config /\ disk'.parsed = disk.parsed
          BY <1>0, <3>5 DEF UnmarkWriting, At, Writes, GoTo, JobTypes, DiskTypes
        <4>2. /\ disk.core # 0 /\ disk.scan = disk.core /\ disk.archive
              /\ disk.config = disk.core /\ disk.parsed = disk.core
          BY <1>1, <2>0, <4>1 DEF GenerationAt, OwnData, IndexedAt, In, Indexing
        <4>3. disk.core \in Heights
          BY <1>0, <4>2 DEF DiskTypes, Heights, Heights0
        <4>4. Good'
          BY <1>4, <4>1, <4>2, <4>3, TornIsNoHeight
             DEF Good, DatasetComplete, IndexMatchesInventory
        <4> QED
          BY <4>1, <4>4 DEF IndexedAt, In, Indexing
      <3> QED
        BY <3>1, <3>2, <3>3, <3>4, <3>5 DEF Blocksci
    <2>2. pc'[r] # "discard"
      BY <1>0 DEF Blocksci, CheckBeforeParse, MarkWriting, StartParser, ParserEnds, PublishIndex,
         UnmarkWriting, Writes, Require, Raise, GoTo, JobTypes
    <2> QED
      BY <1>1, <2>1, <2>2 DEF WorkAt, ProducedAt, BackedUpAt, DiscardedAt, In
  <1>7. KeptFaultless'
    <2>1. archived /\ faults = 0 => Restorable \/ Full
      BY <1>0, <1>1, OthersIdle DEF Kept, KeptFaultless, In
    <2> QED
      BY <1>1, <1>2, <1>4, <2>1 DEF KeptFaultless, Full
  <1>8. KeptAfterOne'
    <2>1. CASE CheckBeforeParse(r)
      <3>1. disk' = disk /\ pc[r] = "check"
        BY <2>1 DEF CheckBeforeParse, At, OnlyMoves, dataVars
      <3>2. archived => Restorable \/ Full \/ Good
        BY <1>0, <3>1, OthersIdle DEF Kept, KeptAfterOne, In, Indexing
      <3> QED
        BY <1>1, <1>2, <3>1, <3>2 DEF KeptAfterOne, Full, Good, DatasetComplete, IndexMatchesInventory
    <2>2. CASE ~CheckBeforeParse(r)
      <3>1. pc'[r] \in Indexing \cup {"complete"}
        BY <1>0, <2>2 DEF Blocksci, MarkWriting, StartParser, ParserEnds, PublishIndex,
           UnmarkWriting, Writes, GoTo, JobTypes, Indexing
      <3> QED
        BY <1>1, <3>1 DEF KeptAfterOne, In
    <2> QED
      BY <2>1, <2>2
  <1> QED
    BY <1>3, <1>5, <1>6, <1>7, <1>8, OthersIdle DEF Kept

\* The checkpoint job keeps a good dataset while it replaces the backups, and
\* leaves three that belong together.
LEMMA LossCheckpoint ==
  ASSUME Basis, Mild', NEW r \in Runs, WorksAlone(r), Checkpoint(r), faults' \in Nat
  PROVE  Kept'
  <1>0. JobTypes /\ DiskTypes /\ SyncTypes /\ Kept /\ faults \in Nat /\ faults' <= 1
    BY DEF Basis, TypeOK, Mild
  <1>1. /\ stage[r] = "checkpoint" /\ stage'[r] = "checkpoint" /\ sync' = sync
        /\ archived' = archived
        /\ disk'.core = disk.core /\ disk'.scan = disk.scan /\ disk'.archive = disk.archive
        /\ disk'.config = disk.config /\ disk'.parsed = disk.parsed
        /\ disk'.writing = disk.writing /\ disk'.current = disk.current
    BY <1>0, CheckpointWrites DEF Basis, WorksAlone, Drops, Uploads, DiskTypes
  <1>2. /\ GenerationAt(r) /\ BackedUpAt(r) /\ RestoreAt(r) /\ WholeAt(r) /\ sync.done # r
        /\ Good' <=> Good
    <2>1. GenerationAt(r) /\ BackedUpAt(r) /\ RestoreAt(r) /\ WholeAt(r)
      BY <1>0 DEF Basis, GenerationInv, RestoreInv, Kept, WorkAt
    <2>2. sync.done # r
      BY <1>1 DEF Basis, DoneInv, In, WorksAlone, Leaving, WorkLabels
    <2> QED
      BY <1>1, <2>1, <2>2 DEF Good, DatasetComplete, IndexMatchesInventory
  <1>3. \A q \in Runs : WholeAt(q)'
    <2> SUFFICES ASSUME NEW q \in Runs PROVE WholeAt(q)'
      OBVIOUS
    <2>1. WholeAt(q) /\ stage'[q] = stage[q]
      BY <1>0 DEF Kept, WorksAlone
    <2> QED
      BY <1>1, <2>1 DEF WholeAt
  <1>4. \A b \in Backups : s3[b].run # NoRun =>
          s3[b].members /\ (s3[b].intact \/ (faults = 1 /\ pc[r] = Uploading[b]))
    BY <1>0, OthersIdle DEF Kept, ManifestsHold, In
  <1>5. archived => Restorable \/ Full \/ Good
    BY <1>0, <1>1, OthersIdle DEF Kept, KeptAfterOne, In
  \* Backups of a generation of r's own: nobody else's finished checkpoint counts.
  <1>6. ASSUME OwnData(r) PROVE \A q \in Runs : FinishedAt(q)'
    <2>1. disk'.current.run = r /\ sync'.done # r
      BY <1>1, <1>2, <1>6, OwnDataArchived DEF Basis
    <2>2. pc'[r] # "donefile"
      BY DEF WorksAlone, WorkLabels
    <2> QED
      BY <2>1, <2>2 DEF FinishedAt, In
  <1>7. ASSUME s3' = s3 PROVE (Restorable' <=> Restorable) /\ \A q \in Runs : FinishedAt(q)'
    <2>1. Restorable' <=> Restorable
      BY <1>7 DEF Restorable, BackupsBelongTogether, Found
    <2>2. ASSUME NEW q \in Runs PROVE FinishedAt(q)'
      <3>1. FinishedAt(q) /\ stage'[q] = stage[q] /\ (q # r => pc'[q] = pc[q])
        BY <1>0 DEF Kept, WorksAlone
      <3>2. pc'[r] # "donefile"
        BY DEF WorksAlone, WorkLabels
      <3> QED
        BY <1>1, <2>1, <3>1, <3>2 DEF FinishedAt, In
    <2> QED
      BY <2>1, <2>2
  <1>8. ProducedAt(r)' /\ IndexedAt(r)' /\ DiscardedAt(r)'
    <2>1. pc'[r] # "discard"
      BY <1>0 DEF Checkpoint, CheckBeforeBackup, BackupIndex, PublishDumplings, Prune, BackupCore,
         DropBackup, UploadBackup, Require, Raise, GoTo, JobTypes
    <2> QED
      BY <1>1, <2>1 DEF ProducedAt, IndexedAt, DiscardedAt, In
  <1>9. ASSUME NEW b \in Backups, Drops(r, b) PROVE Kept'
    <2>1. pc[r] \in Made /\ pc'[r] = Uploading[b] /\ pc'[r] \in Made
      BY <1>9 DEF Drops, Dropping, Uploading, Made, Backups
    <2>2. OwnData(r) /\ Good /\ disk.scan = disk.core /\ disk.parsed = disk.core
      BY <1>1, <1>2, <2>1 DEF GenerationAt, BackedUpAt, In
    <2>3. BackedUpAt(r)'
      <3>1. /\ b \in {"dumplings", "core"} => Backed(r, "index")
            /\ b = "core" => Backed(r, "dumplings")
        BY <1>1, <1>2, <1>9 DEF Drops, Dropping, Backups, BackedUpAt, In
      <3>2. /\ b # "index" => (Backed(r, "index")' <=> Backed(r, "index"))
            /\ b # "dumplings" => (Backed(r, "dumplings")' <=> Backed(r, "dumplings"))
        BY <1>1, <1>9 DEF Drops, Backed, Backups
      <3> QED
        BY <1>1, <1>2, <2>1, <2>2, <3>1, <3>2 DEF BackedUpAt, In, Uploading, Made, Backups
    <2>4. ManifestsHold'
      <3> SUFFICES ASSUME NEW c \in Backups, s3'[c].run # NoRun
                   PROVE  /\ s3'[c].members
                          /\ s3'[c].intact \/ (faults' = 1 /\ \E q \in Runs : In(q, "checkpoint", {Uploading[c]})')
        BY DEF ManifestsHold
      <3>1. CASE c = b
        <4>1. s3[b].run # NoRun /\ faults' = faults + 1 /\ s3'[b].members = s3[b].members
          BY <1>9, <3>1 DEF Drops, NoBackup
        <4>2. faults' = 1
          BY <1>0, <4>1
        <4> QED
          BY <1>1, <1>4, <2>1, <3>1, <4>1, <4>2 DEF In
      <3>2. CASE c # b
        <4>1. s3'[c] = s3[c] /\ pc[r] # Uploading[c]
          BY <1>9, <3>2 DEF Drops, Dropping, Uploading, Backups
        <4> QED
          BY <1>4, <4>1
      <3> QED
        BY <3>1, <3>2
    <2>5. KeptFaultless' /\ KeptAfterOne'
      BY <1>1, <1>2, <2>1, <2>2 DEF KeptFaultless, KeptAfterOne, In
    <2> QED
      BY <1>3, <1>6, <1>8, <2>2, <2>3, <2>4, <2>5, OthersIdle DEF Kept, WorkAt
  <1>10. ASSUME NEW b \in Backups, Uploads(r, b) PROVE Kept'
    <2>1. pc[r] = Uploading[b] /\ pc[r] \in Made /\ pc'[r] = Uploaded[b]
      BY <1>10 DEF Uploads, Uploading, Made, Backups
    <2>2. OwnData(r) /\ Good /\ disk.scan = disk.core /\ disk.parsed = disk.core
      BY <1>1, <1>2, <2>1 DEF GenerationAt, BackedUpAt, In
    <2>3. Copied[b] = sync.ready.height
      BY <2>2, OwnDataArchived DEF Basis, Copied, Backups
    <2>4. Backed(r, b)'
      BY <1>1, <1>10, <2>3 DEF Uploads, Backed
    <2>5. /\ b \in {"dumplings", "core"} => Backed(r, "index")'
          /\ b = "core" => Backed(r, "dumplings")'
      <3>1. /\ b \in {"dumplings", "core"} => Backed(r, "index")
            /\ b = "core" => Backed(r, "dumplings")
        BY <1>1, <1>2, <2>1 DEF Uploading, Backups, BackedUpAt, In
      <3> QED
        BY <1>1, <1>10, <3>1 DEF Uploads, Backed, Backups
    <2>6. b = "core" => Restorable'
      <3> SUFFICES ASSUME b = "core" PROVE Restorable'
        OBVIOUS
      <3>1. \A c \in Backups : Backed(r, c)'
        BY <2>4, <2>5 DEF Backups
      <3>2. \A c \in Backups : /\ s3'[c].run = r /\ s3'[c].height = sync'.ready.height
                               /\ s3'[c].intact /\ s3'[c].members
        BY <3>1 DEF Backed
      <3> QED
        BY <3>2, SyncAssumption DEF Restorable, BackupsBelongTogether, Found
    <2>7. BackedUpAt(r)'
      <3>1. CASE b = "index"
        BY <1>1, <1>2, <2>1, <2>2, <2>4, <3>1 DEF Uploaded, BackedUpAt, In, Made
      <3>2. CASE b = "dumplings"
        BY <1>1, <1>2, <2>1, <2>2, <2>4, <2>5, <3>2 DEF Uploaded, BackedUpAt, In, Made
      <3>3. CASE b = "core"
        BY <2>1, <2>6, <3>3 DEF Uploaded, BackedUpAt, In, Made
      <3> QED
        BY <3>1, <3>2, <3>3 DEF Backups
    <2>8. ManifestsHold'
      <3> SUFFICES ASSUME NEW c \in Backups, s3'[c].run # NoRun PROVE s3'[c].members /\ s3'[c].intact
        BY DEF ManifestsHold
      <3>1. CASE c = b
        BY <1>10, <3>1 DEF Uploads
      <3>2. CASE c # b
        <4>1. s3'[c] = s3[c] /\ pc[r] # Uploading[c]
          BY <1>10, <3>2 DEF Uploads, Uploading, Backups
        <4> QED
          BY <1>4, <4>1
      <3> QED
        BY <3>1, <3>2
    <2>9. KeptFaultless' /\ KeptAfterOne'
      <3>1. pc'[r] \in Made \/ Restorable'
        BY <2>1, <2>6 DEF Uploaded, Made, Backups
      <3> QED
        BY <1>1, <1>2, <2>2, <3>1 DEF KeptFaultless, KeptAfterOne, In
    <2> QED
      BY <1>3, <1>6, <1>8, <2>2, <2>7, <2>8, <2>9, OthersIdle DEF Kept, WorkAt
  <1>11. ASSUME s3' = s3, faults' = faults, pc[r] \notin {Uploading[b] : b \in Backups},
                BackedUpAt(r)', KeptFaultless', KeptAfterOne'
         PROVE  Kept'
    <2>1. ManifestsHold'
      BY <1>4, <1>11 DEF ManifestsHold
    <2> QED
      BY <1>3, <1>7, <1>8, <1>11, <2>1, OthersIdle DEF Kept, WorkAt
  <1>12. CASE /\ s3' = s3 /\ faults' = faults /\ disk' = disk /\ pc'[r] = "finally"
              /\ \/ pc[r] = "drop-dumplings" /\ disk.scan # sync.ready.height
                 \/ pc[r] = "prune" /\ disk.core # sync.ready.height
    <2>1. pc[r] \in Made
      BY <1>12 DEF Made
    <2>2. OwnData(r) /\ disk.scan = disk.core
      BY <1>1, <1>2, <2>1 DEF GenerationAt, BackedUpAt, In
    <2> QED
      BY <1>12, <2>2, OwnDataArchived DEF Basis
  <1>13. CASE s3' = s3 /\ faults' = faults /\ disk' = disk /\ CheckBeforeBackup(r)
    <2>1. /\ pc[r] = "check"
          /\ \/ pc'[r] = "finally"
             \/ /\ pc'[r] = "drop-index" /\ OwnGeneration(r) /\ ~disk.writing
                /\ disk.config = sync.ready.height /\ IndexMatchesInventory /\ ResumeBytesMatch
      BY <1>0, <1>13 DEF CheckBeforeBackup, At, Require, Raise, GoTo, JobTypes
    <2>2. BackedUpAt(r)'
      <3>1. CASE pc'[r] = "finally"
        BY <3>1 DEF BackedUpAt, In, Made
      <3>2. CASE pc'[r] = "drop-index"
        <4>1. disk.core = sync.ready.height /\ disk.scan = disk.core /\ disk.archive
          BY <1>1, <1>2, <2>1, <3>2 DEF OwnGeneration, WholeAt
        <4>2. Good /\ disk.parsed = disk.core
          BY <2>1, <3>2, <4>1, TornIsNoHeight
             DEF Good, DatasetComplete, IndexMatchesInventory, ResumeBytesMatch
        <4> QED
          BY <1>1, <1>2, <3>2, <4>1, <4>2 DEF BackedUpAt, In, Made
      <3> QED
        BY <2>1, <3>1, <3>2
    <2>3. archived /\ faults = 0 => Restorable \/ Full
      BY <1>0, <2>1, OthersIdle DEF Kept, KeptFaultless, In, Made
    <2>4. KeptFaultless' /\ KeptAfterOne'
      BY <1>1, <1>2, <1>5, <1>7, <1>13, <2>3 DEF KeptFaultless, KeptAfterOne, Full
    <2>5. pc[r] \notin {Uploading[b] : b \in Backups}
      BY <2>1 DEF Uploading, Backups
    <2> QED
      BY <1>11, <1>13, <2>2, <2>4, <2>5
  <1>14. CASE /\ s3' = s3 /\ faults' = faults /\ Prune(r) /\ pc'[r] = "drop-core"
              /\ disk.core = sync.ready.height /\ disk' = [disk EXCEPT !.full = FALSE]
    <2>1. pc[r] = "prune"
      BY <1>14 DEF Prune, At
    <2>2. Good /\ disk.scan = disk.core /\ disk.parsed = disk.core /\ Backed(r, "index") /\ Backed(r, "dumplings")
      BY <1>1, <1>2, <2>1 DEF BackedUpAt, In, Made
    <2>3. Backed(r, "index")' /\ Backed(r, "dumplings")'
      BY <1>1, <1>14, <2>2 DEF Backed
    <2>4. BackedUpAt(r)'
      BY <1>1, <1>2, <1>14, <2>2, <2>3 DEF BackedUpAt, In, Made
    <2>5. KeptFaultless' /\ KeptAfterOne'
      BY <1>1, <1>2, <1>14, <2>2 DEF KeptFaultless, KeptAfterOne, In, Made
    <2>6. pc[r] \notin {Uploading[b] : b \in Backups}
      BY <2>1 DEF Uploading, Backups
    <2> QED
      BY <1>11, <1>14, <2>4, <2>5, <2>6
  <1> QED
    BY <1>9, <1>10, <1>12, <1>13, <1>14, CheckpointWrites DEF Basis

\* clear discards only what its own run's checkpoint saved.
LEMMA LossClear ==
  ASSUME Basis, Mild', NEW r \in Runs, WorksAlone(r), Clear(r)
  PROVE  Kept'
  <1>0. JobTypes /\ Kept
    BY DEF Basis, TypeOK
  <1>1. /\ stage[r] = "clear" /\ stage'[r] = "clear" /\ s3' = s3 /\ faults' = faults
        /\ disk' = disk /\ sync' = sync /\ archived' = archived
    BY DEF WorksAlone, Clear, At, dataVars
  <1>2. (Restorable' <=> Restorable) /\ (Full' <=> Full) /\ (Good' <=> Good)
    BY <1>1 DEF Restorable, BackupsBelongTogether, Found, Full, Good, DatasetComplete,
       IndexMatchesInventory
  <1>3. ManifestsHold'
    BY <1>0, <1>1, OthersIdle DEF Kept, ManifestsHold, In
  <1>4. \A q \in Runs : FinishedAt(q)' /\ WholeAt(q)'
    <2> SUFFICES ASSUME NEW q \in Runs PROVE FinishedAt(q)' /\ WholeAt(q)'
      OBVIOUS
    <2>1. FinishedAt(q) /\ WholeAt(q) /\ stage'[q] = stage[q] /\ (q # r => pc'[q] = pc[q])
      BY <1>0 DEF Kept, WorksAlone
    <2> QED
      BY <1>1, <1>2, <2>1 DEF FinishedAt, WholeAt, In
  <1>5. WorkAt(r)'
    <2>1. CASE pc'[r] = "discard"
      <3>1. sync.done = r
        BY <1>0, <2>1 DEF Clear, Require, Raise, GoTo, JobTypes
      <3>2. disk.current.run = r
        <4>1. foreignClear' = (foreignClear \/ (sync.done = r /\ disk.current.run # r))
          BY DEF Clear
        <4>2. ~foreignClear'
          BY DEF Mild
        <4> QED
          BY <3>1, <4>1, <4>2
      <3>3. Restorable
        BY <1>0, <3>1, <3>2 DEF Kept, FinishedAt
      <3> QED
        BY <1>1, <1>2, <3>2, <3>3 DEF WorkAt, ProducedAt, IndexedAt, BackedUpAt, DiscardedAt, In
    <2>2. CASE pc'[r] # "discard"
      BY <1>1, <2>2 DEF WorkAt, ProducedAt, IndexedAt, BackedUpAt, DiscardedAt, In
    <2> QED
      BY <2>1, <2>2
  <1>6. KeptFaultless' /\ KeptAfterOne'
    <2>1. archived /\ faults = 0 => Restorable \/ Full
      BY <1>0, <1>1, OthersIdle DEF Kept, KeptFaultless, In
    <2>2. archived => Restorable \/ Full \/ Good
      BY <1>0, <1>1, OthersIdle DEF Kept, KeptAfterOne, In
    <2> QED
      BY <1>1, <1>2, <2>1, <2>2 DEF KeptFaultless, KeptAfterOne
  <1> QED
    BY <1>3, <1>4, <1>5, <1>6, OthersIdle DEF Kept

\* With mild faults the synchronized chain is kept in every reachable state.
LEMMA LossInvariant == Spec => []LossInv
  <1>1. Init => LossInv
    <2> SUFFICES ASSUME Init PROVE Kept
      BY DEF LossInv
    <2>1. PICK last \in MaybeRun, d \in {EmptyDisk, SyncedDisk} :
            /\ InitAfter(last, d) /\ last \in {NoRun, Earlier}
            /\ last = NoRun => d = EmptyDisk
      BY SyncAssumption DEF Init, MaybeRun
    <2>2. \A r \in Runs : pc[r] \in {"queued", "over"}
      BY InitJobs
    <2>3. CASE last = NoRun
      <3>1. /\ sync.ready.run = NoRun /\ sync.done = NoRun /\ archived = FALSE
            /\ \A b \in Backups : s3[b].run = NoRun
        BY <2>1, <2>3, Zenon DEF InitAfter, NoGeneration, NoBackup
      <3> QED
        BY <2>2, <3>1, SyncAssumption DEF Kept, WorkAt, ProducedAt, IndexedAt, BackedUpAt,
           DiscardedAt, FinishedAt, WholeAt, ManifestsHold, KeptFaultless, KeptAfterOne, In, Made, Indexing
    <2>4. CASE last # NoRun
      <3>1. Restorable /\ \A b \in Backups : s3[b].intact /\ s3[b].members
        <4>1. \A b \in Backups : /\ s3[b].run = Earlier /\ s3[b].height = 1
                                 /\ s3[b].intact /\ s3[b].members
          BY <2>1, <2>4 DEF InitAfter, SyncedBackup
        <4> QED
          BY <2>1, <2>4, <4>1 DEF Restorable, BackupsBelongTogether, Found
      <3>2. ASSUME NEW r \in Runs PROVE WholeAt(r)
        <4>1. CASE d = EmptyDisk
          <5>1. sync.ready.run # NoRun /\ disk.current.run = NoRun
            BY <2>1, <2>4, <4>1 DEF InitAfter, EmptyDisk, NoGeneration
          <5> QED
            BY <5>1 DEF WholeAt
        <4>2. CASE d = SyncedDisk
          BY <2>1, <2>4, <4>2 DEF InitAfter, SyncedDisk, WholeAt
        <4> QED
          BY <2>1, <4>1, <4>2
      <3>3. ASSUME NEW r \in Runs PROVE WorkAt(r) /\ FinishedAt(r)
        BY <2>2, <3>1 DEF WorkAt, ProducedAt, IndexedAt, BackedUpAt, DiscardedAt, FinishedAt, In,
           Made, Indexing
      <3> QED
        BY <3>1, <3>2, <3>3 DEF Kept, ManifestsHold, KeptFaultless, KeptAfterOne
    <2> QED
      BY <2>3, <2>4
  <1>2. /\ TypeOK /\ OwnInv /\ LockedInv /\ GenerationInv /\ RestoreInv /\ ArchiveInv /\ DoneInv
        /\ LossInv /\ [Next]_vars
        => LossInv'
    <2> SUFFICES ASSUME TypeOK, OwnInv, LockedInv, GenerationInv, RestoreInv, ArchiveInv, DoneInv,
                        LossInv, [Next]_vars, Mild'
                 PROVE  Kept'
      BY DEF LossInv
    <2>1. Mild /\ ~ManualIndexBackup /\ faults \in Nat /\ faults' \in Nat /\ faults <= faults'
      BY MildBefore
    <2>2. Basis
      BY <2>1 DEF Basis, LossInv
    <2>3. CASE Quiet
      BY <2>1, <2>2, <2>3, LossQuiet
    <2>4. ASSUME NEW r \in Runs, WorksAlone(r) PROVE Kept'
      BY <2>1, <2>2, <2>4, LossRestore, LossDiscard, LossProducer, LossBlocksci, LossCheckpoint,
         LossClear DEF WorksAlone, DataWork
    <2> QED
      BY <2>3, <2>4, StepKinds
  <1> QED
    BY <1>1, <1>2, ArchiveInvariant, DoneInvariant, RestoreInvariant, GenerationInvariant,
       LockedInvariant, OwnInvariant, SyncTypeCorrect, PTL DEF Spec

\* With at most one fault - a killed worker, a lost node, a failed command, an
\* unnoticed failure to delete a backup - S3 or the multijob still holds a whole
\* generation, however the runs overlap.
THEOREM OneFaultIsSurvived == Spec => []OneFaultLosesNothing
  <1>1. TypeOK /\ OwnInv /\ LossInv => OneFaultLosesNothing
    <2> SUFFICES ASSUME TypeOK, LossInv, Mild, archived PROVE Restorable \/ Usable
      BY DEF OneFaultLosesNothing, Mild
    <2>1. Restorable \/ Full \/ Good \/ \E r \in Runs : In(r, "blocksci", Indexing \cup {"complete"})
      BY DEF LossInv, Kept, KeptAfterOne
    <2>2. ASSUME NEW r \in Runs, In(r, "blocksci", Indexing \cup {"complete"})
          PROVE  stage[r] = "blocksci" /\ AtWork(r)
      BY <2>2 DEF In, Indexing, AtWork, Over
    <2> QED
      BY <2>1, <2>2 DEF Usable, Full, Good
  <1> QED
    BY <1>1, LossInvariant, OwnInvariant, SyncTypeCorrect, PTL
=============================================================================
