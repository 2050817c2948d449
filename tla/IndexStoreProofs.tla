-------------------------- MODULE IndexStoreProofs --------------------------
(***************************************************************************)
(* Proofs about IndexStore, for any jobs, heights, faults and mixes: a     *)
(* complete copy is whole, a reader reads a whole index from its first     *)
(* byte to its last, the store implements SharedIndex and uses its locks   *)
(* as SharedLock allows (StorePromises); what a backup in S3 is good for   *)
(* while jobs replace, restore and outlive it (BackupsHold); and what the  *)
(* jobs of other runs read of the copies that are replaced without a lock  *)
(* (CopiesHold).                                                           *)
(***************************************************************************)
EXTENDS IndexStore, TLAPS

\* Where a job holds the lock of its directory; a copy in scratch needs none.
ExclusiveAt == {"reconcile", "restore", "empty", "extract", "unmark", "parse", "check", "mark", "parser",
                "config", "files", "manifest", "publish", "record"}
SharedAt == {"drop", "open", "reading", "discard", "upload", "size", "attest"}

\* Which jobs can be where, and that a writer knows its height.
KindAt(j) ==
    /\ pc[j] \in {"exclusive", "parse", "check", "mark", "parser", "config", "files", "manifest", "publish", "record"}
         => kind[j] \in {"parse", "update"} /\ tgt[j] # 0
    /\ pc[j] = "shared" => kind[j] \in {"read", "kept", "backup"}
    /\ pc[j] \in {"refill", "refilled"} => kind[j] = "kept"
    /\ pc[j] = "reconcile" => kind[j] \in {"update", "kept"}
    /\ pc[j] \in {"restore", "empty", "extract", "unmark"} => kind[j] \in {"update", "kept", "scratch"}
    /\ pc[j] \in SharedAt => kind[j] \notin {"parse", "update"}
    /\ pc[j] = "drop" => kind[j] \in {"kept", "backup"}
    /\ pc[j] \in BackingUp => kind[j] = "backup"
    /\ kind[j] = "update" /\ pc[j] \notin Ended \cup {"idle"} => tgt[j] # 0

\* A job that works on a directory has its entry in the lock.
HoldAt(j) ==
    kind[j] # "scratch" =>
        /\ pc[j] \in ExclusiveAt => writer[Dir(j)] = j
        /\ pc[j] \in SharedAt => j \in readers[Dir(j)]

\* What a writer has written so far.
StageAt(j) ==
    LET c == copy[Dir(j)] IN
    /\ pc[j] \in {"empty", "extract", "unmark"} => c.writing /\ sum[j] # 0
    /\ pc[j] = "unmark" => c = [Whole(sum[j]) EXCEPT !.writing = TRUE]
    /\ pc[j] \in {"parser", "config", "files", "manifest", "publish"} => c.writing
    /\ pc[j] \in {"files", "manifest", "publish"} => c.parsed = tgt[j] /\ c.config = tgt[j]
    /\ pc[j] \in {"manifest", "publish"} => c.files = <<tgt[j], tgt[j]>>
    /\ pc[j] = "publish" => c.manifest = tgt[j]

\* A job that reads or backs up a copy has a whole one, of the height it took down.
Reads(j) == pc[j] = "reading" \/ pc[j] \in BackingUp \/ (pc[j] = "drop" /\ kind[j] = "backup")
ReadAt(j) == Reads(j) => seen[j] # 0 /\ copy[Dir(j)] = Whole(seen[j])

JobAt(j) == KindAt(j) /\ HoldAt(j) /\ StageAt(j) /\ ReadAt(j)

\* The file list of an unmarked copy is its manifest's.
FilesAt(d) ==
    copy[d].manifest # 0 /\ copy[d].files # <<>> /\ ~copy[d].writing
        => copy[d].files = <<copy[d].manifest, copy[d].manifest>>

\* A directory has one writer or many readers.
LockAt(d) == writer[d] # NoJob => readers[d] = {}

StoreInv == (\A j \in Jobs : JobAt(j)) /\ (\A d \in Dirs : FilesAt(d) /\ LockAt(d))

JobStep(j) == LockStep(j) \/ RestoreStep(j) \/ WriteStep(j) \/ ReadStep(j) \/ BackupStep(j) \/ Killed(j)

LEMMA DirIn == ASSUME TypeOK, NEW j \in Jobs PROVE Dir(j) \in Dirs
  BY DEF Dir, Dirs

LEMMA DirOf ==
  ASSUME NEW j \in Jobs
  PROVE  /\ kind[j] \in {"parse", "update", "read", "backup"} => Dir(j) = "main"
         /\ kind[j] = "kept" => Dir(j) = "notebook"
         /\ kind[j] = "scratch" => Dir(j) = j
  BY DEF Dir

\* The scratch of a job is its own.
LEMMA ScratchIsOwn ==
  ASSUME NEW j \in Jobs, NEW k \in Jobs, kind[j] = "scratch", Dir(k) = Dir(j) PROVE k = j
  BY StoreAssumption DEF Dir

LEMMA DirKept == ASSUME kind' = kind, NEW j \in Jobs PROVE Dir(j)' = Dir(j)
  BY DEF Dir

LEMMA WholeIs ==
  ASSUME NEW h \in Heights
  PROVE  /\ Whole(h) \in Files /\ Whole(h).parsed = h /\ Whole(h).config = h /\ Whole(h).manifest = h
         /\ ~Whole(h).writing /\ (h = 0 => Whole(h).files = <<>>) /\ (h # 0 => Whole(h).files = <<h, h>>)
  BY DEF Whole, NoFiles, Files, Heights, Contents

\* A whole index has its files, marked or not.
LEMMA Unmarked ==
  ASSUME NEW h \in Heights, h # 0, NEW c, c = Whole(h) \/ c = [Whole(h) EXCEPT !.writing = TRUE]
  PROVE  c.manifest # 0 /\ [c EXCEPT !.writing = FALSE] = Whole(c.manifest)
  <1>1. Whole(h) \in Files /\ Whole(h).manifest = h /\ ~Whole(h).writing
    BY WholeIs
  <1>2. c.manifest = h
    BY <1>1 DEF Files
  <1>3. [c EXCEPT !.writing = FALSE] = Whole(h)
    BY <1>1 DEF Files
  <1> QED
    BY <1>2, <1>3

\* A complete copy with its own file list is a whole index.
LEMMA CompleteWhole ==
  ASSUME TypeOK, NEW d \in Dirs, FilesAt(d), Complete(d)
  PROVE  copy[d] = Whole(copy[d].manifest) /\ copy[d].manifest \in 1..MaxHeight
  <1>1. copy[d] \in Files
    BY DEF TypeOK
  <1>2. copy[d].manifest # 0 /\ ~copy[d].writing /\ copy[d].files = <<copy[d].manifest, copy[d].manifest>>
    BY DEF FilesAt, Complete
  <1>3. copy[d].parsed = copy[d].manifest /\ copy[d].config = copy[d].manifest
    BY <1>2 DEF Complete, Inventory
  <1>4. copy[d].manifest \in Heights /\ copy[d].writing = FALSE
    BY <1>1, <1>2 DEF Files
  <1>5. copy[d].manifest \in 1..MaxHeight
    BY <1>2, <1>4, StoreAssumption DEF Heights
  <1>6. copy[d] = [parsed |-> copy[d].parsed, config |-> copy[d].config, files |-> copy[d].files,
                   manifest |-> copy[d].manifest, writing |-> copy[d].writing]
    BY <1>1 DEF Files
  <1> QED
    BY <1>2, <1>3, <1>4, <1>5, <1>6 DEF Whole
-----------------------------------------------------------------------------
(***************************************************************************)
(* Types.                                                                  *)
(***************************************************************************)
LEMMA RecordTypes ==
  ASSUME NEW c \in Files
  PROVE  /\ \A b \in BOOLEAN : [c EXCEPT !.writing = b] \in Files
         /\ [c EXCEPT !.parsed = 0, !.config = 0, !.files = <<>>] \in Files
         /\ [c EXCEPT !.manifest = 0, !.parsed = Torn] \in Files
         /\ [c EXCEPT !.parsed = Torn] \in Files
         /\ \A h \in Heights : /\ [c EXCEPT !.parsed = h, !.config = h] \in Files
                               /\ [c EXCEPT !.manifest = h] \in Files
         /\ [c EXCEPT !.files = <<c.parsed, c.config>>] \in Files
  <1>1. /\ c.parsed \in Contents /\ c.config \in Heights /\ c.files \in (Contents \X Heights) \cup {<<>>}
        /\ c.manifest \in Heights /\ c.writing \in BOOLEAN
        /\ c = [parsed |-> c.parsed, config |-> c.config, files |-> c.files, manifest |-> c.manifest,
                writing |-> c.writing]
    BY DEF Files
  <1>2. 0 \in Heights /\ Torn \in Contents /\ Heights \subseteq Contents
    BY StoreAssumption DEF Heights, Contents
  <1>3. ASSUME NEW b \in BOOLEAN PROVE [c EXCEPT !.writing = b] \in Files
    BY <1>1 DEF Files
  <1>4. [c EXCEPT !.parsed = 0, !.config = 0, !.files = <<>>] \in Files
    BY <1>1, <1>2 DEF Files
  <1>5. [c EXCEPT !.manifest = 0, !.parsed = Torn] \in Files /\ [c EXCEPT !.parsed = Torn] \in Files
    BY <1>1, <1>2 DEF Files
  <1>6. ASSUME NEW h \in Heights
        PROVE  [c EXCEPT !.parsed = h, !.config = h] \in Files /\ [c EXCEPT !.manifest = h] \in Files
    BY <1>1, <1>2 DEF Files
  <1>7. [c EXCEPT !.files = <<c.parsed, c.config>>] \in Files
    BY <1>1 DEF Files
  <1> QED
    BY <1>3, <1>4, <1>5, <1>6, <1>7

LEMMA WholeTypes ==
  ASSUME NEW h \in Heights
  PROVE  /\ [Whole(h) EXCEPT !.writing = TRUE] \in Files
         /\ [Whole(h) EXCEPT !.writing = TRUE, !.parsed = Torn] \in Files
  BY StoreAssumption DEF Files, Heights, Contents, Whole, NoFiles

LEMMA UnlockTypes ==
  ASSUME TypeOK, NEW j \in Jobs, Unlocked(j)
  PROVE  writer' \in [Dirs -> Jobs \cup {NoJob}] /\ readers' \in [Dirs -> SUBSET Jobs]
  BY DEF TypeOK, Unlocked

LEMMA TypeInit == Init => TypeOK
  <1> SUFFICES ASSUME Init PROVE TypeOK
    OBVIOUS
  <1>1. PICK label \in {"idle", "done"} : Start(label) /\ kind \in [Jobs -> Kinds]
    BY StoreAssumption DEF Init, Kinds
  <1>2. PICK h \in Histories :
          /\ copy = [d \in Dirs |-> IF d = "main" THEN Whole(h[1]) ELSE NoFiles]
          /\ s3 = [manifest |-> h[2], archive |-> h[2]]
          /\ backedUp = (h[2] # 0)
    BY <1>1 DEF Start
  <1>3. h[1] \in Heights /\ h[2] \in Heights
    BY StoreAssumption
  <1>4. Whole(h[1]) \in Files /\ NoFiles \in Files
    BY <1>3, WholeIs, StoreAssumption DEF NoFiles, Files, Heights, Contents
  <1>5. copy \in [Dirs -> Files]
    BY <1>2, <1>4
  <1>6. s3 \in [manifest : Heights, archive : Contents] /\ backedUp \in BOOLEAN
    BY <1>2, <1>3 DEF Contents
  <1>7. pc \in [Jobs -> Labels] /\ 0 \in Heights /\ 0 \in 0..MaxFaults
    BY <1>1, StoreAssumption DEF Start, Labels, Heights
  <1>8. /\ tgt \in [Jobs -> Heights] /\ sum \in [Jobs -> Heights] /\ seen \in [Jobs -> Heights]
        /\ told \in [Jobs -> Heights] /\ writer \in [Dirs -> Jobs \cup {NoJob}] /\ readers \in [Dirs -> SUBSET Jobs]
        /\ faults \in 0..MaxFaults /\ crossed \in BOOLEAN /\ kept \in BOOLEAN
    BY <1>1, <1>7 DEF Start
  <1> QED
    BY <1>1, <1>5, <1>6, <1>7, <1>8 DEF TypeOK

LEMMA TypeJobStep == ASSUME TypeOK, NEW j \in Jobs, JobStep(j) PROVE TypeOK'
  <1> DEFINE d == Dir(j)
  <1>0. d \in Dirs /\ "main" \in Dirs
    BY DirIn DEF Dirs
  <1>1. copy[d] \in Files /\ copy["main"] \in Files
    BY <1>0 DEF TypeOK
  <1> HIDE DEF d
  <1>2. CASE LockStep(j)
    <2>1. CASE Begin(j)
      <3>1. tgt' \in [Jobs -> Heights]
        BY <2>1, StoreAssumption DEF TypeOK, Begin, Heights
      <3>2. pc' \in [Jobs -> Labels]
        BY <2>1 DEF TypeOK, Begin, GoTo, Labels
      <3> QED
        BY <2>1, <3>1, <3>2 DEF TypeOK, Begin, KeepLock, KeepNotes
    <2>2. CASE LockExclusive(j)
      <3>1. pc' \in [Jobs -> Labels]
        BY <2>2 DEF TypeOK, LockExclusive, GoTo, Labels
      <3>2. writer' \in [Dirs -> Jobs \cup {NoJob}]
        BY <2>2, <1>0 DEF TypeOK, LockExclusive
      <3> QED
        BY <2>2, <3>1, <3>2 DEF TypeOK, LockExclusive, Still, KeepNotes
    <2>3. CASE LockShared(j)
      BY <2>3, <1>0 DEF TypeOK, LockShared, GoTo, Still, KeepNotes, Labels
    <2>4. CASE DropShared(j)
      BY <2>4, UnlockTypes DEF TypeOK, DropShared, Ends, GoTo, Still, KeepNotes, Labels
    <2>5. CASE GivesUp(j)
      BY <2>5, UnlockTypes DEF TypeOK, GivesUp, Fails, Ends, GoTo, Still, KeepNotes, Labels
    <2>6. CASE \E k \in Jobs : ClearExpired(j, k)
      <3>1. PICK k \in Jobs : ClearExpired(j, k)
        BY <2>6
      <3>2. writer' \in [Dirs -> Jobs \cup {NoJob}]
        BY <3>1, <1>0 DEF TypeOK, ClearExpired
      <3>3. readers' \in [Dirs -> SUBSET Jobs]
        BY <3>1, <1>0 DEF TypeOK, ClearExpired
      <3> QED
        BY <3>1, <3>2, <3>3 DEF TypeOK, ClearExpired, Still, KeepNotes
    <2> QED
      BY <1>2, <2>1, <2>2, <2>3, <2>4, <2>5, <2>6 DEF LockStep
  <1>3. CASE RestoreStep(j)
    <2>1. CASE Reconcile(j)
      BY <2>1, UnlockTypes DEF TypeOK, Reconcile, Ends, GoTo, Still, KeepLock, Labels
    <2>2. CASE RestoreBegins(j)
      <3>1. CASE Fails(j)
        BY <2>2, <3>1, UnlockTypes DEF TypeOK, RestoreBegins, Fails, Ends, GoTo, Still, KeepNotes, Labels
      <3>2. CASE ~Fails(j)
        <4>1. copy' = [copy EXCEPT ![d] = [copy[d] EXCEPT !.writing = TRUE]]
          BY <2>2, <3>2, <1>0 DEF RestoreBegins, d, TypeOK
        <4>2. copy' \in [Dirs -> Files]
          BY <4>1, <1>0, <1>1, RecordTypes DEF TypeOK
        <4> QED
          BY <2>2, <3>2, <4>2 DEF TypeOK, RestoreBegins, GoTo, Still, KeepLock, Labels
      <3> QED
        BY <3>1, <3>2
    <2>3. CASE RestoreEmpties(j)
      <3>1. \E f \in Files : copy' = [copy EXCEPT ![d] = f]
        BY <2>3, <1>1, RecordTypes DEF RestoreEmpties, Writes, d
      <3>2. copy' \in [Dirs -> Files]
        BY <3>1, <1>0 DEF TypeOK
      <3> QED
        BY <2>3, <3>2 DEF TypeOK, RestoreEmpties, Writes, GoTo, Still, KeepLock, KeepNotes, Labels
    <2>4. CASE RestoreExtracts(j)
      <3>1. s3.archive \in Contents /\ sum[j] \in Heights
        BY DEF TypeOK
      <3>2. \E f \in Files : copy' = [copy EXCEPT ![d] = f]
        <4>1. CASE s3.archive = sum[j]
          BY <2>4, <3>1, <4>1, WholeTypes DEF RestoreExtracts, Writes, d
        <4>2. CASE s3.archive # sum[j]
          <5>1. PICK h \in {0, s3.archive} \ {Torn} :
                  copy' = [copy EXCEPT ![Dir(j)] = [Whole(h) EXCEPT !.writing = TRUE, !.parsed = Torn]]
            BY <2>4, <4>2 DEF RestoreExtracts
          <5>2. h \in Heights
            BY <3>1, <5>1, StoreAssumption DEF Contents, Heights
          <5> QED
            BY <5>1, <5>2, WholeTypes DEF d
        <4> QED
          BY <4>1, <4>2
      <3>3. copy' \in [Dirs -> Files]
        BY <3>2, <1>0 DEF TypeOK
      <3> QED
        BY <2>4, <3>3, UnlockTypes
           DEF TypeOK, RestoreExtracts, Writes, Ends, GoTo, Still, KeepLock, KeepNotes, Labels
    <2>5. CASE RestoreEnds(j)
      <3>1. copy' = [copy EXCEPT ![d] = [copy[d] EXCEPT !.writing = FALSE]]
        BY <2>5, <1>0 DEF RestoreEnds, d, TypeOK
      <3>2. copy' \in [Dirs -> Files]
        BY <3>1, <1>0, <1>1, RecordTypes DEF TypeOK
      <3>3. \/ Unlocked(j) /\ pc' \in [Jobs -> Labels]
            \/ writer' = writer /\ readers' = readers /\ pc' \in [Jobs -> Labels]
        BY <2>5 DEF RestoreEnds, Ends, GoTo, KeepLock, TypeOK, Labels
      <3> QED
        BY <2>5, <3>2, <3>3, UnlockTypes DEF TypeOK, RestoreEnds, Still, KeepNotes
    <2> QED
      BY <1>3, <2>1, <2>2, <2>3, <2>4, <2>5 DEF RestoreStep
  <1>4. CASE WriteStep(j)
    <2>1. tgt[j] \in Heights /\ faults \in 0..MaxFaults
      BY DEF TypeOK
    <2>2. \/ copy' = copy
          \/ \E f \in Files : copy' = [copy EXCEPT ![d] = f]
      BY <1>4, <1>1, <2>1, RecordTypes
         DEF WriteStep, ParseOpens, UpdateOpens, BeginWrite, StartParser, ParserEnds, PublishFiles, PublishManifest,
             PublishWhole, Record, Writes, Fails, Still, KeepLock, KeepNotes, d, Inventory
    <2>3. copy' \in [Dirs -> Files]
      BY <2>2, <1>0 DEF TypeOK
    <2>4. pc' \in [Jobs -> Labels] /\ (Unlocked(j) \/ UNCHANGED <<writer, readers>>) /\ faults' \in 0..MaxFaults
      BY <1>4, <2>1, StoreAssumption
         DEF TypeOK, WriteStep, ParseOpens, UpdateOpens, BeginWrite, StartParser, ParserEnds, PublishFiles,
             PublishManifest, PublishWhole, Record, Writes, Fails, Ends, GoTo, Fault, KeepLock, Labels
    <2>5. copy'["main"] \in Files /\ copy["main"].manifest \in Heights
      BY <1>0, <1>1, <2>3 DEF Files
    <2>6. /\ UNCHANGED <<kind, tgt, s3, sum, crossed, kept, backedUp>>
          /\ told' \in [Jobs -> Heights] /\ seen' \in [Jobs -> Heights]
      BY <1>4, <2>1, <2>5
         DEF TypeOK, WriteStep, ParseOpens, UpdateOpens, BeginWrite, StartParser, ParserEnds, PublishFiles,
             PublishManifest, PublishWhole, Record, Writes, Fails, Still, KeepNotes
    <2> QED
      BY <2>3, <2>4, <2>6, UnlockTypes DEF TypeOK
  <1>5. CASE ReadStep(j)
    <2>1. copy[d].manifest \in Heights
      BY <1>1 DEF Files
    <2> QED
      BY <1>5, <2>1, UnlockTypes
         DEF TypeOK, ReadStep, Open, EndReading, Fails, Ends, GoTo, Still, KeepLock, KeepNotes, Labels, d
  <1>6. CASE BackupStep(j)
    <2>1. /\ copy[d].manifest \in Heights /\ copy["main"].manifest \in Heights /\ copy[d].parsed \in Contents
          /\ 0 \in Heights /\ 0 \in Contents /\ s3 \in [manifest : Heights, archive : Contents]
      <3>1. 0 \in Heights /\ 0 \in Contents
        BY StoreAssumption DEF Heights, Contents
      <3>2. s3 \in [manifest : Heights, archive : Contents]
        BY DEF TypeOK
      <3> HIDE DEF d
      <3> QED
        BY <1>1, <3>1, <3>2 DEF Files
    <2>2. pc' \in [Jobs -> Labels] /\ (Unlocked(j) \/ UNCHANGED <<writer, readers>>)
      BY <1>6 DEF TypeOK, BackupStep, DropManifest, DropArchive, Upload, CheckSize, WriteBackupManifest,
                  ReportBackup, Fails, Ends, GoTo, KeepLock, Labels
    <2>3. s3' \in [manifest : Heights, archive : Contents]
      BY <1>6, <2>1 DEF BackupStep, DropManifest, DropArchive, Upload, CheckSize, WriteBackupManifest,
                        ReportBackup, Fails, d
    <2>4. /\ faults' \in 0..MaxFaults /\ UNCHANGED <<kind, tgt, copy, sum, seen>>
          /\ told' \in [Jobs -> Heights]
      BY <1>6, <2>1, StoreAssumption
         DEF TypeOK, BackupStep, DropManifest, DropArchive, Upload, CheckSize, WriteBackupManifest,
             ReportBackup, Fails, Fault, Still, KeepNotes
    <2>5. crossed' \in BOOLEAN /\ kept' \in BOOLEAN /\ backedUp' \in BOOLEAN
      BY <1>6 DEF TypeOK, BackupStep, DropManifest, DropArchive, Upload, CheckSize, WriteBackupManifest,
                  ReportBackup, Fails, KeepNotes
    <2> QED
      BY <2>2, <2>3, <2>4, <2>5, UnlockTypes DEF TypeOK
  <1>7. CASE Killed(j)
    BY <1>7, StoreAssumption DEF TypeOK, Killed, Fault, GoTo, Still, KeepLock, KeepNotes, Labels, Contents
  <1> QED
    BY <1>2, <1>3, <1>4, <1>5, <1>6, <1>7 DEF JobStep

\* The second half shares no variable with the first.
LEMMA CopiesFrame == ASSUME NEW x \in Actors, CopiesStep(x) \/ ActorKilled(x) PROVE UNCHANGED indexVars
  BY DEF CopiesStep, PublishCache, RestoreCache, PublishDumplings, ReadBaseline, Attach, PackBlock, ParseBlock,
         ActorKilled, CacheFrame, MirrorFrame, BlockFrame, Fixed

LEMMA PurgeTypes == ASSUME TypeOK, NEW d \in Dirs, Purge(d) PROVE TypeOK'
  <1>1. [copy[d] EXCEPT !.parsed = Torn] \in Files
    BY RecordTypes DEF TypeOK
  <1>2. copy' = [copy EXCEPT ![d] = [copy[d] EXCEPT !.parsed = Torn]] /\ faults' \in 0..MaxFaults
    BY StoreAssumption DEF TypeOK, Purge, Fault
  <1>3. copy' \in [Dirs -> Files]
    BY <1>1, <1>2 DEF TypeOK
  <1> QED
    BY <1>2, <1>3 DEF TypeOK, Purge, Still, KeepLock, KeepNotes

LEMMA Steps ==
  ASSUME [Next]_vars
  PROVE  \/ \E j \in Jobs : JobStep(j)
         \/ \E d \in Dirs : Purge(d)
         \/ UNCHANGED indexVars
  BY CopiesFrame DEF Next, JobStep, vars

LEMMA TypeStep == TypeOK /\ [Next]_vars => TypeOK'
  <1> SUFFICES ASSUME TypeOK, [Next]_vars PROVE TypeOK'
    OBVIOUS
  <1>1. CASE UNCHANGED indexVars
    BY <1>1 DEF TypeOK, indexVars
  <1> QED
    BY <1>1, TypeJobStep, PurgeTypes, Steps

\* The variables of the index keep their types.
THEOREM StoreTypes == Spec => []TypeOK
  BY TypeInit, TypeStep, PTL DEF Spec

-----------------------------------------------------------------------------
(***************************************************************************)
(* What a step of one job leaves to the others.                            *)
(***************************************************************************)
LEMMA OwnNotes ==
  ASSUME TypeOK, NEW j \in Jobs, JobStep(j)
  PROVE  /\ kind' = kind
         /\ \A k \in Jobs \ {j} : pc'[k] = pc[k] /\ tgt'[k] = tgt[k] /\ sum'[k] = sum[k] /\ seen'[k] = seen[k]
  <1> USE DEF TypeOK, Fails, Ends, GoTo, Still, KeepNotes, Writes
  <1>1. CASE LockStep(j)
    BY <1>1 DEF LockStep, Begin, LockExclusive, LockShared, DropShared, GivesUp, ClearExpired
  <1>2. CASE RestoreStep(j)
    BY <1>2 DEF RestoreStep, Reconcile, RestoreBegins, RestoreEmpties, RestoreExtracts, RestoreEnds
  <1>3. CASE WriteStep(j)
    BY <1>3 DEF WriteStep, ParseOpens, UpdateOpens, BeginWrite, StartParser, ParserEnds, PublishFiles,
                PublishManifest, PublishWhole, Record
  <1>4. CASE ReadStep(j)
    BY <1>4 DEF ReadStep, Open, EndReading
  <1>5. CASE BackupStep(j)
    BY <1>5 DEF BackupStep, DropManifest, DropArchive, Upload, CheckSize, WriteBackupManifest, ReportBackup
  <1>6. CASE Killed(j)
    BY <1>6 DEF Killed
  <1> QED
    BY <1>1, <1>2, <1>3, <1>4, <1>5, <1>6 DEF JobStep

\* A job writes its own directory only, and only where it has it to itself.
LEMMA OwnWrites ==
  ASSUME TypeOK, NEW j \in Jobs, JobStep(j)
  PROVE  copy' = copy \/ (pc[j] \in ExclusiveAt /\ \E c \in Files : copy' = [copy EXCEPT ![Dir(j)] = c])
  <1>0. Dir(j) \in Dirs /\ (copy' = copy \/ copy'[Dir(j)] \in Files)
    BY DirIn, TypeJobStep DEF TypeOK
  <1> USE DEF Fails, Ends, Still, Writes, At, ExclusiveAt
  <1>1. CASE LockStep(j)
    BY <1>1 DEF LockStep, Begin, LockExclusive, LockShared, DropShared, GivesUp, ClearExpired
  <1>2. CASE RestoreStep(j)
    <2>1. copy' = copy \/ (pc[j] \in ExclusiveAt /\ \E c : copy' = [copy EXCEPT ![Dir(j)] = c])
      BY <1>2, <1>0 DEF RestoreStep, Reconcile, RestoreBegins, RestoreEmpties, RestoreExtracts, RestoreEnds, TypeOK
    <2> QED
      BY <2>1, <1>0 DEF TypeOK
  <1>3. CASE WriteStep(j)
    <2>1. copy' = copy \/ (pc[j] \in ExclusiveAt /\ \E c : copy' = [copy EXCEPT ![Dir(j)] = c])
      BY <1>3 DEF WriteStep, ParseOpens, UpdateOpens, BeginWrite, StartParser, ParserEnds, PublishFiles,
                  PublishManifest, PublishWhole, Record
    <2> QED
      BY <2>1, <1>0 DEF TypeOK
  <1>4. CASE ReadStep(j)
    BY <1>4 DEF ReadStep, Open, EndReading
  <1>5. CASE BackupStep(j)
    BY <1>5 DEF BackupStep, DropManifest, DropArchive, Upload, CheckSize, WriteBackupManifest, ReportBackup
  <1>6. CASE Killed(j)
    BY <1>6 DEF Killed
  <1> QED
    BY <1>1, <1>2, <1>3, <1>4, <1>5, <1>6 DEF JobStep

\* The lock: a step takes an entry, gives the job's own up, or clears those of a dead job.
Takes(j) ==
    \/ /\ pc[j] \in {"exclusive", "refill"} /\ writer[Dir(j)] = NoJob /\ readers[Dir(j)] = {}
       /\ writer' = [writer EXCEPT ![Dir(j)] = j] /\ readers' = readers
    \/ /\ pc[j] \in {"shared", "refilled"} /\ writer[Dir(j)] = NoJob
       /\ readers' = [readers EXCEPT ![Dir(j)] = @ \cup {j}] /\ writer' = writer
Clears(j) ==
    /\ pc' = pc
    /\ \E k \in Jobs, d \in Dirs :
           /\ pc[k] = "dead"
           /\ writer' = [writer EXCEPT ![d] = IF @ = k THEN NoJob ELSE @]
           /\ readers' = [readers EXCEPT ![d] = @ \ {k}]

LEMMA LockMoves ==
  ASSUME TypeOK, NEW j \in Jobs, JobStep(j)
  PROVE  UNCHANGED <<writer, readers>> \/ Unlocked(j) \/ Takes(j) \/ Clears(j)
  <1>0. Dir(j) \in Dirs
    BY DirIn
  <1> USE DEF Fails, Ends, KeepLock, Writes, At
  <1>1. CASE LockStep(j)
    BY <1>0, <1>1 DEF LockStep, Begin, LockExclusive, LockShared, DropShared, GivesUp, ClearExpired, Takes, Clears
  <1>2. CASE RestoreStep(j)
    BY <1>2 DEF RestoreStep, Reconcile, RestoreBegins, RestoreEmpties, RestoreExtracts, RestoreEnds
  <1>3. CASE WriteStep(j)
    BY <1>3 DEF WriteStep, ParseOpens, UpdateOpens, BeginWrite, StartParser, ParserEnds, PublishFiles,
                PublishManifest, PublishWhole, Record
  <1>4. CASE ReadStep(j)
    BY <1>4 DEF ReadStep, Open, EndReading
  <1>5. CASE BackupStep(j)
    BY <1>5 DEF BackupStep, DropManifest, DropArchive, Upload, CheckSize, WriteBackupManifest, ReportBackup
  <1>6. CASE Killed(j)
    BY <1>6 DEF Killed
  <1> QED
    BY <1>1, <1>2, <1>3, <1>4, <1>5, <1>6 DEF JobStep

LEMMA OthersHold ==
  ASSUME TypeOK, NEW j \in Jobs, JobStep(j), NEW k \in Jobs, k # j, pc[k] # "dead", NEW d \in Dirs
  PROVE  (writer[d] = k => writer'[d] = k) /\ (k \in readers[d] => k \in readers'[d])
  <1>1. CASE Unlocked(j)
    BY <1>1 DEF Unlocked, TypeOK
  <1>2. CASE Takes(j)
    BY <1>2, StoreAssumption DEF Takes, TypeOK
  <1>3. CASE Clears(j)
    BY <1>3 DEF Clears, TypeOK
  <1> QED
    BY <1>1, <1>2, <1>3, LockMoves

LEMMA LockKept ==
  ASSUME TypeOK, NEW j \in Jobs, JobStep(j), \A d \in Dirs : LockAt(d), NEW d \in Dirs
  PROVE  LockAt(d)'
  <1>0. Dir(j) \in Dirs /\ LockAt(d)
    BY DirIn
  <1>1. CASE Unlocked(j)
    BY <1>0, <1>1 DEF Unlocked, LockAt, TypeOK
  <1>2. CASE Takes(j)
    BY <1>0, <1>2 DEF Takes, LockAt, TypeOK
  <1>3. CASE Clears(j)
    BY <1>0, <1>3 DEF Clears, LockAt, TypeOK
  <1>4. CASE UNCHANGED <<writer, readers>>
    BY <1>0, <1>4 DEF LockAt
  <1> QED
    BY <1>1, <1>2, <1>3, <1>4, LockMoves

\* Two jobs in one directory are never a writer and another job at work there.
LEMMA Alone ==
  ASSUME TypeOK, NEW j \in Jobs, NEW k \in Jobs, k # j, HoldAt(j), HoldAt(k), \A d \in Dirs : LockAt(d),
         pc[j] \in ExclusiveAt, pc[k] \in ExclusiveAt \cup SharedAt
  PROVE  Dir(k) # Dir(j)
  <1> SUFFICES ASSUME Dir(k) = Dir(j) PROVE FALSE
    OBVIOUS
  <1>1. kind[j] # "scratch" /\ kind[k] # "scratch"
    BY ScratchIsOwn
  <1>2. writer[Dir(j)] = j /\ LockAt(Dir(j))
    BY <1>1, DirIn DEF HoldAt
  <1>3. writer[Dir(j)] = k \/ k \in readers[Dir(j)]
    BY <1>1 DEF HoldAt
  <1> QED
    BY <1>2, <1>3, StoreAssumption DEF LockAt

\* What another job has in hand is left alone.
LEMMA OthersKept ==
  ASSUME TypeOK, NEW j \in Jobs, JobStep(j), NEW k \in Jobs, k # j, JobAt(j), JobAt(k), \A d \in Dirs : LockAt(d)
  PROVE  JobAt(k)'
  <1>1. /\ kind' = kind /\ pc'[k] = pc[k] /\ tgt'[k] = tgt[k] /\ sum'[k] = sum[k] /\ seen'[k] = seen[k]
        /\ Dir(k)' = Dir(k) /\ Dir(k) \in Dirs
    BY OwnNotes, DirKept, DirIn
  <1>2. KindAt(k)'
    BY <1>1 DEF JobAt, KindAt
  <1>3. HoldAt(k)'
    <2>1. pc[k] \in ExclusiveAt \cup SharedAt => pc[k] # "dead"
      BY DEF ExclusiveAt, SharedAt
    <2> QED
      BY <1>1, <2>1, OthersHold DEF JobAt, HoldAt
  <1>4. ASSUME pc[k] \in ExclusiveAt \cup SharedAt PROVE copy'[Dir(k)] = copy[Dir(k)]
    <2>1. CASE copy' = copy
      BY <2>1
    <2>2. CASE pc[j] \in ExclusiveAt /\ \E c \in Files : copy' = [copy EXCEPT ![Dir(j)] = c]
      <3>1. Dir(k) # Dir(j)
        BY <1>4, <2>2, Alone DEF JobAt
      <3> QED
        BY <1>1, <2>2, <3>1, DirIn DEF TypeOK
    <2> QED
      BY <2>1, <2>2, OwnWrites
  <1>5. StageAt(k)'
    BY <1>1, <1>4 DEF JobAt, StageAt, ExclusiveAt, Whole, NoFiles
  <1>6. ReadAt(k)'
    BY <1>1, <1>4 DEF JobAt, ReadAt, Reads, SharedAt, BackingUp, Whole, NoFiles
  <1> QED
    BY <1>2, <1>3, <1>5, <1>6 DEF JobAt
-----------------------------------------------------------------------------
(***************************************************************************)
(* What a job's step makes of its own part.                                *)
(***************************************************************************)
LEMMA OwnKind == ASSUME TypeOK, NEW j \in Jobs, JobStep(j), KindAt(j) PROVE KindAt(j)'
  <1>0. kind'[j] = kind[j] /\ kind[j] \in Kinds /\ pc[j] \in Labels
    BY OwnNotes DEF TypeOK
  <1> USE <1>0 DEF TypeOK, KindAt, SharedAt, BackingUp, Ended, Kinds, Fails, Ends, GoTo, At, Still, Writes
  <1>1. CASE LockStep(j)
    <2>1. CASE Begin(j)
      <3>1. pc'[j] = CASE kind[j] \in {"parse", "update"} -> "exclusive" [] kind[j] = "scratch" -> "restore" [] OTHER -> "shared"
        BY <2>1 DEF Begin
      <3>2. kind[j] \in {"parse", "update"} => tgt'[j] # 0
        BY <2>1 DEF Begin
      <3> QED
        BY <3>1, <3>2
    <2>2. CASE LockExclusive(j)
      BY <2>2 DEF LockExclusive
    <2>3. CASE LockShared(j)
      BY <2>3 DEF LockShared
    <2>4. CASE DropShared(j) \/ GivesUp(j) \/ \E k \in Jobs : ClearExpired(j, k)
      BY <2>4 DEF DropShared, GivesUp, ClearExpired
    <2> QED
      BY <1>1, <2>1, <2>2, <2>3, <2>4 DEF LockStep
  <1>2. CASE RestoreStep(j)
    <2>1. CASE Reconcile(j)
      <3>1. kind[j] \in {"update", "kept"}
        BY <2>1 DEF Reconcile
      <3>2. \/ pc'[j] = IF kind[j] = "kept" THEN "refilled" ELSE "check"
            \/ pc'[j] \in {"restore", "failed"}
        BY <2>1 DEF Reconcile
      <3>3. tgt' = tgt
        BY <2>1 DEF Reconcile
      <3>4. CASE pc'[j] = "refilled" /\ kind[j] = "kept"
        BY <3>4
      <3>5. CASE pc'[j] = "check" /\ kind[j] = "update"
        <4>1. tgt'[j] # 0
          BY <2>1, <3>3, <3>5 DEF Reconcile
        <4> QED
          BY <3>5, <4>1
      <3>6. CASE pc'[j] = "restore"
        <4>1. kind[j] = "update" => tgt'[j] # 0
          BY <2>1, <3>3 DEF Reconcile
        <4> QED
          BY <3>1, <3>6, <4>1
      <3>7. CASE pc'[j] = "failed"
        BY <3>7
      <3> QED
        BY <3>1, <3>2, <3>4, <3>5, <3>6, <3>7
    <2>2. CASE RestoreBegins(j)
      BY <2>2 DEF RestoreBegins
    <2>3. CASE RestoreEmpties(j)
      BY <2>3 DEF RestoreEmpties
    <2>4. CASE RestoreExtracts(j)
      BY <2>4 DEF RestoreExtracts
    <2>5. CASE RestoreEnds(j)
      BY <2>5 DEF RestoreEnds
    <2> QED
      BY <1>2, <2>1, <2>2, <2>3, <2>4, <2>5 DEF RestoreStep
  <1>3. CASE WriteStep(j)
    BY <1>3 DEF WriteStep, ParseOpens, UpdateOpens, BeginWrite, StartParser, ParserEnds, PublishFiles,
                PublishManifest, PublishWhole, Record
  <1>4. CASE ReadStep(j)
    BY <1>4 DEF ReadStep, Open, EndReading
  <1>5. CASE BackupStep(j)
    BY <1>5 DEF BackupStep, DropManifest, DropArchive, Upload, CheckSize, WriteBackupManifest, ReportBackup
  <1>6. CASE Killed(j)
    BY <1>6 DEF Killed
  <1> QED
    BY <1>1, <1>2, <1>3, <1>4, <1>5, <1>6 DEF JobStep

LEMMA OwnHold == ASSUME TypeOK, NEW j \in Jobs, JobStep(j), KindAt(j), HoldAt(j) PROVE HoldAt(j)'
  <1>0. /\ kind'[j] = kind[j] /\ kind[j] \in Kinds /\ pc[j] \in Labels /\ Dir(j)' = Dir(j) /\ Dir(j) \in Dirs
    BY OwnNotes, DirKept, DirIn DEF TypeOK
  <1> SUFFICES ASSUME kind[j] # "scratch"
      PROVE  /\ pc'[j] \in ExclusiveAt => writer'[Dir(j)] = j
             /\ pc'[j] \in SharedAt => j \in readers'[Dir(j)]
    BY <1>0 DEF HoldAt
  <1> USE <1>0 DEF TypeOK, HoldAt, ExclusiveAt, SharedAt, Fails, Ends, GoTo, At, Still, Writes, KeepLock
  <1>1. CASE LockStep(j)
    <2>1. CASE Begin(j)
      BY <2>1 DEF Begin, Kinds
    <2>2. CASE LockExclusive(j)
      BY <2>2 DEF LockExclusive
    <2>3. CASE LockShared(j)
      BY <2>3 DEF LockShared
    <2>4. CASE DropShared(j) \/ GivesUp(j) \/ \E k \in Jobs : ClearExpired(j, k)
      BY <2>4 DEF DropShared, GivesUp, ClearExpired
    <2> QED
      BY <1>1, <2>1, <2>2, <2>3, <2>4 DEF LockStep
  <1>2. CASE RestoreStep(j)
    BY <1>2 DEF RestoreStep, Reconcile, RestoreBegins, RestoreEmpties, RestoreExtracts, RestoreEnds
  <1>3. CASE WriteStep(j)
    BY <1>3 DEF WriteStep, ParseOpens, UpdateOpens, BeginWrite, StartParser, ParserEnds, PublishFiles,
                PublishManifest, PublishWhole, Record
  <1>4. CASE ReadStep(j)
    BY <1>4 DEF ReadStep, Open, EndReading
  <1>5. CASE BackupStep(j)
    BY <1>5 DEF BackupStep, DropManifest, DropArchive, Upload, CheckSize, WriteBackupManifest, ReportBackup
  <1>6. CASE Killed(j)
    BY <1>6 DEF Killed
  <1> QED
    BY <1>1, <1>2, <1>3, <1>4, <1>5, <1>6 DEF JobStep

\* A copy an update or a parse works on is the main one.
LEMMA OwnStage == ASSUME TypeOK, NEW j \in Jobs, JobStep(j), KindAt(j), StageAt(j) PROVE StageAt(j)'
  <1> DEFINE d == Dir(j)
             c == copy[d]
  <1>0. kind'[j] = kind[j] /\ Dir(j)' = d /\ d \in Dirs /\ c \in Files /\ sum[j] \in Heights
    BY OwnNotes, DirKept, DirIn DEF TypeOK
  <1>1. CASE LockStep(j)
    <2>1. pc'[j] \notin {"empty", "extract", "unmark", "parser", "config", "files", "manifest", "publish"} \/ pc' = pc
      BY <1>1 DEF LockStep, Begin, LockExclusive, LockShared, DropShared, GivesUp, ClearExpired, GoTo, Ends, Fails, TypeOK
    <2>2. copy' = copy /\ sum' = sum /\ (pc' = pc => tgt' = tgt)
      BY <1>1 DEF LockStep, Begin, LockExclusive, LockShared, DropShared, GivesUp, ClearExpired, Fails, Still, KeepNotes, GoTo, At, TypeOK
    <2> QED
      BY <1>0, <2>1, <2>2 DEF StageAt, Whole, NoFiles
  <1>2. CASE RestoreStep(j)
    <2>0. tgt' = tgt
      BY <1>2 DEF RestoreStep, Reconcile, RestoreBegins, RestoreEmpties, RestoreExtracts, RestoreEnds, Fails, Writes, Still
    <2>1. CASE Reconcile(j)
      <3>1. pc'[j] \in {"refilled", "check", "restore", "failed"}
        BY <2>1 DEF Reconcile, Ends, GoTo, TypeOK
      <3> QED
        BY <3>1 DEF StageAt
    <2>2. CASE RestoreBegins(j)
      <3>1. CASE pc'[j] = "failed"
        BY <3>1 DEF StageAt
      <3>2. CASE pc'[j] # "failed"
        <4>1. pc'[j] = "empty" /\ sum'[j] # 0 /\ copy' = [copy EXCEPT ![d] = [c EXCEPT !.writing = TRUE]]
          BY <1>0, <2>2, <3>2 DEF RestoreBegins, Fails, Ends, GoTo, TypeOK, BackupAvailable
        <4>2. copy'[d].writing
          BY <1>0, <4>1 DEF TypeOK, Files
        <4> QED
          BY <1>0, <4>1, <4>2 DEF StageAt
      <3> QED
        BY <3>1, <3>2
    <2>3. CASE RestoreEmpties(j)
      <3>1. pc[j] = "empty" /\ pc'[j] \in {"empty", "extract"} /\ sum' = sum
        BY <2>3 DEF RestoreEmpties, Writes, GoTo, TypeOK, KeepNotes, At
      <3>2. \/ copy'[d] = [c EXCEPT !.parsed = 0, !.config = 0, !.files = <<>>]
            \/ copy'[d] = [c EXCEPT !.manifest = 0, !.parsed = Torn]
        BY <1>0, <2>3 DEF RestoreEmpties, Writes, TypeOK
      <3>3. c.writing
        BY <3>1 DEF StageAt
      <3>4. copy'[d].writing
        BY <1>0, <3>2, <3>3 DEF Files
      <3> QED
        BY <1>0, <3>1, <3>3, <3>4 DEF StageAt
    <2>4. CASE RestoreExtracts(j)
      <3>1. CASE s3.archive # sum[j]
        <4>1. pc'[j] = "failed"
          BY <2>4, <3>1 DEF RestoreExtracts, Ends, GoTo, TypeOK
        <4> QED
          BY <4>1 DEF StageAt
      <3>2. CASE s3.archive = sum[j]
        <4>1. pc[j] = "extract" /\ pc'[j] = "unmark" /\ sum' = sum /\ copy' = [copy EXCEPT ![d] = [Whole(sum[j]) EXCEPT !.writing = TRUE]]
          BY <2>4, <3>2 DEF RestoreExtracts, Writes, GoTo, TypeOK, KeepNotes, At
        <4>2. copy'[d] = [Whole(sum[j]) EXCEPT !.writing = TRUE] /\ sum[j] # 0
          BY <1>0, <4>1 DEF TypeOK, StageAt
        <4>3. copy'[d].writing
          BY <4>2, <1>0, WholeIs DEF Files
        <4>4. Whole(sum'[j]) = Whole(sum[j]) /\ Whole(sum[j])' = Whole(sum'[j])
          BY <4>1 DEF Whole, NoFiles
        <4> QED
          BY <1>0, <4>1, <4>2, <4>3, <4>4 DEF StageAt
      <3> QED
        BY <3>1, <3>2
    <2>5. CASE RestoreEnds(j)
      <3>1. pc'[j] \in {"refilled", "check", "open", "failed"}
        BY <2>5 DEF RestoreEnds, Ends, GoTo, TypeOK
      <3> QED
        BY <3>1 DEF StageAt
    <2> QED
      BY <1>2, <2>1, <2>2, <2>3, <2>4, <2>5 DEF RestoreStep
  <1>3. CASE WriteStep(j)
    <2>0. /\ sum' = sum /\ tgt' = tgt
          /\ pc[j] \in {"parse", "check", "mark", "parser", "config", "files", "manifest", "publish", "record"}
      BY <1>3 DEF WriteStep, ParseOpens, UpdateOpens, BeginWrite, StartParser, ParserEnds, PublishFiles,
                PublishManifest, PublishWhole, Record, Fails, Writes, Still, KeepNotes, At
    <2>1. d = "main"
      BY <2>0, DirOf DEF KindAt
    <2> HIDE DEF d
    <2>2. CASE ParseOpens(j) \/ UpdateOpens(j) \/ PublishWhole(j) \/ Record(j)
      <3>1. pc'[j] \in {"failed", "mark", "record", "done"}
        BY <2>2 DEF ParseOpens, UpdateOpens, PublishWhole, Record, Fails, Writes, Ends, GoTo, TypeOK
      <3> QED
        BY <3>1 DEF StageAt
    <2>3. CASE pc'[j] = "failed"
      BY <2>3 DEF StageAt
    <2>4. CASE BeginWrite(j) /\ pc'[j] # "failed"
      <3>1. pc'[j] = "parser" /\ copy'[d] = [c EXCEPT !.writing = TRUE]
        BY <1>0, <2>1, <2>4 DEF BeginWrite, Writes, GoTo, TypeOK, d
      <3> QED
        BY <1>0, <3>1 DEF StageAt, Files
    <2>5. CASE StartParser(j) /\ pc'[j] # "failed"
      <3>1. pc[j] = "parser" /\ pc'[j] = "config" /\ copy'[d] = [c EXCEPT !.parsed = Torn]
        BY <1>0, <2>1, <2>5 DEF StartParser, Writes, Fails, Ends, GoTo, TypeOK, d, At
      <3>2. copy'[d].writing
        BY <1>0, <3>1 DEF StageAt, Files, d
      <3> QED
        BY <1>0, <3>1, <3>2 DEF StageAt
    <2>6. CASE ParserEnds(j) /\ pc'[j] # "failed"
      <3>1. pc[j] = "config" /\ pc'[j] = "files" /\ copy'[d] = [c EXCEPT !.parsed = tgt[j], !.config = tgt[j]]
        BY <1>0, <2>1, <2>6 DEF ParserEnds, Writes, Fails, Ends, GoTo, TypeOK, d, At
      <3>2. copy'[d].writing /\ copy'[d].parsed = tgt[j] /\ copy'[d].config = tgt[j]
        BY <1>0, <3>1 DEF StageAt, Files, d
      <3> QED
        BY <1>0, <2>0, <3>1, <3>2 DEF StageAt
    <2>7. CASE PublishFiles(j)
      <3>1. pc[j] = "files" /\ pc'[j] = "manifest" /\ copy'[d] = [c EXCEPT !.files = <<c.parsed, c.config>>]
        BY <1>0, <2>1, <2>7 DEF PublishFiles, Writes, GoTo, TypeOK, d, At, Inventory
      <3>2. /\ copy'[d].writing /\ copy'[d].parsed = tgt[j] /\ copy'[d].config = tgt[j]
            /\ copy'[d].files = <<tgt[j], tgt[j]>>
        BY <1>0, <3>1 DEF StageAt, Files, d
      <3> QED
        BY <1>0, <2>0, <3>1, <3>2 DEF StageAt
    <2>8. CASE PublishManifest(j)
      <3>1. pc[j] = "manifest" /\ pc'[j] = "publish" /\ copy'[d] = [c EXCEPT !.manifest = tgt[j]]
        BY <1>0, <2>1, <2>8 DEF PublishManifest, Writes, GoTo, TypeOK, d, At
      <3>2. /\ copy'[d].writing /\ copy'[d].parsed = tgt[j] /\ copy'[d].config = tgt[j]
            /\ copy'[d].files = <<tgt[j], tgt[j]>> /\ copy'[d].manifest = tgt[j]
        BY <1>0, <3>1 DEF StageAt, Files, d
      <3> QED
        BY <1>0, <2>0, <3>1, <3>2 DEF StageAt
    <2> QED
      BY <1>3, <2>2, <2>3, <2>4, <2>5, <2>6, <2>7, <2>8 DEF WriteStep
  <1>4. CASE ReadStep(j) \/ BackupStep(j) \/ Killed(j)
    <2>1. pc'[j] \in {"failed", "drop", "reading", "done", "discard", "upload", "size", "attest", "report", "dead"}
      BY <1>4 DEF ReadStep, Open, EndReading, BackupStep, DropManifest, DropArchive, Upload, CheckSize,
                  WriteBackupManifest, ReportBackup, Killed, Fails, Ends, GoTo, TypeOK
    <2> QED
      BY <2>1 DEF StageAt
  <1> QED
    BY <1>1, <1>2, <1>3, <1>4 DEF JobStep

LEMMA OwnRead ==
  ASSUME TypeOK, NEW j \in Jobs, JobStep(j), KindAt(j), ReadAt(j), \A d \in Dirs : FilesAt(d)
  PROVE  ReadAt(j)'
  <1> DEFINE d == Dir(j)
  <1>0. kind'[j] = kind[j] /\ Dir(j)' = d /\ d \in Dirs
    BY OwnNotes, DirKept, DirIn DEF TypeOK
  <1> HIDE DEF d
  <1>1. CASE LockStep(j)
    <2>1. pc' = pc \/ (~Reads(j))'
      BY <1>0, <1>1 DEF LockStep, Begin, LockExclusive, LockShared, DropShared, GivesUp, ClearExpired, GoTo, Ends,
                        Fails, TypeOK, Reads, BackingUp, At
    <2>2. copy' = copy /\ seen' = seen
      BY <1>1 DEF LockStep, Begin, LockExclusive, LockShared, DropShared, GivesUp, ClearExpired, Fails, Still,
                  KeepNotes
    <2> QED
      BY <1>0, <2>1, <2>2 DEF ReadAt, Reads, Whole, NoFiles, d
  <1>2. CASE RestoreStep(j) \/ WriteStep(j) \/ Killed(j)
    <2>1. pc'[j] \notin {"reading", "drop"} \cup BackingUp
      BY <1>2 DEF RestoreStep, Reconcile, RestoreBegins, RestoreEmpties, RestoreExtracts, RestoreEnds, WriteStep,
                  ParseOpens, UpdateOpens, BeginWrite, StartParser, ParserEnds, PublishFiles, PublishManifest,
                  PublishWhole, Record, Killed, GoTo, Ends, Fails, Writes, TypeOK, BackingUp
    <2> QED
      BY <2>1 DEF ReadAt, Reads, BackingUp
  <1>3. CASE Open(j)
    <2>1. CASE Complete(d)
      <3>1. copy[d] = Whole(copy[d].manifest) /\ copy[d].manifest \in 1..MaxHeight
        BY <1>0, <2>1, CompleteWhole
      <3>2. seen'[j] = copy[d].manifest /\ copy' = copy
        BY <1>3, <2>1 DEF Open, Fails, TypeOK, Still, d
      <3>3. seen'[j] # 0 /\ copy'[d] = Whole(seen'[j])
        BY <3>1, <3>2, StoreAssumption
      <3> QED
        BY <1>0, <3>3 DEF ReadAt, Whole, NoFiles, d
    <2>2. CASE ~Complete(d)
      <3>1. pc'[j] = "failed"
        BY <1>3, <2>2 DEF Open, Fails, Ends, GoTo, TypeOK, d
      <3> QED
        BY <3>1 DEF ReadAt, Reads, BackingUp
    <2> QED
      BY <2>1, <2>2
  <1>4. CASE EndReading(j)
    <2>1. pc'[j] = "done"
      BY <1>4 DEF EndReading, Ends, GoTo, TypeOK
    <2> QED
      BY <2>1 DEF ReadAt, Reads, BackingUp
  <1>5. CASE BackupStep(j)
    <2>1. copy' = copy /\ seen' = seen
      BY <1>5 DEF BackupStep, DropManifest, DropArchive, Upload, CheckSize, WriteBackupManifest, ReportBackup, Fails,
                  Still, KeepNotes
    <2>2. Reads(j)' => Reads(j)
      BY <1>0, <1>5 DEF BackupStep, DropManifest, DropArchive, Upload, CheckSize, WriteBackupManifest, ReportBackup,
                        Fails, Ends, GoTo, TypeOK, Reads, BackingUp, At
    <2> QED
      BY <1>0, <2>1, <2>2 DEF ReadAt, Whole, NoFiles, d
  <1> QED
    BY <1>1, <1>2, <1>3, <1>4, <1>5 DEF JobStep, ReadStep

\* The file list is written under .writing, and the mark goes only when it is the manifest's.
LEMMA OwnFiles ==
  ASSUME TypeOK, NEW j \in Jobs, JobStep(j), KindAt(j), StageAt(j), FilesAt(Dir(j))
  PROVE  FilesAt(Dir(j))'
  <1> DEFINE d == Dir(j)
             c == copy[d]
  <1>0. Dir(j)' = d /\ d \in Dirs /\ c \in Files /\ sum[j] \in Heights
    BY OwnNotes, DirKept, DirIn DEF TypeOK
  <1> HIDE DEF d
  <1>1. CASE copy'[d] = copy[d]
    BY <1>0, <1>1 DEF FilesAt, d
  <1>2. CASE copy'[d].writing \/ copy'[d].manifest = 0
    BY <1>0, <1>2 DEF FilesAt
  <1>3. CASE RestoreStep(j)
    <2>1. CASE Reconcile(j)
      BY <1>1, <2>1 DEF Reconcile
    <2>2. CASE RestoreBegins(j)
      <3>1. copy' = copy \/ copy'[d] = [c EXCEPT !.writing = TRUE]
        BY <1>0, <2>2 DEF RestoreBegins, Fails, TypeOK, d
      <3> QED
        BY <1>0, <1>1, <1>2, <3>1 DEF Files
    <2>3. CASE RestoreEmpties(j)
      <3>1. copy'[d] = [c EXCEPT !.parsed = 0, !.config = 0, !.files = <<>>]
            \/ copy'[d] = [c EXCEPT !.manifest = 0, !.parsed = Torn]
        BY <1>0, <2>3 DEF RestoreEmpties, Writes, TypeOK, d
      <3>2. c.writing
        BY <2>3 DEF RestoreEmpties, StageAt, At, d
      <3> QED
        BY <1>0, <1>2, <3>1, <3>2 DEF Files
    <2>4. CASE RestoreExtracts(j)
      <3>1. CASE s3.archive = sum[j]
        <4>1. copy'[d] = [Whole(sum[j]) EXCEPT !.writing = TRUE]
          BY <1>0, <2>4, <3>1 DEF RestoreExtracts, Writes, TypeOK, d
        <4> QED
          BY <1>0, <1>2, <4>1, WholeIs DEF Files
      <3>2. CASE s3.archive # sum[j]
        <4>1. PICK h \in {0, s3.archive} \ {Torn} :
                copy' = [copy EXCEPT ![Dir(j)] = [Whole(h) EXCEPT !.writing = TRUE, !.parsed = Torn]]
          BY <2>4, <3>2 DEF RestoreExtracts
        <4>2. h \in Heights
          BY <4>1, StoreAssumption DEF TypeOK, Contents, Heights
        <4>3. copy'[d] = [Whole(h) EXCEPT !.writing = TRUE, !.parsed = Torn]
          BY <1>0, <4>1 DEF TypeOK, d
        <4> QED
          BY <1>2, <4>2, <4>3, WholeIs DEF Files
      <3> QED
        BY <3>1, <3>2
    <2>5. CASE RestoreEnds(j)
      <3>1. copy'[d] = [c EXCEPT !.writing = FALSE]
        BY <1>0, <2>5 DEF RestoreEnds, TypeOK, d
      <3>2. c = [Whole(sum[j]) EXCEPT !.writing = TRUE] /\ sum[j] # 0
        BY <2>5 DEF RestoreEnds, StageAt, At, d
      <3>3. copy'[d].manifest = sum[j] /\ copy'[d].files = <<sum[j], sum[j]>>
        BY <1>0, <3>1, <3>2, WholeIs DEF Files
      <3> QED
        BY <1>0, <3>3 DEF FilesAt
    <2> QED
      BY <1>3, <2>1, <2>2, <2>3, <2>4, <2>5 DEF RestoreStep
  <1>4. CASE WriteStep(j)
    <2>0. pc[j] \in {"parse", "check", "mark", "parser", "config", "files", "manifest", "publish", "record"}
      BY <1>4 DEF WriteStep, ParseOpens, UpdateOpens, BeginWrite, StartParser, ParserEnds, PublishFiles,
                  PublishManifest, PublishWhole, Record, At
    <2>1. d = "main"
      BY <2>0, DirOf DEF KindAt, d
    <2>2. CASE UpdateOpens(j) \/ Record(j)
      BY <1>1, <2>2 DEF UpdateOpens, Record, Fails
    <2>3. CASE ParseOpens(j)
      <3>1. copy' = copy \/ copy'[d] = [c EXCEPT !.parsed = 0, !.config = 0, !.files = <<>>]
        BY <1>0, <2>1, <2>3 DEF ParseOpens, Fails, Writes, TypeOK, d
      <3> QED
        BY <1>0, <1>1, <3>1 DEF FilesAt, Files
    <2>4. CASE BeginWrite(j)
      <3>1. copy'[d] = [c EXCEPT !.writing = TRUE]
        BY <1>0, <2>1, <2>4 DEF BeginWrite, Writes, TypeOK, d
      <3> QED
        BY <1>0, <1>2, <3>1 DEF Files
    <2>5. CASE StartParser(j)
      <3>1. copy' = copy \/ (pc[j] = "parser" /\ copy'[d] = [c EXCEPT !.parsed = Torn])
        BY <1>0, <2>1, <2>5 DEF StartParser, Writes, Fails, TypeOK, At, d
      <3> QED
        BY <1>0, <1>1, <1>2, <3>1 DEF Files, StageAt, d
    <2>6. CASE ParserEnds(j)
      <3>1. copy' = copy \/ (pc[j] = "config" /\ copy'[d] = [c EXCEPT !.parsed = tgt[j], !.config = tgt[j]])
        BY <1>0, <2>1, <2>6 DEF ParserEnds, Writes, Fails, TypeOK, At, d
      <3> QED
        BY <1>0, <1>1, <1>2, <3>1 DEF Files, StageAt, d
    <2>7. CASE PublishFiles(j)
      <3>1. pc[j] = "files" /\ copy'[d] = [c EXCEPT !.files = <<c.parsed, c.config>>]
        BY <1>0, <2>1, <2>7 DEF PublishFiles, Writes, TypeOK, At, Inventory, d
      <3> QED
        BY <1>0, <1>2, <3>1 DEF Files, StageAt, d
    <2>8. CASE PublishManifest(j)
      <3>1. pc[j] = "manifest" /\ copy'[d] = [c EXCEPT !.manifest = tgt[j]]
        BY <1>0, <2>1, <2>8 DEF PublishManifest, Writes, TypeOK, At, d
      <3> QED
        BY <1>0, <1>2, <3>1 DEF Files, StageAt, d
    <2>9. CASE PublishWhole(j)
      <3>1. pc[j] = "publish" /\ copy'[d] = [c EXCEPT !.writing = FALSE]
        BY <1>0, <2>1, <2>9 DEF PublishWhole, Writes, TypeOK, At, d
      <3>2. c.manifest = tgt[j] /\ c.files = <<tgt[j], tgt[j]>>
        BY <3>1 DEF StageAt, d
      <3>3. copy'[d].manifest = tgt[j] /\ copy'[d].files = <<tgt[j], tgt[j]>>
        BY <1>0, <3>1, <3>2 DEF Files
      <3> QED
        BY <1>0, <3>3 DEF FilesAt
    <2> QED
      BY <1>4, <2>2, <2>3, <2>4, <2>5, <2>6, <2>7, <2>8, <2>9 DEF WriteStep
  <1>5. CASE LockStep(j) \/ ReadStep(j) \/ BackupStep(j) \/ Killed(j)
    BY <1>1, <1>5 DEF LockStep, Begin, LockExclusive, LockShared, DropShared, GivesUp, ClearExpired, ReadStep, Open,
                      EndReading, BackupStep, DropManifest, DropArchive, Upload, CheckSize, WriteBackupManifest,
                      ReportBackup, Killed, Fails
  <1> QED
    BY <1>3, <1>4, <1>5 DEF JobStep
-----------------------------------------------------------------------------
(***************************************************************************)
(* The inductive invariant.                                                *)
(***************************************************************************)
LEMMA InvInit == Init => StoreInv
  <1> SUFFICES ASSUME Init PROVE StoreInv
    OBVIOUS
  <1>1. TypeOK
    BY TypeInit
  <1>2. PICK label \in {"idle", "done"} : Start(label)
    BY DEF Init
  <1>3. ASSUME NEW j \in Jobs PROVE JobAt(j)
    <2>1. pc[j] \in {"idle", "done"}
      BY <1>2 DEF Start
    <2> QED
      BY <2>1 DEF JobAt, KindAt, HoldAt, StageAt, ReadAt, Reads, BackingUp, ExclusiveAt, SharedAt, Ended
  <1>4. ASSUME NEW d \in Dirs PROVE FilesAt(d) /\ LockAt(d)
    <2>1. PICK h \in Histories : copy = [e \in Dirs |-> IF e = "main" THEN Whole(h[1]) ELSE NoFiles]
      BY <1>2 DEF Start
    <2>2. h[1] \in Heights
      BY StoreAssumption
    <2>3. copy[d] = Whole(h[1]) \/ copy[d] = NoFiles
      BY <2>1
    <2>4. FilesAt(d)
      BY <2>2, <2>3, WholeIs DEF FilesAt, NoFiles
    <2>5. LockAt(d)
      BY <1>2 DEF Start, LockAt
    <2> QED
      BY <2>4, <2>5
  <1> QED
    BY <1>3, <1>4 DEF StoreInv

LEMMA InvJobStep == ASSUME TypeOK, StoreInv, NEW j \in Jobs, JobStep(j) PROVE StoreInv'
  <1>0. JobAt(j) /\ (\A d \in Dirs : FilesAt(d)) /\ (\A d \in Dirs : LockAt(d)) /\ Dir(j) \in Dirs
    BY DirIn DEF StoreInv
  <1>1. JobAt(j)'
    BY <1>0, OwnKind, OwnHold, OwnStage, OwnRead DEF JobAt
  <1>2. ASSUME NEW k \in Jobs PROVE JobAt(k)'
    BY <1>0, <1>1, OthersKept DEF StoreInv
  <1>3. ASSUME NEW d \in Dirs PROVE FilesAt(d)'
    <2>1. CASE d = Dir(j)
      <3>1. Dir(j)' = Dir(j)
        BY OwnNotes, DirKept
      <3>2. FilesAt(Dir(j))'
        BY <1>0, OwnFiles DEF JobAt
      <3> QED
        BY <2>1, <3>1, <3>2 DEF FilesAt
    <2>2. CASE d # Dir(j)
      <3>1. copy'[d] = copy[d]
        BY <1>0, <2>2, OwnWrites DEF TypeOK
      <3> QED
        BY <1>0, <3>1 DEF FilesAt
    <2> QED
      BY <2>1, <2>2
  <1>4. ASSUME NEW d \in Dirs PROVE LockAt(d)'
    BY <1>0, LockKept
  <1> QED
    BY <1>2, <1>3, <1>4 DEF StoreInv

\* The purge takes a file of a directory where no job works.
LEMMA NobodyThere ==
  ASSUME TypeOK, StoreInv, NEW d \in Dirs, Purge(d), NEW j \in Jobs, pc[j] \in ExclusiveAt \cup SharedAt
  PROVE  Dir(j) # d
  <1> SUFFICES ASSUME Dir(j) = d PROVE FALSE
    OBVIOUS
  <1>1. d \in {"main", "notebook"} /\ writer[d] = NoJob /\ readers[d] = {}
    BY DEF Purge
  <1>2. kind[j] # "scratch"
    BY <1>1, StoreAssumption, DirOf
  <1>3. writer[d] = j \/ j \in readers[d]
    BY <1>2 DEF StoreInv, JobAt, HoldAt
  <1> QED
    BY <1>1, <1>3, StoreAssumption

LEMMA InvPurge == ASSUME TypeOK, StoreInv, NEW d \in Dirs, Purge(d) PROVE StoreInv'
  <1>1. /\ UNCHANGED <<kind, tgt, pc, writer, readers, sum, seen>>
        /\ copy' = [copy EXCEPT ![d] = [copy[d] EXCEPT !.parsed = Torn]]
    BY DEF Purge, Still, KeepLock, KeepNotes, TypeOK
  <1>2. ASSUME NEW j \in Jobs PROVE JobAt(j)'
    <2>1. JobAt(j) /\ Dir(j)' = Dir(j) /\ Dir(j) \in Dirs
      BY <1>1, DirKept, DirIn DEF StoreInv
    <2>2. KindAt(j)' /\ HoldAt(j)'
      BY <1>1, <2>1 DEF JobAt, KindAt, HoldAt
    <2>3. pc[j] \in ExclusiveAt \cup SharedAt => copy'[Dir(j)] = copy[Dir(j)]
      BY <1>1, <2>1, NobodyThere DEF TypeOK
    <2>4. StageAt(j)'
      BY <1>1, <2>1, <2>3 DEF JobAt, StageAt, ExclusiveAt, Whole, NoFiles
    <2>5. ReadAt(j)'
      BY <1>1, <2>1, <2>3 DEF JobAt, ReadAt, Reads, SharedAt, BackingUp, Whole, NoFiles
    <2> QED
      BY <2>2, <2>4, <2>5 DEF JobAt
  <1>3. ASSUME NEW e \in Dirs PROVE FilesAt(e)' /\ LockAt(e)'
    <2>1. /\ copy[e] \in Files
          /\ copy'[e] = copy[e] \/ copy'[e] = [copy[e] EXCEPT !.parsed = Torn]
      BY <1>1 DEF TypeOK
    <2>2. copy'[e].manifest = copy[e].manifest /\ copy'[e].files = copy[e].files /\ copy'[e].writing = copy[e].writing
      BY <2>1 DEF Files
    <2>3. FilesAt(e) /\ LockAt(e)
      BY DEF StoreInv
    <2> QED
      BY <1>1, <2>2, <2>3 DEF FilesAt, LockAt
  <1> QED
    BY <1>2, <1>3 DEF StoreInv

LEMMA InvStep == TypeOK /\ StoreInv /\ [Next]_vars => StoreInv'
  <1> SUFFICES ASSUME TypeOK, StoreInv, [Next]_vars PROVE StoreInv'
    OBVIOUS
  <1>1. CASE UNCHANGED indexVars
    <2>1. ASSUME NEW j \in Jobs PROVE JobAt(j)'
      <3>1. JobAt(j) /\ Dir(j)' = Dir(j)
        BY <1>1, DirKept DEF StoreInv, indexVars
      <3>2. KindAt(j)' /\ HoldAt(j)'
        BY <1>1, <3>1 DEF indexVars, JobAt, KindAt, HoldAt
      <3>3. StageAt(j)'
        BY <1>1, <3>1 DEF indexVars, JobAt, StageAt, Whole, NoFiles
      <3>4. ReadAt(j)'
        BY <1>1, <3>1 DEF indexVars, JobAt, ReadAt, Reads, Whole, NoFiles
      <3> QED
        BY <3>2, <3>3, <3>4 DEF JobAt
    <2>2. ASSUME NEW d \in Dirs PROVE FilesAt(d)' /\ LockAt(d)'
      BY <1>1 DEF indexVars, StoreInv, FilesAt, LockAt
    <2> QED
      BY <2>1, <2>2 DEF StoreInv
  <1> QED
    BY <1>1, InvJobStep, InvPurge, Steps

LEMMA StoreInvariant == Spec => []StoreInv
  BY InvInit, InvStep, StoreTypes, PTL DEF Spec

\* A copy that complete() accepts is whole, whoever was killed while writing it.
THEOREM WholeWhenComplete == Spec => []CompleteIsWhole
  <1>1. TypeOK /\ StoreInv => CompleteIsWhole
    <2> SUFFICES ASSUME TypeOK, StoreInv, NEW d \in Dirs, Complete(d)
        PROVE  copy[d].parsed = copy[d].manifest /\ copy[d].config = copy[d].manifest
      BY DEF CompleteIsWhole
    <2>1. copy[d].files = <<copy[d].manifest, copy[d].manifest>>
      BY DEF StoreInv, FilesAt, Complete
    <2> QED
      BY <2>1 DEF Complete, Inventory
  <1> QED
    BY <1>1, StoreTypes, StoreInvariant, PTL

\* What an analysis reads is the index it named, for as long as it reads.
THEOREM ReadersReadWhole == Spec => []ReadsWhole
  <1>1. StoreInv => ReadsWhole
    BY DEF StoreInv, JobAt, ReadAt, Reads, ReadsWhole, At
  <1> QED
    BY <1>1, StoreInvariant, PTL
-----------------------------------------------------------------------------
(***************************************************************************)
(* The refinement: what the directories hold whole and what the jobs read. *)
(***************************************************************************)
Held == [d \in Dirs |-> IF Complete(d) THEN copy[d].manifest ELSE 0]
View == [d \in Dirs |-> [j \in Jobs |-> IF At(j, "reading") /\ Dir(j) = d THEN seen[j] ELSE 0]]
Read(j) == IF At(j, "reading") THEN seen[j] ELSE 0

LEMMA HeldTypes == ASSUME TypeOK PROVE Held \in [Dirs -> 0..MaxHeight]
  <1>1. ASSUME NEW d \in Dirs PROVE copy[d].manifest \in 0..MaxHeight
    BY DEF TypeOK, Files, Heights
  <1> QED
    BY <1>1, StoreAssumption DEF Held

LEMMA PromiseInit == Init => Promise!Init
  <1> SUFFICES ASSUME Init PROVE Promise!Init
    OBVIOUS
  <1>1. Held \in [Dirs -> 0..MaxHeight]
    BY TypeInit, HeldTypes
  <1>2. \A j \in Jobs : pc[j] # "reading"
    BY DEF Init, Start
  <1>3. View = [d \in Dirs |-> [j \in Jobs |-> 0]]
    BY <1>2 DEF View, At
  <1> QED
    BY <1>1, <1>3 DEF Promise!Init, Held, View

\* A step that leaves every copy alone changes at most the job's own entry in the view.
LEMMA ViewOf ==
  ASSUME TypeOK, NEW j \in Jobs, kind' = kind,
         \A k \in Jobs \ {j} : pc'[k] = pc[k] /\ seen'[k] = seen[k]
  PROVE  View' = [View EXCEPT ![Dir(j)][j] = Read(j)']
  <1>1. \A k \in Jobs : Dir(k)' = Dir(k)
    BY DirKept
  <1>2. \A k \in Jobs \ {j} : At(k, "reading")' = At(k, "reading")
    BY DEF At
  <1>3. ASSUME NEW d \in Dirs PROVE View'[d] = [View EXCEPT ![Dir(j)][j] = Read(j)'][d]
    <2>1. View'[d] = [k \in Jobs |-> IF At(k, "reading")' /\ Dir(k) = d THEN seen'[k] ELSE 0]
      BY <1>1 DEF View
    <2>2. View[d] = [k \in Jobs |-> IF At(k, "reading") /\ Dir(k) = d THEN seen[k] ELSE 0]
      BY DEF View
    <2>3. CASE d = Dir(j)
      <3>1. [View EXCEPT ![Dir(j)][j] = Read(j)'][d] = [View[d] EXCEPT ![j] = Read(j)']
        BY <2>3 DEF View
      <3>2. \A k \in Jobs : View'[d][k] = [View[d] EXCEPT ![j] = Read(j)'][k]
        BY <1>2, <2>1, <2>2, <2>3 DEF Read
      <3> QED
        BY <2>1, <2>2, <3>1, <3>2
    <2>4. CASE d # Dir(j)
      <3>1. [View EXCEPT ![Dir(j)][j] = Read(j)'][d] = View[d]
        BY <2>4 DEF View
      <3>2. \A k \in Jobs : View'[d][k] = View[d][k]
        BY <1>2, <2>1, <2>2, <2>4
      <3> QED
        BY <2>1, <2>2, <3>1, <3>2
    <2> QED
      BY <2>3, <2>4
  <1> QED
    BY <1>3 DEF View

LEMMA ReadersIn ==
  ASSUME NEW d \in Dirs, \A j \in Jobs : ~(At(j, "reading") /\ Dir(j) = d) PROVE Promise!NoReader(d)
  BY DEF Promise!NoReader

\* A write, or a purge, replaces what its directory holds while nobody reads it.
LEMMA WriteReplaces ==
  ASSUME TypeOK, TypeOK', NEW d \in Dirs, NEW c \in Files, copy' = [copy EXCEPT ![d] = c], View' = View,
         \A j \in Jobs : ~(At(j, "reading") /\ Dir(j) = d)
  PROVE  Promise!Replace(d)
  <1>1. Held' \in [Dirs -> 0..MaxHeight] /\ Held \in [Dirs -> 0..MaxHeight]
    <2>1. ASSUME NEW e \in Dirs PROVE copy[e].manifest \in 0..MaxHeight /\ copy'[e].manifest \in 0..MaxHeight
      BY DEF TypeOK, Files, Heights
    <2> QED
      BY <2>1, StoreAssumption DEF Held
  <1>2. ASSUME NEW e \in Dirs, e # d PROVE Held'[e] = Held[e]
    <2>1. copy'[e] = copy[e]
      BY <1>2 DEF TypeOK
    <2> QED
      BY <2>1 DEF Held, Complete, Inventory
  <1>3. Held' = [Held EXCEPT ![d] = Held'[d]] /\ Held'[d] \in 0..MaxHeight
    BY <1>1, <1>2
  <1>4. Promise!NoReader(d)
    BY ReadersIn
  <1> QED
    BY <1>3, <1>4 DEF Promise!Replace, Held, View

LEMMA PromiseNext ==
  ASSUME NEW d \in Dirs, NEW j \in Jobs, Promise!Replace(d) \/ Promise!StartRead(d, j) \/ Promise!EndRead(d, j)
  PROVE  Promise!Next
  BY DEF Promise!Next

LEMMA JobImplements ==
  ASSUME TypeOK, StoreInv, TypeOK', NEW j \in Jobs, JobStep(j)
  PROVE  Promise!Next \/ UNCHANGED <<Held, View>>
  <1>d. PICK d \in Dirs : d = Dir(j)
    BY DirIn
  <1>0. /\ d \in Dirs /\ kind' = kind /\ View \in [Dirs -> [Jobs -> Heights]]
        /\ View' = [View EXCEPT ![d][j] = Read(j)']
    <2>1. View \in [Dirs -> [Jobs -> Heights]]
      BY StoreAssumption DEF View, TypeOK, Heights
    <2> QED
      BY <2>1, <1>d, OwnNotes, ViewOf
  <1>1. View[d][j] = Read(j)
    BY <1>0, <1>d DEF View, Read
  <1>2. CASE copy' = copy
    <2>1. Held' = Held
      BY <1>2 DEF Held, Complete, Inventory
    <2>2. CASE Read(j)' = Read(j)
      <3>1. View' = View
        BY <1>0, <1>1, <2>2
      <3> QED
        BY <2>1, <3>1
    <2>3. CASE Read(j)' = 0
      <3>1. Promise!EndRead(d, j)
        BY <1>0, <2>1, <2>3 DEF Promise!EndRead, Held, View
      <3> QED
        BY <1>0, <3>1, PromiseNext
    <2>4. CASE Read(j)' # Read(j) /\ Read(j)' # 0
      <3>1. pc'[j] = "reading" /\ Open(j) /\ Complete(d) /\ Read(j) = 0 /\ Read(j)' = copy[d].manifest
        <4>1. pc'[j] = "reading"
          BY <2>4 DEF Read, At
        <4>2. Open(j)
          <5>1. CASE LockStep(j)
            BY <4>1, <5>1, <2>4 DEF LockStep, Begin, LockExclusive, LockShared, DropShared, GivesUp, ClearExpired, GoTo,
                                    Ends, Fails, TypeOK, At, Read, KeepNotes, Still
          <5>2. CASE RestoreStep(j)
            BY <4>1, <5>2 DEF RestoreStep, Reconcile, RestoreBegins, RestoreEmpties, RestoreExtracts, RestoreEnds,
                              Ends, GoTo, Fails, Writes, TypeOK
          <5>3. CASE WriteStep(j)
            BY <4>1, <5>3 DEF WriteStep, ParseOpens, UpdateOpens, BeginWrite, StartParser, ParserEnds, PublishFiles,
                              PublishManifest, PublishWhole, Record, Ends, GoTo, Fails, Writes, TypeOK
          <5>4. CASE EndReading(j) \/ BackupStep(j) \/ Killed(j)
            BY <4>1, <5>4 DEF EndReading, BackupStep, DropManifest, DropArchive, Upload, CheckSize,
                              WriteBackupManifest, ReportBackup, Killed, Ends, GoTo, Fails, TypeOK
          <5> QED
            BY <5>1, <5>2, <5>3, <5>4 DEF JobStep, ReadStep
        <4>3. Complete(d) /\ seen'[j] = copy[d].manifest /\ pc[j] = "open"
          BY <4>1, <4>2, <1>d DEF Open, Fails, Ends, GoTo, TypeOK, At
        <4> QED
          BY <4>1, <4>2, <4>3 DEF Read, At
      <3>2. Held[d] = copy[d].manifest /\ Held[d] # 0
        BY <1>0, <3>1 DEF Held, Complete
      <3>3. Promise!StartRead(d, j)
        BY <1>0, <1>1, <2>1, <3>1, <3>2 DEF Promise!StartRead, Held, View
      <3> QED
        BY <1>0, <3>3, PromiseNext
    <2> QED
      BY <2>2, <2>3, <2>4
  <1>3. CASE pc[j] \in ExclusiveAt /\ \E c \in Files : copy' = [copy EXCEPT ![d] = c]
    <2>1. ASSUME NEW k \in Jobs, At(k, "reading") PROVE Dir(k) # d
      BY <1>d, <1>3, <2>1, Alone DEF StoreInv, JobAt, At, ExclusiveAt, SharedAt
    <2>2. pc'[j] # "reading"
      BY <1>3, <2>1 DEF JobStep, LockStep, Begin, LockExclusive, LockShared, DropShared, GivesUp, ClearExpired,
         RestoreStep, Reconcile, RestoreBegins, RestoreEmpties, RestoreExtracts, RestoreEnds, WriteStep, ParseOpens,
         UpdateOpens, BeginWrite, StartParser, ParserEnds, PublishFiles, PublishManifest, PublishWhole, Record,
         ReadStep, Open, EndReading, BackupStep, DropManifest, DropArchive, Upload, CheckSize, WriteBackupManifest,
         ReportBackup, Killed, Ends, GoTo, Fails, Writes, TypeOK, ExclusiveAt, At
    <2>3. Read(j)' = 0 /\ Read(j) = 0
      BY <1>3, <2>2 DEF Read, At, ExclusiveAt
    <2>4. View' = View
      BY <1>0, <1>1, <2>3
    <2>5. PICK c \in Files : copy' = [copy EXCEPT ![d] = c]
      BY <1>3
    <2>6. Promise!Replace(d)
      BY <1>0, <2>1, <2>4, <2>5, WriteReplaces
    <2> QED
      BY <1>0, <2>6, PromiseNext
  <1> QED
    BY <1>d, <1>2, <1>3, OwnWrites

LEMMA PurgeImplements == ASSUME TypeOK, StoreInv, TypeOK', NEW d \in Dirs, Purge(d) PROVE Promise!Next
  <1>1. [copy[d] EXCEPT !.parsed = Torn] \in Files
    BY RecordTypes DEF TypeOK
  <1>2. UNCHANGED <<kind, pc, seen>> /\ copy' = [copy EXCEPT ![d] = [copy[d] EXCEPT !.parsed = Torn]]
    BY DEF Purge, Still, KeepNotes, TypeOK
  <1>3. View' = View
    BY <1>2 DEF View, At, Dir
  <1>4. ASSUME NEW j \in Jobs, At(j, "reading") PROVE Dir(j) # d
    BY <1>4, NobodyThere DEF At, SharedAt
  <1>5. Promise!Replace(d)
    BY <1>1, <1>2, <1>3, <1>4, WriteReplaces
  <1> QED
    BY <1>5 DEF Promise!Next

LEMMA PromiseStep ==
  TypeOK /\ StoreInv /\ TypeOK' /\ [Next]_vars => [Promise!Next]_<<Held, View>>
  <1> SUFFICES ASSUME TypeOK, StoreInv, TypeOK', [Next]_vars PROVE Promise!Next \/ UNCHANGED <<Held, View>>
    OBVIOUS
  <1>1. CASE UNCHANGED indexVars
    <2>1. Held' = Held
      BY <1>1 DEF indexVars, Held, Complete, Inventory
    <2>2. View' = View
      BY <1>1 DEF indexVars, View, At, Dir
    <2> QED
      BY <2>1, <2>2
  <1> QED
    BY <1>1, JobImplements, PurgeImplements, Steps

\* The store implements the shared index it promises: a directory holds a whole index or nothing to
\* read, and does not change under a reader, whatever is killed, purged or restored.
THEOREM StoreImplements == Spec => ImplementsSharedIndex
  <1>1. TypeOK /\ StoreInv /\ TypeOK' /\ [Next]_vars
          => [Promise!Next]_<<[d \in Dirs |-> IF Complete(d) THEN copy[d].manifest ELSE 0],
                              [d \in Dirs |-> [j \in Jobs |-> IF At(j, "reading") /\ Dir(j) = d THEN seen[j] ELSE 0]]>>
    BY PromiseStep DEF Held, View
  <1> QED
    BY <1>1, PromiseInit, StoreTypes, StoreInvariant, PTL DEF Spec, ImplementsSharedIndex, Promise!Spec

-----------------------------------------------------------------------------
(***************************************************************************)
(* The lock, as SharedLock promises it, of any one directory.              *)
(***************************************************************************)
Left(d) == Entries(d) \ Live(d)
LockOf(d) == INSTANCE SharedLock WITH holding <- Live(d), left <- Left(d), broken <- FALSE

\* What a job's step does to the locks: it takes one nobody conflicting has, lets go of what it has,
\* dies with it, or clears what a dead job left in its directory.
LEMMA LockSteps ==
  ASSUME TypeOK, NEW j \in Jobs, JobStep(j)
  PROVE  /\ pc[j] # "dead"
         /\ \/ /\ pc'[j] # "dead"
               /\ UNCHANGED <<writer, readers>> \/ Unlocked(j) \/ Takes(j)
            \/ pc'[j] = "dead" /\ UNCHANGED <<writer, readers>>
            \/ pc'[j] # "dead" /\ \E k \in Jobs : pc[k] = "dead" /\ ClearExpired(j, k)
  <1>0. pc \in [Jobs -> Labels]
    BY DEF TypeOK
  <1> USE DEF Fails, Ends, KeepLock, Writes, At, GoTo
  <1>1. CASE LockStep(j)
    BY <1>0, <1>1 DEF LockStep, Begin, LockExclusive, LockShared, DropShared, GivesUp, ClearExpired, Takes
  <1>2. CASE RestoreStep(j)
    BY <1>0, <1>2 DEF RestoreStep, Reconcile, RestoreBegins, RestoreEmpties, RestoreExtracts, RestoreEnds
  <1>3. CASE WriteStep(j)
    BY <1>0, <1>3 DEF WriteStep, ParseOpens, UpdateOpens, BeginWrite, StartParser, ParserEnds, PublishFiles,
                PublishManifest, PublishWhole, Record
  <1>4. CASE ReadStep(j)
    BY <1>0, <1>4 DEF ReadStep, Open, EndReading
  <1>5. CASE BackupStep(j)
    BY <1>0, <1>5 DEF BackupStep, DropManifest, DropArchive, Upload, CheckSize, WriteBackupManifest, ReportBackup
  <1>6. CASE Killed(j)
    BY <1>0, <1>6 DEF Killed, Ended
  <1> QED
    BY <1>1, <1>2, <1>3, <1>4, <1>5, <1>6 DEF JobStep

LEMMA JobLocks ==
  ASSUME TypeOK, TypeOK', NEW j \in Jobs, JobStep(j), NEW d \in Dirs
  PROVE  LockOf(d)!Next \/ UNCHANGED <<Live(d), Left(d)>>
  <1>0. /\ pc[j] # "dead" /\ pc \in [Jobs -> Labels] /\ \A k \in Jobs \ {j} : pc'[k] = pc[k]
        /\ writer[d] \in Jobs \cup {NoJob} /\ readers[d] \in SUBSET Jobs /\ Dir(j) \in Dirs
        /\ writer \in [Dirs -> Jobs \cup {NoJob}] /\ readers \in [Dirs -> SUBSET Jobs]
    BY LockSteps, OwnNotes, DirIn DEF TypeOK
  <1>1. CASE pc'[j] # "dead" /\ writer'[d] = writer[d] /\ readers'[d] = readers[d]
    BY <1>0, <1>1 DEF Live, Left, Entries, At
  <1>2. CASE pc'[j] # "dead" /\ Unlocked(j)
    <2>1. Entries(d)' = {a \in Entries(d) : a.job # j}
      BY <1>0, <1>2, StoreAssumption DEF Entries, Unlocked
    <2>2. \A a \in Entries(d) : a.job \in Jobs /\ (At(a.job, "dead")' <=> At(a.job, "dead"))
      BY <1>0, <1>2 DEF Entries, At
    <2>3. Live(d)' = Live(d) \ LockOf(d)!Of(j, Live(d)) /\ Left(d)' = Left(d)
      BY <1>0, <2>1, <2>2 DEF Live, Left, At, LockOf!Of
    <2> QED
      BY <2>3 DEF LockOf!Next, LockOf!LetGo
  <1>3. CASE pc'[j] # "dead" /\ Takes(j) /\ Dir(j) = d
    <2> DEFINE a == [mode |-> IF writer' = writer THEN "shared" ELSE "exclusive", job |-> j]
    <2>1. Live(d)' = Live(d) \cup {a} /\ Left(d)' = Left(d)
      <3>1. Entries(d)' = Entries(d) \cup {a}
        BY <1>0, <1>3, StoreAssumption DEF Entries, Takes
      <3>2. \A b \in Entries(d)' : b.job \in Jobs /\ (At(b.job, "dead")' <=> At(b.job, "dead"))
        BY <1>0, <1>3, <3>1 DEF Entries, At
      <3>3. ~At(a.job, "dead")
        BY <1>0 DEF At
      <3> QED
        BY <3>1, <3>2, <3>3 DEF Live, Left
    <2>2. \A b \in Live(d) \cup Left(d) : ~LockOf(d)!Conflict(a, b)
      BY <1>0, <1>3, StoreAssumption DEF Live, Left, Entries, Takes, LockOf!Conflict
    <2>3. a \in LockOf(d)!Claims
      BY DEF LockOf!Claims
    <2> QED
      BY <2>1, <2>2, <2>3 DEF LockOf!Next, LockOf!Take
  <1>4. CASE pc'[j] # "dead" /\ Takes(j) /\ Dir(j) # d
    <2>1. writer'[d] = writer[d] /\ readers'[d] = readers[d]
      BY <1>0, <1>4 DEF Takes
    <2> QED
      BY <1>1, <1>4, <2>1
  <1>5. CASE pc'[j] = "dead" /\ UNCHANGED <<writer, readers>>
    <2> DEFINE mine == LockOf(d)!Of(j, Live(d))
    <2>1. Entries(d)' = Entries(d) /\ Live(d)' = Live(d) \ mine
      BY <1>0, <1>5 DEF Live, Entries, At, LockOf!Of
    <2>2. mine \in SUBSET LockOf(d)!Of(j, LockOf(d)!Claims) /\ mine \subseteq Live(d) /\ Live(d) \subseteq Entries(d)
      BY <1>0 DEF Live, Entries, LockOf!Of, LockOf!Claims
    <2>3. Left(d)' = Left(d) \cup mine
      BY <2>1, <2>2 DEF Left
    <2> QED
      BY <2>1, <2>2, <2>3 DEF LockOf!Next, LockOf!Killed
  <1>6. ASSUME pc'[j] # "dead", NEW k \in Jobs, pc[k] = "dead", ClearExpired(j, k)
        PROVE  LockOf(d)!Next \/ UNCHANGED <<Live(d), Left(d)>>
    <2>1. CASE Dir(j) = d
      <3>1. Live(d)' = Live(d) /\ Left(d)' = Left(d) \ LockOf(d)!Of(k, Left(d))
        <4>1. Entries(d)' = {a \in Entries(d) : a.job # k}
          BY <1>0, <1>6, <2>1, StoreAssumption DEF ClearExpired, Entries
        <4>2. \A a \in Entries(d) : a.job \in Jobs /\ (At(a.job, "dead")' <=> At(a.job, "dead"))
          BY <1>0, <1>6 DEF Entries, At
        <4> QED
          BY <1>6, <4>1, <4>2 DEF Live, Left, At, LockOf!Of
      <3> QED
        BY <3>1 DEF LockOf!Next, LockOf!Cleared
    <2>2. CASE Dir(j) # d
      <3>1. writer'[d] = writer[d] /\ readers'[d] = readers[d]
        BY <1>0, <1>6, <2>2 DEF ClearExpired
      <3> QED
        BY <1>1, <1>6, <3>1
    <2> QED
      BY <2>1, <2>2
  <1> QED
    BY <1>1, <1>2, <1>3, <1>4, <1>5, <1>6, LockSteps

LEMMA LockStepSeen ==
  ASSUME TypeOK, TypeOK', [Next]_vars, NEW d \in Dirs
  PROVE  LockOf(d)!Next \/ UNCHANGED <<Live(d), Left(d)>>
  <1>1. CASE (\E e \in Dirs : Purge(e)) \/ UNCHANGED indexVars
    BY <1>1 DEF Purge, KeepLock, indexVars, Live, Left, Entries, At
  <1> QED
    BY <1>1, JobLocks, Steps

\* The two locks of the refinement are that of the index and that of the kept copy.
LEMMA SameLock ==
  /\ LockOf("main")!Next => MainLock!Next
  /\ LockOf("notebook")!Next => NotebookLock!Next
  BY DEF Left, MainLock!Next, MainLock!Take, MainLock!LetGo, MainLock!Killed, MainLock!Cleared, MainLock!Broken,
         MainLock!Claims, MainLock!Conflict, MainLock!Of,
         NotebookLock!Next, NotebookLock!Take, NotebookLock!LetGo, NotebookLock!Killed, NotebookLock!Cleared,
         NotebookLock!Broken, NotebookLock!Claims, NotebookLock!Conflict, NotebookLock!Of,
         LockOf!Next, LockOf!Take, LockOf!LetGo, LockOf!Killed, LockOf!Cleared, LockOf!Broken,
         LockOf!Claims, LockOf!Conflict, LockOf!Of

\* The lock of the index and that of the kept copy are taken, let go of, kept by the dead and cleared as
\* SharedLock promises, whichever jobs share them.
LEMMA LocksImplement == Spec => ImplementsSharedLock
  <1>1. Init => MainLock!Init /\ NotebookLock!Init
    <2>1. ASSUME Init PROVE \A d \in Dirs : Entries(d) = {}
      BY <2>1, StoreAssumption DEF Init, Start, Entries
    <2> QED
      BY <2>1 DEF MainLock!Init, NotebookLock!Init, Live, Dirs
  <1>2. TypeOK /\ TypeOK' /\ [Next]_vars
          => /\ [MainLock!Next]_<<Live("main"), Entries("main") \ Live("main"), FALSE>>
             /\ [NotebookLock!Next]_<<Live("notebook"), Entries("notebook") \ Live("notebook"), FALSE>>
    <2>1. TypeOK /\ TypeOK' /\ [Next]_vars
            => \A d \in {"main", "notebook"} : LockOf(d)!Next \/ UNCHANGED <<Live(d), Left(d)>>
      BY LockStepSeen DEF Dirs
    <2> QED
      BY <2>1, SameLock DEF Left
  <1> QED
    BY <1>1, <1>2, StoreTypes, PTL DEF Spec, ImplementsSharedLock, MainLock!Spec, NotebookLock!Spec

\* The store keeps both promises it makes to its users, the index and its lock. LockIsShared shows that
\* the entries of the file system give the same lock.
THEOREM StorePromises == Spec => ImplementsPromises
  BY StoreImplements, LocksImplement DEF ImplementsPromises

-----------------------------------------------------------------------------

(***************************************************************************)
(* The backup.                                                             *)
(***************************************************************************)
\* The steps of a restore between its reading the manifest and its end.
Restoring == {"empty", "extract", "unmark"}
\* Where a writer has marked the copy unfinished and may let the parser at it; where it has.
Writing == {"parser", "config", "files", "manifest", "publish"}
Parsing == {"config", "files", "manifest", "publish"}

\* Backup jobs at work at once are the history crossed; alone, a job finds its upload as it left it.
\* Beside others of the same height it finds the same height, nothing, or a broken stream.
AloneAt(j) ==
    /\ ~crossed /\ pc[j] \in BackingUp => \A k \in Jobs \ {j} : pc[k] \notin BackingUp
    /\ ~crossed /\ pc[j] \in {"size", "attest"} => s3.archive = seen[j]
    /\ pc[j] \in {"upload", "size", "attest"} => s3.archive \in {0, Torn, seen[j]}
    /\ ~crossed /\ ~kept /\ pc[j] \in BackingUp => s3.manifest = 0

\* A restore of the index keeps the backup it reads; a parse starts where no backup ever was.
SourceAt(j) ==
    /\ kind[j] = "update" /\ pc[j] \in Restoring => s3.manifest = sum[j]
    /\ kind[j] = "parse" /\ pc[j] \in {"mark", "record"} \cup Writing => ~backedUp
    /\ kind[j] = "update" /\ pc[j] \in {"check", "mark", "parser"} => copy["main"].manifest # 0
    /\ (pc[j] = "parse" => kind[j] = "parse") /\ (pc[j] = "check" => kind[j] = "update")
    /\ pc[j] = "report" => kind[j] = "backup" /\ backedUp

\* A backup whose archive is the one its manifest names.
Restorable == BackupAvailable /\ s3.archive = s3.manifest
BackupInv ==
    /\ \A j \in Jobs : AloneAt(j) /\ SourceAt(j)
    /\ BackupValid
    /\ backedUp => ParseRefused

\* While at most one fault has happened: the backup can be restored, or the index has its files, or a
\* writer is about to complete them; before the first fault, or when the fault was a manifest that
\* survived its removal, only a backup job makes the backup unusable; and the index is restored only
\* from a backup that can be.
Spared == backedUp /\ faults <= 1 /\ ~crossed
FaultInv ==
    /\ kept => faults # 0
    /\ Spared =>
        /\ Restorable \/ Intact("main") \/ \E j \in Jobs : pc[j] \in Parsing
        /\ faults = 0 \/ kept => Restorable \/ \E j \in Jobs : pc[j] \in BackingUp
        /\ \A j \in Jobs : kind[j] = "update" /\ pc[j] \in {"restore"} \cup Restoring => Restorable

\* No height below h is left where the index's manifest could come from.
Above(h) ==
    /\ copy["main"].manifest = 0 \/ copy["main"].manifest >= h
    /\ s3.manifest = 0 \/ s3.manifest >= h
    /\ s3.archive \in {0, Torn} \/ s3.archive >= h
    /\ \A k \in Jobs : kind[k] = "update" /\ pc[k] \in {"config", "files", "manifest", "publish", "record"} => tgt[k] >= h
HeightInv ==
    /\ \A j \in Jobs : pc[j] = "report" => Above(seen[j])
    /\ HeightNotUnderstated

(***************************************************************************)
(* The copies.                                                             *)
(***************************************************************************)
ActorLabels == {"idle", "1", "2", "3", "done", "failed", "dead"}
Got == [manifest : Generations, sidecar : Generations, archive : 0..Bad, files : [ScannerFiles -> Generations],
        form : {"none", "raw", "zst"}]
\* The copies, and what the actors have read of them, keep their types.
CopiesTypes ==
    /\ role \in [Actors -> ActorKinds] /\ at \in [Actors -> ActorLabels] /\ gen = [x \in Actors |-> 2]
    /\ cache \in [archive : Generations, sidecar : Generations, manifest : Generations]
    /\ scanner \in [ScannerFiles -> {1, 2}] /\ listing \in Generations
    /\ block \in [raw : {0, 1}, zst : {0, 1, Bad}]
    /\ got \in [Actors -> Got] /\ together \in BOOLEAN

\* A reader of the index cache holds what it has compared; an accepted baseline has the data of its
\* manifest; a notebook has every file before it renames its staging directory.
ReaderAt(x) ==
    /\ role[x] = "cacheReader" /\ at[x] \in {"1", "2", "3"} => got[x].manifest # 0
    /\ role[x] = "cacheReader" /\ at[x] \in {"2", "3"} => got[x].sidecar = got[x].manifest
    /\ role[x] = "cacheReader" /\ at[x] = "done" => got[x].archive = got[x].manifest /\ got[x].archive # 0
    /\ role[x] = "baseline" /\ at[x] = "done" => got[x].files["Coinjoins.txt"] = got[x].manifest
    /\ role[x] = "attach" /\ at[x] = "2" => \A f \in ScannerFiles : got[x].files[f] # 0

\* Pack jobs at work at once are the history together; alone, the raw object stays until the packed
\* one was read back, and for a parse that chose the packed one it stays gone.
Packing(x) == role[x] = "packer" /\ at[x] \notin Over \cup {"idle"}
PackAt(x) ==
    /\ Packing(x) => block.raw = 1 /\ \A y \in Actors \ {x} : ~Packing(y)
    /\ Packing(x) /\ at[x] = "3" => block.zst = 1
    /\ role[x] = "parser" /\ at[x] = "1" => got[x].form \in {"raw", "zst"} /\ (got[x].form = "zst" => block.raw = 0)
    /\ role[x] = "parser" /\ at[x] = "failed" => got[x].form = "raw" /\ block.raw = 0
BlockInv ==
    ~together => BlockNeverLost /\ \A x \in Actors : PackAt(x)

CopiesInv == CopiesTypes /\ (\A x \in Actors : ReaderAt(x)) /\ AttachedIsFinished /\ BlockInv
-----------------------------------------------------------------------------
(***************************************************************************)
(* Who has the index.                                                      *)
(***************************************************************************)
Writers == {"parse", "update"}

\* A job of kind parse or update that holds the lock is alone with the index.
LEMMA WriterHolds ==
  ASSUME TypeOK, StoreInv, NEW j \in Jobs, kind[j] \in Writers, pc[j] \in ExclusiveAt
  PROVE  /\ writer["main"] = j
         /\ \A k \in Jobs : pc[k] \notin BackingUp /\ ~(kind[k] = "backup" /\ pc[k] = "drop")
         /\ \A k \in Jobs \ {j} : kind[k] \in Writers => pc[k] \notin ExclusiveAt
  <1>1. Dir(j) = "main" /\ HoldAt(j) /\ KindAt(j) /\ \A d \in Dirs : LockAt(d)
    BY DirOf DEF Writers, StoreInv, JobAt
  <1>2. writer["main"] = j
    BY <1>1 DEF HoldAt, Writers
  <1>3. ASSUME NEW k \in Jobs, k # j, kind[k] \in Writers \/ kind[k] = "backup", pc[k] \in ExclusiveAt \cup SharedAt PROVE FALSE
    <2>1. Dir(k) = "main" /\ HoldAt(k)
      BY <1>3, DirOf DEF Writers, StoreInv, JobAt
    <2> QED
      BY <1>1, <1>3, <2>1, Alone
  <1>4. \A k \in Jobs : pc[k] \in BackingUp => kind[k] = "backup"
    BY DEF StoreInv, JobAt, KindAt
  <1>5. \A k \in Jobs : kind[k] = "backup" /\ pc[k] \in BackingUp \cup {"drop"} => k # j /\ pc[k] \in SharedAt
    BY DEF Writers, BackingUp, SharedAt
  <1> QED
    BY <1>2, <1>3, <1>4, <1>5

\* A backup job at work has a whole index of the height it took down, and no writer is there.
LEMMA BackupHolds ==
  ASSUME TypeOK, StoreInv, NEW j \in Jobs, kind[j] = "backup", pc[j] \in BackingUp \cup {"drop"}
  PROVE  /\ copy["main"].manifest = seen[j] /\ copy["main"].parsed = seen[j] /\ Complete("main") /\ Intact("main")
         /\ seen[j] \in 1..MaxHeight
         /\ \A k \in Jobs : kind[k] \in Writers => pc[k] \notin ExclusiveAt
  <1>1. Dir(j) = "main" /\ Reads(j) /\ ReadAt(j) /\ seen[j] \in Heights
    BY DirOf DEF StoreInv, JobAt, Reads, TypeOK
  <1>2. seen[j] \in 1..MaxHeight /\ copy["main"] = Whole(seen[j])
    BY <1>1, StoreAssumption DEF ReadAt, Heights
  <1>3. /\ copy["main"].manifest = seen[j] /\ copy["main"].parsed = seen[j] /\ copy["main"].config = seen[j]
        /\ copy["main"].files = <<seen[j], seen[j]>> /\ ~copy["main"].writing /\ seen[j] # 0
    BY <1>1, <1>2, WholeIs DEF Whole
  <1>4. copy["main"].files # <<>>
    BY <1>3
  <1>5. Complete("main")
    BY <1>3, <1>4 DEF Complete, Inventory
  <1>6. Intact("main")
    BY <1>2, Unmarked DEF Intact, Heights
  <1> QED
    BY <1>2, <1>3, <1>5, <1>6, WriterHolds

\* A backup job of several finds the others' height to be its own.
LEMMA SameHeight ==
  ASSUME TypeOK, StoreInv, NEW j \in Jobs, NEW k \in Jobs, pc[j] \in BackingUp, pc[k] \in BackingUp
  PROVE  seen[j] = seen[k]
  <1>1. kind[j] = "backup" /\ kind[k] = "backup"
    BY DEF StoreInv, JobAt, KindAt
  <1> QED
    BY <1>1, BackupHolds
-----------------------------------------------------------------------------
(***************************************************************************)
(* The steps, by what they do to the backup and to the index.              *)
(***************************************************************************)
\* The steps that replace the backup, or end it halfway.
Replaces(j) ==
    \/ /\ pc[j] = "drop" /\ pc' = [pc EXCEPT ![j] = "discard"]
       /\ \/ s3' = [s3 EXCEPT !.manifest = 0] /\ kept' = kept /\ faults' = faults
          \/ s3' = s3 /\ kept' = TRUE /\ faults' = faults + 1
       /\ crossed' = (crossed \/ \E k \in Jobs \ {j} : pc[k] \in BackingUp) /\ backedUp' = backedUp
    \/ /\ pc[j] = "discard" /\ pc' = [pc EXCEPT ![j] = "upload"] /\ s3' = [s3 EXCEPT !.archive = 0]
       /\ UNCHANGED <<crossed, kept, backedUp, faults>>
    \/ /\ pc[j] = "upload" /\ pc' = [pc EXCEPT ![j] = "size"] /\ s3' = [s3 EXCEPT !.archive = copy["main"].parsed]
       /\ UNCHANGED <<crossed, kept, backedUp, faults>>
    \/ /\ pc[j] = "upload" /\ pc' = [pc EXCEPT ![j] = "dead"] /\ s3' = [s3 EXCEPT !.archive = Torn]
       /\ UNCHANGED <<crossed, kept, backedUp>> /\ faults' = faults + 1
    \/ /\ pc[j] = "size" /\ pc' = [pc EXCEPT ![j] = "attest"] /\ s3.archive = seen[j]
       /\ UNCHANGED <<s3, crossed, kept, backedUp, faults>>
    \/ /\ pc[j] = "attest" /\ pc' = [pc EXCEPT ![j] = "report"] /\ s3' = [s3 EXCEPT !.manifest = copy["main"].manifest]
       /\ backedUp' = TRUE /\ UNCHANGED <<crossed, kept, faults>>
BackupMove(j) == kind[j] = "backup" /\ Replaces(j) /\ UNCHANGED <<copy, tgt, sum, seen, told>>

\* The others leave the backup alone; a backup job ends early only by a fault, or because its
\* archive is not the one it uploaded.
Quiet(j) ==
    /\ UNCHANGED <<s3, crossed, kept, backedUp>>
    /\ (pc' = pc /\ seen' = seen) \/ (pc'[j] \notin BackingUp \cup {"report"} /\ \A k \in Jobs \ {j} : pc'[k] = pc[k])
    /\ pc' = pc \/ pc[j] \notin BackingUp \/ faults' = faults + 1 \/ (pc[j] = "size" /\ s3.archive # seen[j])
    /\ faults' = faults \/ faults' = faults + 1

\* A step of a job is one of the backup's, or leaves the backup and who works at it alone.
LEMMA BackupKinds ==
  ASSUME TypeOK, StoreInv, NEW j \in Jobs, JobStep(j)
  PROVE  BackupMove(j) \/ Quiet(j)
  <1>0. KindAt(j) /\ pc \in [Jobs -> Labels] /\ (kind[j] = "backup" => Dir(j) = "main")
    BY DirOf DEF StoreInv, JobAt, TypeOK
  <1> USE <1>0 DEF Quiet, Fails, Ends, GoTo, At, Still, Writes, KeepLock, KeepNotes, BackingUp, Fault
  <1>1. CASE LockStep(j)
    <2>1. CASE \E k \in Jobs : ClearExpired(j, k)
      BY <2>1 DEF ClearExpired
    <2>2. CASE Begin(j) \/ LockExclusive(j) \/ LockShared(j)
      BY <2>2 DEF Begin, LockExclusive, LockShared
    <2>3. CASE DropShared(j) \/ GivesUp(j)
      BY <2>3 DEF DropShared, GivesUp
    <2> QED
      BY <1>1, <2>1, <2>2, <2>3 DEF LockStep
  <1>2. CASE RestoreStep(j)
    BY <1>2 DEF RestoreStep, Reconcile, RestoreBegins, RestoreEmpties, RestoreExtracts, RestoreEnds
  <1>3. CASE WriteStep(j)
    BY <1>3 DEF WriteStep, ParseOpens, UpdateOpens, BeginWrite, StartParser, ParserEnds, PublishFiles,
                PublishManifest, PublishWhole, Record
  <1>4. CASE ReadStep(j)
    BY <1>4 DEF ReadStep, Open, EndReading
  <1>5. CASE BackupStep(j)
    <2>0. pc[j] \in BackingUp => kind[j] = "backup"
      BY DEF KindAt
    <2>1. CASE DropManifest(j)
      BY <2>1 DEF DropManifest, BackupMove, Replaces
    <2>2. CASE DropArchive(j) \/ Upload(j)
      BY <2>0, <2>2 DEF DropArchive, Upload, BackupMove, Replaces
    <2>3. CASE CheckSize(j) \/ WriteBackupManifest(j)
      BY <2>0, <2>3 DEF CheckSize, WriteBackupManifest, BackupMove, Replaces
    <2>4. CASE ReportBackup(j)
      BY <2>4 DEF ReportBackup
    <2> QED
      BY <1>5, <2>1, <2>2, <2>3, <2>4 DEF BackupStep
  <1>6. CASE Killed(j)
    <2>1. CASE pc[j] = "upload"
      BY <1>6, <2>1 DEF Killed, BackupMove, Replaces, KindAt
    <2>2. CASE pc[j] # "upload"
      BY <1>6, <2>2 DEF Killed
    <2> QED
      BY <2>1, <2>2
  <1> QED
    BY <1>1, <1>2, <1>3, <1>4, <1>5, <1>6 DEF JobStep

\* The steps of a writer that has the index.
WriterStep(j) == kind[j] \in Writers /\ pc[j] \in ExclusiveAt /\ (RestoreStep(j) \/ WriteStep(j) \/ Killed(j))
\* The others leave the index alone, and make no writer of a job.
Beside(j) ==
    /\ copy'["main"] = copy["main"]
    /\ \/ pc' = pc /\ sum' = sum
       \/ kind[j] \in Writers => /\ pc[j] \notin ExclusiveAt
                                 /\ (pc'[j] \in {"exclusive", "reconcile"} \cup Ended \/ (pc'[j] = "parse" /\ kind[j] = "parse"))
    /\ \A k \in Jobs : kind[k] \in Writers /\ pc[k] \in ExclusiveAt => tgt'[k] = tgt[k]

\* A step of a job is one of a writer's in the index, or leaves the index and its writers alone.
LEMMA MainKinds ==
  ASSUME TypeOK, StoreInv, NEW j \in Jobs, JobStep(j)
  PROVE  WriterStep(j) \/ Beside(j)
  <1>0. /\ KindAt(j) /\ pc \in [Jobs -> Labels] /\ kind[j] \in Kinds /\ Dir(j) \in Dirs /\ "main" \in Dirs
        /\ tgt \in [Jobs -> Heights]
        /\ kind[j] \in {"kept", "scratch"} => Dir(j) # "main"
    BY DirOf, DirIn, StoreAssumption DEF StoreInv, JobAt, TypeOK, Kinds, Writers, Dirs
  <1>1. CASE copy' = copy
    <2> SUFFICES ASSUME ~WriterStep(j) PROVE Beside(j)
      OBVIOUS
    <2>1. \A k \in Jobs : kind[k] \in Writers /\ pc[k] \in ExclusiveAt => tgt'[k] = tgt[k]
      <3>1. CASE Begin(j)
        BY <1>0, <3>1 DEF Begin, At, ExclusiveAt
      <3>2. CASE ~Begin(j)
        BY <3>2 DEF JobStep, LockStep, LockExclusive, LockShared, DropShared, GivesUp, ClearExpired, RestoreStep,
                    Reconcile, RestoreBegins, RestoreEmpties, RestoreExtracts, RestoreEnds, WriteStep, ParseOpens,
                    UpdateOpens, BeginWrite, StartParser, ParserEnds, PublishFiles, PublishManifest, PublishWhole,
                    Record, ReadStep, Open, EndReading, BackupStep, DropManifest, DropArchive, Upload, CheckSize,
                    WriteBackupManifest, ReportBackup, Killed, Still, Fails, Writes
      <3> QED
        BY <3>1, <3>2
    <2> SUFFICES ASSUME kind[j] \in Writers, ~(pc' = pc /\ sum' = sum)
                 PROVE  /\ pc[j] \notin ExclusiveAt
                        /\ (pc'[j] \in {"exclusive", "reconcile"} \cup Ended \/ (pc'[j] = "parse" /\ kind[j] = "parse"))
      BY <1>1, <2>1 DEF Beside
    <2> USE <1>0 DEF Fails, Ends, GoTo, At, Ended, ExclusiveAt, Writers, KeepNotes
    <2>2. CASE LockStep(j)
      BY <2>2 DEF LockStep, Begin, LockExclusive, LockShared, DropShared, GivesUp, ClearExpired, KindAt
    <2>3. CASE RestoreStep(j) \/ WriteStep(j)
      BY <2>3 DEF WriterStep, RestoreStep, Reconcile, RestoreBegins, RestoreEmpties, RestoreExtracts, RestoreEnds,
                  WriteStep, ParseOpens, UpdateOpens, BeginWrite, StartParser, ParserEnds, PublishFiles,
                  PublishManifest, PublishWhole, Record
    <2>4. CASE ReadStep(j) \/ BackupStep(j)
      BY <2>4 DEF ReadStep, Open, EndReading, BackupStep, DropManifest, DropArchive, Upload, CheckSize,
                  WriteBackupManifest, ReportBackup, KindAt, SharedAt, BackingUp
    <2>5. CASE Killed(j)
      BY <2>5 DEF WriterStep, Killed
    <2> QED
      BY <2>2, <2>3, <2>4, <2>5 DEF JobStep
  <1>2. CASE copy' # copy
    <2>1. pc[j] \in ExclusiveAt /\ \E c \in Files : copy' = [copy EXCEPT ![Dir(j)] = c]
      BY <1>2, OwnWrites
    <2>2. RestoreStep(j) \/ WriteStep(j)
      BY <1>2 DEF JobStep, LockStep, Begin, LockExclusive, LockShared, DropShared, GivesUp, ClearExpired, Fails,
                  ReadStep, Open, EndReading, BackupStep, DropManifest, DropArchive, Upload, CheckSize,
                  WriteBackupManifest, ReportBackup, Killed
    <2>3. CASE kind[j] \in Writers
      BY <2>1, <2>2, <2>3 DEF WriterStep
    <2>4. CASE kind[j] \notin Writers
      <3>1. pc[j] \in {"reconcile", "restore", "empty", "extract", "unmark"}
        BY <2>1, <2>4 DEF KindAt, ExclusiveAt, Writers, StoreInv, JobAt
      <3>2. kind[j] \in {"kept", "scratch"}
        BY <1>0, <2>4, <3>1 DEF KindAt, Writers
      <3>3. copy'["main"] = copy["main"]
        BY <1>0, <2>1, <3>2 DEF TypeOK
      <3>4. tgt' = tgt
        BY <2>2 DEF RestoreStep, Reconcile, RestoreBegins, RestoreEmpties, RestoreExtracts, RestoreEnds, WriteStep,
                    ParseOpens, UpdateOpens, BeginWrite, StartParser, ParserEnds, PublishFiles, PublishManifest,
                    PublishWhole, Record, Still, Fails, Writes
      <3> QED
        BY <2>4, <3>3, <3>4 DEF Beside
    <2> QED
      BY <2>3, <2>4
  <1> QED
    BY <1>1, <1>2

Index == copy["main"]
Moves(j, from, to) == pc[j] = from /\ pc' = [pc EXCEPT ![j] = to]

\* What a writer's restore of the index does.
RestoreMove(j) ==
    \/ /\ Index' = Index /\ sum' = sum
       /\ \/ Moves(j, "reconcile", "check") /\ Complete("main")
          \/ Moves(j, "reconcile", "restore") /\ ~Complete("main") /\ BackupAvailable
          \/ Moves(j, "reconcile", "failed") /\ ~Complete("main") /\ ~BackupAvailable
          \/ Moves(j, "restore", "failed") /\ ~BackupAvailable
    \/ Moves(j, "restore", "empty") /\ Index' = [Index EXCEPT !.writing = TRUE] /\ sum' = [sum EXCEPT ![j] = s3.manifest]
    \/ /\ sum' = sum
       /\ \/ Moves(j, "empty", "empty") /\ Index' = [Index EXCEPT !.parsed = 0, !.config = 0, !.files = <<>>]
          \/ Moves(j, "empty", "extract") /\ Index' = [Index EXCEPT !.manifest = 0, !.parsed = Torn]
          \/ Moves(j, "extract", "unmark") /\ s3.archive = sum[j] /\ Index'.manifest = sum[j]
          \/ Moves(j, "extract", "failed") /\ s3.archive # sum[j] /\ Index'.manifest \in {0, s3.archive} \ {Torn}
          \/ Moves(j, "unmark", "check") /\ Index' = Whole(sum[j])
\* What its parse or update of the index does.
ParseMove(j) ==
    /\ sum' = sum
    /\ \/ /\ Index' = Index
          /\ \/ Moves(j, "parse", "failed")
             \/ pc[j] \in {"check", "parser"} /\ pc' = [pc EXCEPT ![j] = "failed"]
             \/ pc[j] \in {"config", "record"} /\ pc' = [pc EXCEPT ![j] = "failed"] /\ faults' = faults + 1
             \/ pc[j] \in ExclusiveAt /\ pc' = [pc EXCEPT ![j] = "dead"] /\ faults' = faults + 1
             \/ Moves(j, "check", "mark") \/ Moves(j, "record", "done")
       \/ Moves(j, "parse", "mark") /\ ~ParseRefused /\ Index' = [Index EXCEPT !.parsed = 0, !.config = 0, !.files = <<>>]
       \/ Moves(j, "mark", "parser") /\ Index' = [Index EXCEPT !.writing = TRUE]
       \/ Moves(j, "parser", "config") /\ ~TooLow(j) /\ Index' = [Index EXCEPT !.parsed = Torn]
       \/ Moves(j, "config", "files") /\ Index'.manifest = Index.manifest
       \/ Moves(j, "files", "manifest") /\ Index'.manifest = Index.manifest
       \/ Moves(j, "manifest", "publish") /\ Index'.manifest = tgt[j]
       \/ Moves(j, "publish", "record") /\ Index' = Whole(tgt[j])

\* A writer's step in the index is one of a restore or one of a parse or update.
LEMMA WriterMoves ==
  ASSUME TypeOK, StoreInv, NEW j \in Jobs, WriterStep(j)
  PROVE  RestoreMove(j) \/ ParseMove(j)
  <1>0. /\ KindAt(j) /\ StageAt(j) /\ Dir(j) = "main" /\ "main" \in Dirs /\ kind[j] \in {"parse", "update"}
        /\ pc \in [Jobs -> Labels] /\ sum[j] \in Heights /\ tgt[j] \in Heights /\ Index \in Files
        /\ copy \in [Dirs -> Files] /\ sum \in [Jobs -> Heights]
    BY DirOf DEF WriterStep, Writers, StoreInv, JobAt, Dirs, TypeOK, Index
  <1>d. ASSUME NEW c, copy' = [copy EXCEPT !["main"] = c] PROVE Index' = c
    BY <1>0, <1>d DEF Index
  <1> USE DEF Fails, Ends, GoTo, At, KeepNotes, Moves
  <1>1. CASE Reconcile(j)
    BY <1>0, <1>1 DEF Reconcile, RestoreMove, Index
  <1>2. CASE RestoreBegins(j)
    <2>1. CASE ~BackupAvailable
      BY <1>0, <1>2, <2>1 DEF RestoreBegins, RestoreMove, Index
    <2>2. CASE BackupAvailable
      <3>1. copy' = [copy EXCEPT !["main"] = [Index EXCEPT !.writing = TRUE]]
        BY <1>0, <1>2, <2>2 DEF RestoreBegins, Index
      <3> QED
        BY <1>0, <1>2, <1>d, <2>2, <3>1 DEF RestoreBegins, RestoreMove
    <2> QED
      BY <2>1, <2>2
  <1>3. CASE RestoreEmpties(j)
    BY <1>0, <1>3, <1>d DEF RestoreEmpties, RestoreMove, Writes, Index
  <1>4. CASE RestoreExtracts(j)
    <2>1. CASE s3.archive = sum[j]
      <3>1. copy' = [copy EXCEPT !["main"] = [Whole(sum[j]) EXCEPT !.writing = TRUE]]
        BY <1>0, <1>4, <2>1 DEF RestoreExtracts, Writes
      <3>2. Index'.manifest = sum[j]
        <4>1. Index' = [Whole(sum[j]) EXCEPT !.writing = TRUE]
          BY <1>d, <3>1
        <4>2. sum[j] \in Heights
          BY <1>0
        <4>3. Whole(sum[j]) \in Files /\ Whole(sum[j]).manifest = sum[j]
          BY <4>2, WholeIs
        <4> QED
          BY <4>1, <4>3 DEF Files
      <3> QED
        BY <1>0, <1>4, <2>1, <3>2 DEF RestoreExtracts, Writes, RestoreMove
    <2>2. CASE s3.archive # sum[j]
      <3>1. PICK h \in {0, s3.archive} \ {Torn} :
              copy' = [copy EXCEPT !["main"] = [Whole(h) EXCEPT !.writing = TRUE, !.parsed = Torn]]
        BY <1>0, <1>4, <2>2 DEF RestoreExtracts
      <3>2. h \in Heights
        BY <3>1, StoreAssumption DEF TypeOK, Contents, Heights
      <3>3. Index'.manifest = h
        BY <1>d, <3>1, <3>2, WholeIs DEF Files
      <3> QED
        BY <1>0, <1>4, <2>2, <3>1, <3>3 DEF RestoreExtracts, RestoreMove
    <2> QED
      BY <2>1, <2>2
  <1>5. CASE RestoreEnds(j)
    <2>1. Index = [Whole(sum[j]) EXCEPT !.writing = TRUE] /\ sum[j] # 0
      BY <1>0, <1>5 DEF RestoreEnds, StageAt, Index
    <2>2. copy' = [copy EXCEPT !["main"] = [Index EXCEPT !.writing = FALSE]]
      BY <1>0, <1>5 DEF RestoreEnds, Index
    <2>3. Index' = Whole(sum[j])
      <3>1. Index' = [[Whole(sum[j]) EXCEPT !.writing = TRUE] EXCEPT !.writing = FALSE]
        BY <1>d, <2>1, <2>2
      <3>2. Whole(sum[j]) \in Files /\ ~Whole(sum[j]).writing
        BY <1>0, WholeIs
      <3> QED
        BY <3>1, <3>2 DEF Files
    <2>4. Index.files = <<Index.parsed, Index.config>>
      BY <1>0, <2>1, WholeIs DEF Files, Whole
    <2> QED
      BY <1>0, <1>5, <2>3, <2>4 DEF RestoreEnds, RestoreMove, Inventory, Index
  <1>6. CASE ParseOpens(j)
    BY <1>0, <1>6, <1>d DEF ParseOpens, Writes, ParseMove, Index
  <1>7. CASE UpdateOpens(j) \/ Record(j)
    BY <1>0, <1>7 DEF UpdateOpens, Record, Fault, ParseMove, Index
  <1>8. CASE BeginWrite(j) \/ StartParser(j)
    BY <1>0, <1>8, <1>d DEF BeginWrite, StartParser, Fault, Writes, ParseMove, Index
  <1>9. CASE ParserEnds(j)
    <2>1. CASE Fails(j) /\ Fault
      BY <1>0, <1>9, <2>1 DEF ParserEnds, Fault, ParseMove, Index
    <2>2. CASE Writes(j, [copy["main"] EXCEPT !.parsed = tgt[j], !.config = tgt[j]], "files")
      <3>1. Index' = [Index EXCEPT !.parsed = tgt[j], !.config = tgt[j]]
        BY <1>0, <1>d, <2>2 DEF Writes, Index
      <3>2. Index'.manifest = Index.manifest
        BY <1>0, <3>1 DEF Files
      <3> QED
        BY <1>0, <1>9, <2>2, <3>2 DEF ParserEnds, Writes, ParseMove
    <2> QED
      BY <1>9, <2>1, <2>2 DEF ParserEnds
  <1>10. CASE PublishFiles(j)
    <2>1. Index' = [Index EXCEPT !.files = Inventory("main")]
      BY <1>0, <1>d, <1>10 DEF PublishFiles, Writes, Index
    <2>2. Index'.manifest = Index.manifest
      BY <1>0, <2>1 DEF Files
    <2> QED
      BY <1>0, <1>10, <2>2 DEF PublishFiles, Writes, ParseMove
  <1>11. CASE PublishManifest(j)
    <2>1. Index' = [Index EXCEPT !.manifest = tgt[j]]
      BY <1>0, <1>d, <1>11 DEF PublishManifest, Writes, Index
    <2>2. Index'.manifest = tgt[j]
      BY <1>0, <2>1 DEF Files
    <2> QED
      BY <1>0, <1>11, <2>2 DEF PublishManifest, Writes, ParseMove
  <1>12. CASE PublishWhole(j)
    <2>1. Index' = [Index EXCEPT !.writing = FALSE]
      BY <1>0, <1>d, <1>12 DEF PublishWhole, Writes, Index
    <2>2. /\ Index.parsed = tgt[j] /\ Index.config = tgt[j] /\ Index.files = <<tgt[j], tgt[j]>>
          /\ Index.manifest = tgt[j] /\ tgt[j] # 0
      BY <1>0, <1>12 DEF PublishWhole, StageAt, KindAt, Index
    <2>3. Index' = [parsed |-> tgt[j], config |-> tgt[j], files |-> <<tgt[j], tgt[j]>>, manifest |-> tgt[j], writing |-> FALSE]
      BY <1>0, <2>1, <2>2 DEF Files
    <2> QED
      BY <1>0, <1>12, <2>2, <2>3 DEF PublishWhole, Writes, ParseMove, Whole
  <1>13. CASE Killed(j)
    BY <1>0, <1>13 DEF WriterStep, Killed, Fault, ParseMove, Index
  <1> QED
    BY <1>1, <1>2, <1>3, <1>4, <1>5, <1>6, <1>7, <1>8, <1>9, <1>10, <1>11, <1>12, <1>13
       DEF WriterStep, RestoreStep, WriteStep
-----------------------------------------------------------------------------
(***************************************************************************)
(* The backup is what its manifest says.                                   *)
(***************************************************************************)
\* Backup jobs find their uploads as they left them, or know of each other.
LEMMA AloneStep ==
  ASSUME TypeOK, StoreInv, \A k \in Jobs : AloneAt(k), NEW j \in Jobs, JobStep(j), NEW k \in Jobs
  PROVE  AloneAt(k)'
  <1>0. /\ \A i \in Jobs \ {j} : pc'[i] = pc[i] /\ seen'[i] = seen[i]
        /\ AloneAt(j) /\ AloneAt(k) /\ pc \in [Jobs -> Labels] /\ s3.manifest \in Heights
        /\ s3 = [manifest |-> s3.manifest, archive |-> s3.archive]
    BY OwnNotes DEF TypeOK
  <1>1. CASE Quiet(j)
    <2>1. \A i \in Jobs : pc'[i] \in BackingUp => pc[i] = pc'[i] /\ seen'[i] = seen[i]
      BY <1>0, <1>1 DEF Quiet
    <2>2. pc'[k] \in {"size", "attest"} \cup {"upload"} => pc'[k] \in BackingUp
      BY DEF BackingUp
    <2> QED
      BY <1>0, <1>1, <2>1, <2>2 DEF AloneAt, Quiet
  <1>2. CASE BackupMove(j)
    <2>0. /\ kind[j] = "backup" /\ pc[j] \in BackingUp \cup {"drop"} /\ seen' = seen
          /\ copy["main"].parsed = seen[j] /\ copy["main"].manifest = seen[j]
      BY <1>2, BackupHolds DEF BackupMove, Replaces, BackingUp
    <2>1. pc[j] \in BackingUp /\ pc[k] \in BackingUp => seen[j] = seen[k]
      BY SameHeight
    <2>2. CASE k = j
      BY <1>0, <1>2, <2>0, <2>2 DEF AloneAt, BackupMove, Replaces, BackingUp
    <2>3. CASE k # j
      <3>1. pc'[k] = pc[k]
        BY <1>0, <2>3
      <3>2. CASE pc[j] = "drop"
        BY <1>0, <1>2, <2>0, <2>3, <3>1, <3>2 DEF AloneAt, BackupMove, Replaces, BackingUp
      <3>3. CASE pc[j] \in BackingUp
        <4>1. ~crossed => pc[k] \notin BackingUp
          BY <1>0, <2>3, <3>3 DEF AloneAt
        <4>2. crossed' = crossed /\ \A i \in Jobs : pc'[i] \in BackingUp => pc[i] \in BackingUp
          BY <1>0, <1>2, <3>3 DEF BackupMove, Replaces, BackingUp
        <4>3. pc[k] \in {"upload", "size", "attest"} => s3'.archive \in {0, Torn, seen[k]} /\ pc[k] \in BackingUp
          BY <1>0, <1>2, <2>0, <2>1, <3>3 DEF AloneAt, BackupMove, Replaces, BackingUp
        <4>4. pc[k] \in {"size", "attest"} => pc[k] \in BackingUp
          BY DEF BackingUp
        <4> QED
          BY <2>0, <3>1, <4>1, <4>2, <4>3, <4>4 DEF AloneAt
      <3> QED
        BY <2>0, <3>2, <3>3
    <2> QED
      BY <2>2, <2>3
  <1> QED
    BY <1>1, <1>2, BackupKinds

\* The manifest goes first and comes last.
LEMMA ValidStep ==
  ASSUME TypeOK, StoreInv, \A k \in Jobs : AloneAt(k), BackupValid, NEW j \in Jobs, JobStep(j)
  PROVE  BackupValid'
  <1>1. CASE Quiet(j)
    BY <1>1 DEF Quiet, BackupValid, BackupAvailable
  <1>2. CASE BackupMove(j)
    <2>0. copy["main"].manifest = seen[j] /\ AloneAt(j) /\ s3 \in [manifest : Heights, archive : Contents]
      BY <1>2, BackupHolds DEF BackupMove, Replaces, BackingUp, TypeOK
    <2> QED
      BY <1>2, <2>0 DEF BackupMove, Replaces, BackupValid, BackupAvailable, AloneAt, BackingUp
  <1> QED
    BY <1>1, <1>2, BackupKinds

\* An index that has had a backup is never parsed anew.
LEMMA RefusedStep ==
  ASSUME TypeOK, StoreInv, \A k \in Jobs : SourceAt(k), backedUp => ParseRefused, NEW j \in Jobs, JobStep(j), backedUp'
  PROVE  ParseRefused'
  <1>0. /\ KindAt(j) /\ StageAt(j) /\ SourceAt(j) /\ Index \in Files /\ Index' \in Files /\ Dir(j) \in Dirs
        /\ kind[j] \in Writers => Dir(j) = "main"
    <2>1. TypeOK' /\ "main" \in Dirs
      BY TypeJobStep DEF Dirs
    <2> QED
      BY <2>1, DirOf, DirIn DEF StoreInv, JobAt, TypeOK, Index, Writers
  <1>1. CASE BackupMove(j)
    <2>1. copy["main"].manifest \in 1..MaxHeight /\ copy' = copy
      BY <1>1, BackupHolds DEF BackupMove, Replaces, BackingUp
    <2> QED
      BY <2>1, StoreAssumption DEF ParseRefused
  <1>2. CASE Quiet(j) /\ Index'.manifest = Index.manifest
    BY <1>2 DEF Quiet, ParseRefused, Index, BackupAvailable
  <1>3. CASE Quiet(j) /\ Index'.manifest # Index.manifest
    <2>1. WriterStep(j)
      BY <1>3, MainKinds DEF Beside, Index
    <2>2. RestoreMove(j) \/ ParseMove(j)
      BY <2>1, WriterMoves
    <2>3. CASE pc[j] \in Restoring
      <3>1. kind[j] = "update" /\ sum[j] # 0
        BY <1>0, <2>1, <2>3 DEF WriterStep, Writers, KindAt, StageAt, Restoring
      <3>2. s3'.manifest # 0
        BY <1>0, <1>3, <2>3, <3>1 DEF SourceAt, Quiet
      <3> QED
        BY <3>2 DEF ParseRefused, BackupAvailable
    <2>4. CASE pc[j] \notin Restoring
      <3>1. pc[j] \in {"manifest", "publish"} /\ Index'.manifest \in {tgt[j], Whole(tgt[j]).manifest}
        BY <1>0, <1>3, <2>2, <2>4 DEF RestoreMove, ParseMove, Moves, Restoring, Files
      <3>2. tgt[j] # 0 /\ Whole(tgt[j]).manifest = tgt[j]
        BY <1>0, <3>1, WholeIs DEF KindAt, TypeOK
      <3> QED
        BY <3>1, <3>2 DEF ParseRefused, Index
    <2> QED
      BY <2>3, <2>4
  <1> QED
    BY <1>1, <1>2, <1>3, BackupKinds

\* What a writer started from stays so while it works.
LEMMA SourceStep ==
  ASSUME TypeOK, StoreInv, BackupInv, NEW j \in Jobs, JobStep(j), NEW k \in Jobs
  PROVE  SourceAt(k)'
  <1>0. /\ kind' = kind /\ \A i \in Jobs \ {j} : pc'[i] = pc[i] /\ sum'[i] = sum[i]
        /\ SourceAt(k) /\ SourceAt(j) /\ KindAt(j) /\ StageAt(j) /\ pc \in [Jobs -> Labels] /\ kind[k] \in Kinds
        /\ backedUp \in BOOLEAN /\ Index \in Files /\ sum \in [Jobs -> Heights] /\ (kind[j] \in Writers => Dir(j) = "main")
    BY OwnNotes, DirOf DEF TypeOK, BackupInv, StoreInv, JobAt, Index, Dirs, Writers
  <1>e. \A i \in Jobs : pc[i] \in {"parse", "check", "mark", "parser", "record"} \cup Restoring \cup Writing => pc[i] \in ExclusiveAt
    BY DEF Restoring, Writing, ExclusiveAt
  <1>1. CASE BackupMove(j)
    <2>1. /\ \A i \in Jobs : kind[i] \in Writers => pc[i] \notin ExclusiveAt
          /\ kind[j] = "backup" /\ pc'[j] \in BackingUp \cup {"dead", "report"}
      BY <1>0, <1>1, BackupHolds DEF BackupMove, Replaces, BackingUp
    <2>2. pc'[j] = "report" => backedUp'
      BY <1>0, <1>1 DEF BackupMove, Replaces
    <2>3. backedUp => backedUp'
      BY <1>0, <1>1 DEF BackupMove, Replaces
    <2>4. CASE k = j
      BY <1>0, <2>1, <2>2, <2>4 DEF SourceAt, BackingUp, Restoring, Writing
    <2>5. CASE k # j
      <3>1. pc'[k] = pc[k] /\ kind'[k] = kind[k]
        BY <1>0, <2>5
      <3>2. pc[k] \in {"parse", "check"} => kind[k] \in Writers
        BY DEF StoreInv, JobAt, KindAt, Writers
      <3> QED
        BY <1>0, <1>e, <2>1, <2>3, <3>1, <3>2 DEF SourceAt, Writers
    <2> QED
      BY <2>4, <2>5
  <1>2. CASE Quiet(j) /\ ~WriterStep(j)
    <2>1. Beside(j) /\ UNCHANGED <<s3, backedUp>> /\ copy'["main"] = copy["main"]
      BY <1>2, MainKinds DEF Quiet, Beside
    <2>2. CASE pc' = pc /\ sum' = sum
      BY <1>0, <2>1, <2>2 DEF SourceAt
    <2>3. CASE k # j
      BY <1>0, <2>1, <2>3 DEF SourceAt
    <2>4. CASE k = j /\ ~(pc' = pc /\ sum' = sum)
      <3>1. kind[j] \in Writers => pc'[j] \in {"exclusive", "reconcile"} \cup Ended \/ (pc'[j] = "parse" /\ kind[j] = "parse")
        BY <2>1, <2>4 DEF Beside
      <3>2. KindAt(j)'
        BY <1>0, OwnKind
      <3>3. pc'[j] = "report" => kind[j] = "backup" /\ backedUp
        BY <1>0, <1>2 DEF Quiet, SourceAt
      <3> QED
        BY <1>0, <2>1, <2>4, <3>1, <3>2, <3>3 DEF SourceAt, KindAt, Writers, Ended, Restoring, Writing
    <2> QED
      BY <2>2, <2>3, <2>4
  <1>3. CASE Quiet(j) /\ WriterStep(j)
    <2>0. kind[j] \in Writers /\ pc[j] \in ExclusiveAt /\ UNCHANGED <<s3, backedUp>>
      BY <1>3 DEF WriterStep, Quiet
    <2>1. RestoreMove(j) \/ ParseMove(j)
      BY <1>3, WriterMoves
    <2>2. CASE k # j
      <3>1. kind[k] \in Writers => pc[k] \notin ExclusiveAt
        BY <2>0, <2>2, WriterHolds
      <3>2. pc[k] \in {"parse", "check"} => kind[k] \in Writers
        BY DEF StoreInv, JobAt, KindAt, Writers
      <3> QED
        BY <1>0, <1>e, <2>0, <2>2, <3>1, <3>2 DEF SourceAt, Writers
    <2>3. CASE k = j /\ RestoreMove(j)
      <3>1. kind[j] = "update"
        BY <1>0, <2>0, <2>3 DEF RestoreMove, Moves, KindAt, Writers
      <3>2. sum[j] # 0 => Whole(sum[j]).manifest # 0
        BY <1>0, WholeIs
      <3>3. pc[j] \in Restoring => sum[j] # 0
        BY <1>0 DEF StageAt, Restoring
      <3> QED
        BY <1>0, <2>0, <2>3, <3>1, <3>2, <3>3 DEF RestoreMove, Moves, SourceAt, Restoring, Writing, Complete, Index
    <2>4. CASE k = j /\ ParseMove(j)
      <3>1. pc[j] = "parse" /\ ~ParseRefused => ~backedUp
        BY DEF BackupInv
      <3>2. /\ Index' = [Index EXCEPT !.writing = TRUE] => Index'.manifest = Index.manifest
            /\ Index' = Index => Index'.manifest = Index.manifest
        BY <1>0 DEF Files
      <3>3. pc[j] = "parse" => kind[j] = "parse"
        BY <1>0 DEF SourceAt
      <3>4. CASE pc'[j] \notin {"mark", "parser"}
        BY <1>0, <2>0, <2>4, <3>1, <3>2, <3>3, <3>4 DEF ParseMove, Moves, SourceAt, Restoring, Writing, ExclusiveAt
      <3>5. CASE pc'[j] \in {"mark", "parser"}
        <4>1. pc[j] \in {"parse", "check", "mark"}
          BY <1>0, <2>4, <3>5 DEF ParseMove, Moves
        <4>2. kind[j] = "parse" => ~backedUp
          BY <1>0, <2>4, <3>1, <3>5, <4>1 DEF ParseMove, Moves, SourceAt
        <4>3. kind[j] = "update" => pc[j] # "parse" /\ Index'.manifest = Index.manifest
          BY <1>0, <2>4, <3>2, <3>3, <3>5, <4>1 DEF ParseMove, Moves
        <4> QED
          BY <1>0, <2>0, <2>4, <3>5, <4>1, <4>2, <4>3 DEF SourceAt, Restoring, Index
      <3> QED
        BY <3>4, <3>5
    <2> QED
      BY <2>1, <2>2, <2>3, <2>4
  <1> QED
    BY <1>1, <1>2, <1>3, BackupKinds

\* The purge takes a data file of the index, never its manifest.
LEMMA PurgeKeeps ==
  ASSUME TypeOK, NEW d \in Dirs, Purge(d)
  PROVE  /\ UNCHANGED <<kind, tgt, pc, s3, sum, seen, told, crossed, kept, backedUp>>
         /\ faults' = faults + 1 /\ Index'.manifest = Index.manifest
         /\ Index' = Index \/ d = "main"
  <1>1. /\ UNCHANGED <<kind, tgt, pc, s3, sum, seen, told, crossed, kept, backedUp>>
        /\ faults' = faults + 1 /\ copy' = [copy EXCEPT ![d] = [copy[d] EXCEPT !.parsed = Torn]]
    BY DEF Purge, Still, KeepNotes, Fault, TypeOK
  <1>2. "main" \in Dirs /\ copy["main"] \in Files
    BY DEF Dirs, TypeOK
  <1>3. Index' = Index \/ (d = "main" /\ Index' = [Index EXCEPT !.parsed = Torn])
    BY <1>1, <1>2 DEF TypeOK, Index
  <1> QED
    BY <1>1, <1>2, <1>3 DEF Files, Index

\* The backup's invariant holds at the start.
LEMMA BackupInit == Init => BackupInv
  <1> SUFFICES ASSUME Init PROVE BackupInv
    OBVIOUS
  <1>1. PICK label \in {"idle", "done"} : Start(label)
    BY DEF Init
  <1>2. PICK h \in Histories : s3 = [manifest |-> h[2], archive |-> h[2]] /\ backedUp = (h[2] # 0)
    BY <1>1 DEF Start
  <1>3. ASSUME NEW j \in Jobs PROVE AloneAt(j) /\ SourceAt(j)
    <2>1. pc[j] \in {"idle", "done"}
      BY <1>1 DEF Start
    <2> QED
      BY <2>1 DEF AloneAt, SourceAt, BackingUp, Restoring, Writing
  <1>4. BackupValid /\ (backedUp => ParseRefused)
    BY <1>2 DEF BackupValid, BackupAvailable, ParseRefused
  <1> QED
    BY <1>3, <1>4 DEF BackupInv

\* Every step keeps it.
LEMMA BackupNext ==
  ASSUME TypeOK, StoreInv, BackupInv, [Next]_vars
  PROVE  BackupInv'
  <1>1. CASE \E j \in Jobs : JobStep(j)
    <2>1. PICK j \in Jobs : JobStep(j)
      BY <1>1
    <2> QED
      BY <2>1, AloneStep, ValidStep, RefusedStep, SourceStep DEF BackupInv
  <1>2. CASE \E d \in Dirs : Purge(d)
    <2>1. /\ UNCHANGED <<kind, tgt, pc, s3, sum, seen, crossed, kept, backedUp>> /\ Index'.manifest = Index.manifest
      BY <1>2, PurgeKeeps
    <2>2. ASSUME NEW j \in Jobs PROVE AloneAt(j)' /\ SourceAt(j)'
      BY <2>1 DEF BackupInv, AloneAt, SourceAt, Index
    <2>3. BackupValid' /\ (backedUp' => ParseRefused')
      BY <2>1 DEF BackupInv, BackupValid, ParseRefused, BackupAvailable, Index
    <2> QED
      BY <2>2, <2>3 DEF BackupInv
  <1>3. CASE UNCHANGED indexVars
    <2>1. ASSUME NEW j \in Jobs PROVE AloneAt(j)' /\ SourceAt(j)'
      BY <1>3 DEF indexVars, BackupInv, AloneAt, SourceAt
    <2>2. BackupValid' /\ (backedUp' => ParseRefused')
      BY <1>3 DEF indexVars, BackupInv, BackupValid, ParseRefused, BackupAvailable
    <2> QED
      BY <2>1, <2>2 DEF BackupInv
  <1> QED
    BY <1>1, <1>2, <1>3, Steps
-----------------------------------------------------------------------------
(***************************************************************************)
(* One fault never costs both the index and its backup.                    *)
(***************************************************************************)
LEMMA FaultInit == Init => FaultInv
  <1> SUFFICES ASSUME Init PROVE FaultInv
    OBVIOUS
  <1>1. PICK label \in {"idle", "done"} : Start(label)
    BY DEF Init
  <1>2. PICK h \in Histories : s3 = [manifest |-> h[2], archive |-> h[2]] /\ backedUp = (h[2] # 0)
    BY <1>1 DEF Start
  <1>3. kept = FALSE
    BY <1>1 DEF Start
  <1> QED
    BY <1>2, <1>3 DEF FaultInv, Spared, Restorable, BackupAvailable

\* A backup job at work reads a complete index, and ends with a backup that can be restored.
LEMMA FaultBackup ==
  ASSUME TypeOK, StoreInv, BackupInv, FaultInv, NEW j \in Jobs, JobStep(j), BackupMove(j)
  PROVE  FaultInv'
  <1>0. /\ AloneAt(j) /\ faults \in Nat /\ pc \in [Jobs -> Labels] /\ kind' = kind /\ copy' = copy
        /\ s3 \in [manifest : Heights, archive : Contents] /\ kind[j] = "backup" /\ crossed \in BOOLEAN
        /\ \A i \in Jobs \ {j} : pc'[i] = pc[i]
    BY OwnNotes, StoreAssumption DEF TypeOK, BackupInv, BackupMove
  <1>1. /\ Intact("main") /\ copy["main"].manifest = seen[j] /\ seen[j] # 0
        /\ \A k \in Jobs : kind[k] \in Writers => pc[k] \notin ExclusiveAt
    BY <1>0, BackupHolds, StoreAssumption DEF BackupMove, Replaces, BackingUp
  <1>k. kept => faults # 0
    BY DEF FaultInv
  <1>f. (kept' = kept /\ faults' = faults) \/ faults' = faults + 1
    BY DEF BackupMove, Replaces
  <1>2. Intact("main")' /\ (kept' => faults' # 0)
    <2>1. kept' => faults' # 0
      <3>1. faults' = faults + 1 => faults' # 0
        BY <1>0
      <3>2. kept' = kept /\ faults' = faults => (kept' => faults' # 0)
        BY <1>k, Zenon
      <3> QED
        BY <1>f, <3>1, <3>2
    <2> QED
      BY <1>0, <1>1, <2>1 DEF Intact
  <1>3. ASSUME Spared', faults' = 0 \/ kept' PROVE Restorable' \/ pc'[j] \in BackingUp
    <2>1. CASE pc[j] = "attest"
      <3>1. s3.archive = seen[j]
        BY <1>0, <1>3, <2>1 DEF BackupMove, Replaces, AloneAt, Spared, BackingUp
      <3>2. s3' = [s3 EXCEPT !.manifest = seen[j]]
        BY <1>1, <2>1 DEF BackupMove, Replaces
      <3> QED
        BY <1>0, <1>1, <3>1, <3>2 DEF Restorable, BackupAvailable
    <2>2. CASE pc[j] # "attest"
      <3>1. pc'[j] \in BackingUp \/ (pc[j] = "upload" /\ kept' = kept /\ faults' = faults + 1)
        BY <1>0, <2>2 DEF BackupMove, Replaces, BackingUp
      <3>2. faults' <= 1
        BY <1>3 DEF Spared
      <3> QED
        BY <1>0, <1>k, <1>3, <3>1, <3>2
    <2> QED
      BY <2>1, <2>2
  <1>4. ASSUME NEW k \in Jobs, kind'[k] = "update", pc'[k] \in {"restore"} \cup Restoring PROVE FALSE
    <2>1. k # j
      BY <1>0, <1>4
    <2> QED
      BY <1>0, <1>1, <1>4, <2>1 DEF Restoring, ExclusiveAt, Writers
  <1> QED
    BY <1>2, <1>3, <1>4 DEF FaultInv

\* The jobs beside leave both, and who works on them.
LEMMA FaultBeside ==
  ASSUME TypeOK, StoreInv, BackupInv, FaultInv, NEW j \in Jobs, JobStep(j), Quiet(j), ~WriterStep(j)
  PROVE  FaultInv'
  <1>0. /\ AloneAt(j) /\ KindAt(j) /\ faults \in Nat /\ pc \in [Jobs -> Labels] /\ kind' = kind /\ Beside(j)
        /\ \A i \in Jobs \ {j} : pc'[i] = pc[i]
    BY OwnNotes, MainKinds, StoreAssumption DEF TypeOK, BackupInv, StoreInv, JobAt
  <1>k. kept' = kept /\ (kept => faults # 0) /\ (kept' => faults' # 0)
    BY <1>0 DEF Quiet, FaultInv
  <1> SUFFICES ASSUME Spared' PROVE FaultInv'
    BY <1>k DEF FaultInv
  <1>1. /\ Spared /\ ~crossed /\ Restorable' = Restorable
        /\ faults' = 0 \/ kept' => faults' # faults + 1 /\ (faults = 0 \/ kept)
    BY <1>0, <1>k DEF Quiet, Spared, Restorable, BackupAvailable
  <1>2. Intact("main")' = Intact("main")
    BY <1>0 DEF Beside, Intact
  <1>3. ASSUME NEW i \in Jobs, pc[i] \in Parsing PROVE pc'[i] \in Parsing
    <2>1. i = j => kind[j] \in Writers /\ pc[j] \in ExclusiveAt
      BY <1>0, <1>3 DEF KindAt, Parsing, Writers, ExclusiveAt
    <2>2. CASE i = j
      <3>1. kind[j] \in Writers /\ pc[j] \in ExclusiveAt
        BY <2>1, <2>2
      <3>2. pc' = pc
        BY <1>0, <3>1 DEF Beside
      <3> QED
        BY <1>3, <3>2
    <2>3. CASE i # j
      BY <1>0, <1>3, <2>3
    <2> QED
      BY <2>2, <2>3
  <1>4. ASSUME NEW i \in Jobs, pc[i] \in BackingUp, faults' = 0 \/ kept' PROVE pc'[i] \in BackingUp
    BY <1>0, <1>1, <1>4 DEF Quiet, AloneAt
  <1>5. ASSUME NEW i \in Jobs, kind'[i] = "update", pc'[i] \in {"restore"} \cup Restoring
        PROVE  kind[i] = "update" /\ pc[i] \in {"restore"} \cup Restoring
    BY <1>0, <1>5 DEF Beside, Writers, Restoring, Ended
  <1> QED
    BY <1>k, <1>1, <1>2, <1>3, <1>4, <1>5 DEF FaultInv

\* A writer damages the index only while the backup can be restored, or completes it again; it is
\* stopped before that only by a fault of its own.
LEMMA FaultWriter ==
  ASSUME TypeOK, StoreInv, BackupInv, FaultInv, NEW j \in Jobs, JobStep(j), Quiet(j), WriterStep(j)
  PROVE  FaultInv'
  <1>0. /\ KindAt(j) /\ faults \in Nat /\ pc \in [Jobs -> Labels] /\ kind' = kind /\ Index \in Files
        /\ \A i \in Jobs \ {j} : pc'[i] = pc[i]
        /\ tgt[j] \in Heights
    BY OwnNotes, StoreAssumption DEF TypeOK, StoreInv, JobAt, Index, Dirs
  <1>w. kind[j] \in Writers /\ pc[j] \in ExclusiveAt
    BY DEF WriterStep
  <1>k. kept' = kept /\ (kept => faults # 0) /\ (kept' => faults' # 0)
    BY <1>0 DEF Quiet, FaultInv
  <1> SUFFICES ASSUME Spared' PROVE FaultInv'
    BY <1>k DEF FaultInv
  <1>1. Spared /\ Restorable' = Restorable /\ backedUp
    BY <1>0 DEF Quiet, Spared, Restorable, BackupAvailable
  <1>2. CASE Restorable
    BY <1>k, <1>1, <1>2 DEF FaultInv
  <1>3. CASE ~Restorable
    <2>1. /\ \A k \in Jobs : pc[k] \notin BackingUp
          /\ \A k \in Jobs \ {j} : kind[k] \in Writers => pc[k] \notin ExclusiveAt
      BY <1>w, WriterHolds
    <2>2. faults # 0 /\ faults' = faults /\ ~kept /\ ~BackupAvailable
      <3>1. faults # 0 /\ ~kept
        BY <1>1, <1>3, <2>1 DEF FaultInv
      <3>2. ~BackupAvailable
        BY <1>1, <1>3, <3>1 DEF BackupInv, BackupValid, Restorable, Spared
      <3> QED
        BY <1>0, <3>1, <3>2 DEF Quiet, Spared
    <2>3. ASSUME NEW k \in Jobs, k # j PROVE pc[k] \notin Parsing /\ ~(kind[k] = "update" /\ pc[k] \in {"restore"} \cup Restoring)
      <3>1. pc[k] \in Parsing => kind[k] \in Writers
        BY DEF StoreInv, JobAt, KindAt, Parsing, Writers
      <3> QED
        BY <2>1, <2>3, <3>1 DEF Parsing, Restoring, ExclusiveAt, Writers
    <2>4. Intact("main") \/ pc[j] \in Parsing
      BY <1>1, <1>3, <2>3 DEF FaultInv
    <2>5. ~(kind[j] = "update" /\ pc[j] \in {"restore"} \cup Restoring)
      BY <1>1, <1>3 DEF FaultInv
    <2>6. ~(kind'[j] = "update" /\ pc'[j] \in {"restore"} \cup Restoring) /\ (Intact("main")' \/ pc'[j] \in Parsing)
      <3>1. Index' = Index \/ Index' = [Index EXCEPT !.writing = TRUE] => Intact("main")' = Intact("main")
        BY <1>0 DEF Intact, Index, Files
      <3>2. RestoreMove(j) \/ ParseMove(j)
        BY WriterMoves
      <3>3. CASE RestoreMove(j)
        <4>1. pc[j] = "reconcile"
          BY <1>0, <1>w, <2>5, <3>3 DEF RestoreMove, Moves, KindAt, Writers, Restoring
        <4>2. pc'[j] \in {"check", "failed"} /\ Index' = Index /\ Intact("main")
          BY <1>0, <2>2, <2>4, <3>3, <4>1 DEF RestoreMove, Moves, Parsing
        <4> QED
          BY <3>1, <4>2 DEF Restoring
      <3>4. CASE ParseMove(j)
        <4>1. pc'[j] \notin {"restore"} \cup Restoring
          BY <1>0, <3>4 DEF ParseMove, Moves, Restoring
        <4>2. CASE pc[j] = "publish" /\ pc'[j] = "record"
          <5>1. Index' = Whole(tgt[j]) /\ tgt[j] # 0
            BY <1>0, <3>4, <4>2 DEF ParseMove, Moves, KindAt
          <5>2. Intact("main")'
            BY <1>0, <5>1, Unmarked DEF Index, Intact
          <5> QED
            BY <4>1, <5>2
        <4>3. CASE pc'[j] \in Parsing
          BY <4>1, <4>3
        <4>4. CASE pc'[j] \notin Parsing /\ ~(pc[j] = "publish" /\ pc'[j] = "record")
          <5>1. ParseRefused
            BY <1>1 DEF BackupInv
          <5>2. pc[j] \notin Parsing /\ (Index' = Index \/ Index' = [Index EXCEPT !.writing = TRUE])
            BY <1>0, <2>2, <3>4, <4>4, <5>1 DEF ParseMove, Moves, Parsing
          <5> QED
            BY <2>4, <3>1, <4>1, <5>2
        <4> QED
          BY <4>2, <4>3, <4>4
      <3> QED
        BY <3>2, <3>3, <3>4
    <2> QED
      BY <1>0, <1>k, <2>2, <2>3, <2>6 DEF FaultInv
  <1> QED
    BY <1>2, <1>3

\* Every step keeps it.
LEMMA FaultNext ==
  ASSUME TypeOK, StoreInv, BackupInv, FaultInv, [Next]_vars
  PROVE  FaultInv'
  <1>1. CASE \E j \in Jobs : JobStep(j)
    BY <1>1, BackupKinds, FaultBackup, FaultBeside, FaultWriter
  <1>2. CASE \E d \in Dirs : Purge(d)
    <2>1. PICK d \in Dirs : Purge(d)
      BY <1>2
    <2>k. kept' = kept /\ (kept => faults # 0) /\ faults' # 0
      BY <2>1, PurgeKeeps, StoreAssumption DEF TypeOK, FaultInv
    <2> SUFFICES ASSUME Spared' PROVE FaultInv'
      BY <2>k DEF FaultInv
    <2>2. /\ UNCHANGED <<kind, pc, s3, crossed, backedUp>> /\ faults' = faults + 1 /\ faults \in Nat
          /\ Index' = Index \/ d = "main"
      BY <2>1, PurgeKeeps, StoreAssumption DEF TypeOK
    <2>3. Spared /\ faults = 0 /\ faults' # 0 /\ ~kept' /\ Restorable' = Restorable
      BY <2>2, <2>k DEF Spared, Restorable, BackupAvailable
    <2>4. CASE Restorable
      BY <2>3, <2>4 DEF FaultInv
    <2>5. CASE ~Restorable
      <3>1. PICK j \in Jobs : pc[j] \in BackingUp
        BY <2>3, <2>5 DEF FaultInv
      <3>2. Dir(j) = "main" /\ pc[j] \in SharedAt
        BY <3>1, DirOf DEF StoreInv, JobAt, KindAt, BackingUp, SharedAt
      <3>3. d # "main"
        BY <2>1, <3>2, NobodyThere
      <3>4. Intact("main")' = Intact("main")
        BY <2>2, <3>3 DEF Intact, Index
      <3> QED
        BY <2>2, <2>3, <3>4 DEF FaultInv
    <2> QED
      BY <2>4, <2>5
  <1>3. CASE UNCHANGED indexVars
    BY <1>3 DEF indexVars, FaultInv, Spared, Restorable, BackupAvailable, Intact
  <1> QED
    BY <1>1, <1>2, <1>3, Steps

\* With no writer at work, what is left is an index with its files or a backup that can be restored.
LEMMA FaultImplies == StoreInv /\ FaultInv => OneFaultKeepsACopy
  <1> SUFFICES ASSUME StoreInv, FaultInv, backedUp /\ faults <= 1 /\ ~crossed,
                      \A j \in Jobs : writer["main"] = j => At(j, "dead")
               PROVE  Intact("main") \/ Restorable
    BY DEF OneFaultKeepsACopy, Restorable
  <1>1. ASSUME NEW j \in Jobs, pc[j] \in Parsing PROVE FALSE
    <2>1. kind[j] \in Writers /\ pc[j] \in ExclusiveAt /\ HoldAt(j) /\ Dir(j) = "main"
      BY <1>1, DirOf DEF StoreInv, JobAt, KindAt, Parsing, Writers, ExclusiveAt
    <2>2. writer["main"] = j
      BY <2>1 DEF HoldAt, Writers
    <2> QED
      BY <1>1, <2>2 DEF At, Parsing
  <1> QED
    BY <1>1 DEF FaultInv, Spared
-----------------------------------------------------------------------------
(***************************************************************************)
(* The height a backup job reports.                                        *)
(***************************************************************************)
LEMMA WriterTargets == ASSUME NEW j \in Jobs, WriterStep(j) PROVE tgt' = tgt
  BY DEF WriterStep, RestoreStep, Reconcile, RestoreBegins, RestoreEmpties, RestoreExtracts, RestoreEnds, WriteStep,
         ParseOpens, UpdateOpens, BeginWrite, StartParser, ParserEnds, PublishFiles, PublishManifest, PublishWhole,
         Record, Killed, Still, Fails, Writes

\* Once no smaller height is left, none comes back: updates only raise the index, restores and
\* backups copy what is there, and the index is not parsed anew.
LEMMA AboveStep ==
  ASSUME TypeOK, StoreInv, BackupInv, backedUp, NEW h \in 1..MaxHeight, Above(h), NEW j \in Jobs, JobStep(j)
  PROVE  Above(h)'
  <1> DEFINE Late == {"config", "files", "manifest", "publish", "record"}
  <1>0. /\ KindAt(j) /\ StageAt(j) /\ SourceAt(j) /\ pc \in [Jobs -> Labels] /\ kind' = kind /\ Index \in Files
        /\ \A i \in Jobs \ {j} : pc'[i] = pc[i] /\ tgt'[i] = tgt[i]
        /\ s3 \in [manifest : Heights, archive : Contents] /\ tgt \in [Jobs -> Heights] /\ sum[j] \in Heights
        /\ h \in Nat /\ h # 0
    BY OwnNotes, StoreAssumption DEF TypeOK, StoreInv, JobAt, BackupInv, Index, Dirs
  <1>n. Heights \subseteq Nat
    BY StoreAssumption DEF Heights
  <1>1. CASE BackupMove(j)
    <2>1. copy["main"].manifest = seen[j] /\ copy["main"].parsed = seen[j] /\ seen[j] >= h /\ seen[j] \in Heights
      <3>1. copy["main"].manifest = seen[j] /\ copy["main"].parsed = seen[j] /\ seen[j] \in 1..MaxHeight
        BY <1>1, BackupHolds DEF BackupMove, Replaces, BackingUp
      <3> QED
        BY <3>1, StoreAssumption DEF Above, Heights
    <2>2. s3'.manifest \in {0, s3.manifest, seen[j]} /\ s3'.archive \in {0, Torn, s3.archive, seen[j]}
      BY <1>0, <1>1, <2>1 DEF BackupMove, Replaces
    <2>3. copy' = copy /\ tgt' = tgt /\ kind[j] = "backup"
      BY <1>1 DEF BackupMove
    <2> QED
      BY <1>0, <2>1, <2>2, <2>3 DEF Above
  <1>2. CASE Quiet(j) /\ ~WriterStep(j)
    <2>1. Beside(j) /\ s3' = s3
      BY <1>2, MainKinds DEF Quiet
    <2>2. ASSUME NEW k \in Jobs, kind'[k] = "update", pc'[k] \in Late
          PROVE  kind[k] = "update" /\ pc[k] \in Late /\ tgt'[k] = tgt[k]
      <3>1. pc[k] \in Late
        BY <1>0, <2>1, <2>2 DEF Beside, Writers, Ended
      <3>2. pc[k] \in ExclusiveAt
        BY <3>1 DEF ExclusiveAt
      <3> QED
        BY <1>0, <2>1, <2>2, <3>1, <3>2 DEF Beside, Writers
    <2> QED
      BY <2>1, <2>2 DEF Above, Beside
  <1>3. CASE Quiet(j) /\ WriterStep(j)
    <2>0. /\ kind[j] \in Writers /\ pc[j] \in ExclusiveAt /\ s3' = s3 /\ tgt' = tgt
          /\ \A k \in Jobs \ {j} : kind[k] \in Writers => pc[k] \notin ExclusiveAt
      BY <1>3, WriterTargets, WriterHolds DEF WriterStep, Quiet
    <2>1. RestoreMove(j) \/ ParseMove(j)
      BY <1>3, WriterMoves
    <2>2. \A k \in Jobs : pc[k] \in Late => pc[k] \in ExclusiveAt
      BY DEF ExclusiveAt
    <2>3. CASE RestoreMove(j)
      <3>1. kind[j] = "update" /\ pc'[j] \notin Late
        BY <1>0, <2>0, <2>3 DEF RestoreMove, Moves, KindAt, Writers
      <3>2. ASSUME pc[j] \in Restoring PROVE sum[j] >= h /\ Whole(sum[j]).manifest = sum[j]
        <4>1. s3.manifest = sum[j] /\ sum[j] # 0
          BY <1>0, <3>1, <3>2 DEF SourceAt, StageAt, Restoring
        <4> QED
          BY <1>0, <4>1, WholeIs DEF Above
      <3>3. Index'.manifest = 0 \/ Index'.manifest >= h
        <4>1. CASE pc[j] \in Restoring
          BY <1>0, <1>n, <2>3, <3>2, <4>1 DEF RestoreMove, Moves, Restoring, Files, Above, Index
        <4>2. CASE pc[j] \notin Restoring
          BY <1>0, <2>3, <4>2 DEF RestoreMove, Moves, Restoring, Files, Above, Index
        <4> QED
          BY <4>1, <4>2
      <3>4. ASSUME NEW k \in Jobs, kind'[k] = "update", pc'[k] \in Late PROVE FALSE
        BY <1>0, <2>0, <2>2, <3>1, <3>4 DEF Writers
      <3> QED
        BY <2>0, <3>3, <3>4 DEF Above, Index
    <2>4. CASE ParseMove(j)
      <3>1. kind[j] = "parse" => pc'[j] \notin Late
        BY <1>0, <2>0, <2>4 DEF ParseMove, Moves, SourceAt, Writing
      <3>2. CASE pc'[j] \notin Late
        <4>1. Index'.manifest = Index.manifest
          BY <1>0, <2>4, <3>2 DEF ParseMove, Moves, Files
        <4>2. ASSUME NEW k \in Jobs, kind'[k] = "update", pc'[k] \in Late PROVE FALSE
          BY <1>0, <2>0, <2>2, <3>2, <4>2 DEF Writers
        <4> QED
          BY <2>0, <4>1, <4>2 DEF Above, Index
      <3>3. CASE pc'[j] \in Late
        <4>1. kind[j] = "update"
          BY <2>0, <3>1, <3>3 DEF Writers
        <4>2. tgt[j] >= h
          <5>1. CASE pc[j] \in Late
            BY <4>1, <5>1 DEF Above
          <5>2. CASE pc[j] \notin Late
            <6>1. pc[j] = "parser" /\ ~TooLow(j)
              BY <1>0, <2>4, <3>3, <5>2 DEF ParseMove, Moves
            <6>2. Index.manifest # 0
              BY <1>0, <4>1, <6>1 DEF SourceAt, Index
            <6>3. tgt[j] \in Nat /\ Index.manifest \in Nat /\ ~(tgt[j] <= Index.manifest) /\ Index.manifest >= h
              BY <1>0, <1>n, <4>1, <6>1, <6>2 DEF TooLow, Index, Above, Files
            <6> QED
              BY <1>0, <6>3
          <5> QED
            BY <5>1, <5>2
        <4>3. Index'.manifest \in {Index.manifest, tgt[j]}
          <5>1. Whole(tgt[j]).manifest = tgt[j]
            BY <1>0, WholeIs
          <5> QED
            BY <1>0, <2>4, <3>3, <5>1 DEF ParseMove, Moves, Files
        <4>4. ASSUME NEW k \in Jobs, kind'[k] = "update", pc'[k] \in Late PROVE k = j
          BY <1>0, <2>0, <2>2, <4>4 DEF Writers
        <4> QED
          BY <2>0, <4>2, <4>3, <4>4 DEF Above, Index
      <3> QED
        BY <3>2, <3>3
    <2> QED
      BY <2>1, <2>3, <2>4
  <1> QED
    BY <1>1, <1>2, <1>3, BackupKinds

\* A job ends with the height it read, or, after a backup, with the one the index has by then.
LEMMA DoneMoves ==
  ASSUME TypeOK, StoreInv, NEW j \in Jobs, JobStep(j), kind[j] = "backup", pc'[j] = "done"
  PROVE  \/ told'[j] = seen'[j]
         \/ /\ pc[j] = "report" /\ seen' = seen
            /\ copy["main"].manifest # 0 /\ told'[j] = copy["main"].manifest
  <1>0. KindAt(j) /\ pc \in [Jobs -> Labels] /\ told \in [Jobs -> Heights]
    BY DEF StoreInv, JobAt, TypeOK
  <1> USE <1>0 DEF Fails, Ends, GoTo, At, Still, Writes, KeepNotes
  <1>1. CASE LockStep(j)
    BY <1>1 DEF LockStep, Begin, LockExclusive, LockShared, DropShared, GivesUp, ClearExpired
  <1>2. CASE RestoreStep(j)
    BY <1>2 DEF RestoreStep, Reconcile, RestoreBegins, RestoreEmpties, RestoreExtracts, RestoreEnds
  <1>3. CASE WriteStep(j)
    BY <1>3 DEF WriteStep, ParseOpens, UpdateOpens, BeginWrite, StartParser, ParserEnds, PublishFiles,
                PublishManifest, PublishWhole, Record, KindAt
  <1>4. CASE ReadStep(j)
    BY <1>4 DEF ReadStep, Open, EndReading
  <1>5. CASE BackupStep(j)
    BY <1>5 DEF BackupStep, DropManifest, DropArchive, Upload, CheckSize, WriteBackupManifest, ReportBackup
  <1>6. CASE Killed(j)
    BY <1>6 DEF Killed
  <1> QED
    BY <1>1, <1>2, <1>3, <1>4, <1>5, <1>6 DEF JobStep

\* A step tells no other job a height.
LEMMA ToldKept ==
  ASSUME TypeOK, NEW j \in Jobs, JobStep(j), NEW k \in Jobs, k # j
  PROVE  told'[k] = told[k]
  <1> USE DEF TypeOK, Fails, Still, KeepNotes, Writes
  <1>1. CASE LockStep(j) \/ RestoreStep(j)
    BY <1>1 DEF LockStep, Begin, LockExclusive, LockShared, DropShared, GivesUp, ClearExpired, RestoreStep,
                Reconcile, RestoreBegins, RestoreEmpties, RestoreExtracts, RestoreEnds
  <1>2. CASE WriteStep(j) \/ ReadStep(j)
    BY <1>2 DEF WriteStep, ParseOpens, UpdateOpens, BeginWrite, StartParser, ParserEnds, PublishFiles,
                PublishManifest, PublishWhole, Record, ReadStep, Open, EndReading
  <1>3. CASE BackupStep(j) \/ Killed(j)
    BY <1>3 DEF BackupStep, DropManifest, DropArchive, Upload, CheckSize, WriteBackupManifest, ReportBackup, Killed
  <1> QED
    BY <1>1, <1>2, <1>3 DEF JobStep

\* No backup job has reported at the start.
LEMMA HeightInit == Init => HeightInv
  <1> SUFFICES ASSUME Init PROVE HeightInv
    OBVIOUS
  <1>1. PICK label \in {"idle", "done"} : Start(label)
    BY DEF Init
  <1>2. \A j \in Jobs : pc[j] # "report" /\ told[j] = 0 /\ seen[j] = 0
    BY <1>1 DEF Start
  <1> QED
    BY <1>2 DEF HeightInv, HeightNotUnderstated

\* Every step keeps it: the lock is gone, the height is not.
LEMMA HeightNext ==
  ASSUME TypeOK, StoreInv, BackupInv, HeightInv, [Next]_vars, TypeOK'
  PROVE  HeightInv'
  <1>1. ASSUME NEW j \in Jobs, JobStep(j) PROVE HeightInv'
    <2>0. /\ kind' = kind /\ \A i \in Jobs \ {j} : pc'[i] = pc[i] /\ seen'[i] = seen[i] /\ told'[i] = told[i]
          /\ pc \in [Jobs -> Labels] /\ seen \in [Jobs -> Heights] /\ Heights \subseteq Nat
          /\ seen' \in [Jobs -> Heights] /\ told' \in [Jobs -> Heights]
      BY <1>1, OwnNotes, ToldKept, StoreAssumption DEF TypeOK, Heights
    <2>1. ASSUME NEW k \in Jobs, pc[k] = "report", pc'[k] = "report", seen'[k] = seen[k] PROVE Above(seen[k])'
      <3>1. backedUp /\ Above(seen[k]) /\ seen[k] \in Heights
        BY <2>0, <2>1 DEF BackupInv, SourceAt, HeightInv
      <3>2. PICK h \in Heights : h = seen[k]
        BY <3>1
      <3>3. Above(h)
        BY <3>1, <3>2
      <3>4. CASE h \in 1..MaxHeight
        <4>1. Above(h)'
          BY <1>1, <3>1, <3>3, <3>4, AboveStep
        <4> QED
          BY <2>1, <3>2, <4>1 DEF Above
      <3>5. CASE h = 0
        <4>1. /\ copy'["main"].manifest \in Nat /\ s3'.manifest \in Nat /\ s3'.archive \in Nat \cup {Torn}
              /\ \A i \in Jobs : tgt'[i] \in Nat
          BY <2>0 DEF TypeOK, Files, Dirs, Contents
        <4>2. seen'[k] = 0
          BY <2>1, <3>2, <3>5
        <4> QED
          BY <4>1, <4>2 DEF Above
      <3> QED
        BY <3>4, <3>5, StoreAssumption DEF Heights
    <2>2. ASSUME pc'[j] = "report", ~(pc[j] = "report" /\ seen' = seen) PROVE Above(seen[j])'
      <3>1. BackupMove(j) /\ pc[j] = "attest"
        BY <1>1, <2>0, <2>2, BackupKinds DEF Quiet, BackupMove, Replaces
      <3>2. /\ copy["main"].manifest = seen[j] /\ seen' = seen /\ copy' = copy
            /\ \A k \in Jobs : kind[k] \in Writers => pc[k] \notin ExclusiveAt
        BY <3>1, BackupHolds DEF BackupMove, BackingUp
      <3>3. s3.archive \in {0, Torn, seen[j]} /\ s3 \in [manifest : Heights, archive : Contents]
        BY <3>1 DEF BackupInv, AloneAt, TypeOK
      <3>4. s3'.manifest = seen[j] /\ s3'.archive = s3.archive
        BY <3>1, <3>2, <3>3 DEF BackupMove, Replaces
      <3>5. ASSUME NEW k \in Jobs, kind'[k] = "update", pc'[k] \in {"config", "files", "manifest", "publish", "record"} PROVE FALSE
        BY <2>0, <2>2, <3>2, <3>5 DEF Writers, ExclusiveAt
      <3> QED
        <4>1. seen'[j] = seen[j] /\ copy'["main"].manifest = seen[j] /\ seen[j] \in Nat
          BY <2>0, <3>2
        <4>2. copy'["main"].manifest >= seen'[j] /\ s3'.manifest >= seen'[j]
          BY <3>4, <4>1
        <4>3. s3'.archive \in {0, Torn} \/ s3'.archive >= seen'[j]
          BY <3>3, <3>4, <4>1
        <4> QED
          BY <3>5, <4>2, <4>3 DEF Above
    <2>3. ASSUME NEW k \in Jobs, pc'[k] = "report" PROVE Above(seen[k])'
      BY <2>0, <2>1, <2>2, <2>3
    <2>4. ASSUME NEW k \in Jobs, pc'[k] = "done", kind'[k] = "backup" PROVE told'[k] >= seen'[k]
      <3>1. CASE k # j
        BY <2>0, <2>4, <3>1 DEF HeightInv, HeightNotUnderstated, At
      <3>2. CASE k = j
        <4>1. \/ told'[j] = seen'[j]
              \/ pc[j] = "report" /\ seen' = seen /\ copy["main"].manifest # 0 /\ told'[j] = copy["main"].manifest
          BY <1>1, <2>0, <2>4, <3>2, DoneMoves
        <4>2. told'[j] \in Nat /\ seen'[j] \in Nat
          BY <2>0
        <4>3. pc[j] = "report" => copy["main"].manifest = 0 \/ copy["main"].manifest >= seen[j]
          BY DEF HeightInv, Above
        <4> QED
          BY <3>2, <4>1, <4>2, <4>3
      <3> QED
        BY <3>1, <3>2
    <2> QED
      BY <2>3, <2>4 DEF HeightInv, HeightNotUnderstated, At
  <1>2. ASSUME NEW d \in Dirs, Purge(d) PROVE HeightInv'
    <2>1. UNCHANGED <<kind, tgt, pc, s3, seen, told>> /\ Index'.manifest = Index.manifest
      BY <1>2, PurgeKeeps
    <2> QED
      BY <2>1 DEF HeightInv, HeightNotUnderstated, Above, At, Index
  <1>3. CASE UNCHANGED indexVars
    BY <1>3 DEF indexVars, HeightInv, HeightNotUnderstated, Above, At
  <1> QED
    BY <1>1, <1>2, <1>3, Steps

StoredInv == TypeOK /\ StoreInv /\ BackupInv /\ FaultInv /\ HeightInv

\* A backup holds what it says, one fault keeps the index or its backup, and the height a backup job
\* reports is never below what it backed up (stage_runtime.py's blocksci_backup).
THEOREM BackupsAreKept == Spec => []BackupsHold
  <1>1. Init => StoredInv
    BY TypeInit, InvInit, BackupInit, FaultInit, HeightInit DEF StoredInv
  <1>2. StoredInv /\ [Next]_vars => StoredInv'
    BY TypeStep, InvStep, BackupNext, FaultNext, HeightNext DEF StoredInv
  <1>3. StoredInv => BackupsHold
    BY FaultImplies DEF StoredInv, BackupsHold, BackupInv, HeightInv
  <1> QED
    BY <1>1, <1>2, <1>3, PTL DEF Spec
-----------------------------------------------------------------------------
(***************************************************************************)
(* The copies.                                                             *)
(***************************************************************************)
ActorStep(x) == CopiesStep(x) \/ ActorKilled(x)

\* The jobs of the index leave the copies alone.
LEMMA IndexFrame == ASSUME (\E j \in Jobs : JobStep(j)) \/ (\E d \in Dirs : Purge(d)) PROVE UNCHANGED copiesVars
  <1>1. ASSUME NEW j \in Jobs, JobStep(j) PROVE UNCHANGED copiesVars
    <2> USE DEF Fails, Still, Writes
    <2>1. CASE LockStep(j) \/ RestoreStep(j)
      BY <2>1 DEF LockStep, Begin, LockExclusive, LockShared, DropShared, GivesUp, ClearExpired, RestoreStep,
                  Reconcile, RestoreBegins, RestoreEmpties, RestoreExtracts, RestoreEnds
    <2>2. CASE WriteStep(j) \/ ReadStep(j)
      BY <2>2 DEF WriteStep, ParseOpens, UpdateOpens, BeginWrite, StartParser, ParserEnds, PublishFiles,
                  PublishManifest, PublishWhole, Record, ReadStep, Open, EndReading
    <2>3. CASE BackupStep(j) \/ Killed(j)
      BY <2>3 DEF BackupStep, DropManifest, DropArchive, Upload, CheckSize, WriteBackupManifest, ReportBackup, Killed
    <2> QED
      BY <1>1, <2>1, <2>2, <2>3 DEF JobStep
  <1>2. ASSUME NEW d \in Dirs, Purge(d) PROVE UNCHANGED copiesVars
    BY <1>2 DEF Purge, Still
  <1> QED
    BY <1>1, <1>2

\* Who steps changes only its own place and what it has read itself.
LEMMA ActorFrame ==
  ASSUME CopiesTypes, NEW x \in Actors, ActorStep(x)
  PROVE  /\ role' = role /\ gen' = gen /\ at' \in [Actors -> ActorLabels]
         /\ \A y \in Actors \ {x} : at'[y] = at[y] /\ got'[y] = got[y]
  <1> USE DEF CopiesTypes, ActorLabels, Step, Fixed, CacheFrame, MirrorFrame, BlockFrame
  <1>1. CASE PublishCache(x) \/ RestoreCache(x)
    BY <1>1 DEF PublishCache, RestoreCache
  <1>2. CASE PublishDumplings(x) \/ ReadBaseline(x) \/ Attach(x)
    BY <1>2 DEF PublishDumplings, ReadBaseline, Attach, CopyScanner
  <1>3. CASE PackBlock(x) \/ ParseBlock(x)
    BY <1>3 DEF PackBlock, ParseBlock
  <1>4. CASE ActorKilled(x)
    BY <1>4 DEF ActorKilled
  <1> QED
    BY <1>1, <1>2, <1>3, <1>4 DEF ActorStep, CopiesStep

\* What reading one thing makes of what an actor has read.
LEMMA GotTypes ==
  ASSUME CopiesTypes, NEW x \in Actors
  PROVE  /\ \A g \in Generations : [got EXCEPT ![x].manifest = g] \in [Actors -> Got]
         /\ \A g \in Generations : [got EXCEPT ![x].sidecar = g] \in [Actors -> Got]
         /\ \A g \in 0..Bad : [got EXCEPT ![x].archive = g] \in [Actors -> Got]
         /\ \A f \in ScannerFiles, g \in Generations : [got EXCEPT ![x].files[f] = g] \in [Actors -> Got]
         /\ \A s \in {"raw", "zst"} : [got EXCEPT ![x].form = s] \in [Actors -> Got]
  <1>0. got \in [Actors -> Got] /\ got[x] \in Got
    BY DEF CopiesTypes
  <1>1. \A r \in Got : [got EXCEPT ![x] = r] \in [Actors -> Got]
    BY <1>0
  <1>2. /\ \A g \in Generations : [got[x] EXCEPT !.manifest = g] \in Got
        /\ \A g \in Generations : [got[x] EXCEPT !.sidecar = g] \in Got
        /\ \A g \in 0..Bad : [got[x] EXCEPT !.archive = g] \in Got
        /\ \A s \in {"raw", "zst"} : [got[x] EXCEPT !.form = s] \in Got
    BY <1>0 DEF Got
  <1>3. ASSUME NEW f \in ScannerFiles, NEW g \in Generations PROVE [got[x] EXCEPT !.files[f] = g] \in Got
    <2>1. [got[x].files EXCEPT ![f] = g] \in [ScannerFiles -> Generations]
      BY <1>0 DEF Got
    <2> QED
      BY <1>0, <2>1 DEF Got
  <1> QED
    BY <1>1, <1>2, <1>3

\* Every step of an actor keeps the types.
LEMMA ActorTypes ==
  ASSUME CopiesTypes, NEW x \in Actors, ActorStep(x)
  PROVE  CopiesTypes'
  <1>0. /\ role' = role /\ gen' = gen /\ at' \in [Actors -> ActorLabels] /\ gen[x] = 2
        /\ 2 \in Generations /\ 0 \in Generations /\ Generations \subseteq 0..Bad
    BY ActorFrame DEF CopiesTypes, Generations, Bad
  <1>1. CASE PublishCache(x)
    BY <1>0, <1>1 DEF PublishCache, CacheFrame, CopiesTypes
  <1>2. CASE RestoreCache(x)
    <2>0. cache.manifest \in Generations /\ cache.sidecar \in Generations /\ cache.archive \in 0..Bad /\ got \in [Actors -> Got]
      BY <1>0 DEF CopiesTypes
    <2>1. got' \in [Actors -> Got]
      <3>1. \/ got' = got \/ got' = [got EXCEPT ![x].manifest = cache.manifest]
            \/ got' = [got EXCEPT ![x].sidecar = cache.sidecar] \/ got' = [got EXCEPT ![x].archive = cache.archive]
        BY <1>2 DEF RestoreCache
      <3>2. [got EXCEPT ![x].manifest = cache.manifest] \in [Actors -> Got]
        BY <2>0, GotTypes, Zenon
      <3>3. [got EXCEPT ![x].sidecar = cache.sidecar] \in [Actors -> Got]
        BY <2>0, GotTypes, Zenon
      <3>4. [got EXCEPT ![x].archive = cache.archive] \in [Actors -> Got]
        BY <2>0, GotTypes, Zenon
      <3> QED
        BY <2>0, <3>1, <3>2, <3>3, <3>4, Zenon
    <2> QED
      BY <1>0, <1>2, <2>1 DEF RestoreCache, CacheFrame, CopiesTypes
  <1>3. CASE PublishDumplings(x)
    BY <1>0, <1>3 DEF PublishDumplings, MirrorFrame, CopiesTypes
  <1>4. CASE ReadBaseline(x) \/ Attach(x)
    <2>1. \A f \in ScannerFiles : scanner[f] \in Generations
      BY DEF CopiesTypes, Generations
    <2>2. listing \in Generations
      BY DEF CopiesTypes
    <2>3. got' \in [Actors -> Got]
      <3>1. \/ got' = got
            \/ got' = [got EXCEPT ![x].manifest = listing]
            \/ \E f \in ScannerFiles : got' = [got EXCEPT ![x].files[f] = scanner[f]]
        BY <1>4 DEF ReadBaseline, Attach, CopyScanner
      <3>2. got \in [Actors -> Got]
        BY DEF CopiesTypes
      <3>3. [got EXCEPT ![x].manifest = listing] \in [Actors -> Got]
        BY <2>2, GotTypes, Zenon
      <3>4. \A f \in ScannerFiles : [got EXCEPT ![x].files[f] = scanner[f]] \in [Actors -> Got]
        BY <2>1, GotTypes, Zenon
      <3> QED
        BY <3>1, <3>2, <3>3, <3>4, Zenon
    <2> QED
      BY <1>0, <1>4, <2>3 DEF ReadBaseline, Attach, MirrorFrame, CopiesTypes
  <1>5. CASE PackBlock(x)
    BY <1>0, <1>5 DEF PackBlock, BlockFrame, CopiesTypes, Bad
  <1>6. CASE ParseBlock(x)
    <2>1. block.raw \in 0..Bad /\ block.zst \in 0..Bad /\ StoredForm \in {"raw", "zst"}
      BY DEF CopiesTypes, Bad, StoredForm
    <2>2. got' \in [Actors -> Got]
      <3>1. \/ got' = [got EXCEPT ![x].form = StoredForm]
            \/ got' = [got EXCEPT ![x].archive = block.raw] \/ got' = [got EXCEPT ![x].archive = block.zst]
        BY <1>6 DEF ParseBlock
      <3>2. [got EXCEPT ![x].form = StoredForm] \in [Actors -> Got]
        BY <2>1, GotTypes, Zenon
      <3>3. [got EXCEPT ![x].archive = block.raw] \in [Actors -> Got] /\ [got EXCEPT ![x].archive = block.zst] \in [Actors -> Got]
        BY <2>1, GotTypes, Zenon
      <3> QED
        BY <3>1, <3>2, <3>3, Zenon
    <2> QED
      BY <1>0, <1>6, <2>2 DEF ParseBlock, BlockFrame, CopiesTypes
  <1>7. CASE ActorKilled(x)
    BY <1>0, <1>7 DEF ActorKilled, CopiesTypes
  <1> QED
    BY <1>1, <1>2, <1>3, <1>4, <1>5, <1>6, <1>7 DEF ActorStep, CopiesStep

\* At the start nobody has read anything, and the raw block object is there.
LEMMA CopiesInit == Init => CopiesInv
  <1> SUFFICES ASSUME Init PROVE CopiesInv
    OBVIOUS
  <1>1. PICK label \in {"idle", "done"} :
          CopiesStart(label) /\ (label = "done" => role = [x \in Actors |-> "parser"]) /\ role \in [Actors -> ActorKinds]
    BY CopiesAssumption DEF Init, ActorKinds
  <1>2. PICK g \in {0, 1} : cache = [archive |-> g, sidecar |-> g, manifest |-> g]
    BY <1>1 DEF CopiesStart
  <1>3. NoFile \in [ScannerFiles -> Generations] /\ Nothing \in Got
    BY DEF NoFile, Nothing, Got, Generations, Bad
  <1>4. CopiesTypes
    <2>1. role \in [Actors -> ActorKinds] /\ at \in [Actors -> ActorLabels] /\ gen = [x \in Actors |-> 2]
      BY <1>1 DEF CopiesStart, ActorLabels
    <2>2. cache \in [archive : Generations, sidecar : Generations, manifest : Generations]
      BY <1>2 DEF Generations
    <2>3. scanner \in [ScannerFiles -> {1, 2}] /\ listing \in Generations
      BY <1>1 DEF CopiesStart, Generations
    <2>4. block \in [raw : {0, 1}, zst : {0, 1, Bad}] /\ together \in BOOLEAN
      BY <1>1 DEF CopiesStart
    <2>5. got \in [Actors -> Got]
      BY <1>1, <1>3 DEF CopiesStart
    <2> QED
      BY <2>1, <2>2, <2>3, <2>4, <2>5 DEF CopiesTypes
  <1>5. ASSUME NEW x \in Actors PROVE at[x] \in {"idle", "done"} /\ (at[x] = "done" => role[x] = "parser")
    BY <1>1 DEF CopiesStart
  <1>6. AttachedIsFinished /\ block.raw = 1
    BY <1>1 DEF CopiesStart, AttachedIsFinished
  <1>7. \A x \in Actors : ReaderAt(x)
    BY <1>5 DEF ReaderAt
  <1>8. \A x \in Actors : PackAt(x)
    BY <1>5 DEF PackAt, Packing, Over
  <1> QED
    BY <1>4, <1>6, <1>7, <1>8 DEF CopiesInv, BlockInv, BlockNeverLost

\* What one actor has read says nothing of another's.
LEMMA ReaderStep ==
  ASSUME CopiesTypes, NEW x \in Actors, ActorStep(x), NEW y \in Actors, ReaderAt(y)
  PROVE  ReaderAt(y)'
  <1>0. /\ role' = role /\ at \in [Actors -> ActorLabels] /\ got \in [Actors -> Got] /\ CopiesTypes'
        /\ \A z \in Actors \ {x} : at'[z] = at[z] /\ got'[z] = got[z]
    BY ActorFrame, ActorTypes DEF CopiesTypes
  <1>1. CASE y # x
    BY <1>0, <1>1 DEF ReaderAt
  <1>2. CASE y = x
    <2>0. ReaderAt(x) /\ got[x] \in Got
      BY <1>0, <1>2
    <2> SUFFICES ReaderAt(x)'
      BY <1>2
    <2> USE <1>0, <2>0 DEF Step, Is
    <2>1. CASE PublishCache(x) \/ PublishDumplings(x)
      BY <2>1 DEF PublishCache, PublishDumplings, ReaderAt
    <2>2. CASE RestoreCache(x)
      <3>1. CASE at[x] = "idle"
        BY <2>2, <3>1 DEF RestoreCache, ReaderAt, Got
      <3>2. CASE at[x] = "1"
        BY <2>2, <3>2 DEF RestoreCache, ReaderAt, Got
      <3>3. CASE at[x] = "2"
        BY <2>2, <3>3 DEF RestoreCache, ReaderAt, Got
      <3>4. CASE at[x] = "3"
        BY <2>2, <3>4 DEF RestoreCache, ReaderAt, CacheMatches
      <3> QED
        BY <2>2, <3>1, <3>2, <3>3, <3>4 DEF RestoreCache
    <2>3. CASE ReadBaseline(x)
      <3>1. role[x] = "baseline" /\ (at'[x] = "done" => at[x] = "done" \/ (SizesMatch(x) /\ got' = got))
        BY <2>3 DEF ReadBaseline, CopyScanner
      <3>2. SizesMatch(x) => got[x].files["Coinjoins.txt"] = got[x].manifest
        <4>1. "Coinjoins.txt" \in ScannerFiles
          BY DEF ScannerFiles
        <4>2. SizesMatch(x) => Sizes(got[x].files)["Coinjoins.txt"] = Sizes(Of(got[x].manifest))["Coinjoins.txt"]
          BY DEF SizesMatch
        <4> QED
          BY <4>1, <4>2 DEF Sizes, Of, Size
      <3>3. at[x] # "done"
        BY <2>3 DEF ReadBaseline, CopyScanner
      <3> QED
        BY <3>1, <3>2, <3>3 DEF ReaderAt
    <2>4. CASE Attach(x)
      <3>1. role[x] = "attach" /\ (at'[x] = "2" => got' = got /\ \A f \in ScannerFiles : got[x].files[f] # 0)
        BY <2>4 DEF Attach, CopyScanner
      <3> QED
        BY <3>1 DEF ReaderAt
    <2>5. CASE PackBlock(x) \/ ParseBlock(x)
      BY <2>5 DEF PackBlock, ParseBlock, ReaderAt
    <2>6. CASE ActorKilled(x)
      BY <2>6 DEF ActorKilled, ReaderAt
    <2> QED
      BY <2>1, <2>2, <2>3, <2>4, <2>5, <2>6 DEF ActorStep, CopiesStep
  <1> QED
    BY <1>1, <1>2

\* Only a finished download is renamed into place.
LEMMA AttachStep ==
  ASSUME CopiesTypes, NEW x \in Actors, ActorStep(x), ReaderAt(x), AttachedIsFinished
  PROVE  AttachedIsFinished'
  <1>1. attached' = attached \/ (role[x] = "attach" /\ at[x] = "2" /\ attached' = got[x].files)
    BY DEF ActorStep, CopiesStep, PublishCache, RestoreCache, PublishDumplings, ReadBaseline, Attach, CopyScanner,
           PackBlock, ParseBlock, ActorKilled, CacheFrame, MirrorFrame, BlockFrame
  <1> QED
    BY <1>1 DEF AttachedIsFinished, ReaderAt

\* A pack job that works alone reads back what it uploaded before it removes anything; what a parse
\* has listed as packed stays so.
LEMMA BlockStep ==
  ASSUME CopiesTypes, NEW x \in Actors, ActorStep(x), BlockInv
  PROVE  BlockInv'
  <1> SUFFICES ASSUME ~together' PROVE BlockNeverLost' /\ \A y \in Actors : PackAt(y)'
    BY DEF BlockInv
  <1>0. /\ role' = role /\ at \in [Actors -> ActorLabels] /\ at' \in [Actors -> ActorLabels] /\ got \in [Actors -> Got]
        /\ block \in [raw : {0, 1}, zst : {0, 1, Bad}]
        /\ \A y \in Actors \ {x} : at'[y] = at[y] /\ got'[y] = got[y]
    BY ActorFrame DEF CopiesTypes
  <1>1. ~together
    BY DEF ActorStep, CopiesStep, PublishCache, RestoreCache, PublishDumplings, ReadBaseline, Attach,
           PackBlock, ParseBlock, ActorKilled, CacheFrame, MirrorFrame
  <1>2. (block.raw = 1 \/ block.zst = 1) /\ \A y \in Actors : PackAt(y)
    BY <1>1 DEF BlockInv, BlockNeverLost
  <1>p. \A y \in Actors \ {x} : Packing(y)' = Packing(y)
    BY <1>0 DEF Packing, Over
  <1>3. CASE PackBlock(x)
    <2>1. role[x] = "packer" /\ got' = got /\ \A y \in Actors \ {x} : ~Packing(y)
      BY <1>3 DEF PackBlock, BlockFrame, Packing
    <2>2. PackAt(x)
      BY <1>2
    <2>3. /\ block'.raw \in {0, block.raw} /\ (block'.raw # block.raw => block.zst = 1 /\ block'.zst = 1)
          /\ block.raw = 0 => block'.zst = block.zst
          /\ Packing(x)' => block'.raw = 1
          /\ Packing(x)' /\ at'[x] = "3" => block'.zst = 1
      <3>1. CASE at[x] = "idle"
        BY <1>0, <1>3, <2>1, <3>1 DEF PackBlock, Packing, Over, Step
      <3>2. CASE at[x] = "1"
        BY <1>0, <1>3, <2>1, <2>2, <3>2 DEF PackBlock, Packing, Over, Step, PackAt
      <3>3. CASE at[x] = "2"
        BY <1>0, <1>3, <2>1, <2>2, <3>3 DEF PackBlock, Packing, Over, Step, PackAt
      <3>4. CASE at[x] = "3"
        BY <1>0, <1>3, <2>1, <2>2, <3>4 DEF PackBlock, Packing, Over, Step, PackAt
      <3> QED
        BY <1>3, <3>1, <3>2, <3>3, <3>4 DEF PackBlock
    <2>4. BlockNeverLost'
      BY <1>0, <1>2, <2>3 DEF BlockNeverLost
    <2>5. PackAt(x)'
      BY <1>0, <1>p, <2>1, <2>3 DEF PackAt
    <2>6. ASSUME NEW y \in Actors, y # x PROVE PackAt(y)'
      <3>1. ~Packing(y)' /\ at'[y] = at[y] /\ role'[y] = role[y] /\ got'[y] = got[y] /\ PackAt(y)
        BY <1>0, <1>2, <1>p, <2>1, <2>6
      <3>2. block.raw = 0 => block'.raw = 0
        BY <2>3
      <3> QED
        BY <3>1, <3>2 DEF PackAt
    <2> QED
      BY <2>4, <2>5, <2>6
  <1>4. CASE ~PackBlock(x)
    <2>1. block' = block
      BY <1>4 DEF ActorStep, CopiesStep, PublishCache, RestoreCache, PublishDumplings, ReadBaseline, Attach,
                  PackBlock, ParseBlock, ActorKilled, CacheFrame, MirrorFrame
    <2>2. Packing(x)' => Packing(x) /\ at'[x] = at[x]
      <3>1. CASE CopiesStep(x)
        BY <1>0, <1>4, <3>1 DEF CopiesStep, PublishCache, RestoreCache, PublishDumplings, ReadBaseline, Attach,
                                ParseBlock, Packing, Is
      <3>2. CASE ActorKilled(x)
        BY <1>0, <3>2 DEF ActorKilled, Packing, Over, Step
      <3> QED
        BY <3>1, <3>2 DEF ActorStep
    <2>3. /\ role[x] = "parser" /\ at'[x] = "1" => got'[x].form = StoredForm
          /\ role[x] = "parser" /\ at'[x] = "failed" =>
                 got'[x].form = got[x].form /\ at[x] = "1" /\ (IF got[x].form = "raw" THEN block.raw ELSE block.zst) # 1
      <3>1. CASE ParseBlock(x)
        BY <1>0, <3>1 DEF ParseBlock, Step, Got
      <3>2. CASE ~ParseBlock(x) /\ role[x] = "parser"
        <4>1. ActorKilled(x)
          BY <1>4, <3>2 DEF ActorStep, CopiesStep, PublishCache, RestoreCache, PublishDumplings, ReadBaseline, Attach, Is
        <4> QED
          BY <1>0, <4>1 DEF ActorKilled, Step
      <3> QED
        BY <3>1, <3>2
    <2>4. StoredForm \in {"raw", "zst"} /\ (StoredForm = "zst" => block.raw = 0)
      BY DEF StoredForm
    <2>5. ASSUME NEW y \in Actors PROVE PackAt(y)'
      <3>1. Packing(y)' => Packing(y) /\ at'[y] = at[y]
        BY <1>0, <1>p, <2>2
      <3>2. Packing(y)' => block'.raw = 1 /\ \A z \in Actors \ {y} : ~Packing(z)'
        BY <1>2, <1>p, <2>1, <2>2, <3>1 DEF PackAt
      <3>3. Packing(y)' /\ at'[y] = "3" => block'.zst = 1
        BY <1>2, <2>1, <3>1 DEF PackAt
      <3>4. CASE y # x
        BY <1>0, <1>2, <2>1, <3>2, <3>3, <3>4 DEF PackAt
      <3>5. CASE y = x
        <4>1. role[x] = "parser" /\ at'[x] = "1" => got'[x].form \in {"raw", "zst"} /\ (got'[x].form = "zst" => block'.raw = 0)
          BY <2>1, <2>3, <2>4
        <4>2. role[x] = "parser" /\ at'[x] = "failed" => got'[x].form = "raw" /\ block'.raw = 0
          BY <1>0, <1>2, <2>1, <2>3 DEF PackAt
        <4> QED
          BY <1>0, <3>2, <3>3, <3>5, <4>1, <4>2 DEF PackAt
      <3> QED
        BY <3>4, <3>5
    <2> QED
      BY <1>2, <2>1, <2>5 DEF BlockNeverLost
  <1> QED
    BY <1>3, <1>4

\* Every step keeps what the copies hold.
LEMMA CopiesNext ==
  ASSUME CopiesInv, [Next]_vars
  PROVE  CopiesInv'
  <1>1. CASE \E x \in Actors : ActorStep(x)
    <2>1. PICK x \in Actors : ActorStep(x)
      BY <1>1
    <2> QED
      BY <2>1, ActorTypes, ReaderStep, AttachStep, BlockStep DEF CopiesInv
  <1>2. CASE UNCHANGED copiesVars
    <2>1. CopiesTypes' /\ AttachedIsFinished' /\ \A x \in Actors : ReaderAt(x)'
      BY <1>2 DEF CopiesInv, CopiesTypes, copiesVars, AttachedIsFinished, ReaderAt
    <2>2. BlockInv'
      BY <1>2 DEF CopiesInv, copiesVars, BlockInv, BlockNeverLost, PackAt, Packing
    <2> QED
      BY <2>1, <2>2 DEF CopiesInv
  <1>3. (\E x \in Actors : ActorStep(x)) \/ UNCHANGED copiesVars
    BY IndexFrame DEF Next, JobStep, ActorStep, vars
  <1> QED
    BY <1>1, <1>2, <1>3

\* What the jobs of other runs read of the copies in S3 belongs together and is complete, although
\* nobody locks them (publish_index, publish_dumplings, attach_dumplings and pack_block).
THEOREM CopiesAreOneGeneration == Spec => []CopiesHold
  <1>1. CopiesInv => CopiesHold
    BY DEF CopiesInv, CopiesHold, ReaderAt, BlockInv, PackAt, CacheIsOneGeneration, BaselineDataMatches, PicksVerified,
           BlockNeverLost, Is
  <1> QED
    BY <1>1, CopiesInit, CopiesNext, PTL DEF Spec
=============================================================================
