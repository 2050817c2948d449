--------------------------- MODULE RunPrefixProofs ---------------------------
(***************************************************************************)
(* Proofs about RunPrefix, for any number of processes, any casts, any     *)
(* number of Jobs and faults: types, no support object left without an     *)
(* owner, a front end that goes on with its own run, and downloaded        *)
(* reports that are whole and kept.                                        *)
(***************************************************************************)
EXTENDS RunPrefix, FiniteSetTheorems, TLAPS

\* The numbers of processes and Jobs are among those an object can hold.
LEMMA Numbers ==
  /\ Old \in Nat /\ Procs \subseteq 1..Old /\ Uids \subseteq 1..Old
  /\ 0 \notin Procs /\ 0 \notin Uids /\ Old # 0
  <1>1. Cardinality(Procs) \in Nat
    BY PrefixAssumption, FS_CardinalityType
  <1> QED
    BY <1>1, PrefixAssumption DEF Old, Uids

\* The chosen first member is a member.
LEMMA FirstIsMember ==
  ASSUME NEW S, S # {}
  PROVE  First(S) \in S
  BY DEF First

-----------------------------------------------------------------------------
(***************************************************************************)
(* The kinds of steps.                                                     *)
(***************************************************************************)
Budget == NoFault \/ Fault

\* The steps of a process that only move it, and what they have seen.
Seen(p) ==
    \/ pc'[p] = "failed" /\ pc[p] \in {"start", "s3", "kube", "empty", "check", "stage", "sync", "whole", "mark"}
    \/ pc'[p] = "dead" /\ part[p] = "download"
    \/ pc[p] = "s3" /\ pc'[p] = "kube"
    \/ pc[p] = "kube" /\ pc'[p] = "empty"
    \/ pc[p] = "empty" /\ pc'[p] = "stage" /\ \A k \in Keys : obj[k] = 0
    \/ pc[p] = "check" /\ part[p] = "resume" /\ pc'[p] = "verify"
    \/ pc[p] = "check" /\ part[p] = "resume" /\ pc'[p] = "stage" /\ \A k \in Exporters : obj[k] = 0
    \/ pc[p] = "stage" /\ pc'[p] = "verify" /\ \A k \in Exporters : got[p][k] = p
    \/ pc[p] = "pollFailed" /\ pc'[p] = "giveUp" /\ (obj["upload.failed"] # 0 \/ faults' # 0)
    \/ pc[p] = "pollFailed" /\ pc'[p] = "pollDone"
    \/ pc[p] = "pollDone" /\ pc'[p] = "probe" /\ obj["upload.done"] = 0
    \/ pc[p] = "pollDone" /\ pc'[p] = "giveUp" /\ faults' # 0
    \/ pc[p] = "probe" /\ pc'[p] = "giveUp"
    \/ pc[p] = "start" /\ part[p] = "clean" /\ pc'[p] \in {"ok", "list"}
    \/ pc[p] = "publish" /\ pc'[p] = "mark" /\ \A k \in Report : obj[k] = p
    \/ pc[p] = "publish" /\ pc'[p] = "markFailed"
    \/ pc[p] = "start" /\ part[p] = "download" /\ pc'[p] = "check"
    \/ pc[p] = "check" /\ part[p] = "download" /\ pc'[p] = "check2"

Pure(p) ==
    /\ pc[p] \in Labels /\ pc'[p] \in Labels /\ GoTo(p, pc'[p]) /\ Seen(p) /\ Budget
    /\ UNCHANGED <<procVars, obj, kubeVars, frontVars, got, localVars, history>>

\* The other disjuncts of the actions that have one of these.
PollSucceeds(p) ==
    /\ At(p, "pollDone") /\ obj["upload.done"] # 0 /\ NoFault /\ GoTo(p, "ok")
    /\ got' = [got EXCEPT ![p] = [k \in Keys |-> IF k \in Exporters \cup Artifacts THEN obj[k] ELSE 0]]
    /\ UNCHANGED <<procVars, obj, kubeVars, frontVars, localVars, history>>
ReportWrites(p) ==
    \/ Reports(p, "start", "report.failed", 0, "clear2") /\ \A q \in Procs : part[q] = "report" => ~Working(q)
    \/ Reports(p, "clear2", "report.done", 0, "publish")
    \/ \E k \in Report : Reports(p, "publish", k, p, "publish")
    \/ Reports(p, "mark", "report.done", p, "ok")
    \/ Reports(p, "markFailed", "report.failed", p, "failed")
SyncsJson(p) ==
    /\ At(p, "sync") /\ NoFault /\ GoTo(p, "whole")
    /\ got' = [got EXCEPT ![p]["json"] = obj["json"]]
    /\ UNCHANGED <<procVars, obj, kubeVars, frontVars, localVars, history>>
SyncsMarkdown(p) ==
    /\ At(p, "whole") /\ NoFault /\ GoTo(p, IF got[p]["json"] = 0 THEN "failed" ELSE "move")
    /\ got' = [got EXCEPT ![p]["markdown"] = obj["markdown"]]
    /\ UNCHANGED <<procVars, obj, kubeVars, frontVars, localVars, history>>

FrontStep(p) ==
    \/ FrontStarts(p) \/ StageFile(p) \/ StagedVerified(p)
    \/ ApplySupport(p) \/ ApplyJob(p) \/ ReadUid(p) \/ (\E k \in SupportKinds : PatchOwner(p, k))
    \/ RollBackJob(p) \/ RollBackSupport(p) \/ PollSucceeds(p) \/ Verdict(p) \/ GiveUp(p)
    \/ FrontDies(p)
DownloadStep(p) ==
    \/ DownloadChecksDone(p) \/ SyncsJson(p) \/ SyncsMarkdown(p)
    \/ SetAside(p) \/ Replace(p) \/ RestoreOld(p) \/ DiscardOld(p)
CleanStep(p) == CleanExpands(p) \/ CleanDeletes(p)
PodStep(u) == PodSteps(u) \/ Controller(u) \/ PodKilled(u)

\* In types: pc and faults are within their bounds.
LEMMA PureMoves ==
  ASSUME NEW p \in Procs, pc \in [Procs -> Labels], faults \in Nat,
         \/ S3Preflight(p) \/ KubernetesPreflight(p) \/ EnsureEmpty(p) \/ StagedState(p)
         \/ StageEnds(p) \/ PollFailed(p) \/ DeadlinePasses(p) \/ CleanLists(p)
         \/ DownloadStarts(p) \/ DownloadChecksFailed(p) \/ DownloadDies(p)
  PROVE  Pure(p)
  <1>1. \A label \in Labels : Only(p, label) =>
          /\ pc[p] \in Labels /\ pc'[p] = label /\ GoTo(p, pc'[p])
          /\ UNCHANGED <<procVars, obj, kubeVars, frontVars, got, localVars, history>>
    BY DEF Only, GoTo
  <1>2. Fault => faults' # 0
    BY DEF Fault
  <1> USE <1>1, <1>2 DEF Pure, Seen, Budget, At, Labels
  <1>3. CASE S3Preflight(p) \/ KubernetesPreflight(p) \/ EnsureEmpty(p)
    BY <1>3 DEF S3Preflight, KubernetesPreflight, EnsureEmpty
  <1>4. CASE StagedState(p)
    <2>1. \/ Only(p, "verify") /\ NoFault
          \/ Only(p, "stage") /\ NoFault /\ \A k \in Exporters : obj[k] = 0
          \/ Only(p, "failed") /\ Budget
      BY <1>4 DEF StagedState
    <2> QED
      BY <1>4, <2>1 DEF StagedState
  <1>5. CASE StageEnds(p)
    BY <1>5 DEF StageEnds
  <1>6. CASE PollFailed(p) \/ DeadlinePasses(p)
    BY <1>6 DEF PollFailed, DeadlinePasses
  <1>7. CASE CleanLists(p)
    BY <1>7 DEF CleanLists
  <1>8. CASE DownloadStarts(p) \/ DownloadChecksFailed(p)
    BY <1>8 DEF DownloadStarts, DownloadChecksFailed
  <1>9. CASE DownloadDies(p)
    BY <1>9 DEF DownloadDies
  <1> QED
    BY <1>3, <1>4, <1>5, <1>6, <1>7, <1>8, <1>9

\* A step that changes the shared state on some branches only is one of the named writes or a pure move.
LEMMA MixedMoves ==
  ASSUME NEW p \in Procs, pc \in [Procs -> Labels], faults \in Nat
  PROVE  /\ PollDone(p) => PollSucceeds(p) \/ Pure(p)
         /\ ReportClears(p) \/ ReportPublishes(p) \/ ReportMarks(p) => ReportWrites(p) \/ Pure(p)
         /\ DownloadSyncs(p) => SyncsJson(p) \/ Pure(p)
         /\ DownloadChecksWhole(p) => SyncsMarkdown(p) \/ Pure(p)
  <1>1. \A label \in Labels : Only(p, label) =>
          /\ pc[p] \in Labels /\ pc'[p] = label /\ GoTo(p, pc'[p])
          /\ UNCHANGED <<procVars, obj, kubeVars, frontVars, got, localVars, history>>
    BY DEF Only, GoTo
  <1>2. Fault => faults' # 0
    BY DEF Fault
  <1> USE <1>1, <1>2 DEF Pure, Seen, Budget, At, Labels
  <1>3. PollDone(p) => PollSucceeds(p) \/ Pure(p)
    BY DEF PollDone, PollSucceeds
  <1>4. ReportClears(p) \/ ReportPublishes(p) \/ ReportMarks(p) => ReportWrites(p) \/ Pure(p)
    BY DEF ReportClears, ReportPublishes, ReportMarks, ReportWrites
  <1>5. DownloadSyncs(p) => SyncsJson(p) \/ Pure(p)
    BY DEF DownloadSyncs, SyncsJson
  <1>6. DownloadChecksWhole(p) => SyncsMarkdown(p) \/ Pure(p)
    BY DEF DownloadChecksWhole, SyncsMarkdown
  <1> QED
    BY <1>3, <1>4, <1>5, <1>6

ProcStep(p) == Pure(p) \/ FrontStep(p) \/ CleanStep(p) \/ ReportWrites(p) \/ DownloadStep(p)

\* Every step of the system is a step of one process, of one pod, or of the collector.
LEMMA StepKinds ==
  ASSUME pc \in [Procs -> Labels], faults \in Nat, Next
  PROVE  \/ \E p \in Procs : ProcStep(p)
         \/ \E u \in Uids : PodStep(u)
         \/ Collects
  <1>1. ASSUME NEW p \in Procs,
               FrontSteps(p) \/ OtherSteps(p) \/ DeadlinePasses(p) \/ FrontDies(p) \/ DownloadDies(p)
        PROVE  ProcStep(p)
    BY <1>1, PureMoves, MixedMoves
       DEF ProcStep, FrontSteps, OtherSteps, FrontStep, CleanStep, DownloadStep
  <1> QED
    BY <1>1 DEF Next, PodStep

-----------------------------------------------------------------------------
(***************************************************************************)
(* Types.                                                                  *)
(***************************************************************************)
PodAt(u) ==
    /\ pod[u].up = "look" => pod[u].left > 0
    /\ pod[u].up \in {"failed", "drain"} => pod[u].marker = "failed"
    /\ pod[u].up \in {"sync", "done", "exit0"} => pod[u].marker = "done"
    /\ pod[u].marker = "done" => pod[u].have = Artifacts
    /\ pod[u].phase = "stuck" \/ pod[u].ctl = "waiting" => faults # 0
\* What the parts of a pod know of each other.
PodInv == \A u \in Uids : PodAt(u)

PodType ==
    [phase : {"none", "pending", "stuck", "running", "ended"},
     ctl : {"waiting", "run", "exited"}, marker : {"none", "done", "failed"}, left : 0..Rounds,
     up : {"preflight", "test", "look", "failed", "drain", "sync", "done", "exit0", "exit1"},
     have : SUBSET Artifacts]
JobType == [uid : 0..MaxUid, spec : {0} \cup Procs, state : {"active", "complete", "failed"}]

\* The types of what a process has of its own, and of what is shared.
LocalTypes ==
    /\ part \in [Procs -> Parts] /\ apart \in BOOLEAN /\ alike \in BOOLEAN /\ room \in BOOLEAN
    /\ out \in [Report -> 0..Old] /\ aside \in [Procs -> [Report -> 0..Old]]
FrontTypes ==
    uid \in [Procs -> 0..MaxUid] /\ seen \in [Procs -> BOOLEAN] /\ grace \in [Procs -> BOOLEAN]
HistoryTypes ==
    /\ overlap \in BOOLEAN /\ swept \in BOOLEAN /\ slipped \in BOOLEAN /\ had \in BOOLEAN
    /\ disturbed \in [Procs -> BOOLEAN]
ObjTypes == obj \in [Keys -> 0..Old] /\ got \in [Procs -> [Keys -> 0..Old]]
KubeTypes == job \in JobType /\ support \in [SupportKinds -> Absent..MaxUid]

\* The type invariant, split into the groups of variables that steps change together.
LEMMA TypeParts ==
  TypeOK <=> /\ pc \in [Procs -> Labels] /\ LocalTypes /\ FrontTypes /\ HistoryTypes /\ ObjTypes /\ KubeTypes
             /\ pod \in [Uids -> PodType] /\ faults \in 0..MaxFaults
  BY DEF TypeOK, LocalTypes, FrontTypes, HistoryTypes, ObjTypes, KubeTypes, JobType, PodType

\* The same split for the state after a step.
LEMMA TypePartsNext ==
  TypeOK' <=> /\ pc' \in [Procs -> Labels] /\ LocalTypes' /\ FrontTypes' /\ HistoryTypes' /\ ObjTypes' /\ KubeTypes'
              /\ pod' \in [Uids -> PodType] /\ faults' \in 0..MaxFaults
  BY DEF TypeOK, LocalTypes, FrontTypes, HistoryTypes, ObjTypes, KubeTypes, JobType, PodType

TypeInv == TypeOK /\ PodInv

\* The kinds of pure moves keep the types.
LEMMA GoToTypes ==
  ASSUME NEW p \in Procs, NEW label \in Labels, pc \in [Procs -> Labels], GoTo(p, label)
  PROVE  /\ pc' \in [Procs -> Labels] /\ pc'[p] = label
         /\ \A q \in Procs : q # p => pc'[q] = pc[q]
  BY DEF GoTo

\* A fault stays within the bound.
LEMMA BudgetType ==
  ASSUME faults \in 0..MaxFaults, Budget
  PROVE  faults' \in 0..MaxFaults
  BY PrefixAssumption DEF Budget, NoFault, Fault

\* A move that changes only what a process keeps for itself keeps the types.
LEMMA PureTypes ==
  ASSUME TypeOK, NEW p \in Procs, Pure(p)
  PROVE  TypeOK'
  <1> USE DEF Pure, procVars, kubeVars, frontVars, localVars, history
  <1>1. pc' \in [Procs -> Labels] /\ faults' \in 0..MaxFaults
    BY TypeParts, GoToTypes, BudgetType
  <1>2. LocalTypes' /\ FrontTypes' /\ HistoryTypes' /\ ObjTypes' /\ KubeTypes' /\ pod' \in [Uids -> PodType]
    BY TypeParts DEF LocalTypes, FrontTypes, HistoryTypes, ObjTypes, KubeTypes
  <1> QED
    BY <1>1, <1>2, TypePartsNext

\* Writing one object changes that object alone.
LEMMA ObjPut ==
  ASSUME ObjTypes, NEW k \in Keys, NEW w \in 0..Old, Put(k, w)
  PROVE  /\ obj' \in [Keys -> 0..Old] /\ obj'[k] = w
         /\ \A l \in Keys : l # k => obj'[l] = obj[l]
  BY DEF ObjTypes, Put

\* What a process sees of the whole prefix, or of a part, has the type of what it found.
LEMMA FoundType ==
  ASSUME ObjTypes, NEW S
  PROVE  [k \in Keys |-> IF k \in S THEN obj[k] ELSE 0] \in [Keys -> 0..Old]
  BY Numbers DEF ObjTypes

\* s5cmd transfers one exporter that is still missing in p's listing.
LEMMA StageFileMoves ==
  ASSUME NEW p \in Procs, StageFile(p)
  PROVE  \E k \in Exporters :
            /\ got[p][k] = 0 /\ got' = [got EXCEPT ![p][k] = p]
            /\ Put(k, p) \/ (obj[k] # 0 /\ UNCHANGED obj)
  <1> DEFINE missing == {x \in Exporters : got[p][x] = 0}
  <1>1. First(missing) \in missing
    <2>1. missing # {}
      BY DEF StageFile
    <2> HIDE DEF missing
    <2> QED
      BY <2>1, FirstIsMember
  <1>2. /\ got' = [got EXCEPT ![p][First(missing)] = p]
        /\ Put(First(missing), p) \/ (obj[First(missing)] # 0 /\ UNCHANGED obj)
    BY DEF StageFile
  <1> QED
    BY <1>1, <1>2

\* Deleting the Job keeps the types.
LEMMA DeleteJobTypes ==
  ASSUME TypeOK, NEW p \in Procs, NEW then \in Labels, DeleteJob(p, then)
  PROVE  TypeOK'
  <1> USE DEF DeleteJob, procVars, frontVars, localVars
  <1>1. pc' \in [Procs -> Labels] /\ faults' \in 0..MaxFaults
    BY TypeParts, GoToTypes, BudgetType DEF Budget
  <1>2. LocalTypes' /\ FrontTypes' /\ ObjTypes' /\ HistoryTypes'
    BY TypeParts DEF LocalTypes, FrontTypes, HistoryTypes, ObjTypes
  <1>3. NoJob \in JobType /\ Gone \in PodType
    BY PrefixAssumption DEF NoJob, JobType, NoPod, Gone, PodType
  <1>4. KubeTypes' /\ pod' \in [Uids -> PodType]
    BY <1>3, TypeParts DEF KubeTypes
  <1> QED
    BY <1>1, <1>2, <1>4, TypePartsNext

\* The steps of a submitting command keep the types.
LEMMA FrontStepTypes ==
  ASSUME TypeOK, NEW p \in Procs, FrontStep(p)
  PROVE  TypeOK'
  <1> USE DEF procVars, kubeVars, frontVars, localVars, history
  <1>0. /\ pc \in [Procs -> Labels] /\ LocalTypes /\ FrontTypes /\ HistoryTypes /\ ObjTypes /\ KubeTypes
        /\ pod \in [Uids -> PodType] /\ faults \in 0..MaxFaults
    BY TypeParts
  <1>1. CASE FrontStarts(p) \/ FrontDies(p)
    <2> USE <1>0, <1>1 DEF FrontStarts, FrontDies
    <2>1. \E label \in Labels : GoTo(p, label)
      BY DEF Labels
    <2>2. pc' \in [Procs -> Labels] /\ faults' \in 0..MaxFaults
      BY <2>1, GoToTypes, BudgetType DEF Budget
    <2>3. LocalTypes' /\ FrontTypes' /\ HistoryTypes' /\ ObjTypes' /\ KubeTypes' /\ pod' \in [Uids -> PodType]
      BY DEF LocalTypes, FrontTypes, HistoryTypes, ObjTypes, KubeTypes
    <2> QED
      BY <2>2, <2>3, TypePartsNext
  <1>2. CASE StageFile(p)
    <2>1. PICK k \in Exporters : (Put(k, p) \/ UNCHANGED obj) /\ got' = [got EXCEPT ![p][k] = p]
      BY <1>2, StageFileMoves
    <2>2. ObjTypes'
      <3>1. k \in Keys /\ p \in 0..Old
        BY Numbers DEF Keys
      <3>2. obj' \in [Keys -> 0..Old]
        BY <1>0, <2>1, <3>1, ObjPut DEF ObjTypes
      <3>3. got' \in [Procs -> [Keys -> 0..Old]]
        BY <1>0, <2>1, <3>1 DEF ObjTypes
      <3> QED
        BY <3>2, <3>3 DEF ObjTypes
    <2>3. pc' = pc /\ LocalTypes' /\ FrontTypes' /\ HistoryTypes' /\ KubeTypes' /\ pod' = pod /\ faults' = faults
      BY <1>0, <1>2 DEF StageFile, LocalTypes, FrontTypes, HistoryTypes, KubeTypes, NoFault
    <2> QED
      BY <1>0, <2>2, <2>3, TypePartsNext
  <1>3. CASE StagedVerified(p) \/ PollSucceeds(p)
    <2> USE <1>0, <1>3 DEF StagedVerified, PollSucceeds
    <2>1. \E label \in Labels : GoTo(p, label)
      BY DEF Labels
    <2>2. pc' \in [Procs -> Labels] /\ faults' \in 0..MaxFaults
      BY <2>1, GoToTypes DEF NoFault
    <2>3. ObjTypes'
      BY FoundType DEF ObjTypes
    <2>4. LocalTypes' /\ FrontTypes' /\ HistoryTypes' /\ KubeTypes' /\ pod' = pod
      BY DEF LocalTypes, FrontTypes, HistoryTypes, KubeTypes
    <2> QED
      BY <2>2, <2>3, <2>4, TypePartsNext
  <1>4. CASE ApplySupport(p) \/ (\E k \in SupportKinds : PatchOwner(p, k)) \/ RollBackSupport(p)
    <2> USE <1>0, <1>4 DEF ApplySupport, PatchOwner, RollBackSupport
    <2>1. \E label \in Labels : GoTo(p, label)
      BY DEF Labels
    <2>2. pc' \in [Procs -> Labels] /\ faults' \in 0..MaxFaults
      BY <2>1, GoToTypes, BudgetType DEF Budget
    <2>3. KubeTypes'
      <3>1. \A k \in SupportKinds : support[k] \in Absent..MaxUid /\ 0 \in Absent..MaxUid /\ Absent \in Absent..MaxUid
        BY PrefixAssumption DEF KubeTypes, Absent
      <3>2. uid[p] \in Absent..MaxUid
        BY PrefixAssumption DEF FrontTypes, Absent
      <3>3. support' \in [SupportKinds -> Absent..MaxUid]
        BY <3>1, <3>2 DEF KubeTypes
      <3> QED
        BY <3>3 DEF KubeTypes
    <2>4. LocalTypes' /\ FrontTypes' /\ HistoryTypes' /\ ObjTypes' /\ pod' = pod
      BY DEF LocalTypes, FrontTypes, HistoryTypes, ObjTypes
    <2> QED
      BY <2>2, <2>3, <2>4, TypePartsNext
  <1>5. CASE ApplyJob(p)
    <2> USE <1>0, <1>5 DEF ApplyJob
    <2>1. \E label \in Labels : GoTo(p, label)
      BY DEF Labels
    <2>2. pc' \in [Procs -> Labels] /\ faults' \in 0..MaxFaults
      BY <2>1, GoToTypes, BudgetType DEF Budget
    <2>3. KubeTypes' /\ pod' \in [Uids -> PodType]
      <3>1. JobSpec(p) \in {0} \cup Procs
        BY DEF JobSpec
      <3>2. CASE UNCHANGED <<job, pod>>
        BY <3>2 DEF KubeTypes
      <3>3. ASSUME NEW u \in Uids, job' = [uid |-> u, spec |-> JobSpec(p), state |-> "active"],
                   pod' = [pod EXCEPT ![u].phase = "pending", ![u].up = "preflight"]
            PROVE  KubeTypes' /\ pod' \in [Uids -> PodType]
        <4>1. job' \in JobType
          BY <3>1, <3>3, Numbers DEF JobType, Uids
        <4>2. pod' \in [Uids -> PodType]
          BY <3>3 DEF PodType
        <4> QED
          BY <4>1, <4>2 DEF KubeTypes
      <3> QED
        BY <3>2, <3>3
    <2>4. LocalTypes' /\ FrontTypes' /\ HistoryTypes' /\ ObjTypes'
      BY DEF LocalTypes, FrontTypes, HistoryTypes, ObjTypes
    <2> QED
      BY <2>2, <2>3, <2>4, TypePartsNext
  <1>6. CASE ReadUid(p) \/ Verdict(p)
    <2> USE <1>0, <1>6 DEF ReadUid, Verdict
    <2>1. \E label \in Labels : GoTo(p, label)
      BY DEF Labels
    <2>2. pc' \in [Procs -> Labels] /\ faults' \in 0..MaxFaults
      BY <2>1, GoToTypes, BudgetType DEF Budget
    <2>3. FrontTypes'
      BY DEF FrontTypes, KubeTypes, JobType
    <2>4. LocalTypes' /\ HistoryTypes' /\ ObjTypes' /\ KubeTypes' /\ pod' = pod
      BY DEF LocalTypes, HistoryTypes, ObjTypes, KubeTypes
    <2> QED
      BY <2>2, <2>3, <2>4, TypePartsNext
  <1>7. CASE RollBackJob(p) \/ GiveUp(p)
    BY <1>7, DeleteJobTypes DEF RollBackJob, GiveUp, Labels
  <1> QED
    BY <1>1, <1>2, <1>3, <1>4, <1>5, <1>6, <1>7 DEF FrontStep

\* The steps of clean-s3 and the writes of a report keep the types.
LEMMA OtherStepTypes ==
  ASSUME TypeOK, NEW p \in Procs, CleanStep(p) \/ ReportWrites(p)
  PROVE  TypeOK'
  <1> USE DEF procVars, kubeVars, frontVars, localVars
  <1>0. /\ pc \in [Procs -> Labels] /\ LocalTypes /\ FrontTypes /\ HistoryTypes /\ ObjTypes /\ KubeTypes
        /\ pod \in [Uids -> PodType] /\ faults \in 0..MaxFaults
    BY TypeParts
  <1>1. CASE CleanExpands(p)
    <2> USE <1>0, <1>1 DEF CleanExpands
    <2>1. pc' \in [Procs -> Labels] /\ faults' \in 0..MaxFaults
      BY GoToTypes DEF NoFault, Labels
    <2>2. LocalTypes' /\ FrontTypes' /\ HistoryTypes' /\ KubeTypes' /\ pod' = pod
      BY DEF LocalTypes, FrontTypes, HistoryTypes, KubeTypes
    <2>3. ObjTypes'
      BY DEF ObjTypes
    <2> QED
      BY <2>1, <2>2, <2>3, TypePartsNext
  <1>2. CASE CleanDeletes(p)
    <2> USE <1>0, <1>2 DEF CleanDeletes
    <2>1. pc' \in [Procs -> Labels] /\ faults' \in 0..MaxFaults
      BY GoToTypes, BudgetType DEF Budget, Labels, NoFault
    <2>2. disturbed' \in [Procs -> BOOLEAN]
      BY DEF HistoryTypes, Disturb
    <2>3. LocalTypes' /\ FrontTypes' /\ HistoryTypes' /\ KubeTypes' /\ pod' = pod
      BY <2>2 DEF LocalTypes, FrontTypes, HistoryTypes, KubeTypes
    <2>4. ObjTypes'
      <3>1. CASE UNCHANGED <<obj, got>>
        BY <3>1 DEF ObjTypes
      <3>2. ASSUME NEW found,
                   got' = [got EXCEPT ![p] = [k \in Keys |-> IF k \in found THEN 0 ELSE @[k]]],
                   obj' = [k \in Keys |-> IF k \in found THEN 0 ELSE obj[k]]
            PROVE  ObjTypes'
        BY <3>2, Numbers DEF ObjTypes
      <3> QED
        BY <3>1, <3>2
    <2> QED
      BY <2>1, <2>3, <2>4, TypePartsNext
  <1>3. CASE ReportWrites(p)
    <2>1. PICK from \in Labels, k \in Keys, w \in 0..Old, to \in Labels : Reports(p, from, k, w, to)
      <3>1. p \in 0..Old /\ 0 \in 0..Old
        BY Numbers
      <3> QED
        BY <1>3, <3>1 DEF ReportWrites, Labels, Keys, Report, Markers
    <2> USE <1>0, <2>1 DEF Reports
    <2>2. pc' \in [Procs -> Labels] /\ faults' \in 0..MaxFaults
      BY GoToTypes DEF NoFault
    <2>3. disturbed' \in [Procs -> BOOLEAN]
      BY DEF HistoryTypes, Disturb
    <2>4. LocalTypes' /\ FrontTypes' /\ HistoryTypes' /\ KubeTypes' /\ pod' = pod
      BY <2>3 DEF LocalTypes, FrontTypes, HistoryTypes, KubeTypes
    <2>5. ObjTypes'
      BY ObjPut DEF ObjTypes
    <2> QED
      BY <2>2, <2>4, <2>5, TypePartsNext
  <1> QED
    BY <1>1, <1>2, <1>3 DEF CleanStep

\* The steps of download-report keep the types.
LEMMA DownloadStepTypes ==
  ASSUME TypeOK, NEW p \in Procs, DownloadStep(p)
  PROVE  TypeOK'
  <1> USE DEF procVars, kubeVars, frontVars, localVars, history
  <1>0. /\ pc \in [Procs -> Labels] /\ LocalTypes /\ FrontTypes /\ HistoryTypes /\ ObjTypes /\ KubeTypes
        /\ pod \in [Uids -> PodType] /\ faults \in 0..MaxFaults
    BY TypeParts
  <1>1. \E label \in Labels : GoTo(p, label)
    BY DEF DownloadStep, DownloadChecksDone, SyncsJson, SyncsMarkdown, SetAside, Replace, RestoreOld,
           DiscardOld, Labels
  <1>2. Budget
    BY DEF DownloadStep, DownloadChecksDone, SyncsJson, SyncsMarkdown, SetAside, Replace, RestoreOld,
           DiscardOld, Budget
  <1>3. pc' \in [Procs -> Labels] /\ faults' \in 0..MaxFaults
    BY <1>0, <1>1, <1>2, GoToTypes, BudgetType
  <1>4. CASE DownloadChecksDone(p)
    <2> USE <1>0, <1>4 DEF DownloadChecksDone
    <2>1. HistoryTypes'
      BY DEF HistoryTypes, HalfCleaned
    <2>2. LocalTypes' /\ FrontTypes' /\ ObjTypes' /\ KubeTypes' /\ pod' = pod
      BY DEF LocalTypes, FrontTypes, ObjTypes, KubeTypes
    <2> QED
      BY <1>3, <2>1, <2>2, TypePartsNext
  <1>5. CASE SyncsJson(p) \/ SyncsMarkdown(p)
    <2> USE <1>0, <1>5 DEF SyncsJson, SyncsMarkdown
    <2>1. ObjTypes'
      <3>1. "json" \in Keys /\ "markdown" \in Keys
        BY DEF Keys, Report
      <3>2. \A k \in Keys : [got[p] EXCEPT ![k] = obj[k]] \in [Keys -> 0..Old]
        BY DEF ObjTypes
      <3>3. got' = [got EXCEPT ![p] = [got[p] EXCEPT !["json"] = obj["json"]]]
            \/ got' = [got EXCEPT ![p] = [got[p] EXCEPT !["markdown"] = obj["markdown"]]]
        OBVIOUS
      <3>4. got' \in [Procs -> [Keys -> 0..Old]]
        BY <3>1, <3>2, <3>3 DEF ObjTypes
      <3> QED
        BY <3>4 DEF ObjTypes
    <2>2. LocalTypes' /\ FrontTypes' /\ HistoryTypes' /\ KubeTypes' /\ pod' = pod
      BY DEF LocalTypes, FrontTypes, HistoryTypes, KubeTypes
    <2> QED
      BY <1>3, <2>1, <2>2, TypePartsNext
  <1>6. CASE SetAside(p) \/ Replace(p) \/ RestoreOld(p) \/ DiscardOld(p)
    <2> USE <1>0, <1>6 DEF SetAside, Replace, RestoreOld, DiscardOld
    <2>1. NoDir \in [Report -> 0..Old]
      BY Numbers DEF NoDir
    <2>2. Staged(p) \in [Report -> 0..Old]
      BY DEF Staged, ObjTypes, Keys
    <2>3. LocalTypes'
      BY <2>1, <2>2 DEF LocalTypes
    <2>4. HistoryTypes'
      BY DEF HistoryTypes
    <2>5. FrontTypes' /\ ObjTypes' /\ KubeTypes' /\ pod' = pod
      BY DEF FrontTypes, ObjTypes, KubeTypes
    <2> QED
      BY <1>3, <2>3, <2>4, <2>5, TypePartsNext
  <1> QED
    BY <1>4, <1>5, <1>6 DEF DownloadStep

\* The objects a pod writes.
Up == {"upload.done", "upload.failed"}

\* What any step of a pod leaves alone: everything but its own state, its Job's, and the
\* objects it uploads while it runs.
LEMMA PodFrame ==
  ASSUME TypeInv, NEW u \in Uids, PodStep(u)
  PROVE  /\ Kube /\ UNCHANGED support /\ Budget /\ Alive(u)
         /\ pod' \in [Uids -> PodType] /\ \A v \in Uids : v # u => pod'[v] = pod[v]
         /\ job' \in JobType /\ job'.uid = job.uid /\ job'.spec = job.spec
         /\ job' = job \/ (job.uid = u /\ job'.state # "active" /\ pod'[u] = Gone)
         /\ obj' \in [Keys -> 0..Old]
         /\ obj' = obj \/ (InPod(u) /\ \E k \in Artifacts \cup Up : Put(k, u))
  <1>0. /\ ObjTypes /\ job \in JobType /\ pod \in [Uids -> PodType] /\ u \in 0..Old /\ NoPod \in PodType
        /\ Gone \in PodType /\ pod[u] \in PodType
    BY TypeParts, Numbers, PrefixAssumption DEF TypeInv, KubeTypes, NoPod, Gone, PodType
  <1>1. ASSUME NEW r \in PodType, Pod(u, r)
        PROVE  pod' \in [Uids -> PodType] /\ pod'[u] = r /\ \A v \in Uids : v # u => pod'[v] = pod[v]
    BY <1>0, <1>1 DEF Pod
  <1>2. ASSUME NEW s \in {"active", "complete", "failed"}
        PROVE  /\ [job EXCEPT !.state = s] \in JobType
               /\ [job EXCEPT !.state = s].uid = job.uid
               /\ [job EXCEPT !.state = s].spec = job.spec
               /\ [job EXCEPT !.state = s].state = s
    BY <1>0 DEF JobType
  <1>3. ASSUME NEW k \in Artifacts \cup Up, Put(k, u)
        PROVE  obj' \in [Keys -> 0..Old]
    BY <1>0, <1>3, ObjPut DEF Keys, Up, Markers
  <1>4. CASE PodStarts(u)
    <2>1. \A phase \in {"running", "stuck"} : [pod[u] EXCEPT !.phase = phase] \in PodType
      BY <1>0 DEF PodType
    <2> QED
      BY <1>0, <1>1, <1>4, <2>1 DEF PodStarts, Alive, Budget, ObjTypes
  <1>5. CASE PrefixPreflight(u)
    <2>1. \A ctl \in {"run", "waiting"} : [pod[u] EXCEPT !.up = "test", !.ctl = ctl] \in PodType
      BY <1>0 DEF PodType
    <2>2. (IF faults' = faults THEN "run" ELSE "waiting") \in {"run", "waiting"}
      OBVIOUS
    <2>3. \E r \in PodType : Pod(u, r)
      BY <1>0, <1>5, <2>1, <2>2 DEF PrefixPreflight
    <2>4. job' = job \/ (Pod(u, Gone) /\ job.uid = u /\ job' = [job EXCEPT !.state = "failed"])
      BY <1>5 DEF PrefixPreflight
    <2>5. Kube /\ UNCHANGED <<obj, support>> /\ Budget /\ Alive(u)
      BY <1>5 DEF PrefixPreflight, Budget, Alive, InPod
    <2> QED
      BY <1>0, <1>1, <1>2, <2>3, <2>4, <2>5 DEF ObjTypes
  <1>6. CASE UploaderTests(u) \/ UploaderLooks(u) \/ Controller(u)
    <2>1. /\ \A up \in {"failed", "sync", "look"} : [pod[u] EXCEPT !.up = up] \in PodType
          /\ [pod[u] EXCEPT !.marker = "failed", !.up = "failed"] \in PodType
          /\ [pod[u] EXCEPT !.marker = "failed"] \in PodType
          /\ [pod[u] EXCEPT !.ctl = "exited"] \in PodType
          /\ [pod[u] EXCEPT !.have = {First(Artifacts)}] \in PodType
          /\ [pod[u] EXCEPT !.have = Artifacts, !.marker = "done"] \in PodType
      <3>1. First(Artifacts) \in Artifacts
        BY FirstIsMember DEF Artifacts
      <3>2. pod[u] \in PodType
        BY <1>0
      <3>3. /\ \A up \in {"failed", "sync", "look"} : [pod[u] EXCEPT !.up = up] \in PodType
            /\ [pod[u] EXCEPT !.marker = "failed", !.up = "failed"] \in PodType
            /\ [pod[u] EXCEPT !.marker = "failed"] \in PodType
        BY <3>2 DEF PodType
      <3>4. [pod[u] EXCEPT !.ctl = "exited"] \in PodType
        BY <3>2 DEF PodType
      <3>5. \A have \in SUBSET Artifacts : [pod[u] EXCEPT !.have = have] \in PodType
        BY <3>2 DEF PodType
      <3>6. [pod[u] EXCEPT !.have = Artifacts, !.marker = "done"] \in PodType
        BY <3>2 DEF PodType
      <3> QED
        BY <3>1, <3>3, <3>4, <3>5, <3>6
    <2>2. \E r \in PodType : Pod(u, r)
      <3>1. CASE UploaderTests(u)
        BY <1>0, <2>1, <3>1 DEF UploaderTests
      <3>2. CASE UploaderLooks(u)
        <4>1. pod[u].up = "look" /\ pod[u].left > 0
          BY <3>2 DEF TypeInv, PodInv, PodAt, UploaderLooks
        <4>2. pod[u].left - 1 \in 0..Rounds
          BY <1>0, <4>1, PrefixAssumption DEF PodType
        <4>3. \A n \in 0..Rounds : [pod[u] EXCEPT !.up = "test", !.left = n] \in PodType
          BY <1>0 DEF PodType
        <4> QED
          BY <2>1, <3>2, <4>2, <4>3 DEF UploaderLooks
      <3>3. CASE Controller(u)
        BY <1>0, <2>1, <3>3 DEF Controller
      <3> QED
        BY <1>6, <3>1, <3>2, <3>3
    <2>3. Kube /\ UNCHANGED <<obj, job, support>> /\ Budget /\ Alive(u)
      BY <1>6 DEF UploaderTests, UploaderLooks, Controller, Budget, Alive, InPod
    <2> QED
      BY <1>0, <1>1, <2>2, <2>3 DEF ObjTypes
  <1>7. CASE UploadsFailure(u) \/ UploadsDone(u)
    <2>1. pod[u].have \subseteq Artifacts
      BY <1>0 DEF PodType
    <2>2. obj' = obj \/ \E k \in Artifacts \cup Up : Put(k, u)
      <3> DEFINE left == {k \in pod[u].have : obj[k] # u}
      <3>1. left # {} => First(left) \in Artifacts
        <4>1. left \subseteq Artifacts
          BY <2>1
        <4> HIDE DEF left
        <4> QED
          BY <4>1, FirstIsMember
      <3>2. \/ obj' = obj \/ Put("upload.failed", u) \/ Put("upload.done", u)
            \/ (left # {} /\ Put(First(left), u))
        BY <1>7 DEF UploadsFailure, UploadsDone
      <3> QED
        BY <3>1, <3>2 DEF Up
    <2>3. /\ [pod[u] EXCEPT !.up = "exit1", !.have = {}] \in PodType
          /\ \A up \in {"drain", "done", "exit0", "exit1"} : [pod[u] EXCEPT !.up = up] \in PodType
      BY <1>0 DEF PodType
    <2>4. pod' = pod \/ \E r \in PodType : Pod(u, r)
      BY <1>7, <2>3 DEF UploadsFailure, UploadsDone
    <2>5. Kube /\ UNCHANGED <<job, support>> /\ Budget /\ Alive(u) /\ InPod(u)
      BY <1>7 DEF UploadsFailure, UploadsDone, Budget, Alive, InPod
    <2> QED
      BY <1>0, <1>1, <1>3, <2>2, <2>4, <2>5 DEF ObjTypes
  <1>8. CASE PodEnds(u) \/ PodKilled(u)
    <2>1. Pod(u, Gone) /\ Kube /\ UNCHANGED <<obj, support>> /\ Budget /\ Alive(u)
      BY <1>8 DEF PodEnds, PodKilled, Budget, Alive, InPod
    <2>2. \/ job' = job
          \/ job.uid = u /\ \E s \in {"complete", "failed"} : job' = [job EXCEPT !.state = s]
      BY <1>8 DEF PodEnds, PodKilled
    <2> QED
      BY <1>0, <1>1, <1>2, <2>1, <2>2 DEF ObjTypes
  <1> QED
    BY <1>4, <1>5, <1>6, <1>7, <1>8 DEF PodStep, PodSteps

\* The steps of a pod keep the types.
LEMMA PodStepTypes ==
  ASSUME TypeInv, NEW u \in Uids, PodStep(u)
  PROVE  TypeOK'
  <1>1. /\ Kube /\ UNCHANGED support /\ Budget /\ pod' \in [Uids -> PodType] /\ job' \in JobType
        /\ obj' \in [Keys -> 0..Old]
    BY PodFrame
  <1>2. LocalTypes' /\ FrontTypes' /\ HistoryTypes' /\ ObjTypes' /\ KubeTypes' /\ pc' \in [Procs -> Labels]
    BY <1>1, TypeParts DEF TypeInv, Kube, procVars, frontVars, localVars, history, LocalTypes, FrontTypes,
       HistoryTypes, ObjTypes, KubeTypes
  <1> QED
    BY <1>1, <1>2, TypeParts, TypePartsNext, BudgetType DEF TypeInv

\* The garbage collector keeps the types.
LEMMA CollectsTypes ==
  ASSUME TypeOK, Collects
  PROVE  TypeOK' /\ pod' = pod /\ faults' = faults
  <1> USE DEF Collects, JobCollected, SupportCollected, Kube, procVars, frontVars, localVars, history
  <1>1. KubeTypes'
    BY TypeParts, PrefixAssumption DEF KubeTypes, NoJob, JobType, Absent
  <1>2. LocalTypes' /\ FrontTypes' /\ HistoryTypes' /\ ObjTypes' /\ pc' = pc /\ pod' = pod /\ faults' = faults
    BY TypeParts DEF LocalTypes, FrontTypes, HistoryTypes, ObjTypes, NoFault
  <1> QED
    BY <1>1, <1>2, TypeParts, TypePartsNext

\* A pod's step keeps what its parts know of each other.
LEMMA PodStepPodInv ==
  ASSUME TypeInv, NEW u \in Uids, PodStep(u)
  PROVE  PodInv'
  <1>0. pod[u] \in PodType /\ PodAt(u) /\ faults \in Nat /\ faults' >= faults
    <2>1. faults \in Nat
      BY TypeParts, PrefixAssumption DEF TypeInv
    <2> QED
      BY <2>1, TypeParts, PodFrame DEF TypeInv, PodInv, Budget, Fault, NoFault
  <1>1. ASSUME NEW v \in Uids, v # u PROVE PodAt(v)'
    BY <1>0, <1>1, PodFrame DEF TypeInv, PodInv, PodAt
  <1>2. PodAt(u)'
    <2>0. \A r : Pod(u, r) => pod'[u] = r
      BY TypeParts DEF TypeInv, Pod
    <2> USE <1>0, <2>0 DEF PodAt, PodType
    <2>1. CASE PodStarts(u)
      BY <2>1 DEF PodStarts, Fault, NoFault
    <2>2. CASE PrefixPreflight(u)
      <3>1. CASE Pod(u, Gone)
        BY <3>1, PrefixAssumption DEF Gone, NoPod
      <3>2. CASE /\ NoFault \/ Fault
                 /\ Pod(u, [pod[u] EXCEPT !.up = "test", !.ctl = IF faults' = faults THEN "run" ELSE "waiting"])
        <4>1. /\ pod'[u].up = "test" /\ pod'[u].marker = pod[u].marker /\ pod'[u].have = pod[u].have
              /\ pod'[u].phase = pod[u].phase /\ pod'[u].ctl \in {"run", "waiting"}
              /\ pod'[u].ctl = "waiting" => faults' # faults
          BY <3>2
        <4> QED
          BY <3>2, <4>1 DEF Fault, NoFault
      <3> QED
        BY <2>2, <3>1, <3>2 DEF PrefixPreflight
    <2>3. CASE UploaderTests(u)
      <3>1. ~(pod[u].marker = "none" /\ pod[u].left = 0) /\ pod[u].marker \notin {"failed", "done"} => pod[u].left > 0
        BY PrefixAssumption
      <3>2. faults' = faults
        BY <2>3 DEF UploaderTests, NoFault
      <3>3. CASE pod[u].marker = "failed"
        <4>1. pod'[u] = [pod[u] EXCEPT !.up = "failed"]
          BY <2>3, <3>3 DEF UploaderTests
        <4> QED
          BY <3>2, <3>3, <4>1
      <3>4. CASE pod[u].marker = "done"
        <4>1. pod'[u] = [pod[u] EXCEPT !.up = "sync"]
          BY <2>3, <3>4 DEF UploaderTests
        <4> QED
          BY <3>2, <3>4, <4>1
      <3>5. CASE pod[u].marker = "none" /\ pod[u].left = 0
        <4>1. pod'[u] = [pod[u] EXCEPT !.marker = "failed", !.up = "failed"]
          BY <2>3, <3>5 DEF UploaderTests
        <4> QED
          BY <3>2, <3>5, <4>1
      <3>6. CASE pod[u].marker \notin {"failed", "done"} /\ ~(pod[u].marker = "none" /\ pod[u].left = 0)
        <4>1. pod'[u] = [pod[u] EXCEPT !.up = "look"]
          BY <2>3, <3>6 DEF UploaderTests
        <4> QED
          BY <3>1, <3>2, <3>6, <4>1
      <3> QED
        BY <3>3, <3>4, <3>5, <3>6
    <2>4. CASE UploaderLooks(u)
      <3>1. CASE pod'[u] = [pod[u] EXCEPT !.marker = "failed", !.up = "failed"]
        BY <2>4, <3>1 DEF UploaderLooks
      <3>2. CASE pod'[u] = [pod[u] EXCEPT !.up = "test", !.left = @ - 1]
        <4>1. pod'[u].up = "test" /\ \A f \in {"phase", "ctl", "marker", "have"} : pod'[u][f] = pod[u][f]
          BY <3>2
        <4> QED
          BY <2>4, <4>1 DEF UploaderLooks
      <3> QED
        BY <2>4, <3>1, <3>2 DEF UploaderLooks
    <2>5. CASE Controller(u)
      <3>1. faults' = faults
        BY <2>5 DEF Controller, NoFault
      <3>2. CASE pod'[u] = [pod[u] EXCEPT !.have = {First(Artifacts)}] /\ pod[u].marker = "none"
        BY <3>1, <3>2
      <3>3. CASE pod'[u] = [pod[u] EXCEPT !.have = Artifacts, !.marker = "done"] /\ pod[u].marker = "none"
        BY <3>1, <3>3
      <3>4. CASE pod'[u] = [pod[u] EXCEPT !.marker = "failed"] /\ pod[u].marker = "none"
        BY <3>1, <3>4
      <3>5. CASE pod'[u] = [pod[u] EXCEPT !.ctl = "exited"]
        BY <3>1, <3>5
      <3> QED
        BY <2>5, <3>2, <3>3, <3>4, <3>5 DEF Controller
    <2>6. CASE UploadsFailure(u) \/ UploadsDone(u)
      <3>1. CASE pod' = pod
        BY <3>1
      <3>2. CASE pod[u].up = "failed" /\ pod'[u] = [pod[u] EXCEPT !.up = "drain"]
        BY <3>2
      <3>3. CASE pod[u].up = "drain" /\ pod'[u] = [pod[u] EXCEPT !.up = "exit1", !.have = {}]
        BY <3>3
      <3>4. CASE pod[u].up \in {"sync", "done"} /\ pod'[u] = [pod[u] EXCEPT !.up = "done"]
        BY <3>4
      <3>5. CASE pod[u].up \in {"sync", "done"} /\ pod'[u] = [pod[u] EXCEPT !.up = "exit0"]
        BY <3>5
      <3>6. CASE pod'[u] = [pod[u] EXCEPT !.up = "exit1"]
        BY <3>6
      <3> QED
        BY <2>6, <3>1, <3>2, <3>3, <3>4, <3>5, <3>6 DEF UploadsFailure, UploadsDone
    <2>8. CASE PodEnds(u) \/ PodKilled(u)
      BY <2>8, PrefixAssumption DEF PodEnds, PodKilled, Gone, NoPod
    <2> QED
      BY <2>1, <2>2, <2>3, <2>4, <2>5, <2>6, <2>8 DEF PodStep, PodSteps
  <1> QED
    BY <1>1, <1>2 DEF PodInv

\* Of the processes' steps only an apply and a deletion touch a pod.
LEMMA ProcPods ==
  ASSUME TypeInv, NEW p \in Procs, ProcStep(p)
  PROVE  /\ faults' >= faults
         /\ pod' = pod \/ ApplyJob(p) \/ RollBackJob(p) \/ GiveUp(p)
  <1> USE DEF kubeVars
  <1>0. faults \in Nat
    BY TypeParts, PrefixAssumption DEF TypeInv
  <1>1. CASE Pure(p)
    BY <1>0, <1>1 DEF Pure, Budget, Fault, NoFault
  <1>2. CASE FrontStep(p)
    <2>1. Budget
      BY <1>2 DEF FrontStep, FrontStarts, StageFile, StagedVerified, ApplySupport, ApplyJob, ReadUid, PatchOwner,
         RollBackJob, RollBackSupport, PollSucceeds, Verdict, GiveUp, FrontDies, DeleteJob, Budget
    <2>2. pod' = pod \/ ApplyJob(p) \/ RollBackJob(p) \/ GiveUp(p)
      BY <1>2 DEF FrontStep, FrontStarts, StageFile, StagedVerified, ApplySupport, ReadUid, PatchOwner,
         RollBackSupport, PollSucceeds, Verdict, FrontDies
    <2> QED
      BY <1>0, <2>1, <2>2 DEF Budget, Fault, NoFault
  <1>3. CASE CleanStep(p) \/ ReportWrites(p)
    <2>1. Budget /\ pod' = pod
      BY <1>3 DEF CleanStep, CleanExpands, CleanDeletes, ReportWrites, Reports, Budget
    <2> QED
      BY <1>0, <2>1 DEF Budget, Fault, NoFault
  <1>4. CASE DownloadStep(p)
    BY <1>0, <1>4 DEF DownloadStep, DownloadChecksDone, SyncsJson, SyncsMarkdown, SetAside, Replace, RestoreOld,
         DiscardOld, Fault, NoFault
  <1> QED
    BY <1>1, <1>2, <1>3, <1>4 DEF ProcStep

\* No step of a process breaks what holds of the pods.
LEMMA ProcStepPodInv ==
  ASSUME TypeInv, NEW p \in Procs, ProcStep(p)
  PROVE  PodInv'
  <1>0. faults \in Nat /\ faults' \in Nat /\ faults' >= faults /\ pod \in [Uids -> PodType]
    <2>1. faults \in Nat /\ pod \in [Uids -> PodType]
      BY TypeParts, PrefixAssumption DEF TypeInv
    <2>2. faults' \in 0..MaxFaults
      BY PureTypes, FrontStepTypes, OtherStepTypes, DownloadStepTypes, TypePartsNext DEF TypeInv, ProcStep
    <2> QED
      BY <2>1, <2>2, ProcPods, PrefixAssumption
  <1> SUFFICES ASSUME NEW u \in Uids PROVE PodAt(u)'
    BY DEF PodInv
  <1>1. CASE pod'[u] = pod[u]
    BY <1>0, <1>1 DEF TypeInv, PodInv, PodAt
  <1>2. CASE pod'[u] = Gone
    BY <1>2, PrefixAssumption DEF Gone, NoPod, PodAt
  <1>3. CASE ApplyJob(p) /\ pod' # pod
    <2>1. PICK v \in Uids : pod' = [pod EXCEPT ![v].phase = "pending", ![v].up = "preflight"]
      BY <1>3 DEF ApplyJob
    <2>2. CASE u = v
      <3>1. pod'[u].phase = "pending" /\ pod'[u].up = "preflight" /\ pod'[u].marker = pod[u].marker
            /\ pod'[u].have = pod[u].have /\ pod'[u].ctl = pod[u].ctl
        BY <1>0, <2>1, <2>2 DEF PodType
      <3> QED
        BY <1>0, <3>1 DEF TypeInv, PodInv, PodAt
    <2> QED
      BY <1>0, <1>1, <2>1, <2>2
  <1>4. CASE RollBackJob(p) \/ GiveUp(p)
    BY <1>0, <1>1, <1>2, <1>4 DEF RollBackJob, GiveUp, DeleteJob
  <1> QED
    BY <1>1, <1>3, <1>4, ProcPods

\* Every starting state of the casts has its types.
LEMMA TypeInit == Init => TypeInv
  <1> SUFFICES ASSUME Init PROVE TypeInv
    OBVIOUS
  <1>1. PICK c \in Casts :
          /\ part = c.part /\ apart = c.apart /\ alike = c.alike /\ room = c.room
          /\ obj = [k \in Keys |-> CASE ~c.before -> 0 [] c.before /\ k \in Exporters -> Old
                                    [] c.before /\ k \in Artifacts \cup {"upload.done"} -> 1 [] OTHER -> 0]
          /\ job = IF c.before THEN [uid |-> 1, spec |-> JobSpec(0), state |-> "complete"] ELSE NoJob
          /\ support = [k \in SupportKinds |-> IF c.before THEN 1 ELSE Absent]
          /\ pod = [u \in Uids |-> IF c.before /\ u = 1 THEN Gone ELSE NoPod]
    BY DEF Init
  <1>2. c \in [part : [Procs -> Parts], apart : BOOLEAN, alike : BOOLEAN, room : BOOLEAN, before : BOOLEAN]
    BY PrefixAssumption
  <1>3. pc \in [Procs -> Labels] /\ faults \in 0..MaxFaults
    BY PrefixAssumption DEF Init, Labels
  <1>4. NoDir \in [Report -> 0..Old] /\ [k \in Report |-> Old] \in [Report -> 0..Old]
    BY Numbers DEF NoDir
  <1>5. LocalTypes /\ FrontTypes /\ HistoryTypes
    <2>1. out \in {NoDir, [k \in Report |-> Old]}
      BY DEF Init
    <2>2. out \in [Report -> 0..Old]
      BY <1>4, <2>1
    <2>3. LocalTypes
      BY <1>1, <1>2, <1>4, <2>2 DEF Init, LocalTypes
    <2>4. FrontTypes
      BY PrefixAssumption DEF Init, FrontTypes
    <2>5. HistoryTypes
      <3>1. had = (out # NoDir) /\ overlap = FALSE /\ swept = FALSE /\ slipped = FALSE
            /\ disturbed = [p \in Procs |-> FALSE]
        BY DEF Init
      <3>2. had \in BOOLEAN
        BY <3>1
      <3> QED
        BY <3>1, <3>2 DEF HistoryTypes
    <2> QED
      BY <2>3, <2>4, <2>5
  <1>6. obj \in [Keys -> 0..Old]
    <2>1. \A k \in Keys : obj[k] \in {0, 1, Old}
      BY <1>1, <1>2
    <2>2. 1 \in 0..Old
      BY Numbers
    <2> QED
      BY <1>1, <2>1, <2>2, Numbers
  <1>7. ObjTypes
    BY <1>6, Numbers DEF Init, ObjTypes
  <1>8. job \in JobType /\ support \in [SupportKinds -> Absent..MaxUid]
    <2>1. 1 \in 0..MaxUid /\ 1 \in Absent..MaxUid /\ Absent \in Absent..MaxUid /\ 0 \in 0..MaxUid
      BY PrefixAssumption DEF Absent
    <2>2. JobSpec(0) = 0
      BY DEF JobSpec
    <2> QED
      BY <1>1, <1>2, <2>1, <2>2 DEF NoJob, JobType
  <1>9. Gone \in PodType /\ NoPod \in PodType
    BY PrefixAssumption DEF NoPod, Gone, PodType
  <1>10. TypeOK
    BY <1>1, <1>3, <1>5, <1>7, <1>8, <1>9, TypeParts DEF KubeTypes
  <1>11. PodInv
    BY <1>1 DEF PodInv, PodAt, Gone, NoPod
  <1> QED
    BY <1>10, <1>11 DEF TypeInv

\* Every step keeps the types.
LEMMA TypeNext ==
  ASSUME TypeInv, [Next]_vars
  PROVE  TypeInv'
  <1>1. CASE Next
    <2>1. pc \in [Procs -> Labels] /\ faults \in Nat
      BY TypeParts, PrefixAssumption DEF TypeInv
    <2>2. ASSUME NEW p \in Procs, ProcStep(p) PROVE TypeInv'
      BY <2>2, ProcStepPodInv, PureTypes, FrontStepTypes, OtherStepTypes, DownloadStepTypes DEF TypeInv, ProcStep
    <2>3. ASSUME NEW u \in Uids, PodStep(u) PROVE TypeInv'
      BY <2>3, PodStepTypes, PodStepPodInv DEF TypeInv
    <2>4. CASE Collects
      BY <2>4, CollectsTypes DEF TypeInv, PodInv, PodAt
    <2> QED
      BY <1>1, <2>1, <2>2, <2>3, <2>4, StepKinds
  <1>2. CASE UNCHANGED vars
    BY <1>2 DEF TypeInv, TypeOK, PodInv, PodAt, vars, procVars, kubeVars, frontVars, localVars, history
  <1> QED
    BY <1>1, <1>2

\* The state always holds what S3, the cluster and the processes can hold: no pod's upload runs
\* past its rounds, and no object carries a writer that does not exist.
THEOREM TypesHold == RunSpec => []TypeOK
  <1>1. TypeInv => TypeOK
    BY DEF TypeInv
  <1> QED
    BY <1>1, TypeInit, TypeNext, PTL DEF RunSpec

-----------------------------------------------------------------------------
(***************************************************************************)
(* Who may be where.                                                       *)
(***************************************************************************)
\* A process's step leaves to the others what is theirs.
LEMMA ProcFrame ==
  ASSUME TypeInv, NEW p \in Procs, ProcStep(p)
  PROVE  /\ UNCHANGED procVars
         /\ \A q \in Procs : q # p =>
              /\ pc'[q] = pc[q] /\ got'[q] = got[q] /\ uid'[q] = uid[q] /\ seen'[q] = seen[q]
              /\ grace'[q] = grace[q] /\ aside'[q] = aside[q]
  <1> USE DEF frontVars, localVars
  <1>0. /\ pc \in [Procs -> Labels] /\ got \in [Procs -> [Keys -> 0..Old]] /\ uid \in [Procs -> 0..MaxUid]
        /\ seen \in [Procs -> BOOLEAN] /\ grace \in [Procs -> BOOLEAN] /\ aside \in [Procs -> [Report -> 0..Old]]
    BY DEF TypeInv, TypeOK
  <1>1. CASE Pure(p)
    BY <1>0, <1>1 DEF Pure, GoTo
  <1>2. CASE FrontStep(p)
    <2>1. CASE FrontStarts(p) \/ StageFile(p) \/ StagedVerified(p) \/ PollSucceeds(p) \/ FrontDies(p)
      BY <1>0, <2>1 DEF FrontStarts, StageFile, StagedVerified, PollSucceeds, FrontDies, GoTo
    <2>2. CASE ApplySupport(p) \/ (\E k \in SupportKinds : PatchOwner(p, k)) \/ RollBackSupport(p)
      BY <1>0, <2>2 DEF ApplySupport, PatchOwner, RollBackSupport, GoTo
    <2>3. CASE ApplyJob(p) \/ RollBackJob(p) \/ GiveUp(p)
      BY <1>0, <2>3 DEF ApplyJob, RollBackJob, GiveUp, DeleteJob, GoTo
    <2>4. CASE ReadUid(p) \/ Verdict(p)
      BY <1>0, <2>4 DEF ReadUid, Verdict, GoTo
    <2> QED
      BY <1>2, <2>1, <2>2, <2>3, <2>4 DEF FrontStep
  <1>3. CASE CleanStep(p)
    BY <1>0, <1>3 DEF CleanStep, CleanExpands, CleanDeletes, GoTo
  <1>4. CASE ReportWrites(p)
    BY <1>0, <1>4 DEF ReportWrites, Reports, GoTo
  <1>5. CASE DownloadStep(p)
    <2>1. CASE DownloadChecksDone(p) \/ SyncsJson(p) \/ SyncsMarkdown(p)
      BY <1>0, <2>1 DEF DownloadChecksDone, SyncsJson, SyncsMarkdown, GoTo
    <2>2. CASE SetAside(p) \/ Replace(p) \/ RestoreOld(p) \/ DiscardOld(p)
      BY <1>0, <2>2 DEF SetAside, Replace, RestoreOld, DiscardOld, GoTo
    <2> QED
      BY <1>5, <2>1, <2>2 DEF DownloadStep
  <1> QED
    BY <1>1, <1>2, <1>3, <1>4, <1>5 DEF ProcStep

FrontOnly == {"s3", "kube", "empty", "support", "job", "uid", "patch", "patch2", "undo", "undo2", "pollFailed",
              "pollDone", "probe", "giveUp"}
DownloadOnly == {"check2", "sync", "whole", "move", "replace", "restore", "discard"}
RoleAt(p) ==
    /\ pc[p] \in FrontOnly => part[p] \in {"full", "emulate"}
    /\ pc[p] \in {"stage", "verify"} => part[p] \in Fronts
    /\ pc[p] \in {"pollFailed", "pollDone", "probe", "giveUp"} => part[p] = "full"
    /\ pc[p] = "check" => part[p] \in {"resume", "download"}
    /\ pc[p] \in {"list", "delete"} => part[p] = "clean"
    /\ pc[p] \in {"clear2", "publish", "mark", "markFailed"} => part[p] = "report"
    /\ pc[p] \in DownloadOnly => part[p] = "download"
    /\ pc[p] # "clear"
\* Each label belongs to the parts that reach it.
RoleInv == \A p \in Procs : RoleAt(p)

\* Every process starts in its own part.
LEMMA RoleInit == Init => RoleInv
  BY DEF Init, RoleInv, RoleAt, FrontOnly, DownloadOnly

\* A process stays among the steps of its own part.
LEMMA RoleStep ==
  ASSUME TypeInv, RoleInv, NEW p \in Procs, ProcStep(p)
  PROVE  RoleInv'
  <1>0. /\ pc \in [Procs -> Labels] /\ UNCHANGED procVars /\ part[p] \in Parts /\ RoleAt(p)
        /\ \A q \in Procs : q # p => pc'[q] = pc[q]
    BY ProcFrame DEF TypeInv, TypeOK, RoleInv
  <1> USE <1>0 DEF procVars, Fronts
  <1>1. ASSUME NEW q \in Procs, q # p PROVE RoleAt(q)'
    BY <1>1 DEF RoleInv, RoleAt
  <1>g. \A label \in Labels : GoTo(p, label) => pc'[p] = label
    BY DEF GoTo
  <1>2. RoleAt(p)'
    <2>1. CASE Pure(p)
      BY <2>1 DEF RoleAt, Pure, Seen, FrontOnly, DownloadOnly
    <2>2. CASE FrontStarts(p) \/ StagedVerified(p) \/ FrontDies(p) \/ PollSucceeds(p)
      BY <1>g, <2>2 DEF RoleAt, FrontStarts, StagedVerified, FrontDies, PollSucceeds, At, Labels, FrontOnly, DownloadOnly
    <2>3. CASE StageFile(p)
      BY <2>3 DEF RoleAt, StageFile, At, FrontOnly, DownloadOnly
    <2>4. CASE ApplySupport(p) \/ ApplyJob(p) \/ ReadUid(p) \/ RollBackJob(p) \/ RollBackSupport(p)
      BY <1>g, <2>4 DEF RoleAt, ApplySupport, ApplyJob, ReadUid, RollBackJob, RollBackSupport, DeleteJob, At, Labels,
         FrontOnly, DownloadOnly
    <2>5. CASE \E k \in SupportKinds : PatchOwner(p, k)
      <3>1. PICK k \in SupportKinds : PatchOwner(p, k)
        BY <2>5
      <3>2. pc[p] \in {"patch", "patch2"} /\ pc'[p] \in {"patch2", "ok", "pollFailed", "undo"}
            /\ (pc'[p] = "pollFailed" => part[p] # "emulate")
        BY <1>g, <3>1 DEF PatchOwner, At, Labels
      <3> QED
        BY <3>2 DEF RoleAt, FrontOnly, DownloadOnly
    <2>6. CASE Verdict(p) \/ GiveUp(p)
      BY <1>g, <2>6 DEF RoleAt, Verdict, GiveUp, DeleteJob, At, Labels, FrontOnly, DownloadOnly
    <2>7. CASE CleanStep(p)
      BY <1>g, <2>7 DEF RoleAt, CleanStep, CleanExpands, CleanDeletes, At, Labels, FrontOnly, DownloadOnly
    <2>8. CASE ReportWrites(p)
      BY <1>g, <2>8 DEF RoleAt, ReportWrites, Reports, At, Labels, FrontOnly, DownloadOnly
    <2>9. CASE DownloadStep(p)
      BY <1>g, <2>9 DEF RoleAt, DownloadStep, DownloadChecksDone, SyncsJson, SyncsMarkdown, SetAside, Replace,
         RestoreOld, DiscardOld, At, Labels, FrontOnly, DownloadOnly
    <2> QED
      BY <2>1, <2>2, <2>3, <2>4, <2>5, <2>6, <2>7, <2>8, <2>9 DEF ProcStep, FrontStep
  <1> QED
    BY <1>1, <1>2 DEF RoleInv

-----------------------------------------------------------------------------
(***************************************************************************)
(* Support objects: until each has its owner, a front end is still there   *)
(* to give it one or to roll it back.                                      *)
(***************************************************************************)
Patching == {"job", "uid", "patch", "undo", "undo2"}
OwnerRead == \A p \in Procs :
    pc[p] \in {"patch", "patch2", "pollFailed", "pollDone", "probe", "giveUp"} => uid[p] # 0
OrphanInv ==
    /\ OwnerRead
    /\ ~slipped /\ support["configmap"] = 0 => \E p \in Procs : pc[p] \in Patching
    /\ ~slipped /\ support["role"] = 0 => \E p \in Procs : pc[p] \in Patching \cup {"patch2"}

\* What a process's step does to the support objects and to the label of the process.
OrphanMove(p) ==
    \/ UNCHANGED support /\ pc[p] \notin Patching \cup {"patch2"}
    \/ pc'[p] \in Patching \ {"patch"}
    \/ slipped'
    \/ UNCHANGED support /\ pc[p] = "uid" /\ pc'[p] = "patch"
    \/ pc[p] = "patch" /\ pc'[p] = "patch2" /\ support' = [support EXCEPT !["configmap"] = uid[p]]
    \/ pc[p] = "patch2" /\ support' = [support EXCEPT !["role"] = uid[p]]
    \/ support' = [k \in SupportKinds |-> Absent]

\* What each step of a process does to the support objects and to its own label.
LEMMA OrphanMoves ==
  ASSUME TypeInv, RoleInv, NEW p \in Procs, ProcStep(p)
  PROVE  OrphanMove(p) /\ (slipped => slipped')
  <1>0. /\ pc \in [Procs -> Labels] /\ UNCHANGED procVars /\ RoleAt(p) /\ slipped \in BOOLEAN
    BY ProcFrame DEF TypeInv, TypeOK, RoleInv
  <1>g. \A label \in Labels : GoTo(p, label) => pc'[p] = label
    BY <1>0 DEF GoTo
  <1> USE DEF kubeVars, history
  <1>1. CASE Pure(p)
    <2>1. UNCHANGED <<support, slipped>> /\ pc[p] \notin Patching \cup {"patch2"}
      BY <1>0, <1>1 DEF Pure, Seen, Patching, RoleAt, FrontOnly
    <2> QED
      BY <2>1 DEF OrphanMove
  <1>2. CASE FrontStarts(p) \/ StagedVerified(p) \/ PollSucceeds(p) \/ StageFile(p) \/ Verdict(p)
    <2>1. UNCHANGED <<support, slipped>> /\ pc[p] \notin Patching \cup {"patch2"}
      BY <1>2 DEF FrontStarts, StagedVerified, PollSucceeds, StageFile, Verdict, At, Patching
    <2> QED
      BY <2>1 DEF OrphanMove
  <1>3. CASE ApplySupport(p) \/ ApplyJob(p) \/ ReadUid(p)
    <2>1. UNCHANGED slipped
      BY <1>3 DEF ApplySupport, ApplyJob, ReadUid
    <2>2. pc'[p] \in Patching \ {"patch"} \/ (UNCHANGED support /\ pc[p] = "uid" /\ pc'[p] = "patch")
      BY <1>3, <1>g DEF ApplySupport, ApplyJob, ReadUid, At, Patching, Labels
    <2> QED
      BY <2>1, <2>2 DEF OrphanMove
  <1>4. CASE \E k \in SupportKinds : PatchOwner(p, k)
    <2>1. PICK k \in SupportKinds : PatchOwner(p, k)
      BY <1>4
    <2>2. UNCHANGED slipped
      BY <2>1 DEF PatchOwner
    <2>3. CASE GoTo(p, "undo")
      BY <1>g, <2>2, <2>3 DEF OrphanMove, Patching, Labels
    <2>4. CASE /\ support' = [support EXCEPT ![k] = uid[p]]
               /\ GoTo(p, CASE k = "configmap" -> "patch2" [] k # "configmap" /\ part[p] = "emulate" -> "ok"
                            [] OTHER -> "pollFailed")
      <3>1. CASE k = "configmap"
        <4>1. pc[p] = "patch" /\ GoTo(p, "patch2")
          BY <2>1, <2>4, <3>1 DEF PatchOwner, At
        <4> QED
          BY <1>g, <2>2, <2>4, <3>1, <4>1 DEF OrphanMove, Labels
      <3>2. CASE k = "role"
        <4>1. pc[p] = "patch2"
          BY <2>1, <3>2 DEF PatchOwner, At
        <4> QED
          BY <2>2, <2>4, <3>2, <4>1 DEF OrphanMove
      <3> QED
        BY <3>1, <3>2 DEF SupportKinds
    <2> QED
      BY <2>1, <2>3, <2>4 DEF PatchOwner
  <1>5. CASE RollBackJob(p) \/ GiveUp(p) \/ RollBackSupport(p) \/ FrontDies(p)
    <2>1. CASE RollBackJob(p)
      BY <1>0, <1>g, <2>1 DEF OrphanMove, RollBackJob, DeleteJob, Patching, Labels
    <2>2. CASE GiveUp(p)
      BY <1>0, <2>2 DEF OrphanMove, GiveUp, DeleteJob, At, Patching
    <2>3. CASE RollBackSupport(p) \/ FrontDies(p)
      BY <1>0, <2>3 DEF OrphanMove, RollBackSupport, FrontDies
    <2> QED
      BY <1>5, <2>1, <2>2, <2>3
  <1>6. CASE CleanStep(p) \/ ReportWrites(p)
    <2>1. UNCHANGED <<support, slipped>> /\ pc[p] \notin Patching \cup {"patch2"}
      BY <1>6 DEF CleanStep, CleanExpands, CleanDeletes, ReportWrites, Reports, At, Patching
    <2> QED
      BY <2>1 DEF OrphanMove
  <1>7. CASE DownloadStep(p)
    <2>1. UNCHANGED <<support, slipped>> /\ pc[p] \notin Patching \cup {"patch2"}
      BY <1>7 DEF DownloadStep, DownloadChecksDone, SyncsJson, SyncsMarkdown, SetAside, Replace, RestoreOld,
         DiscardOld, At, Patching
    <2> QED
      BY <2>1 DEF OrphanMove
  <1> QED
    BY <1>1, <1>2, <1>3, <1>4, <1>5, <1>6, <1>7 DEF ProcStep, FrontStep

\* A process past the read of the uid has read one.
LEMMA OwnerReadStep ==
  ASSUME TypeInv, RoleInv, OwnerRead, NEW p \in Procs, ProcStep(p)
  PROVE  OwnerRead'
  <1>0. /\ pc \in [Procs -> Labels] /\ uid \in [Procs -> 0..MaxUid] /\ RoleAt(p)
        /\ \A q \in Procs : q # p => pc'[q] = pc[q] /\ uid'[q] = uid[q]
    BY ProcFrame DEF TypeInv, TypeOK, RoleInv
  <1>g. \A label \in Labels : GoTo(p, label) => pc'[p] = label
    BY <1>0 DEF GoTo
  <1> DEFINE Later == {"patch", "patch2", "pollFailed", "pollDone", "probe", "giveUp"}
  <1> SUFFICES pc'[p] \in Later => uid'[p] # 0
    BY <1>0 DEF OwnerRead
  <1>1. CASE uid' = uid /\ (pc[p] \in Later \/ pc'[p] \notin Later)
    BY <1>1 DEF OwnerRead
  <1>2. CASE Pure(p)
    BY <1>0, <1>1, <1>2 DEF Pure, Seen, frontVars
  <1>3. CASE FrontStarts(p) \/ StagedVerified(p) \/ StageFile(p) \/ Verdict(p) \/ PollSucceeds(p)
    BY <1>1, <1>3, <1>g DEF FrontStarts, StagedVerified, StageFile, Verdict, PollSucceeds, frontVars, At, Labels
  <1>4. CASE ApplySupport(p) \/ ApplyJob(p) \/ RollBackSupport(p) \/ FrontDies(p)
    BY <1>1, <1>4, <1>g DEF ApplySupport, ApplyJob, RollBackSupport, FrontDies, frontVars, At, Labels
  <1>5. CASE RollBackJob(p) \/ GiveUp(p)
    BY <1>1, <1>5, <1>g DEF RollBackJob, GiveUp, DeleteJob, frontVars, At, Labels
  <1>6. CASE ReadUid(p)
    BY <1>0, <1>1, <1>6, <1>g DEF ReadUid, At, Labels
  <1>7. CASE \E k \in SupportKinds : PatchOwner(p, k)
    BY <1>1, <1>7 DEF PatchOwner, frontVars, At
  <1>8. CASE CleanStep(p) \/ ReportWrites(p)
    BY <1>1, <1>8, <1>g DEF CleanStep, CleanExpands, CleanDeletes, ReportWrites, Reports, frontVars, At, Labels
  <1>9. CASE DownloadStep(p)
    BY <1>1, <1>9, <1>g DEF DownloadStep, DownloadChecksDone, SyncsJson, SyncsMarkdown, SetAside, Replace, RestoreOld,
       DiscardOld, frontVars, At, Labels
  <1> QED
    BY <1>2, <1>3, <1>4, <1>5, <1>6, <1>7, <1>8, <1>9 DEF ProcStep, FrontStep

\* Every step of a process keeps what is known of the support objects.
LEMMA OrphanStep ==
  ASSUME TypeInv, RoleInv, OrphanInv, NEW p \in Procs, ProcStep(p)
  PROVE  OrphanInv'
  <1>0. /\ pc \in [Procs -> Labels] /\ pc' \in [Procs -> Labels] /\ support \in [SupportKinds -> Absent..MaxUid]
        /\ uid[p] \in 0..MaxUid /\ slipped \in BOOLEAN /\ (slipped => slipped') /\ OrphanMove(p)
        /\ \A q \in Procs : q # p => pc'[q] = pc[q]
    <2>1. TypeOK'
      BY PureTypes, FrontStepTypes, OtherStepTypes, DownloadStepTypes DEF TypeInv, ProcStep
    <2> QED
      BY <2>1, ProcFrame, OrphanMoves DEF TypeInv, TypeOK
  <1>1. OwnerRead'
    BY OwnerReadStep DEF OrphanInv
  <1>2. pc[p] \in {"patch", "patch2"} => uid[p] # 0
    BY DEF OrphanInv, OwnerRead
  <1>3. ASSUME ~slipped', support'["configmap"] = 0
        PROVE  \E q \in Procs : pc'[q] \in Patching
    <2>1. CASE pc'[p] \in Patching
      BY <2>1
    <2>2. CASE support["configmap"] = 0 /\ pc[p] \notin Patching
      BY <1>0, <1>3, <2>2 DEF OrphanInv
    <2> QED
      BY <1>0, <1>2, <1>3, <2>1, <2>2 DEF OrphanMove, Patching, SupportKinds, Absent
  <1>4. ASSUME ~slipped', support'["role"] = 0
        PROVE  \E q \in Procs : pc'[q] \in Patching \cup {"patch2"}
    <2>1. CASE pc'[p] \in Patching \cup {"patch2"}
      BY <2>1
    <2>2. CASE support["role"] = 0 /\ pc[p] \notin Patching \cup {"patch2"}
      BY <1>0, <1>4, <2>2 DEF OrphanInv
    <2> QED
      BY <1>0, <1>2, <1>4, <2>1, <2>2 DEF OrphanMove, Patching, SupportKinds, Absent
  <1> QED
    BY <1>1, <1>3, <1>4 DEF OrphanInv

\* The support objects of the start are absent.
LEMMA OrphanInit == Init => OrphanInv
  BY DEF Init, OrphanInv, OwnerRead, SupportKinds, Absent

\* The types and the labels are part of every induction below.
BaseInv == TypeInv /\ RoleInv

\* The types and roles hold at the start.
LEMMA BaseInit == Init => BaseInv
  BY TypeInit, RoleInit DEF BaseInv

\* The types and roles are kept by every step.
LEMMA BaseNext ==
  ASSUME BaseInv, [Next]_vars
  PROVE  BaseInv'
  <1>1. TypeInv'
    BY TypeNext DEF BaseInv
  <1>2. RoleInv'
    <2>1. CASE UNCHANGED <<pc, part>>
      BY <2>1 DEF BaseInv, RoleInv, RoleAt
    <2>2. ASSUME NEW u \in Uids, PodStep(u) PROVE UNCHANGED <<pc, part>>
      BY <2>2, PodFrame DEF BaseInv, Kube, procVars
    <2>3. Collects => UNCHANGED <<pc, part>>
      BY DEF Collects, JobCollected, SupportCollected, Kube, procVars
    <2>4. UNCHANGED vars => UNCHANGED <<pc, part>>
      BY DEF vars
    <2>5. pc \in [Procs -> Labels] /\ faults \in Nat
      BY TypeParts, PrefixAssumption DEF BaseInv, TypeInv
    <2> QED
      BY <2>1, <2>2, <2>3, <2>4, <2>5, StepKinds, RoleStep DEF BaseInv
  <1> QED
    BY <1>1, <1>2 DEF BaseInv

\* The steps of the others, seen from S3 and from the processes.
LEMMA Steps ==
  ASSUME BaseInv, [Next]_vars
  PROVE  \/ \E p \in Procs : ProcStep(p)
         \/ \E u \in Uids : PodStep(u)
         \/ Collects
         \/ UNCHANGED vars
  <1>1. pc \in [Procs -> Labels] /\ faults \in Nat
    BY TypeParts, PrefixAssumption DEF BaseInv, TypeInv
  <1> QED
    BY <1>1, StepKinds

\* Every step keeps what is known of the support objects.
LEMMA OrphanNext ==
  ASSUME BaseInv, OrphanInv, [Next]_vars
  PROVE  OrphanInv'
  <1>1. ASSUME NEW p \in Procs, ProcStep(p) PROVE OrphanInv'
    BY <1>1, OrphanStep DEF BaseInv
  <1>2. ASSUME NEW u \in Uids, PodStep(u) PROVE OrphanInv'
    BY <1>2, PodFrame DEF BaseInv, Kube, procVars, frontVars, history, OrphanInv, OwnerRead
  <1>3. CASE Collects
    <2>1. /\ UNCHANGED <<pc, uid, slipped>> /\ support \in [SupportKinds -> Absent..MaxUid]
          /\ support' = support \/ \E k \in SupportKinds : support' = [support EXCEPT ![k] = Absent]
      BY <1>3 DEF BaseInv, TypeInv, TypeOK, Collects, JobCollected, SupportCollected, Kube, frontVars, history
    <2> QED
      BY <2>1 DEF OrphanInv, OwnerRead, SupportKinds, Absent
  <1>4. CASE UNCHANGED vars
    BY <1>4 DEF vars, frontVars, kubeVars, OrphanInv, OwnerRead
  <1> QED
    BY <1>1, <1>2, <1>3, <1>4, Steps

\* Once every front end has ended, no support object is without an owner, unless a front end was
\* killed or a deletion failed: whatever apply_s3_emulation_resources left was rolled back.
THEOREM NothingIsOrphaned == RunSpec => []NoOrphans
  <1>1. BaseInv /\ OrphanInv => NoOrphans
    <2> SUFFICES ASSUME BaseInv, OrphanInv, ~slipped, \A p \in Procs : part[p] \in Fronts => pc[p] \in Ended,
                        NEW k \in SupportKinds
                 PROVE  support[k] # 0
      BY DEF NoOrphans
    <2>1. \A p \in Procs : pc[p] \notin Patching \cup {"patch2"}
      BY DEF BaseInv, RoleInv, RoleAt, FrontOnly, Fronts, Ended, Patching
    <2> QED
      BY <2>1 DEF OrphanInv, SupportKinds
  <1>2. Init => BaseInv /\ OrphanInv
    BY BaseInit, OrphanInit
  <1>3. BaseInv /\ OrphanInv /\ [Next]_vars => (BaseInv /\ OrphanInv)'
    BY BaseNext, OrphanNext
  <1> QED
    BY <1>1, <1>2, <1>3, PTL DEF RunSpec

-----------------------------------------------------------------------------
(***************************************************************************)
(* A report once downloaded is kept: in the output directory or in a       *)
(* directory set aside that no one is about to discard.                    *)
(***************************************************************************)
Whole(dir) == dir = NoDir \/ dir["json"] # 0
WholeDirs == Whole(out) /\ \A p \in Procs : Whole(aside[p])
Kept == out["json"] # 0 \/ \E p \in Procs : aside[p]["json"] # 0 /\ pc[p] # "discard"
KeepInv ==
    /\ WholeDirs
    /\ \A p \in Procs : pc[p] \in {"move", "replace"} => got[p]["json"] # 0
    /\ had => Kept

\* The report directory of the start is whole.
LEMMA KeepInit == Init => KeepInv
  <1> SUFFICES ASSUME Init PROVE KeepInv
    OBVIOUS
  <1>1. out \in {NoDir, [k \in Report |-> Old]} /\ had = (out # NoDir) /\ aside = [p \in Procs |-> NoDir]
    BY DEF Init
  <1>2. \A p \in Procs : pc[p] \in {"ok", "start"}
    BY DEF Init
  <1>3. WholeDirs /\ (out # NoDir => out["json"] # 0)
    BY <1>1, Numbers DEF WholeDirs, Whole, Report
  <1> QED
    BY <1>1, <1>2, <1>3 DEF KeepInv, Kept

\* What the steps that do not touch a directory leave.
LEMMA KeepFrame ==
  ASSUME KeepInv, NEW p \in Procs, TypeInv,
         UNCHANGED <<localVars, had>>, pc'[p] \notin {"move", "replace", "discard"},
         \A q \in Procs : q # p => pc'[q] = pc[q] /\ got'[q] = got[q]
  PROVE  KeepInv'
  <1>1. WholeDirs' /\ (\A q \in Procs : pc'[q] \in {"move", "replace"} => got'[q]["json"] # 0)
    BY DEF localVars, KeepInv, WholeDirs, Whole
  <1>2. Kept => Kept'
    BY DEF localVars, Kept
  <1> QED
    BY <1>1, <1>2 DEF KeepInv

\* A step of a process keeps the directories whole and the last report kept.
LEMMA KeepStep ==
  ASSUME BaseInv, KeepInv, NEW p \in Procs, ProcStep(p)
  PROVE  KeepInv'
  <1>0. /\ pc \in [Procs -> Labels] /\ got \in [Procs -> [Keys -> 0..Old]] /\ TypeInv /\ RoleAt(p)
        /\ out \in [Report -> 0..Old] /\ aside \in [Procs -> [Report -> 0..Old]]
        /\ \A q \in Procs : q # p => pc'[q] = pc[q] /\ got'[q] = got[q] /\ aside'[q] = aside[q]
    BY ProcFrame DEF BaseInv, RoleInv, TypeInv, TypeOK
  <1>g. \A label \in Labels : GoTo(p, label) => pc'[p] = label
    BY <1>0 DEF GoTo
  <1>h. NoDir["json"] = 0 /\ Staged(p)["json"] = got[p]["json"] /\ "json" \in Report
    BY DEF NoDir, Report, Staged
  <1> USE DEF history
  <1>1. CASE Pure(p)
    BY <1>0, <1>1, KeepFrame DEF Pure, Seen
  <1>2. CASE FrontStep(p)
    <2>1. UNCHANGED <<localVars, had>>
      BY <1>2 DEF FrontStep, FrontStarts, StageFile, StagedVerified, ApplySupport, ApplyJob, ReadUid, PatchOwner,
         RollBackJob, RollBackSupport, PollSucceeds, Verdict, GiveUp, FrontDies, DeleteJob
    <2>2. pc'[p] \notin {"move", "replace", "discard"}
      <3>1. CASE \E label \in Labels \ {"move", "replace", "discard"} : GoTo(p, label)
        BY <1>g, <3>1
      <3>2. CASE StageFile(p)
        BY <3>2 DEF StageFile, At
      <3> QED
        BY <1>2, <3>1, <3>2 DEF FrontStep, FrontStarts, StagedVerified, ApplySupport, ApplyJob, ReadUid,
           PatchOwner, RollBackJob, RollBackSupport, PollSucceeds, Verdict, GiveUp, FrontDies, DeleteJob, Labels
    <2> QED
      BY <1>0, <2>1, <2>2, KeepFrame
  <1>3. CASE CleanStep(p) \/ ReportWrites(p)
    <2>1. UNCHANGED <<localVars, had>>
      BY <1>3 DEF CleanStep, CleanExpands, CleanDeletes, ReportWrites, Reports
    <2>2. pc'[p] \notin {"move", "replace", "discard"}
      BY <1>0, <1>3, <1>g DEF CleanStep, CleanExpands, CleanDeletes, ReportWrites, Reports, At, Labels
    <2> QED
      BY <1>0, <2>1, <2>2, KeepFrame
  <1>4. CASE DownloadChecksDone(p) \/ SyncsJson(p)
    <2>1. UNCHANGED <<localVars, had>>
      BY <1>4 DEF DownloadChecksDone, SyncsJson
    <2>2. pc'[p] \notin {"move", "replace", "discard"}
      BY <1>4, <1>g DEF DownloadChecksDone, SyncsJson, Labels
    <2> QED
      BY <1>0, <2>1, <2>2, KeepFrame
  <1>5. CASE SyncsMarkdown(p)
    <2>1. UNCHANGED <<localVars, had>> /\ got'[p]["json"] = got[p]["json"] /\ "json" \in Keys
      BY <1>0, <1>5 DEF SyncsMarkdown, Keys, Report
    <2>2. pc'[p] = IF got[p]["json"] = 0 THEN "failed" ELSE "move"
      BY <1>5, <1>g DEF SyncsMarkdown, Labels
    <2>3. Kept => Kept'
      BY <1>0, <2>1, <2>2 DEF localVars, Kept
    <2> QED
      BY <1>0, <2>1, <2>2, <2>3 DEF localVars, KeepInv, WholeDirs, Whole
  <1>6. CASE SetAside(p)
    <2>1. pc[p] = "move" /\ UNCHANGED <<got, had>> /\ pc'[p] \in {"replace", "failed"} /\ got[p]["json"] # 0
      BY <1>6, <1>g DEF SetAside, At, Labels, KeepInv
    <2>2. CASE out # NoDir /\ aside' = [aside EXCEPT ![p] = out] /\ out' = NoDir
      <3>1. aside'[p] = out /\ out["json"] # 0
        BY <1>0, <2>2 DEF KeepInv, WholeDirs, Whole
      <3>2. WholeDirs' /\ Kept'
        BY <1>0, <2>1, <2>2, <3>1 DEF KeepInv, WholeDirs, Whole, Kept
      <3> QED
        BY <1>0, <2>1, <3>2 DEF KeepInv
    <2>3. CASE UNCHANGED localVars
      <3>1. Kept => Kept'
        BY <1>0, <2>1, <2>3 DEF localVars, Kept
      <3> QED
        BY <1>0, <2>1, <2>3, <3>1 DEF localVars, KeepInv, WholeDirs, Whole
    <2> QED
      BY <1>6, <2>2, <2>3 DEF SetAside
  <1>7. CASE Replace(p)
    <2>1. pc[p] = "replace" /\ UNCHANGED <<got, aside>> /\ got[p]["json"] # 0
      BY <1>7 DEF Replace, At, KeepInv, localVars
    <2>2. pc'[p] \in {"ok", "failed", "restore", "discard"}
      BY <1>7, <1>g DEF Replace, Labels
    <2>3. CASE out' = Staged(p)
      <3>1. out'["json"] # 0
        BY <1>h, <2>1, <2>3
      <3>2. WholeDirs' /\ Kept'
        BY <2>1, <3>1 DEF KeepInv, WholeDirs, Whole, Kept
      <3> QED
        BY <1>0, <2>1, <2>2, <3>2 DEF KeepInv
    <2>4. CASE UNCHANGED <<localVars, had>> /\ GoTo(p, IF aside[p] = NoDir THEN "failed" ELSE "restore")
      <3>1. pc'[p] # "discard"
        BY <1>g, <2>4 DEF Labels
      <3> QED
        BY <1>0, <2>2, <2>4, <3>1, KeepFrame
    <2> QED
      BY <1>7, <2>3, <2>4 DEF Replace
  <1>8. CASE RestoreOld(p)
    <2>1. UNCHANGED <<got, had>> /\ pc'[p] = "failed"
      BY <1>8, <1>g DEF RestoreOld, Labels
    <2>2. CASE UNCHANGED localVars
      BY <1>0, <2>1, <2>2, KeepFrame
    <2>3. CASE out = NoDir /\ out' = aside[p] /\ aside' = [aside EXCEPT ![p] = NoDir]
      <3>1. aside'[p] = NoDir /\ out["json"] = 0
        BY <1>0, <1>h, <2>3 DEF TypeInv
      <3>2. WholeDirs'
        BY <1>0, <2>3, <3>1 DEF KeepInv, WholeDirs, Whole
      <3>3. Kept => Kept'
        BY <1>0, <2>3, <3>1 DEF Kept
      <3> QED
        BY <1>0, <2>1, <3>2, <3>3 DEF KeepInv
    <2> QED
      BY <1>8, <2>2, <2>3 DEF RestoreOld
  <1>9. CASE DiscardOld(p)
    <2>1. UNCHANGED <<got, had, out>> /\ pc'[p] \in {"ok", "failed"} /\ pc[p] = "discard"
      BY <1>9, <1>g DEF DiscardOld, At, Labels
    <2>2. aside'[p] = aside[p] \/ aside'[p] = NoDir
      BY <1>0, <1>9 DEF DiscardOld
    <2>3. WholeDirs'
      BY <1>0, <2>1, <2>2 DEF KeepInv, WholeDirs, Whole
    <2>4. Kept => Kept'
      BY <1>0, <2>1 DEF Kept
    <2> QED
      BY <1>0, <2>1, <2>3, <2>4 DEF KeepInv
  <1> QED
    BY <1>1, <1>2, <1>3, <1>4, <1>5, <1>6, <1>7, <1>8, <1>9 DEF ProcStep, DownloadStep

\* Every step keeps it.
LEMMA KeepNext ==
  ASSUME BaseInv, KeepInv, [Next]_vars
  PROVE  KeepInv'
  <1>1. UNCHANGED <<pc, got, localVars, had>> => KeepInv'
    BY DEF localVars, KeepInv, WholeDirs, Whole, Kept
  <1>2. ASSUME NEW u \in Uids, PodStep(u) PROVE UNCHANGED <<pc, got, localVars, had>>
    BY <1>2, PodFrame DEF BaseInv, Kube, history
  <1>3. Collects => UNCHANGED <<pc, got, localVars, had>>
    BY DEF Collects, JobCollected, SupportCollected, Kube, history
  <1>4. UNCHANGED vars => UNCHANGED <<pc, got, localVars, had>>
    BY DEF vars, localVars
  <1> QED
    BY <1>1, <1>2, <1>3, <1>4, Steps, KeepStep

\* What is kept implies that a report is never lost.
LEMMA KeepImplies == KeepInv => ReportNeverLost
  BY DEF KeepInv, Kept, ReportNeverLost

-----------------------------------------------------------------------------
(***************************************************************************)
(* Deleting: while clean-s3 met no one, no one else writes the prefix, and *)
(* whatever is there it has listed.                                        *)
(***************************************************************************)
SweepAt(q) ==
    pc[q] = "delete" /\ ~swept =>
        /\ \A p \in Procs \ {q} : Working(p) => part[p] = "download" \/ pc[p] = "list"
        /\ \A u \in Uids : ~Alive(u)
        /\ \A k \in Keys : obj[k] # 0 => got[q][k] # 0
SweepInv == \A q \in Procs : SweepAt(q)

\* Nobody is at work at the start.
LEMMA SweepInit == Init => SweepInv
  BY DEF Init, SweepInv, SweepAt

\* A process that steps beside a deletion is at work, and not met by it; or it starts, and meets
\* it; or it only looks, or downloads.
LEMMA SweepMoves ==
  ASSUME BaseInv, NEW p \in Procs, ProcStep(p), NEW q \in Procs, p # q, pc[q] = "delete"
  PROVE  \/ Working(p) /\ part[p] # "download" /\ pc[p] # "list"
         \/ swept'
         \/ UNCHANGED <<obj, pod>> /\ (part[p] = "download" \/ pc'[p] \in Ended \cup {"list"})
  <1>0. pc \in [Procs -> Labels] /\ RoleAt(p) /\ RoleAt(q) /\ part[q] = "clean" /\ Working(q)
    BY DEF BaseInv, RoleInv, RoleAt, TypeInv, TypeOK, Working, Ended
  <1>g. \A label \in Labels : GoTo(p, label) => pc'[p] = label
    BY <1>0 DEF GoTo
  <1>1. CASE Pure(p)
    BY <1>0, <1>1 DEF Pure, Seen, RoleAt, FrontOnly, DownloadOnly, Working, Ended, kubeVars
  <1>2. CASE FrontStep(p)
    <2>1. CASE FrontStarts(p)
      <3>1. CASE LockHeld(p)
        BY <1>g, <2>1, <3>1 DEF FrontStarts, kubeVars, Labels, Ended
      <3>2. CASE ~LockHeld(p)
        BY <1>0, <2>1, <3>2 DEF FrontStarts, Sweeping
      <3> QED
        BY <3>1, <3>2
    <2>2. CASE FrontDies(p) \/ (\E k \in SupportKinds : PatchOwner(p, k))
      BY <1>0, <2>2 DEF FrontDies, PatchOwner, RoleAt, FrontOnly, Working, Fronts, Ended, At
    <2>3. CASE StageFile(p) \/ StagedVerified(p)
      BY <1>0, <2>3 DEF StageFile, StagedVerified, RoleAt, FrontOnly, Working, Fronts, Ended, At
    <2>4. CASE ApplySupport(p) \/ ApplyJob(p) \/ ReadUid(p) \/ RollBackJob(p) \/ RollBackSupport(p)
               \/ PollSucceeds(p) \/ Verdict(p) \/ GiveUp(p)
      BY <1>0, <2>4 DEF ApplySupport, ApplyJob, ReadUid, RollBackJob, RollBackSupport, PollSucceeds, Verdict,
         GiveUp, RoleAt, FrontOnly, Working, Ended, At
    <2> QED
      BY <1>2, <2>1, <2>2, <2>3, <2>4 DEF FrontStep
  <1>3. CASE CleanStep(p)
    BY <1>0, <1>3 DEF CleanStep, CleanExpands, CleanDeletes
  <1>4. CASE ReportWrites(p)
    BY <1>0, <1>4 DEF ReportWrites, Reports, Sweeping
  <1>5. CASE DownloadStep(p)
    <2>1. part[p] = "download"
      BY <1>0, <1>5 DEF DownloadStep, DownloadChecksDone, SyncsJson, SyncsMarkdown, SetAside, Replace, RestoreOld,
         DiscardOld, At, RoleAt, DownloadOnly
    <2>2. UNCHANGED <<obj, pod>>
      BY <1>5 DEF DownloadStep, DownloadChecksDone, SyncsJson, SyncsMarkdown, SetAside, Replace, RestoreOld,
         DiscardOld, kubeVars
    <2> QED
      BY <2>1, <2>2
  <1> QED
    BY <1>1, <1>2, <1>3, <1>4, <1>5 DEF ProcStep

\* A process comes to delete, or goes on, only where it finds no one at work.
LEMMA SweepOwn ==
  ASSUME BaseInv, NEW p \in Procs, SweepAt(p), ProcStep(p), pc'[p] = "delete", ~swept'
  PROVE  /\ \A q \in Procs \ {p} : ~Working(q)
         /\ \A u \in Uids : ~Alive(u)
         /\ UNCHANGED pod
         /\ \A k \in Keys : obj'[k] # 0 => got'[p][k] # 0
  <1>0. /\ pc \in [Procs -> Labels] /\ got \in [Procs -> [Keys -> 0..Old]] /\ RoleAt(p)
        /\ obj \in [Keys -> 0..Old]
    BY DEF BaseInv, RoleInv, TypeInv, TypeOK
  <1>g. \A label \in Labels : GoTo(p, label) => pc'[p] = label
    BY <1>0 DEF GoTo
  <1>1. ~Pure(p)
    BY DEF Pure, Seen
  <1>2. ~FrontStep(p)
    <2>1. \A label \in Labels \ {"delete"} : ~GoTo(p, label)
      BY <1>g
    <2>2. ~StageFile(p)
      BY DEF StageFile, At
    <2> QED
      BY <2>1, <2>2 DEF FrontStep, FrontStarts, StagedVerified, ApplySupport, ApplyJob, ReadUid,
         PatchOwner, RollBackJob, RollBackSupport, PollSucceeds, Verdict, GiveUp, FrontDies, DeleteJob, Labels
  <1>3. ~ReportWrites(p) /\ ~DownloadStep(p)
    BY <1>g DEF ReportWrites, Reports, DownloadStep, DownloadChecksDone, SyncsJson, SyncsMarkdown, SetAside, Replace,
       RestoreOld, DiscardOld, Labels
  <1>4. CleanStep(p)
    BY <1>1, <1>2, <1>3 DEF ProcStep
  <1>5. ~swept /\ (\A q \in Procs \ {p} : ~Working(q)) /\ (\A u \in Uids : ~Alive(u)) /\ UNCHANGED pod
    <2>1. swept' = (swept \/ (\E q \in Procs \ {p} : Working(q)) \/ \E u \in Uids : Alive(u))
      BY <1>4 DEF CleanStep, CleanExpands, CleanDeletes
    <2>2. UNCHANGED pod
      BY <1>4 DEF CleanStep, CleanExpands, CleanDeletes, kubeVars
    <2> QED
      BY <2>1, <2>2
  <1>6. \A k \in Keys : obj'[k] # 0 => got'[p][k] # 0
    <2>1. CASE CleanExpands(p)
      BY <1>0, <2>1 DEF CleanExpands
    <2>2. CASE CleanDeletes(p)
      <3>1. pc[p] = "delete"
        BY <2>2 DEF CleanDeletes, At
      <3>2. \A k \in Keys : obj[k] # 0 => got[p][k] # 0
        BY <1>5, <3>1 DEF SweepAt
      <3>3. CASE UNCHANGED <<obj, got>>
        BY <3>2, <3>3
      <3>4. ASSUME NEW found,
                   got' = [got EXCEPT ![p] = [k \in Keys |-> IF k \in found THEN 0 ELSE @[k]]],
                   obj' = [k \in Keys |-> IF k \in found THEN 0 ELSE obj[k]]
            PROVE  \A k \in Keys : obj'[k] # 0 => got'[p][k] # 0
        BY <1>0, <3>2, <3>4
      <3> QED
        BY <2>2, <3>3, <3>4 DEF CleanDeletes
    <2> QED
      BY <1>4, <2>1, <2>2 DEF CleanStep
  <1> QED
    BY <1>5, <1>6

\* What was once swept stays recorded.
LEMMA SweptStays ==
  ASSUME BaseInv, [Next]_vars, swept
  PROVE  swept'
  <1>1. ASSUME NEW p \in Procs, ProcStep(p) PROVE swept'
    <2>1. Pure(p) => swept'
      BY DEF Pure, history
    <2>2. FrontStep(p) => swept'
      BY DEF history, FrontStep, FrontStarts, StageFile, StagedVerified, ApplySupport, ApplyJob, ReadUid, PatchOwner,
         RollBackJob, RollBackSupport, PollSucceeds, Verdict, GiveUp, FrontDies, DeleteJob
    <2>3. CleanStep(p) \/ ReportWrites(p) => swept'
      BY DEF CleanStep, CleanExpands, CleanDeletes, ReportWrites, Reports
    <2>4. DownloadStep(p) => swept'
      BY DEF history, DownloadStep, DownloadChecksDone, SyncsJson, SyncsMarkdown, SetAside, Replace, RestoreOld, DiscardOld
    <2> QED
      BY <1>1, <2>1, <2>2, <2>3, <2>4 DEF ProcStep
  <1>2. ASSUME NEW u \in Uids, PodStep(u) PROVE swept'
    BY <1>2, PodFrame DEF BaseInv, Kube, history
  <1>3. Collects => swept'
    BY DEF Collects, JobCollected, SupportCollected, Kube, history
  <1>4. UNCHANGED vars => swept'
    BY DEF vars, history
  <1> QED
    BY <1>1, <1>2, <1>3, <1>4, Steps

\* Every step keeps who may be at work beside a deletion.
LEMMA SweepNext ==
  ASSUME BaseInv, SweepInv, [Next]_vars
  PROVE  SweepInv'
  <1> SUFFICES ASSUME NEW q \in Procs, pc'[q] = "delete", ~swept'
               PROVE  /\ \A p \in Procs \ {q} : Working(p)' => part'[p] = "download" \/ pc'[p] = "list"
                      /\ \A u \in Uids : ~Alive(u)'
                      /\ \A k \in Keys : obj'[k] # 0 => got'[q][k] # 0
    BY DEF SweepInv, SweepAt
  <1>0. ~swept /\ SweepAt(q)
    BY SweptStays DEF SweepInv
  <1>1. ASSUME NEW p \in Procs, ProcStep(p), p = q
        PROVE  /\ \A r \in Procs \ {q} : Working(r)' => part'[r] = "download" \/ pc'[r] = "list"
               /\ \A u \in Uids : ~Alive(u)'
               /\ \A k \in Keys : obj'[k] # 0 => got'[q][k] # 0
    <2>1. \A r \in Procs \ {p} : pc'[r] = pc[r]
      BY <1>1, ProcFrame DEF BaseInv
    <2> QED
      BY <1>0, <1>1, <2>1, SweepOwn DEF Working, Alive
  <1>2. ASSUME NEW p \in Procs, ProcStep(p), p # q
        PROVE  /\ \A r \in Procs \ {q} : Working(r)' => part'[r] = "download" \/ pc'[r] = "list"
               /\ \A u \in Uids : ~Alive(u)'
               /\ \A k \in Keys : obj'[k] # 0 => got'[q][k] # 0
    <2>1. part' = part /\ (\A r \in Procs \ {p} : pc'[r] = pc[r] /\ got'[r] = got[r])
      BY <1>2, ProcFrame DEF BaseInv, procVars
    <2>2. pc[q] = "delete"
      BY <1>2, <2>1
    <2>3. /\ \A r \in Procs \ {q} : Working(r) => part[r] = "download" \/ pc[r] = "list"
          /\ \A u \in Uids : ~Alive(u)
          /\ \A k \in Keys : obj[k] # 0 => got[q][k] # 0
      BY <1>0, <2>2 DEF SweepAt
    <2>4. UNCHANGED <<obj, pod>> /\ (part[p] = "download" \/ pc'[p] \in Ended \cup {"list"})
      BY <1>2, <2>2, <2>3, SweepMoves
    <2> QED
      BY <1>2, <2>1, <2>3, <2>4 DEF Working, Alive, Ended
  <1>3. ASSUME NEW u \in Uids, PodStep(u)
        PROVE FALSE
    <2>1. Alive(u) /\ pc' = pc
      BY <1>3, PodFrame DEF BaseInv, Kube
    <2> QED
      BY <1>0, <2>1 DEF SweepAt
  <1>4. CASE UNCHANGED <<pc, part, pod, obj, got>>
    BY <1>0, <1>4 DEF SweepAt, Working, Alive
  <1>5. Collects => UNCHANGED <<pc, part, pod, obj, got>>
    BY CollectsTypes DEF BaseInv, TypeInv, Collects, JobCollected, SupportCollected, Kube, procVars
  <1>6. UNCHANGED vars => UNCHANGED <<pc, part, pod, obj, got>>
    BY DEF vars, procVars, kubeVars
  <1> QED
    BY <1>1, <1>2, <1>3, <1>4, <1>5, <1>6, Steps

-----------------------------------------------------------------------------
(***************************************************************************)
(* A report with its marker is one report, and a download that nothing     *)
(* disturbed has read one report.                                          *)
(***************************************************************************)
OneReport == obj["json"] = obj["markdown"]
OneReporter == \A p, q \in Procs :
    part[p] = "report" /\ part[q] = "report" /\ Working(p) /\ Working(q) => p = q
DoneIsOne == obj["report.done"] # 0 /\ ~HalfCleaned => OneReport
ReportAt(p) ==
    /\ pc[p] = "publish" => obj["report.done"] = 0
    /\ pc[p] = "mark" => \A k \in Report : obj[k] = p
    /\ ~disturbed[p] =>
        /\ pc[p] = "sync" => OneReport
        /\ pc[p] = "whole" => got[p]["json"] = obj["markdown"]
        /\ pc[p] \in {"move", "replace", "restore", "discard"} \/ (part[p] = "download" /\ pc[p] = "ok") =>
            got[p]["json"] = got[p]["markdown"]
ReportInv == OneReporter /\ (~swept => DoneIsOne /\ \A p \in Procs : ReportAt(p))

\* No report is at work at the start.
LEMMA ReportInit == Init => ReportInv
  <1> SUFFICES ASSUME Init PROVE ReportInv
    OBVIOUS
  <1>1. OneReporter
    BY DEF Init, OneReporter, Working, Ended
  <1>2. OneReport
    BY DEF Init, OneReport, Keys, Exporters, Artifacts, Report, Markers
  <1>3. \A p \in Procs : ReportAt(p)
    BY DEF Init, ReportAt
  <1> QED
    BY <1>1, <1>2, <1>3 DEF ReportInv, DoneIsOne

\* A second report job does not start while the first is at work.
LEMMA OneReporterNext ==
  ASSUME BaseInv, OneReporter, [Next]_vars
  PROVE  OneReporter'
  <1>1. UNCHANGED <<pc, part>> => OneReporter'
    BY DEF OneReporter, Working
  <1>2. ASSUME NEW p \in Procs, ProcStep(p) PROVE OneReporter'
    <2>0. /\ part' = part /\ \A q \in Procs : q # p => pc'[q] = pc[q]
      BY <1>2, ProcFrame DEF BaseInv, procVars
    <2>1. CASE ~(part[p] = "report" /\ Working(p)') \/ Working(p)
      BY <2>0, <2>1 DEF OneReporter, Working
    <2>2. CASE \A q \in Procs : part[q] = "report" => ~Working(q)
      BY <2>0, <2>2 DEF OneReporter, Working
    <2>3. pc \in [Procs -> Labels] /\ RoleAt(p)
      BY DEF BaseInv, RoleInv, TypeInv, TypeOK
    <2>4. Pure(p) => ~(part[p] = "report" /\ Working(p)') \/ Working(p)
      BY <2>3 DEF Pure, Seen, Working, RoleAt, FrontOnly, DownloadOnly, Fronts, Ended
    <2>5. part[p] = "report" => ~FrontStep(p) /\ ~CleanStep(p) /\ ~DownloadStep(p)
      <3>1. part[p] = "report" => ~FrontStep(p)
        BY <2>3 DEF FrontStep, FrontStarts, StageFile, StagedVerified, ApplySupport, ApplyJob, ReadUid, PatchOwner,
           RollBackJob, RollBackSupport, PollSucceeds, Verdict, GiveUp, FrontDies, At, RoleAt, FrontOnly, Fronts
      <3>2. part[p] = "report" => ~CleanStep(p) /\ ~DownloadStep(p)
        BY <2>3 DEF CleanStep, CleanExpands, CleanDeletes, DownloadStep, DownloadChecksDone, SyncsJson,
           SyncsMarkdown, SetAside, Replace, RestoreOld, DiscardOld, At, RoleAt, DownloadOnly
      <3> QED
        BY <3>1, <3>2
    <2>6. ReportWrites(p) => (\A q \in Procs : part[q] = "report" => ~Working(q)) \/ Working(p)
      BY DEF ReportWrites, Reports, At, Working, Ended
    <2> QED
      BY <1>2, <2>1, <2>2, <2>4, <2>5, <2>6 DEF ProcStep
  <1>3. ASSUME NEW u \in Uids, PodStep(u) PROVE UNCHANGED <<pc, part>>
    BY <1>3, PodFrame DEF BaseInv, Kube, procVars
  <1>4. Collects => UNCHANGED <<pc, part>>
    BY DEF Collects, JobCollected, SupportCollected, Kube, procVars
  <1>5. UNCHANGED vars => UNCHANGED <<pc, part>>
    BY DEF vars, procVars
  <1> QED
    BY <1>1, <1>2, <1>3, <1>4, <1>5, Steps

ReportKeys == Report \cup {"report.done"}

\* Steps that leave the report, its marker and the halves a cleaning left alone.
LEMMA ReportFrame ==
  ASSUME NEW p \in Procs, ReportInv, ~swept,
         part' = part, \A q \in Procs : q # p => pc'[q] = pc[q] /\ got'[q] = got[q],
         \A k \in ReportKeys : obj'[k] = obj[k], \A q \in Procs : q # p => disturbed'[q] = disturbed[q],
         HalfCleaned => HalfCleaned', ReportAt(p)'
  PROVE  DoneIsOne' /\ \A q \in Procs : ReportAt(q)'
  <1>1. DoneIsOne'
    BY DEF ReportInv, DoneIsOne, OneReport, ReportKeys, Report
  <1>2. ASSUME NEW q \in Procs, q # p PROVE ReportAt(q)'
    BY <1>2 DEF ReportInv, ReportAt, OneReport, ReportKeys, Report
  <1> QED
    BY <1>1, <1>2

\* A step of a process that is no cleaner leaves the halves of the cleaners alone.
LEMMA HalvesStay ==
  ASSUME NEW p \in Procs, part' = part, part[p] # "clean" \/ pc[p] \notin {"delete", "failed"},
         \A q \in Procs : q # p => pc'[q] = pc[q], HalfCleaned
  PROVE  HalfCleaned'
  BY DEF HalfCleaned

\* The pure moves and the front ends leave the report and its readers as they were.
LEMMA ReportQuiet ==
  ASSUME BaseInv, ReportInv, ~swept, NEW p \in Procs, Pure(p) \/ FrontStep(p)
  PROVE  DoneIsOne' /\ \A q \in Procs : ReportAt(q)'
  <1>0. /\ pc \in [Procs -> Labels] /\ RoleAt(p) /\ ReportAt(p) /\ part' = part
        /\ \A q \in Procs : q # p => pc'[q] = pc[q] /\ got'[q] = got[q]
    BY ProcFrame DEF BaseInv, RoleInv, TypeInv, TypeOK, ReportInv, ProcStep, procVars
  <1>g. \A label \in Labels : GoTo(p, label) => pc'[p] = label
    BY <1>0 DEF GoTo
  <1> USE DEF history
  <1>1. CASE Pure(p)
    <2>1. UNCHANGED <<obj, got, disturbed>>
      BY <1>1 DEF Pure
    <2>2. part[p] # "clean" \/ pc[p] \notin {"delete", "failed"}
      BY <1>0, <1>1 DEF Pure, Seen, RoleAt, FrontOnly, DownloadOnly, Fronts
    <2>3. HalfCleaned => HalfCleaned'
      BY <1>0, <2>2, HalvesStay
    <2>4. ReportAt(p)'
      BY <1>0, <1>1, <2>1 DEF Pure, Seen, ReportAt, RoleAt, FrontOnly, DownloadOnly, Fronts, OneReport
    <2> QED
      BY <1>0, <2>1, <2>3, <2>4, ReportFrame
  <1>2. CASE FrontStep(p)
    <2>1. /\ disturbed' = disturbed /\ \A k \in ReportKeys : obj'[k] = obj[k]
      <3>1. CASE StageFile(p)
        <4>1. PICK k \in Exporters : Put(k, p) \/ UNCHANGED obj
          BY <3>1, StageFileMoves
        <4>2. ObjTypes /\ p \in 0..Old
          BY Numbers, TypeParts DEF BaseInv, TypeInv
        <4>3. \A l \in ReportKeys : l \in Keys /\ l # k
          BY DEF ReportKeys, Report, Exporters, Keys, Markers
        <4>4. \A l \in ReportKeys : obj'[l] = obj[l]
          BY <4>1, <4>2, <4>3, ObjPut DEF Keys
        <4> QED
          BY <3>1, <4>4 DEF StageFile
      <3>2. CASE ~StageFile(p)
        BY <1>2, <3>2 DEF FrontStep, FrontStarts, StagedVerified, ApplySupport, ApplyJob, ReadUid, PatchOwner,
           RollBackJob, RollBackSupport, PollSucceeds, Verdict, GiveUp, FrontDies, DeleteJob
      <3> QED
        BY <3>1, <3>2
    <2>2. part[p] \in Fronts
      BY <1>0, <1>2 DEF FrontStep, FrontStarts, StageFile, StagedVerified, ApplySupport, ApplyJob, ReadUid, PatchOwner,
           RollBackJob, RollBackSupport, PollSucceeds, Verdict, GiveUp, FrontDies, RoleAt, FrontOnly, Fronts, At
    <2>3. HalfCleaned => HalfCleaned'
      BY <1>0, <2>2, HalvesStay DEF Fronts
    <2>4. pc'[p] \notin {"publish", "mark", "sync", "whole", "move", "replace", "restore", "discard"}
      <3>1. CASE StageFile(p)
        BY <3>1 DEF StageFile, At
      <3>2. CASE ~StageFile(p)
        BY <1>2, <1>g, <3>2 DEF FrontStep, FrontStarts, StagedVerified, ApplySupport, ApplyJob, ReadUid, PatchOwner,
           RollBackJob, RollBackSupport, PollSucceeds, Verdict, GiveUp, FrontDies, DeleteJob, Labels
      <3> QED
        BY <3>1, <3>2
    <2>5. ReportAt(p)'
      BY <1>0, <2>2, <2>4 DEF ReportAt, Fronts
    <2> QED
      BY <1>0, <2>1, <2>3, <2>5, ReportFrame
  <1> QED
    BY <1>1, <1>2

\* clean-s3: it ends with nothing left, and a download it disturbs is marked.
LEMMA ReportCleaned ==
  ASSUME BaseInv, SweepInv, ReportInv, ~swept, ~swept', NEW p \in Procs, CleanStep(p)
  PROVE  DoneIsOne' /\ \A q \in Procs : ReportAt(q)'
  <1>0. /\ pc \in [Procs -> Labels] /\ part' = part /\ part[p] = "clean" /\ RoleAt(p) /\ SweepAt(p)
        /\ obj \in [Keys -> 0..Old] /\ disturbed \in [Procs -> BOOLEAN]
        /\ \A q \in Procs : q # p => pc'[q] = pc[q] /\ got'[q] = got[q]
    <2>1. RoleAt(p) /\ pc[p] \in {"list", "delete"}
      BY DEF BaseInv, RoleInv, CleanStep, CleanExpands, CleanDeletes, At
    <2>2. part[p] = "clean"
      BY <2>1 DEF RoleAt
    <2> QED
      BY <2>1, <2>2, ProcFrame DEF BaseInv, TypeInv, TypeOK, ProcStep, procVars, SweepInv
  <1>g. \A label \in Labels : GoTo(p, label) => pc'[p] = label
    BY <1>0 DEF GoTo
  <1>1. pc'[p] \in {"delete", "failed", "ok"}
    BY <1>g DEF CleanStep, CleanExpands, CleanDeletes, Labels, At
  <1>2. ReportAt(p)'
    BY <1>0, <1>1 DEF ReportAt
  <1>3. CASE CleanExpands(p) \/ (CleanDeletes(p) /\ UNCHANGED <<obj, got, disturbed>>)
    <2>1. UNCHANGED <<obj, disturbed>>
      BY <1>3 DEF CleanExpands
    <2>2. CASE pc'[p] \in {"delete", "failed"}
      <3>1. HalfCleaned'
        BY <1>0, <2>2 DEF HalfCleaned
      <3> QED
        BY <1>0, <1>2, <2>1, <3>1, ReportFrame
    <2>3. CASE pc'[p] = "ok"
      <3>1. pc[p] = "delete" /\ \A k \in Keys : got[p][k] = 0
        BY <1>0, <1>3, <1>g, <2>3 DEF CleanExpands, CleanDeletes, At, Labels
      <3>2. \A k \in Keys : obj'[k] = 0
        BY <1>0, <2>1, <3>1 DEF SweepAt
      <3>3. DoneIsOne'
        BY <3>2 DEF DoneIsOne, Keys, Markers
      <3>4. ASSUME NEW q \in Procs, q # p PROVE ReportAt(q)'
        BY <1>0, <2>1, <3>4 DEF ReportInv, ReportAt, OneReport
      <3> QED
        BY <1>2, <3>3, <3>4
    <2> QED
      BY <1>1, <2>2, <2>3
  <1>4. CASE CleanDeletes(p) /\ ~UNCHANGED <<obj, got, disturbed>>
    <2>1. pc[p] = "delete" /\ UNCHANGED pc
      BY <1>4 DEF CleanDeletes, At
    <2>2. HalfCleaned'
      BY <1>0, <2>1 DEF HalfCleaned
    <2>3. PICK found \in SUBSET Keys :
            /\ obj' = [k \in Keys |-> IF k \in found THEN 0 ELSE obj[k]]
            /\ Disturb(found)
      <3>1. \A batch \in {Exporters, Artifacts, Report, Markers} : batch \subseteq Keys
        BY DEF Keys
      <3> QED
        BY <1>4, <3>1 DEF CleanDeletes
    <2>4. ASSUME NEW q \in Procs, q # p PROVE ReportAt(q)'
      <3>1. pc'[q] = pc[q] /\ got'[q] = got[q] /\ part'[q] = part[q] /\ ReportAt(q) /\ RoleAt(q)
        BY <1>0, <2>4 DEF ReportInv, BaseInv, RoleInv
      <3>2. Working(q) => part[q] = "download" \/ pc[q] = "list"
        BY <1>0, <2>1, <2>4 DEF SweepAt
      <3>3. pc[q] \notin {"publish", "mark"}
        BY <3>1, <3>2 DEF RoleAt, Working, Ended
      <3>4. CASE found \cap (Report \cup {"report.done", "report.failed"}) = {}
        <4>1. disturbed' = disturbed /\ obj'["json"] = obj["json"] /\ obj'["markdown"] = obj["markdown"]
          BY <1>0, <2>3, <3>4 DEF Disturb, Report, Keys
        <4> QED
          BY <3>1, <3>3, <4>1 DEF ReportAt, OneReport
      <3>5. CASE ~(found \cap (Report \cup {"report.done", "report.failed"}) = {})
        <4>1. disturbed'[q] = (disturbed[q] \/ (part[q] = "download" /\ Working(q)))
          BY <2>3, <3>5 DEF Disturb
        <4>2. pc[q] \in DownloadOnly => disturbed'[q]
          BY <3>1, <4>1 DEF RoleAt, DownloadOnly, Working, Ended
        <4> QED
          BY <3>1, <3>3, <4>1, <4>2 DEF ReportAt, DownloadOnly
      <3> QED
        BY <3>4, <3>5
    <2> QED
      BY <1>2, <2>2, <2>4 DEF DoneIsOne
  <1> QED
    BY <1>3, <1>4 DEF CleanStep

\* A report's own writes agree with what it and the downloads hold.
LEMMA ReportWritten ==
  ASSUME BaseInv, ReportInv, ~swept, NEW p \in Procs, ReportWrites(p)
  PROVE  DoneIsOne' /\ \A q \in Procs : ReportAt(q)'
  <1>0. /\ pc \in [Procs -> Labels] /\ obj \in [Keys -> 0..Old] /\ ObjTypes /\ part' = part /\ ReportAt(p)
        /\ \A q \in Procs : q # p => pc'[q] = pc[q] /\ got'[q] = got[q]
    BY ProcFrame, TypeParts DEF BaseInv, TypeInv, TypeOK, ReportInv, ProcStep, procVars
  <1>g. \A label \in Labels : GoTo(p, label) => pc'[p] = label
    BY <1>0 DEF GoTo
  <1>1. PICK from \in Labels, k \in ReportKeys \cup {"report.failed"}, w \in {0, p}, to \in Labels :
          /\ Reports(p, from, k, w, to)
          /\ \/ from = "start" /\ k = "report.failed" /\ to = "clear2" /\ \A q \in Procs : part[q] = "report" => ~Working(q)
             \/ from = "clear2" /\ k = "report.done" /\ w = 0 /\ to = "publish"
             \/ from = "publish" /\ k \in Report /\ to = "publish"
             \/ from = "mark" /\ k = "report.done" /\ to = "ok"
             \/ from = "markFailed" /\ k = "report.failed" /\ to = "failed"
    BY DEF ReportWrites, Labels, ReportKeys
  <1>2. /\ pc[p] = from /\ pc'[p] = to /\ part[p] = "report" /\ Put(k, w) /\ Disturb({k})
    BY <1>1, <1>g DEF Reports, At
  <1>3. obj'[k] = w /\ \A l \in Keys : l # k => obj'[l] = obj[l]
    <2>1. k \in Keys /\ w \in 0..Old
      BY Numbers DEF ReportKeys, Keys, Markers
    <2> QED
      BY <1>0, <1>2, <2>1, ObjPut
  <1>k. {"json", "markdown", "report.done"} \subseteq Keys /\ "json" \in Report /\ "markdown" \in Report
        /\ "report.done" \notin Report /\ "report.failed" \notin Report
    BY DEF Keys, Report, Markers
  <1>4. ReportAt(p)'
    BY <1>0, <1>1, <1>2, <1>3, <1>k DEF ReportAt
  <1>5. DoneIsOne'
    <2>1. HalfCleaned => HalfCleaned'
      BY <1>0, <1>2, HalvesStay
    <2>2. obj'["report.done"] # 0 /\ ~HalfCleaned => OneReport'
      <3>1. CASE from \in {"start", "markFailed"}
        BY <1>1, <1>3, <1>k, <3>1 DEF ReportInv, DoneIsOne, OneReport
      <3>2. CASE from \in {"clear2", "publish"}
        <4>1. from = "publish" => obj["report.done"] = 0
          BY <1>0, <1>2 DEF ReportAt
        <4>2. obj'["report.done"] = 0
          BY <1>1, <1>3, <1>k, <3>2, <4>1
        <4> QED
          BY <4>2
      <3>3. CASE from = "mark"
        BY <1>0, <1>1, <1>2, <1>3, <1>k, <3>3 DEF ReportAt, OneReport
      <3> QED
        BY <1>1, <3>1, <3>2, <3>3
    <2> QED
      BY <2>1, <2>2 DEF DoneIsOne
  <1>6. ASSUME NEW q \in Procs, q # p PROVE ReportAt(q)'
    <2>1. pc'[q] = pc[q] /\ got'[q] = got[q] /\ part'[q] = part[q] /\ ReportAt(q) /\ RoleAt(q)
      BY <1>0, <1>6 DEF ReportInv, BaseInv, RoleInv
    <2>2. pc[q] \notin {"publish", "mark"}
      <3>1. (\A r \in Procs : part[r] = "report" => ~Working(r)) \/ Working(p)
        BY <1>1, <1>2 DEF Working, Ended
      <3>2. ~(part[q] = "report" /\ Working(q))
        BY <1>2, <1>6, <3>1 DEF ReportInv, OneReporter
      <3> QED
        BY <2>1, <3>2 DEF RoleAt, Working, Ended
    <2>3. disturbed'[q] = (disturbed[q] \/ (part[q] = "download" /\ Working(q)))
      <3>1. {k} \cap (Report \cup {"report.done", "report.failed"}) # {}
        BY <1>1 DEF ReportKeys
      <3> QED
        BY <1>2, <3>1 DEF Disturb
    <2>4. pc[q] \in DownloadOnly => disturbed'[q]
      BY <2>1, <2>3 DEF RoleAt, DownloadOnly, Working, Ended
    <2> QED
      BY <2>1, <2>2, <2>3, <2>4 DEF ReportAt, DownloadOnly
  <1> QED
    BY <1>4, <1>5, <1>6

\* A download reads the report it was told of.
LEMMA ReportRead ==
  ASSUME BaseInv, ReportInv, ~swept, NEW p \in Procs, DownloadStep(p)
  PROVE  DoneIsOne' /\ \A q \in Procs : ReportAt(q)'
  <1>0. /\ pc \in [Procs -> Labels] /\ got \in [Procs -> [Keys -> 0..Old]] /\ disturbed \in [Procs -> BOOLEAN]
        /\ part' = part /\ ReportAt(p) /\ RoleAt(p) /\ DoneIsOne
        /\ \A q \in Procs : q # p => pc'[q] = pc[q] /\ got'[q] = got[q]
    BY ProcFrame DEF BaseInv, RoleInv, TypeInv, TypeOK, ReportInv, ProcStep, procVars
  <1>g. \A label \in Labels : GoTo(p, label) => pc'[p] = label
    BY <1>0 DEF GoTo
  <1>1. obj' = obj
    BY DEF DownloadStep, DownloadChecksDone, SyncsJson, SyncsMarkdown, SetAside, Replace, RestoreOld, DiscardOld
  <1>2. pc[p] \in DownloadOnly
    BY DEF DownloadStep, DownloadChecksDone, SyncsJson, SyncsMarkdown, SetAside, Replace, RestoreOld, DiscardOld,
       At, DownloadOnly
  <1>3. HalfCleaned => HalfCleaned'
    <2>1. part[p] = "download"
      BY <1>0, <1>2 DEF RoleAt
    <2> QED
      BY <1>0, <2>1, HalvesStay
  <1>k. "json" \in Keys /\ "markdown" \in Keys
    BY DEF Keys, Report
  <1>4. ReportAt(p)' /\ \A q \in Procs : q # p => disturbed'[q] = disturbed[q]
    <2>1. CASE DownloadChecksDone(p)
      <3>1. /\ disturbed'[p] = HalfCleaned /\ \A q \in Procs : q # p => disturbed'[q] = disturbed[q]
        BY <1>0, <2>1 DEF DownloadChecksDone
      <3>2. pc'[p] = "failed" \/ (pc'[p] = "sync" /\ obj["report.done"] # 0)
        BY <1>g, <2>1 DEF DownloadChecksDone, Labels
      <3> QED
        BY <1>0, <1>1, <3>1, <3>2 DEF ReportAt, DoneIsOne, OneReport
    <2>2. CASE SyncsJson(p)
      <3>1. pc[p] = "sync" /\ pc'[p] = "whole" /\ disturbed' = disturbed /\ got'[p]["json"] = obj["json"]
        BY <1>0, <1>g, <1>k, <2>2 DEF SyncsJson, At, Labels, history
      <3> QED
        BY <1>0, <1>1, <3>1 DEF ReportAt, OneReport
    <2>3. CASE SyncsMarkdown(p)
      <3>1. /\ pc[p] = "whole" /\ pc'[p] \in {"failed", "move"} /\ disturbed' = disturbed
            /\ got'[p]["json"] = got[p]["json"] /\ got'[p]["markdown"] = obj["markdown"]
        BY <1>0, <1>g, <1>k, <2>3 DEF SyncsMarkdown, At, Labels, history
      <3> QED
        BY <1>0, <1>1, <3>1 DEF ReportAt, OneReport
    <2>4. CASE SetAside(p) \/ Replace(p) \/ RestoreOld(p) \/ DiscardOld(p)
      <3>1. /\ pc[p] \in {"move", "replace", "restore", "discard"} /\ UNCHANGED <<disturbed, got>>
            /\ pc'[p] \in {"replace", "failed", "ok", "discard", "restore"}
        BY <1>g, <2>4 DEF SetAside, Replace, RestoreOld, DiscardOld, At, Labels, history
      <3> QED
        BY <1>0, <1>1, <3>1 DEF ReportAt, OneReport
    <2> QED
      BY <2>1, <2>2, <2>3, <2>4 DEF DownloadStep
  <1> QED
    BY <1>0, <1>1, <1>3, <1>4, ReportFrame

\* Every step keeps what the downloads have read.
LEMMA ReportNext ==
  ASSUME BaseInv, SweepInv, ReportInv, [Next]_vars
  PROVE  ReportInv'
  <1>1. OneReporter'
    BY OneReporterNext DEF ReportInv
  <1> SUFFICES ASSUME ~swept' PROVE DoneIsOne' /\ \A q \in Procs : ReportAt(q)'
    BY <1>1 DEF ReportInv
  <1>2. ~swept
    BY SweptStays
  <1>3. ASSUME NEW p \in Procs, ProcStep(p) PROVE DoneIsOne' /\ \A q \in Procs : ReportAt(q)'
    BY <1>2, <1>3, ReportQuiet, ReportCleaned, ReportWritten, ReportRead DEF ProcStep
  <1>4. ASSUME UNCHANGED <<pc, part, got, disturbed>>, \A k \in ReportKeys : obj'[k] = obj[k]
        PROVE  DoneIsOne' /\ \A q \in Procs : ReportAt(q)'
    <2>1. obj'["json"] = obj["json"] /\ obj'["markdown"] = obj["markdown"] /\ obj'["report.done"] = obj["report.done"]
      BY <1>4 DEF ReportKeys, Report
    <2>2. \A k \in Report : obj'[k] = obj[k]
      BY <1>4 DEF ReportKeys
    <2> QED
      BY <1>2, <1>4, <2>1, <2>2 DEF ReportInv, DoneIsOne, ReportAt, OneReport, HalfCleaned
  <1>5. ASSUME NEW u \in Uids, PodStep(u)
        PROVE  UNCHANGED <<pc, part, got, disturbed>> /\ \A k \in ReportKeys : obj'[k] = obj[k]
    <2>1. obj' = obj \/ \E k \in Artifacts \cup Up : Put(k, u)
      BY <1>5, PodFrame DEF BaseInv
    <2>2. ObjTypes /\ u \in 0..Old
      BY TypeParts, Numbers DEF BaseInv, TypeInv
    <2>3. \A k \in ReportKeys : k \in Keys /\ k \notin Artifacts \cup Up
      BY DEF ReportKeys, Keys, Report, Markers, Artifacts, Up
    <2>4. \A k \in Artifacts \cup Up : k \in Keys
      BY DEF Keys, Markers, Artifacts, Up
    <2>5. \A k \in ReportKeys : obj'[k] = obj[k]
      BY <2>1, <2>2, <2>3, <2>4, ObjPut
    <2> QED
      BY <1>5, <2>5, PodFrame DEF BaseInv, Kube, procVars, history
  <1>6. Collects => UNCHANGED <<pc, part, got, disturbed, obj>>
    BY DEF Collects, JobCollected, SupportCollected, Kube, procVars, history
  <1>7. UNCHANGED vars => UNCHANGED <<pc, part, got, disturbed, obj>>
    BY DEF vars, procVars, history
  <1> QED
    BY <1>3, <1>4, <1>5, <1>6, <1>7, Steps

\* A report once downloaded is kept, in the output directory or beside it, whatever downloads run
\* at once, fail or are killed; and a download is one report, unless it was published again while
\* the download read it or clean-s3 was deleting it, had ended halfway or met the report job.
THEOREM DownloadsHold == RunSpec => []ReportHolds
  <1>1. KeepInv /\ ReportInv => ReportHolds
    BY KeepImplies DEF ReportHolds, DownloadIsOneReport, ReportInv, ReportAt
  <1>2. Init => BaseInv /\ KeepInv /\ SweepInv /\ ReportInv
    BY BaseInit, KeepInit, SweepInit, ReportInit
  <1>3. BaseInv /\ KeepInv /\ SweepInv /\ ReportInv /\ [Next]_vars => (BaseInv /\ KeepInv /\ SweepInv /\ ReportInv)'
    BY BaseNext, KeepNext, SweepNext, ReportNext
  <1> QED
    BY <1>1, <1>2, <1>3, PTL DEF RunSpec

-----------------------------------------------------------------------------
(***************************************************************************)
(* Calm: one front end at a time, and clean-s3 met no one. What a front    *)
(* end at work then finds changes only by its own steps and by its pod's.  *)
(***************************************************************************)
Calm == ~overlap /\ ~swept
FrontAtWork(p) == part[p] \in Fronts /\ Working(p)
OneFront == ~overlap => \A p, q \in Procs : FrontAtWork(p) /\ FrontAtWork(q) => p = q

\* Once two commands overlap, the history remembers it.
LEMMA OverlapStays ==
  ASSUME BaseInv, [Next]_vars
  PROVE  (overlap => overlap') /\ faults \in Nat /\ faults' \in Nat /\ faults' >= faults
  <1>0. faults \in Nat /\ faults' \in Nat
    <2>1. TypeInv /\ TypeInv'
      BY TypeNext DEF BaseInv
    <2> QED
      BY <2>1, TypeParts, TypePartsNext, PrefixAssumption DEF TypeInv
  <1>1. ASSUME NEW p \in Procs, ProcStep(p) PROVE (overlap => overlap') /\ faults' >= faults
    <2>1. Pure(p) => (overlap => overlap')
      BY DEF Pure, history
    <2>2. FrontStep(p) => (overlap => overlap')
      BY DEF history, FrontStep, FrontStarts, StageFile, StagedVerified, ApplySupport, ApplyJob, ReadUid, PatchOwner,
         RollBackJob, RollBackSupport, PollSucceeds, Verdict, GiveUp, FrontDies, DeleteJob
    <2>3. CleanStep(p) \/ ReportWrites(p) => (overlap => overlap')
      BY DEF CleanStep, CleanExpands, CleanDeletes, ReportWrites, Reports
    <2>4. DownloadStep(p) => (overlap => overlap')
      BY DEF history, DownloadStep, DownloadChecksDone, SyncsJson, SyncsMarkdown, SetAside, Replace, RestoreOld, DiscardOld
    <2> QED
      BY <1>1, <2>1, <2>2, <2>3, <2>4, ProcPods DEF BaseInv, ProcStep
  <1>2. ASSUME NEW u \in Uids, PodStep(u) PROVE (overlap => overlap') /\ faults' >= faults
    BY <1>0, <1>2, PodFrame DEF BaseInv, Kube, history, Budget, Fault, NoFault
  <1>3. Collects => (overlap => overlap') /\ faults' >= faults
    BY <1>0 DEF Collects, JobCollected, SupportCollected, Kube, history, NoFault
  <1>4. UNCHANGED vars => (overlap => overlap') /\ faults' >= faults
    BY <1>0 DEF vars, history
  <1> QED
    BY <1>0, <1>1, <1>2, <1>3, <1>4, Steps

\* A history that is calm now was calm before.
LEMMA CalmBefore ==
  ASSUME BaseInv, [Next]_vars, Calm'
  PROVE  Calm
  BY OverlapStays, SweptStays DEF Calm

\* Every step of a front end but its first finds it at work.
LEMMA FrontWorks ==
  ASSUME BaseInv, NEW p \in Procs, FrontStep(p)
  PROVE  FrontAtWork(p) \/ FrontStarts(p)
  <1>0. pc \in [Procs -> Labels] /\ RoleAt(p)
    BY DEF BaseInv, RoleInv, TypeInv, TypeOK
  <1>1. CASE FrontDies(p)
    BY <1>1 DEF FrontDies, FrontAtWork
  <1>2. CASE \E k \in SupportKinds : PatchOwner(p, k)
    BY <1>0, <1>2 DEF PatchOwner, FrontAtWork, RoleAt, FrontOnly, Working, Fronts, Ended, At
  <1>3. CASE StageFile(p) \/ StagedVerified(p)
    BY <1>0, <1>3 DEF StageFile, StagedVerified, FrontAtWork, RoleAt, FrontOnly, Working, Fronts, Ended, At
  <1>4. CASE ApplySupport(p) \/ ApplyJob(p) \/ ReadUid(p) \/ RollBackJob(p) \/ RollBackSupport(p)
             \/ PollSucceeds(p) \/ Verdict(p) \/ GiveUp(p)
    BY <1>0, <1>4 DEF ApplySupport, ApplyJob, ReadUid, RollBackJob, RollBackSupport, PollSucceeds, Verdict,
       GiveUp, FrontAtWork, RoleAt, FrontOnly, Working, Ended, At, Fronts
  <1> QED
    BY <1>1, <1>2, <1>3, <1>4 DEF FrontStep

\* A front end comes to work only by its first step, and then no other is at work.
LEMMA FrontComes ==
  ASSUME BaseInv, NEW p \in Procs, ProcStep(p), FrontAtWork(p)', ~FrontAtWork(p), ~overlap'
  PROVE  \A q \in Procs \ {p} : ~FrontAtWork(q)
  <1>0. pc \in [Procs -> Labels] /\ RoleAt(p) /\ part'[p] = part[p] /\ part[p] \in Fronts
    BY ProcFrame DEF BaseInv, RoleInv, TypeInv, TypeOK, procVars, FrontAtWork
  <1>g. \A label \in Labels : GoTo(p, label) => pc'[p] = label
    BY <1>0 DEF GoTo
  <1>1. ~Pure(p)
    BY <1>0 DEF Pure, Seen, Working, FrontAtWork, RoleAt, FrontOnly, DownloadOnly, Fronts, Ended
  <1>2. ~CleanStep(p) /\ ~ReportWrites(p) /\ ~DownloadStep(p)
    BY <1>0 DEF CleanStep, CleanExpands, CleanDeletes, ReportWrites, Reports, DownloadStep, DownloadChecksDone, SyncsJson,
       SyncsMarkdown, SetAside, Replace, RestoreOld, DiscardOld, At, RoleAt, DownloadOnly, Fronts
  <1>3. FrontStarts(p)
    BY <1>1, <1>2, FrontWorks DEF ProcStep
  <1>4. ~LockHeld(p)
    BY <1>g, <1>3 DEF FrontStarts, FrontAtWork, Working, Ended, Labels
  <1> QED
    BY <1>3, <1>4 DEF FrontStarts, FrontAtWork

\* In a calm history at most one front end works at a time.
LEMMA OneFrontNext ==
  ASSUME BaseInv, OneFront, [Next]_vars
  PROVE  OneFront'
  <1> SUFFICES ASSUME ~overlap', NEW p \in Procs, NEW q \in Procs, FrontAtWork(p)', FrontAtWork(q)', p # q
               PROVE  FALSE
    BY DEF OneFront
  <1>1. ~(FrontAtWork(p) /\ FrontAtWork(q))
    BY OverlapStays DEF OneFront
  <1>2. CASE UNCHANGED <<pc, part>>
    BY <1>1, <1>2 DEF FrontAtWork, Working
  <1>3. ASSUME NEW r \in Procs, ProcStep(r) PROVE FALSE
    <2>1. part' = part /\ \A s \in Procs : s # r => pc'[s] = pc[s]
      BY <1>3, ProcFrame DEF BaseInv, procVars
    <2>2. \A s \in Procs : s # r => (FrontAtWork(s)' <=> FrontAtWork(s))
      BY <2>1 DEF FrontAtWork, Working
    <2>3. (r = p \/ r = q) /\ ~FrontAtWork(r) /\ FrontAtWork(r)'
      BY <1>1, <2>2
    <2> QED
      BY <1>3, <2>2, <2>3, FrontComes
  <1>4. ASSUME NEW u \in Uids, PodStep(u) PROVE UNCHANGED <<pc, part>>
    BY <1>4, PodFrame DEF BaseInv, Kube, procVars
  <1>5. Collects => UNCHANGED <<pc, part>>
    BY DEF Collects, JobCollected, SupportCollected, Kube, procVars
  <1>6. UNCHANGED vars => UNCHANGED <<pc, part>>
    BY DEF vars, procVars
  <1> QED
    BY <1>2, <1>3, <1>4, <1>5, <1>6, Steps

\* What the run of a front end is made of.
RunKeys == Exporters \cup Artifacts \cup Up

\* While one front end works in a calm history, the others leave its Job, its pods and its objects alone.
LEMMA OthersLeave ==
  ASSUME BaseInv, OneFront, Calm, Calm', NEW p \in Procs, FrontAtWork(p), NEW q \in Procs, q # p, ProcStep(q)
  PROVE  UNCHANGED <<job, pod>> /\ \A k \in RunKeys : obj'[k] = obj[k]
  <1>0. ObjTypes /\ \A k \in RunKeys : k \in Keys /\ k \notin Report \cup {"report.done", "report.failed"}
    BY TypeParts DEF BaseInv, TypeInv, RunKeys, Keys, Exporters, Artifacts, Up, Markers, Report
  <1>1. CASE Pure(q)
    BY <1>1 DEF Pure, kubeVars
  <1>2. CASE FrontStep(q)
    <2>1. ~FrontAtWork(q)
      BY DEF Calm, OneFront
    <2>2. FrontStarts(q)
      BY <1>2, <2>1, FrontWorks
    <2> QED
      BY <2>2 DEF FrontStarts, kubeVars
  <1>3. ~CleanStep(q)
    <2>1. Working(p) /\ ~swept'
      BY DEF FrontAtWork, Calm
    <2> QED
      BY <2>1 DEF CleanStep, CleanExpands, CleanDeletes
  <1>4. CASE ReportWrites(q)
    <2>1. PICK k \in Report \cup {"report.done", "report.failed"}, w \in {0, q} : Put(k, w) /\ UNCHANGED kubeVars
      BY <1>4 DEF ReportWrites, Reports
    <2>2. k \in Keys /\ w \in 0..Old
      BY Numbers DEF Keys, Markers
    <2> QED
      BY <1>0, <2>1, <2>2, ObjPut DEF kubeVars
  <1>5. CASE DownloadStep(q)
    BY <1>5 DEF DownloadStep, DownloadChecksDone, SyncsJson, SyncsMarkdown, SetAside, Replace, RestoreOld, DiscardOld, kubeVars
  <1> QED
    BY <1>1, <1>2, <1>3, <1>4, <1>5 DEF ProcStep

-----------------------------------------------------------------------------
(***************************************************************************)
(* Exporters: they are there while a pod lives or a Job is about to be     *)
(* applied, and of one checkout.                                           *)
(***************************************************************************)
LEMMA ExportersKept ==
  ASSUME BaseInv, NEW p \in Procs, ProcStep(p), ~StageFile(p), ~CleanStep(p)
  PROVE  \A k \in Exporters : obj'[k] = obj[k]
  <1>0. ObjTypes /\ \A k \in Exporters : k \in Keys /\ k \notin Report \cup {"report.done", "report.failed"}
    BY TypeParts DEF BaseInv, TypeInv, Keys, Exporters, Report
  <1>1. CASE Pure(p)
    BY <1>1 DEF Pure
  <1>2. CASE FrontStep(p)
    BY <1>2 DEF FrontStep, FrontStarts, StagedVerified, ApplySupport, ApplyJob, ReadUid, PatchOwner,
       RollBackJob, RollBackSupport, PollSucceeds, Verdict, GiveUp, FrontDies, DeleteJob
  <1>3. CASE ReportWrites(p)
    <2>1. PICK k \in Report \cup {"report.done", "report.failed"}, w \in {0, p} : Put(k, w)
      BY <1>3 DEF ReportWrites, Reports
    <2>2. k \in Keys /\ w \in 0..Old
      BY Numbers DEF Keys, Markers
    <2> QED
      BY <1>0, <2>1, <2>2, ObjPut
  <1>4. CASE DownloadStep(p)
    BY <1>4 DEF DownloadStep, DownloadChecksDone, SyncsJson, SyncsMarkdown, SetAside, Replace, RestoreOld, DiscardOld
  <1> QED
    BY <1>1, <1>2, <1>3, <1>4 DEF ProcStep

\* While nothing has been swept, clean-s3 deletes with nobody else at work and no pod alive.
LEMMA CleanLeaves ==
  ASSUME BaseInv, NEW p \in Procs, CleanStep(p), ~swept'
  PROVE  /\ part[p] = "clean" /\ pc'[p] \in {"delete", "failed", "ok"} /\ UNCHANGED <<job, pod>>
         /\ \A q \in Procs \ {p} : ~Working(q)
         /\ \A u \in Uids : ~Alive(u)
         /\ \A k \in Keys : obj'[k] \in {0, obj[k]}
  <1>0. pc \in [Procs -> Labels] /\ RoleAt(p) /\ obj \in [Keys -> 0..Old]
    BY DEF BaseInv, RoleInv, TypeInv, TypeOK
  <1>g. \A label \in Labels : GoTo(p, label) => pc'[p] = label
    BY <1>0 DEF GoTo
  <1>1. /\ pc[p] \in {"list", "delete"} /\ pc'[p] \in {"delete", "failed", "ok"} /\ UNCHANGED <<job, pod>>
    BY <1>g DEF CleanStep, CleanExpands, CleanDeletes, kubeVars, At, Labels
  <1>2. swept' = (swept \/ (\E q \in Procs \ {p} : Working(q)) \/ \E u \in Uids : Alive(u))
    BY DEF CleanStep, CleanExpands, CleanDeletes
  <1>3. \A k \in Keys : obj'[k] \in {0, obj[k]}
    BY <1>0 DEF CleanStep, CleanExpands, CleanDeletes
  <1> QED
    BY <1>0, <1>1, <1>2, <1>3 DEF RoleAt

\* Only the verified exporters lead to the apply.
LEMMA ToApply ==
  ASSUME BaseInv, NEW p \in Procs, ProcStep(p), pc'[p] \in {"support", "job"}
  PROVE  /\ ~StageFile(p) /\ ~CleanStep(p)
         /\ \/ pc[p] = "support" /\ pod' = pod
            \/ StagedVerified(p) /\ \A k \in Exporters : obj[k] # 0
  <1>0. pc \in [Procs -> Labels]
    BY DEF BaseInv, TypeInv, TypeOK
  <1>g. \A label \in Labels : GoTo(p, label) => pc'[p] = label
    BY <1>0 DEF GoTo
  <1>1. ~Pure(p)
    BY DEF Pure, Seen
  <1>2. ~CleanStep(p) /\ ~ReportWrites(p) /\ ~DownloadStep(p)
    BY <1>g DEF CleanStep, CleanExpands, CleanDeletes, ReportWrites, Reports, DownloadStep, DownloadChecksDone, SyncsJson,
       SyncsMarkdown, SetAside, Replace, RestoreOld, DiscardOld, At, Labels
  <1>3. ~StageFile(p)
    BY DEF StageFile, At
  <1>4. StagedVerified(p) \/ ApplySupport(p)
    BY <1>1, <1>2, <1>3, <1>g DEF ProcStep, FrontStep, FrontStarts, ApplyJob, ReadUid, PatchOwner,
       RollBackJob, RollBackSupport, PollSucceeds, Verdict, GiveUp, FrontDies, DeleteJob, Labels
  <1>5. StagedVerified(p) => \A k \in Exporters : obj[k] # 0
    BY <1>g DEF StagedVerified, Labels
  <1>6. ApplySupport(p) => pc[p] = "support" /\ pod' = pod
    BY DEF ApplySupport, At
  <1> QED
    BY <1>2, <1>3, <1>4, <1>5, <1>6

StagedInv ==
    ~swept =>
        /\ \A u \in Uids : Alive(u) => \A k \in Exporters : obj[k] # 0
        /\ \A p \in Procs : pc[p] \in {"support", "job"} => \A k \in Exporters : obj[k] # 0

\* No pod lives and no command is about to apply a Job at the start.
LEMMA StagedInit == Init => StagedInv
  <1> SUFFICES ASSUME Init PROVE StagedInv
    OBVIOUS
  <1>1. \A u \in Uids : ~Alive(u)
    BY DEF Init, Alive, Gone, NoPod
  <1>2. \A p \in Procs : pc[p] \notin {"support", "job"}
    BY DEF Init
  <1> QED
    BY <1>1, <1>2 DEF StagedInv

\* While nothing has been swept, the exporter stays staged for the pods and for the Job to come.
LEMMA StagedNext ==
  ASSUME BaseInv, StagedInv, [Next]_vars
  PROVE  StagedInv'
  <1> SUFFICES ASSUME ~swept'
               PROVE  /\ \A u \in Uids : Alive(u)' => \A k \in Exporters : obj'[k] # 0
                      /\ \A p \in Procs : pc'[p] \in {"support", "job"} => \A k \in Exporters : obj'[k] # 0
    BY DEF StagedInv
  <1>0. /\ \A u \in Uids : Alive(u) => \A k \in Exporters : obj[k] # 0
        /\ \A p \in Procs : pc[p] \in {"support", "job"} => \A k \in Exporters : obj[k] # 0
        /\ pod \in [Uids -> PodType] /\ ObjTypes
    BY SweptStays, TypeParts DEF StagedInv, BaseInv, TypeInv
  <1>1. ASSUME NEW p \in Procs, ProcStep(p)
        PROVE  /\ \A u \in Uids : Alive(u)' => \A k \in Exporters : obj'[k] # 0
               /\ \A q \in Procs : pc'[q] \in {"support", "job"} => \A k \in Exporters : obj'[k] # 0
    <2>0. \A q \in Procs : q # p => pc'[q] = pc[q]
      BY <1>1, ProcFrame DEF BaseInv
    <2>1. CASE CleanStep(p)
      <3>1. \A u \in Uids : ~Alive(u)'
        BY <1>1, <2>1, CleanLeaves DEF Alive
      <3>2. \A q \in Procs : pc'[q] \notin {"support", "job"}
        BY <1>1, <2>0, <2>1, CleanLeaves DEF Working, Ended
      <3> QED
        BY <3>1, <3>2
    <2>2. CASE StageFile(p)
      <3>1. PICK k \in Exporters : Put(k, p) \/ UNCHANGED obj
        BY <2>2, StageFileMoves
      <3>2. k \in Keys /\ p \in 0..Old /\ p # 0
        BY Numbers DEF Keys
      <3>3. \A l \in Exporters : l \in Keys
        BY DEF Keys
      <3>4. \A l \in Exporters : obj[l] # 0 => obj'[l] # 0
        BY <1>0, <3>1, <3>2, <3>3, ObjPut
      <3>5. pc' = pc /\ pod' = pod
        BY <2>2 DEF StageFile, kubeVars
      <3> QED
        BY <1>0, <3>4, <3>5 DEF Alive
    <2>3. CASE ~CleanStep(p) /\ ~StageFile(p)
      <3>1. \A k \in Exporters : obj'[k] = obj[k]
        BY <1>1, <2>3, ExportersKept
      <3>2. \A q \in Procs : pc'[q] \in {"support", "job"} => \A k \in Exporters : obj'[k] # 0
        BY <1>0, <1>1, <2>0, <3>1, ToApply
      <3>3. CASE ApplyJob(p)
        BY <1>0, <3>1, <3>2, <3>3 DEF ApplyJob, At
      <3>4. CASE RollBackJob(p) \/ GiveUp(p)
        <4>1. \A u \in Uids : pod'[u] = pod[u] \/ pod'[u] = Gone
          BY <1>0, <3>4 DEF RollBackJob, GiveUp, DeleteJob
        <4>2. \A u \in Uids : Alive(u)' => Alive(u)
          BY <4>1 DEF Alive, Gone, NoPod
        <4> QED
          BY <1>0, <3>1, <3>2, <4>2
      <3>5. CASE pod' = pod
        BY <1>0, <3>1, <3>2, <3>5 DEF Alive
      <3> QED
        BY <1>1, <3>3, <3>4, <3>5, ProcPods DEF BaseInv
    <2> QED
      BY <2>1, <2>2, <2>3
  <1>2. ASSUME NEW u \in Uids, PodStep(u)
        PROVE  /\ \A v \in Uids : Alive(v)' => Alive(v)
               /\ pc' = pc /\ \A k \in Exporters : obj'[k] = obj[k]
    <2>1. Alive(u) /\ (\A v \in Uids : v # u => pod'[v] = pod[v]) /\ pc' = pc
      BY <1>2, PodFrame DEF BaseInv, Kube
    <2>2. obj' = obj \/ \E k \in Artifacts \cup Up : Put(k, u)
      BY <1>2, PodFrame DEF BaseInv
    <2>3. \A k \in Exporters : k \in Keys /\ k \notin Artifacts \cup Up
      BY DEF Keys, Exporters, Artifacts, Up
    <2>4. \A k \in Artifacts \cup Up : k \in Keys
      BY DEF Keys, Markers, Artifacts, Up
    <2>5. u \in 0..Old
      BY Numbers
    <2>6. \A k \in Exporters : obj'[k] = obj[k]
      BY <1>0, <2>2, <2>3, <2>4, <2>5, ObjPut
    <2> QED
      BY <2>1, <2>6 DEF Alive
  <1>3. Collects => pc' = pc /\ obj' = obj /\ pod' = pod
    BY CollectsTypes DEF BaseInv, TypeInv, Collects, JobCollected, SupportCollected, Kube
  <1>4. UNCHANGED vars => pc' = pc /\ obj' = obj /\ pod' = pod
    BY DEF vars, kubeVars
  <1> QED
    BY <1>0, <1>1, <1>2, <1>3, <1>4, Steps DEF Alive

Early(p) == pc[p] \in {"start", "s3", "kube", "empty"} \/ (pc[p] = "check" /\ part[p] = "resume")
Empty == [k \in Keys |-> 0]
ExporterWriters == \A k \in Exporters : obj[k] \in {0, Old} \cup Procs
FoundNothing == \A p \in Procs : Early(p) => got[p] = Empty
VersionAt(p) ==
    /\ pc[p] = "stage" => \A k \in Exporters : obj[k] \in {0, p} /\ (got[p][k] # 0 => obj[k] = p)
    /\ part[p] = "resume" /\ pc[p] = "ok" => \E w \in Procs \cup {Old} : \A k \in Exporters : got[p][k] = w
OneVersion == \A k, l \in Exporters : obj[k] # 0 /\ obj[l] # 0 => obj[k] = obj[l]
VersionInv ==
    /\ ExporterWriters /\ FoundNothing
    /\ Calm => OneVersion /\ \A p \in Procs : VersionAt(p)

\* The exporter of the start, if any, is of one version.
LEMMA VersionInit == Init => VersionInv
  <1> SUFFICES ASSUME Init PROVE VersionInv
    OBVIOUS
  <1>0. PICK c \in Casts :
          obj = [k \in Keys |-> CASE ~c.before -> 0 [] c.before /\ k \in Exporters -> Old
                                  [] c.before /\ k \in Artifacts \cup {"upload.done"} -> 1 [] OTHER -> 0]
    BY DEF Init
  <1>c. c.before \in BOOLEAN /\ \A k \in Exporters : k \in Keys /\ k \notin Artifacts \cup {"upload.done"}
    BY PrefixAssumption DEF Keys, Exporters, Artifacts
  <1>1. \A k \in Exporters : obj[k] = IF c.before THEN Old ELSE 0
    BY <1>0, <1>c
  <1>2. OneVersion
    BY <1>1 DEF OneVersion
  <1>3. \A p \in Procs : pc[p] \in {"ok", "start"} /\ (part[p] = "resume" => pc[p] # "ok") /\ got[p] = Empty
    BY DEF Init, Empty
  <1>4. \A p \in Procs : VersionAt(p)
    BY <1>3 DEF VersionAt
  <1> QED
    BY <1>1, <1>2, <1>3, <1>4 DEF VersionInv, ExporterWriters, FoundNothing

\* A process that has found nothing yet had found nothing before the step.
LEMMA StaysEarly ==
  ASSUME BaseInv, NEW p \in Procs, ProcStep(p), Early(p)'
  PROVE  Early(p) /\ got' = got
  <1>0. pc \in [Procs -> Labels] /\ part' = part /\ RoleAt(p)
    BY ProcFrame DEF BaseInv, RoleInv, TypeInv, TypeOK, procVars
  <1>g. \A label \in Labels : GoTo(p, label) => pc'[p] = label
    BY <1>0 DEF GoTo
  <1>1. Pure(p) => Early(p) /\ got' = got
    BY <1>0 DEF Pure, Seen, Early
  <1>2. FrontStep(p) => FrontStarts(p)
    <2>1. ~StageFile(p)
      BY DEF StageFile, Early, At
    <2> QED
      BY <1>g, <2>1 DEF FrontStep, StagedVerified, ApplySupport, ApplyJob, ReadUid, PatchOwner,
         RollBackJob, RollBackSupport, PollSucceeds, Verdict, GiveUp, FrontDies, DeleteJob, Labels, Early
  <1>3. FrontStarts(p) => Early(p) /\ got' = got
    BY DEF FrontStarts, At, Early
  <1>4. ~CleanStep(p) /\ ~ReportWrites(p) /\ ~DownloadStep(p)
    BY <1>g DEF CleanStep, CleanExpands, CleanDeletes, ReportWrites, Reports, DownloadStep, DownloadChecksDone, SyncsJson,
       SyncsMarkdown, SetAside, Replace, RestoreOld, DiscardOld, At, Labels, Early
  <1> QED
    BY <1>1, <1>2, <1>3, <1>4 DEF ProcStep

\* A command reaches the staging from the staging of another file, or from an empty prefix.
LEMMA ToStage ==
  ASSUME BaseInv, NEW p \in Procs, ProcStep(p), pc'[p] = "stage"
  PROVE  \/ StageFile(p)
         \/ Early(p) /\ got' = got /\ obj' = obj /\ \A k \in Exporters : obj[k] = 0
  <1>0. pc \in [Procs -> Labels] /\ \A k \in Exporters : k \in Keys
    BY DEF BaseInv, TypeInv, TypeOK, Keys
  <1>g. \A label \in Labels : GoTo(p, label) => pc'[p] = label
    BY <1>0 DEF GoTo
  <1>1. Pure(p) => Early(p) /\ got' = got /\ obj' = obj /\ \A k \in Exporters : obj[k] = 0
    BY <1>0 DEF Pure, Seen, Early
  <1>2. FrontStep(p) => StageFile(p)
    BY <1>g DEF FrontStep, FrontStarts, StagedVerified, ApplySupport, ApplyJob, ReadUid, PatchOwner,
       RollBackJob, RollBackSupport, PollSucceeds, Verdict, GiveUp, FrontDies, DeleteJob, Labels
  <1>3. ~CleanStep(p) /\ ~ReportWrites(p) /\ ~DownloadStep(p)
    BY <1>g DEF CleanStep, CleanExpands, CleanDeletes, ReportWrites, Reports, DownloadStep, DownloadChecksDone, SyncsJson,
       SyncsMarkdown, SetAside, Replace, RestoreOld, DiscardOld, At, Labels
  <1> QED
    BY <1>1, <1>2, <1>3 DEF ProcStep

\* A resumed run ends well only with the whole exporter in its hands.
LEMMA ToResumed ==
  ASSUME BaseInv, NEW p \in Procs, ProcStep(p), part[p] = "resume", pc'[p] = "ok"
  PROVE  obj' = obj /\ \A k \in Exporters : obj[k] # 0 /\ got'[p][k] = obj[k]
  <1>0. pc \in [Procs -> Labels] /\ RoleAt(p) /\ (\A k \in Exporters : k \in Keys) /\ got \in [Procs -> [Keys -> 0..Old]]
    BY DEF BaseInv, RoleInv, TypeInv, TypeOK, Keys
  <1>g. \A label \in Labels : GoTo(p, label) => pc'[p] = label
    BY <1>0 DEF GoTo
  <1>1. ~Pure(p)
    BY DEF Pure, Seen
  <1>2. ~CleanStep(p) /\ ~ReportWrites(p) /\ ~DownloadStep(p)
    BY <1>0 DEF CleanStep, CleanExpands, CleanDeletes, ReportWrites, Reports, DownloadStep, DownloadChecksDone, SyncsJson,
       SyncsMarkdown, SetAside, Replace, RestoreOld, DiscardOld, At, RoleAt, DownloadOnly
  <1>3. FrontStep(p) => StagedVerified(p)
    <2>1. ~StageFile(p)
      BY DEF StageFile, At
    <2>2. ~PollSucceeds(p) /\ \A k \in SupportKinds : ~PatchOwner(p, k)
      BY <1>0 DEF PollSucceeds, PatchOwner, At, RoleAt, FrontOnly
    <2> QED
      BY <1>g, <2>1, <2>2 DEF FrontStep, FrontStarts, ApplySupport, ApplyJob, ReadUid,
         RollBackJob, RollBackSupport, Verdict, GiveUp, FrontDies, DeleteJob, Labels
  <1>4. StagedVerified(p)
    BY <1>1, <1>2, <1>3 DEF ProcStep
  <1>5. \A k \in Exporters : obj[k] # 0
    BY <1>4, <1>g DEF StagedVerified, Labels
  <1>6. \A k \in Exporters : got'[p][k] = obj[k]
    BY <1>0, <1>4 DEF StagedVerified
  <1> QED
    BY <1>4, <1>5, <1>6 DEF StagedVerified

\* A step of a process keeps the exporter of one version.
LEMMA VersionStep ==
  ASSUME BaseInv, OneFront, VersionInv, [Next]_vars, NEW p \in Procs, ProcStep(p)
  PROVE  VersionInv'
  <1>0. /\ part' = part /\ (\A q \in Procs : q # p => pc'[q] = pc[q] /\ got'[q] = got[q]) /\ ObjTypes
        /\ \A k \in Exporters : k \in Keys
    BY ProcFrame, TypeParts DEF BaseInv, TypeInv, procVars, Keys
  <1>1. FoundNothing'
    BY <1>0, StaysEarly DEF VersionInv, FoundNothing, Early, Empty
  <1>2. CASE StageFile(p)
    <2>1. PICK k \in Exporters : /\ got' = [got EXCEPT ![p][k] = p]
                                 /\ Put(k, p) \/ (obj[k] # 0 /\ UNCHANGED obj)
      BY <1>2, StageFileMoves
    <2>2. pc[p] = "stage" /\ pc' = pc /\ UNCHANGED <<overlap, swept>> /\ p \in 0..Old /\ p # 0
      BY <1>2, Numbers DEF StageFile, At, history
    <2>3. Put(k, p) => obj'[k] = p /\ \A l \in Keys : l # k => obj'[l] = obj[l]
      BY <1>0, <2>1, <2>2, ObjPut
    <2>4. ExporterWriters'
      BY <1>0, <2>1, <2>3 DEF VersionInv, ExporterWriters
    <2>5. ASSUME Calm PROVE OneVersion' /\ \A q \in Procs : VersionAt(q)'
      <3>1. \A l \in Exporters : obj[l] \in {0, p} /\ (got[p][l] # 0 => obj[l] = p)
        BY <2>2, <2>5 DEF VersionInv, VersionAt
      <3>2. \A l \in Exporters : obj'[l] \in {0, p} /\ (obj[l] = p => obj'[l] = p)
        BY <1>0, <2>1, <2>3, <3>1
      <3>3. obj'[k] = p
        BY <2>1, <2>3, <3>1
      <3>4. OneVersion'
        BY <3>2 DEF OneVersion
      <3>5. \A l \in Exporters : got'[p][l] = IF l = k THEN p ELSE got[p][l]
        <4>1. got \in [Procs -> [Keys -> 0..Old]]
          BY DEF BaseInv, TypeInv, TypeOK
        <4> QED
          BY <1>0, <2>1, <4>1
      <3>6. VersionAt(p)'
        BY <2>2, <3>1, <3>2, <3>3, <3>5 DEF VersionAt
      <3>7. ASSUME NEW q \in Procs, q # p PROVE VersionAt(q)'
        <4>1. pc[q] # "stage"
          <5>1. FrontAtWork(p)
            BY <2>2 DEF BaseInv, RoleInv, RoleAt, FrontAtWork, Working, Ended
          <5>2. ~FrontAtWork(q)
            BY <2>5, <3>7, <5>1 DEF Calm, OneFront
          <5> QED
            BY <5>2 DEF BaseInv, RoleInv, RoleAt, FrontAtWork, Working, Ended
        <4> QED
          BY <1>0, <2>2, <2>5, <3>7, <4>1 DEF VersionInv, VersionAt
      <3> QED
        BY <3>4, <3>6, <3>7
    <2> QED
      BY <1>1, <2>2, <2>4, <2>5 DEF VersionInv, Calm
  <1>3. CASE ~StageFile(p)
    <2>1. \A k \in Exporters : obj'[k] \in {0, obj[k]}
      <3>1. CASE CleanStep(p)
        BY <1>0, <3>1 DEF CleanStep, CleanExpands, CleanDeletes
      <3> QED
        BY <1>3, <3>1, ExportersKept
    <2>2. ExporterWriters'
      BY <2>1 DEF VersionInv, ExporterWriters
    <2>3. ASSUME Calm' PROVE OneVersion' /\ \A q \in Procs : VersionAt(q)'
      <3>0. Calm
        BY <2>3, CalmBefore
      <3>1. OneVersion /\ OneVersion'
        BY <2>1, <3>0 DEF VersionInv, OneVersion
      <3>2. ASSUME NEW q \in Procs, q # p PROVE VersionAt(q)'
        <4>1. VersionAt(q) /\ pc'[q] = pc[q] /\ got'[q] = got[q] /\ part'[q] = part[q]
          BY <1>0, <3>0, <3>2 DEF VersionInv
        <4>2. CASE CleanStep(p)
          <5>1. pc[q] # "stage"
            BY <2>3, <3>2, <4>2, CleanLeaves DEF Calm, Working, Ended
          <5> QED
            BY <4>1, <5>1 DEF VersionAt
        <4>3. CASE ~CleanStep(p)
          <5>1. \A k \in Exporters : obj'[k] = obj[k]
            BY <1>3, <4>3, ExportersKept
          <5> QED
            BY <4>1, <5>1 DEF VersionAt
        <4> QED
          BY <4>2, <4>3
      <3>3. VersionAt(p)'
        <4>1. ASSUME pc'[p] = "stage"
              PROVE \A k \in Exporters : obj'[k] \in {0, p} /\ (got'[p][k] # 0 => obj'[k] = p)
          <5>1. got'[p] = Empty /\ \A k \in Exporters : obj'[k] = 0
            BY <1>3, <4>1, ToStage DEF VersionInv, FoundNothing
          <5> QED
            BY <1>0, <5>1 DEF Empty
        <4>2. ASSUME part[p] = "resume", pc'[p] = "ok"
              PROVE \E w \in Procs \cup {Old} : \A k \in Exporters : got'[p][k] = w
          <5>1. \A k \in Exporters : obj[k] # 0 /\ got'[p][k] = obj[k]
            BY <4>2, ToResumed
          <5>2. PICK k \in Exporters : TRUE
            BY DEF Exporters
          <5>3. obj[k] \in Procs \cup {Old} /\ \A l \in Exporters : got'[p][l] = obj[k]
            BY <3>1, <5>1 DEF VersionInv, ExporterWriters, OneVersion
          <5> QED
            BY <5>3
        <4> QED
          BY <1>0, <4>1, <4>2 DEF VersionAt
      <3> QED
        BY <3>1, <3>2, <3>3
    <2> QED
      BY <1>1, <2>2, <2>3 DEF VersionInv
  <1> QED
    BY <1>2, <1>3

\* A pod writes no exporter object.
LEMMA PodLeaves ==
  ASSUME BaseInv, NEW u \in Uids, PodStep(u)
  PROVE  /\ UNCHANGED <<pc, part, got, uid, grace, seen, overlap, swept>>
         /\ \A k \in Keys \ (Artifacts \cup Up) : obj'[k] = obj[k]
         /\ \A k \in Keys : obj'[k] \in {obj[k], u}
         /\ \A v \in Uids : Alive(v)' => Alive(v)
  <1>1. /\ Kube /\ (\A v \in Uids : v # u => pod'[v] = pod[v]) /\ Alive(u)
        /\ obj' = obj \/ \E k \in Artifacts \cup Up : Put(k, u)
    BY PodFrame DEF BaseInv
  <1>2. ObjTypes /\ u \in 0..Old /\ \A k \in Artifacts \cup Up : k \in Keys
    BY TypeParts, Numbers DEF BaseInv, TypeInv, Artifacts, Up, Keys, Markers
  <1> QED
    BY <1>1, <1>2, ObjPut DEF Kube, procVars, frontVars, history, Alive

\* In a calm history every step keeps the exporter of one version.
LEMMA VersionNext ==
  ASSUME BaseInv, OneFront, VersionInv, [Next]_vars
  PROVE  VersionInv'
  <1>1. ASSUME UNCHANGED <<pc, part, got, overlap, swept>>, \A k \in Exporters : obj'[k] = obj[k]
        PROVE  VersionInv'
    <2>1. ExporterWriters' /\ FoundNothing' /\ (OneVersion => OneVersion') /\ \A p \in Procs : VersionAt(p) => VersionAt(p)'
      BY <1>1 DEF VersionInv, ExporterWriters, FoundNothing, Early, OneVersion, VersionAt
    <2> QED
      BY <1>1, <2>1 DEF VersionInv, Calm
  <1>2. ASSUME NEW u \in Uids, PodStep(u) PROVE VersionInv'
    <2>1. \A k \in Exporters : k \in Keys \ (Artifacts \cup Up)
      BY DEF Keys, Exporters, Artifacts, Up
    <2> QED
      BY <1>1, <1>2, <2>1, PodLeaves
  <1>3. Collects => UNCHANGED <<pc, part, got, overlap, swept, obj>>
    BY DEF Collects, JobCollected, SupportCollected, Kube, procVars, history
  <1>4. UNCHANGED vars => UNCHANGED <<pc, part, got, overlap, swept, obj>>
    BY DEF vars, procVars, history
  <1> QED
    BY <1>1, <1>2, <1>3, <1>4, Steps, VersionStep

-----------------------------------------------------------------------------
(***************************************************************************)
(* A full run goes on with its own: from the empty prefix on, its Job is   *)
(* the only one, and what is uploaded is that Job's, the marker last.      *)
(***************************************************************************)
Unapplied == {"stage", "verify", "support", "job"}
Polling == {"pollFailed", "pollDone", "probe", "giveUp"}
Owned == {"patch", "patch2"} \cup Polling
Applied == {"uid"} \cup Owned
LiveAt(u) ==
    /\ job.uid = u /\ job.state = "active"
    /\ pod[u].up \in {"done", "exit0"} => \A k \in Artifacts : obj[k] = u
    /\ pod[u].up # "exit0" => obj["upload.done"] = 0
    /\ pod[u].up \notin {"drain", "exit1"} => obj["upload.failed"] = 0
Live == \A u \in Uids : Alive(u) => LiveAt(u)
DoneIsWhole ==
    obj["upload.done"] # 0 => obj["upload.failed"] = 0 /\ \A k \in Artifacts : obj[k] = obj["upload.done"]
NoneAlive == \A u \in Uids : ~Alive(u)
OwnAt(p) ==
    /\ pc[p] \in Unapplied => NoneAlive /\ \A k \in Artifacts \cup Up : obj[k] = 0
    /\ pc[p] \in {"verify", "support", "job"} \cup Applied => \A k \in Exporters : obj[k] = p
    /\ pc[p] \in Applied => Live /\ DoneIsWhole
    /\ pc[p] = "uid" => \A k \in Artifacts \cup Up : obj[k] # 0 => job.uid \in {0, obj[k]}
    /\ pc[p] \in Owned =>
        /\ \A u \in Uids : Alive(u) => u = uid[p]
        /\ \A k \in Artifacts \cup Up : obj[k] \in {0, uid[p]}
    /\ pc[p] = "ok" => /\ \A k \in Artifacts : got[p][k] = uid[p]
                       /\ \A k \in Exporters : got[p][k] = p
OwnInv == Calm => \A p \in Procs : part[p] = "full" => OwnAt(p)

\* No Job is awaited at the start.
LEMMA OwnInit == Init => OwnInv
  <1> SUFFICES ASSUME Init, NEW p \in Procs, part[p] = "full" PROVE OwnAt(p)
    BY DEF OwnInv
  <1>1. pc[p] = "start"
    BY DEF Init
  <1> QED
    BY <1>1 DEF OwnAt, Unapplied, Applied, Owned, Polling

\* A step that leaves the Job, its pods and the objects alone keeps what the command owns.
LEMMA OwnFrame ==
  ASSUME NEW p \in Procs, OwnAt(p), UNCHANGED <<job, pod>>, \A k \in RunKeys : obj'[k] = obj[k],
         pc'[p] = pc[p], got'[p] = got[p], uid'[p] = uid[p]
  PROVE  OwnAt(p)'
  <1>1. /\ \A k \in Artifacts : obj'[k] = obj[k]
        /\ \A k \in Exporters : obj'[k] = obj[k]
        /\ \A k \in Artifacts \cup Up : obj'[k] = obj[k]
        /\ obj'["upload.done"] = obj["upload.done"] /\ obj'["upload.failed"] = obj["upload.failed"]
    BY DEF RunKeys, Up
  <1>2. (NoneAlive => NoneAlive') /\ \A u \in Uids : Alive(u)' = Alive(u)
    BY DEF NoneAlive, Alive
  <1>3. (Live => Live') /\ (DoneIsWhole => DoneIsWhole')
    BY <1>1, <1>2 DEF Live, LiveAt, DoneIsWhole
  <1> QED
    BY <1>1, <1>2, <1>3 DEF OwnAt

\* Of a process that is not at work only what it ended with matters.
LEMMA OwnAtRest ==
  ASSUME NEW p \in Procs, OwnAt(p), pc'[p] = pc[p], got'[p] = got[p], uid'[p] = uid[p], ~Working(p)
  PROVE  OwnAt(p)'
  <1>1. pc[p] \notin Unapplied \cup Applied \cup {"verify", "support", "job", "uid"} \cup Owned
    BY DEF Working, Ended, Unapplied, Applied, Owned, Polling
  <1> QED
    BY <1>1 DEF OwnAt

\* The other processes of a calm history keep what the command owns.
LEMMA OwnBesideOthers ==
  ASSUME BaseInv, OneFront, Calm, Calm', NEW p \in Procs, part[p] = "full", OwnAt(p),
         NEW q \in Procs, q # p, ProcStep(q)
  PROVE  OwnAt(p)'
  <1>1. pc'[p] = pc[p] /\ got'[p] = got[p] /\ uid'[p] = uid[p]
    BY ProcFrame DEF BaseInv
  <1>2. CASE Working(p)
    <2>1. FrontAtWork(p)
      BY <1>2 DEF FrontAtWork, Fronts
    <2> QED
      BY <1>1, <2>1, OthersLeave, OwnFrame
  <1>3. CASE ~Working(p)
    BY <1>1, <1>3, OwnAtRest
  <1> QED
    BY <1>2, <1>3

\* The collector keeps what the submitting command owns.
LEMMA OwnCollected ==
  ASSUME BaseInv, NEW p \in Procs, OwnAt(p), Collects
  PROVE  OwnAt(p)'
  <1>1. UNCHANGED <<pc, got, uid, obj, pod>>
    BY CollectsTypes DEF BaseInv, TypeInv, Collects, JobCollected, SupportCollected, Kube, frontVars
  <1>2. CASE job' = job
    BY <1>1, <1>2, OwnFrame
  <1>3. CASE JobCollected
    <2>1. job.state # "active" /\ job'.uid = 0
      BY <1>3 DEF JobCollected, NoJob
    <2>2. pc[p] \in Applied => NoneAlive
      BY <2>1 DEF OwnAt, Live, LiveAt, NoneAlive
    <2>3. NoneAlive => NoneAlive' /\ Live'
      BY <1>1 DEF NoneAlive, Live, Alive
    <2>4. DoneIsWhole => DoneIsWhole'
      BY <1>1 DEF DoneIsWhole
    <2>5. \A u \in Uids : Alive(u)' = Alive(u)
      BY <1>1 DEF Alive
    <2> QED
      BY <1>1, <2>1, <2>2, <2>3, <2>4, <2>5 DEF OwnAt
  <1> QED
    BY <1>2, <1>3 DEF Collects, SupportCollected

\* What a step of a live pod means for its Job's uploads.
LEMMA LiveStep ==
  ASSUME BaseInv, Live, DoneIsWhole, NEW u \in Uids, PodStep(u)
  PROVE  /\ Live' /\ DoneIsWhole' /\ LiveAt(u)
  <1>0. /\ pod[u] \in PodType /\ pod \in [Uids -> PodType] /\ PodAt(u) /\ LiveAt(u) /\ Alive(u) /\ ObjTypes
        /\ u \in 0..Old /\ u # 0
    BY TypeParts, PodFrame, Numbers DEF BaseInv, TypeInv, PodInv, Live
  <1>1. \A v \in Uids : v # u => ~Alive(v)'
    BY <1>0, PodLeaves DEF Live, LiveAt
  <1> SUFFICES (Alive(u)' => LiveAt(u)') /\ DoneIsWhole'
    BY <1>0, <1>1 DEF Live
  <1>2. \A r : Pod(u, r) => pod'[u] = r
    BY <1>0 DEF Pod
  <1>k. /\ {"upload.done", "upload.failed"} \subseteq Keys /\ Artifacts \subseteq Keys
        /\ "upload.done" \notin Artifacts /\ "upload.failed" \notin Artifacts
    BY DEF Keys, Markers, Artifacts
  <1>3. CASE pod'[u] = Gone /\ obj' = obj
    BY <1>3 DEF Alive, Gone, NoPod, DoneIsWhole
  <1>4. CASE /\ UNCHANGED <<obj, job>>
             /\ \/ pod'[u].up = pod[u].up
                \/ pod[u].up # "exit0" /\ pod'[u].up \in {"test", "look", "failed", "sync", "drain", "exit1"}
             /\ pod[u].up \in {"drain", "exit1"} => pod'[u].up \in {"drain", "exit1"}
    BY <1>0, <1>4 DEF LiveAt, DoneIsWhole
  <1>5. CASE PodStarts(u) \/ Controller(u)
    <2>1. UNCHANGED <<obj, job>> /\ pod'[u].up = pod[u].up
      <3>1. CASE PodStarts(u)
        BY <1>0, <1>2, <3>1 DEF PodStarts, PodType
      <3>2. CASE Controller(u)
        BY <1>0, <1>2, <3>2 DEF Controller, PodType
      <3> QED
        BY <1>5, <3>1, <3>2
    <2> QED
      BY <1>4, <2>1
  <1>6. CASE PrefixPreflight(u)
    <2>1. CASE Pod(u, Gone)
      BY <1>2, <1>3, <1>6, <2>1 DEF PrefixPreflight
    <2>2. CASE Pod(u, [pod[u] EXCEPT !.up = "test", !.ctl = IF faults' = faults THEN "run" ELSE "waiting"]) /\ UNCHANGED job
      <3>1. pod'[u].up = "test" /\ pod[u].up = "preflight" /\ obj' = obj
        BY <1>0, <1>2, <1>6, <2>2 DEF PodType, PrefixPreflight
      <3> QED
        BY <1>4, <2>2, <3>1
    <2> QED
      BY <1>6, <2>1, <2>2 DEF PrefixPreflight
  <1>7. CASE UploaderTests(u) \/ UploaderLooks(u)
    <2>1. pod[u].up \in {"test", "look"} /\ UNCHANGED <<obj, job>>
      BY <1>7 DEF UploaderTests, UploaderLooks
    <2>2. pod'[u].up \in {"test", "look", "failed", "sync"}
      <3>1. CASE UploaderTests(u)
        BY <1>0, <1>2, <3>1 DEF UploaderTests, PodType
      <3>2. CASE UploaderLooks(u)
        BY <1>0, <1>2, <3>2 DEF UploaderLooks, PodType
      <3> QED
        BY <1>7, <3>1, <3>2
    <2> QED
      BY <1>4, <2>1, <2>2
  <1>8. CASE UploadsFailure(u)
    <2>1. CASE pod[u].up = "failed" /\ Pod(u, [pod[u] EXCEPT !.up = "drain"]) /\ Put("upload.failed", u)
      <3>1. pod'[u].up = "drain" /\ job' = job
        BY <1>0, <1>2, <1>8, <2>1 DEF PodType, UploadsFailure
      <3>2. \A k \in Keys : k # "upload.failed" => obj'[k] = obj[k]
        BY <1>0, <1>k, <2>1, ObjPut
      <3>3. obj'["upload.done"] = 0
        BY <1>0, <1>k, <2>1, <3>2 DEF LiveAt
      <3> QED
        BY <1>0, <3>1, <3>3 DEF LiveAt, DoneIsWhole
    <2>2. CASE pod[u].up = "failed" /\ Pod(u, [pod[u] EXCEPT !.up = "drain"]) /\ UNCHANGED obj
      <3>1. pod'[u].up = "drain" /\ job' = job
        BY <1>0, <1>2, <1>8, <2>2 DEF PodType, UploadsFailure
      <3> QED
        BY <1>4, <2>2, <3>1
    <2>3. CASE /\ pod[u].up = "drain" /\ UNCHANGED pod /\ (\E k \in pod[u].have : obj[k] # u)
               /\ Put(First({k \in pod[u].have : obj[k] # u}), u)
      <3> DEFINE k == First({l \in pod[u].have : obj[l] # u})
      <3>1. k \in Artifacts
        BY <1>0, <2>3, FirstIsMember DEF PodType
      <3>2. \A l \in Keys : l # k => obj'[l] = obj[l]
        BY <1>0, <1>k, <2>3, <3>1, ObjPut
      <3>3. obj'["upload.done"] = 0 /\ job' = job
        BY <1>0, <1>k, <1>8, <2>3, <3>1, <3>2 DEF LiveAt, UploadsFailure
      <3> QED
        BY <1>0, <2>3, <3>3 DEF LiveAt, DoneIsWhole
    <2>4. CASE pod[u].up = "drain" /\ UNCHANGED obj /\ Pod(u, [pod[u] EXCEPT !.up = "exit1", !.have = {}])
      <3>1. pod'[u].up = "exit1" /\ job' = job
        BY <1>0, <1>2, <1>8, <2>4 DEF PodType, UploadsFailure
      <3> QED
        BY <1>4, <2>4, <3>1
    <2> QED
      BY <1>8, <2>1, <2>2, <2>3, <2>4 DEF UploadsFailure
  <1>9. CASE UploadsDone(u)
    <2>0. job' = job
      BY <1>9 DEF UploadsDone
    <2>1. CASE /\ pod[u].up = "sync" /\ UNCHANGED pod /\ (\E k \in pod[u].have : obj[k] # u)
               /\ Put(First({k \in pod[u].have : obj[k] # u}), u)
      <3> DEFINE k == First({l \in pod[u].have : obj[l] # u})
      <3>1. k \in Artifacts
        BY <1>0, <2>1, FirstIsMember DEF PodType
      <3>2. \A l \in Keys : l # k => obj'[l] = obj[l]
        BY <1>0, <1>k, <2>1, <3>1, ObjPut
      <3>3. obj'["upload.done"] = 0 /\ obj'["upload.failed"] = 0
        BY <1>0, <1>k, <2>1, <3>1, <3>2 DEF LiveAt
      <3> QED
        BY <1>0, <2>0, <2>1, <3>3 DEF LiveAt, DoneIsWhole
    <2>2. CASE /\ pod[u].up = "sync" /\ (\A k \in pod[u].have : obj[k] = u) /\ UNCHANGED obj
               /\ Pod(u, [pod[u] EXCEPT !.up = "done"])
      <3>1. pod'[u].up = "done" /\ pod[u].have = Artifacts
        BY <1>0, <1>2, <2>2 DEF PodType, PodAt
      <3> QED
        BY <1>0, <2>0, <2>2, <3>1 DEF LiveAt, DoneIsWhole
    <2>3. CASE pod[u].up = "done" /\ Put("upload.done", u) /\ Pod(u, [pod[u] EXCEPT !.up = "exit0"])
      <3>1. pod'[u].up = "exit0"
        BY <1>0, <1>2, <2>3 DEF PodType
      <3>2. obj'["upload.done"] = u /\ \A l \in Keys : l # "upload.done" => obj'[l] = obj[l]
        BY <1>0, <1>k, <2>3, ObjPut
      <3>3. obj'["upload.failed"] = 0 /\ \A k \in Artifacts : obj'[k] = u
        BY <1>0, <1>k, <2>3, <3>2 DEF LiveAt
      <3> QED
        BY <1>0, <2>0, <3>1, <3>2, <3>3 DEF LiveAt, DoneIsWhole
    <2>4. CASE pod[u].up \in {"sync", "done"} /\ UNCHANGED obj /\ Pod(u, [pod[u] EXCEPT !.up = "exit1"])
      <3>1. pod'[u].up = "exit1"
        BY <1>0, <1>2, <2>4 DEF PodType
      <3> QED
        BY <1>4, <2>0, <2>4, <3>1
    <2> QED
      BY <1>9, <2>1, <2>2, <2>3, <2>4 DEF UploadsDone
  <1>10. CASE PodEnds(u) \/ PodKilled(u)
    BY <1>2, <1>3, <1>10 DEF PodEnds, PodKilled
  <1> QED
    BY <1>5, <1>6, <1>7, <1>8, <1>9, <1>10 DEF PodStep, PodSteps

\* The steps of its own pod keep what the submitting command owns.
LEMMA OwnPodStep ==
  ASSUME BaseInv, NEW p \in Procs, OwnAt(p), NEW u \in Uids, PodStep(u)
  PROVE  OwnAt(p)'
  <1>0. /\ UNCHANGED <<pc, got, uid>> /\ Alive(u) /\ job'.uid = job.uid
        /\ \A k \in Exporters : obj'[k] = obj[k]
        /\ \A k \in Artifacts \cup Up : obj'[k] \in {obj[k], u}
        /\ \A v \in Uids : Alive(v)' => Alive(v)
    <2>1. /\ \A k \in Exporters : k \in Keys \ (Artifacts \cup Up)
          /\ \A k \in Artifacts \cup Up : k \in Keys
      BY DEF Keys, Exporters, Artifacts, Up, Markers
    <2> QED
      BY <2>1, PodLeaves, PodFrame DEF BaseInv
  <1>1. pc[p] \notin Unapplied
    BY <1>0 DEF OwnAt, NoneAlive
  <1>2. CASE pc[p] \in Applied
    <2>1. Live' /\ DoneIsWhole' /\ job.uid = u
      BY <1>2, LiveStep DEF OwnAt, LiveAt
    <2>2. pc[p] = "uid" => \A k \in Artifacts \cup Up : obj'[k] # 0 => job'.uid \in {0, obj'[k]}
      BY <1>0, <2>1 DEF OwnAt
    <2>3. pc[p] \in Owned =>
            /\ \A v \in Uids : Alive(v)' => v = uid[p]
            /\ \A k \in Artifacts \cup Up : obj'[k] \in {0, uid[p]}
      BY <1>0 DEF OwnAt
    <2>4. \A k \in Exporters : obj'[k] = p
      BY <1>0, <1>2 DEF OwnAt
    <2>5. pc'[p] = pc[p] /\ uid'[p] = uid[p] /\ pc[p] \notin Unapplied \cup {"ok"}
      BY <1>0, <1>1, <1>2 DEF Applied, Owned, Polling
    <2> QED
      BY <2>1, <2>2, <2>3, <2>4, <2>5 DEF OwnAt
  <1>3. CASE pc[p] \notin Applied
    <2>1. pc'[p] \notin Unapplied \cup Applied \cup Owned \cup {"verify", "support", "job", "uid"}
      BY <1>0, <1>1, <1>3 DEF Unapplied, Applied
    <2> QED
      BY <1>0, <2>1 DEF OwnAt
  <1> QED
    BY <1>2, <1>3

\* The pure moves of the submitting command keep it.
LEMMA OwnPure ==
  ASSUME BaseInv, StagedInv, VersionInv, Calm, NEW p \in Procs, part[p] = "full", OwnAt(p), Pure(p)
  PROVE  OwnAt(p)'
  <1>0. UNCHANGED <<obj, job, pod, uid, got>> /\ RoleAt(p) /\ part' = part
    BY DEF Pure, kubeVars, frontVars, procVars, BaseInv, RoleInv
  <1>1. /\ (NoneAlive => NoneAlive') /\ (Live => Live') /\ (DoneIsWhole => DoneIsWhole')
        /\ \A u \in Uids : Alive(u)' = Alive(u)
    BY <1>0 DEF NoneAlive, Live, LiveAt, DoneIsWhole, Alive
  <1>2. CASE pc[p] = "empty" /\ pc'[p] = "stage" /\ \A k \in Keys : obj[k] = 0
    <2>1. Artifacts \cup Up \subseteq Keys /\ "worker.py" \in Exporters /\ "worker.py" \in Keys
      BY DEF Keys, Artifacts, Up, Markers, Exporters
    <2>2. NoneAlive
      BY <1>2, <2>1 DEF NoneAlive, StagedInv, Calm
    <2> QED
      BY <1>0, <1>1, <1>2, <2>1, <2>2 DEF OwnAt, Applied, Owned, Polling
  <1>3. CASE pc[p] = "stage" /\ pc'[p] = "verify" /\ \A k \in Exporters : got[p][k] = p
    <2>1. \A k \in Exporters : obj[k] = p
      BY <1>3, Numbers DEF VersionInv, VersionAt
    <2>2. NoneAlive /\ \A k \in Artifacts \cup Up : obj[k] = 0
      BY <1>3 DEF OwnAt, Unapplied
    <2> QED
      BY <1>0, <1>1, <1>3, <2>1, <2>2 DEF OwnAt, Applied, Owned, Polling
  <1>4. CASE pc[p] \in Polling /\ pc'[p] \in Polling
    <2>1. pc[p] \in Owned /\ pc[p] \in Applied /\ pc'[p] \in Owned /\ pc'[p] \in Applied
          /\ pc'[p] \notin Unapplied \cup {"uid", "ok"}
      BY <1>4 DEF Owned, Applied, Polling, Unapplied
    <2> QED
      BY <1>0, <1>1, <2>1 DEF OwnAt
  <1>5. CASE pc'[p] \notin Unapplied \cup Applied \cup {"ok"}
    BY <1>5 DEF OwnAt, Unapplied, Applied
  <1> QED
    BY <1>0, <1>2, <1>3, <1>4, <1>5 DEF Pure, Seen, Polling, Unapplied, Applied, Owned, RoleAt, FrontOnly

\* The submissions of the submitting command keep it.
LEMMA OwnFrontStep ==
  ASSUME BaseInv, NEW p \in Procs, part[p] = "full", OwnAt(p), FrontStep(p)
  PROVE  OwnAt(p)'
  <1>0. /\ pc \in [Procs -> Labels] /\ ObjTypes /\ RoleAt(p) /\ job \in JobType /\ pod \in [Uids -> PodType]
        /\ uid \in [Procs -> 0..MaxUid] /\ got \in [Procs -> [Keys -> 0..Old]]
    BY TypeParts DEF BaseInv, RoleInv, TypeInv, KubeTypes, FrontTypes, ObjTypes
  <1>g. \A label \in Labels : GoTo(p, label) => pc'[p] = label
    BY <1>0 DEF GoTo
  <1>k. /\ \A k \in Artifacts \cup Up : k \in Keys /\ k \notin Exporters
        /\ Exporters \subseteq Keys
    BY DEF Keys, Artifacts, Up, Markers, Exporters
  <1>n. pc'[p] \notin Unapplied \cup Applied \cup {"ok"} => OwnAt(p)'
    BY DEF OwnAt, Unapplied, Applied
  <1>s. UNCHANGED pod => (NoneAlive => NoneAlive') /\ \A u \in Uids : Alive(u)' = Alive(u)
    BY DEF NoneAlive, Alive
  <1>t. UNCHANGED <<obj, job, pod>> => (Live => Live') /\ (DoneIsWhole => DoneIsWhole')
    BY DEF Live, LiveAt, DoneIsWhole, Alive
  <1>1. CASE FrontStarts(p) \/ FrontDies(p) \/ RollBackJob(p) \/ RollBackSupport(p) \/ GiveUp(p)
    <2>1. pc'[p] \in {"failed", "s3", "dead", "undo2"}
      BY <1>1, <1>g DEF FrontStarts, FrontDies, RollBackJob, RollBackSupport, GiveUp, DeleteJob, Labels
    <2> QED
      BY <1>n, <2>1 DEF Unapplied, Applied, Owned, Polling
  <1>2. CASE StageFile(p)
    <2>1. PICK k \in Exporters : Put(k, p) \/ UNCHANGED obj
      BY <1>2, StageFileMoves
    <2>2. p \in 0..Old /\ k \in Keys
      BY <1>k, Numbers
    <2>3. \A l \in Artifacts \cup Up : obj'[l] = obj[l]
      BY <1>0, <1>k, <2>1, <2>2, ObjPut
    <2>4. pc[p] = "stage" /\ pc'[p] = "stage" /\ UNCHANGED pod
      BY <1>2 DEF StageFile, At, kubeVars
    <2> QED
      BY <1>s, <2>3, <2>4 DEF OwnAt, Unapplied, Applied, Owned, Polling
  <1>3. CASE StagedVerified(p) \/ ApplySupport(p)
    <2>1. /\ pc[p] \in {"verify", "support"} /\ pc'[p] \in {"support", "job", "failed", "undo"}
          /\ UNCHANGED <<obj, job, pod>>
      BY <1>3, <1>g DEF StagedVerified, ApplySupport, At, Labels, kubeVars
    <2>2. /\ NoneAlive /\ (\A k \in Artifacts \cup Up : obj[k] = 0) /\ \A k \in Exporters : obj[k] = p
      BY <2>1 DEF OwnAt, Unapplied
    <2> QED
      BY <1>n, <1>s, <2>1, <2>2 DEF OwnAt, Unapplied, Applied, Owned, Polling
  <1>4. CASE ApplyJob(p)
    <2>1. /\ pc[p] = "job" /\ pc'[p] \in {"uid", "undo"} /\ obj' = obj
          /\ UNCHANGED <<job, pod>> \/ \E u \in Uids :
               /\ job' = [uid |-> u, spec |-> JobSpec(p), state |-> "active"]
               /\ pod' = [pod EXCEPT ![u].phase = "pending", ![u].up = "preflight"]
      BY <1>4, <1>g DEF ApplyJob, At, Labels
    <2>2. /\ NoneAlive /\ (\A k \in Artifacts \cup Up : obj[k] = 0) /\ \A k \in Exporters : obj[k] = p
      BY <2>1 DEF OwnAt, Unapplied
    <2>3. DoneIsWhole'
      BY <2>1, <2>2 DEF DoneIsWhole, Up
    <2>4. Live'
      <3>1. CASE UNCHANGED <<job, pod>>
        BY <2>2, <3>1 DEF Live, NoneAlive, Alive
      <3>2. ASSUME NEW u \in Uids, job' = [uid |-> u, spec |-> JobSpec(p), state |-> "active"],
                   pod' = [pod EXCEPT ![u].phase = "pending", ![u].up = "preflight"]
            PROVE  Live'
        <4>1. pod'[u].up = "preflight" /\ \A v \in Uids : v # u => ~Alive(v)'
          BY <1>0, <2>2, <3>2 DEF NoneAlive, Alive, PodType
        <4>2. job'.uid = u /\ job'.state = "active" /\ obj'["upload.done"] = 0 /\ obj'["upload.failed"] = 0
          BY <2>1, <2>2, <3>2 DEF Up
        <4> QED
          BY <4>1, <4>2 DEF Live, LiveAt
      <3> QED
        BY <2>1, <3>1, <3>2
    <2> QED
      BY <1>n, <2>1, <2>2, <2>3, <2>4 DEF OwnAt, Unapplied, Applied, Owned, Polling
  <1>5. CASE ReadUid(p)
    <2>1. /\ pc[p] = "uid" /\ UNCHANGED <<obj, job, pod>>
          /\ pc'[p] = "undo" \/ (pc'[p] = "patch" /\ job.uid # 0 /\ uid'[p] = job.uid)
      BY <1>0, <1>5, <1>g DEF ReadUid, At, Labels, kubeVars
    <2>2. CASE pc'[p] = "undo"
      BY <1>n, <2>2 DEF Unapplied, Applied, Owned, Polling
    <2>3. CASE pc'[p] = "patch" /\ job.uid # 0 /\ uid'[p] = job.uid
      <3>1. Live /\ DoneIsWhole /\ (\A k \in Exporters : obj[k] = p)
            /\ \A k \in Artifacts \cup Up : obj[k] # 0 => job.uid \in {0, obj[k]}
        BY <2>1 DEF OwnAt, Applied
      <3>2. \A u \in Uids : Alive(u)' => u = uid'[p]
        BY <1>s, <2>1, <2>3, <3>1 DEF Live, LiveAt
      <3>3. \A k \in Artifacts \cup Up : obj'[k] \in {0, uid'[p]}
        BY <2>1, <2>3, <3>1
      <3> QED
        BY <1>t, <2>1, <2>3, <3>1, <3>2, <3>3 DEF OwnAt, Unapplied, Applied, Owned, Polling
    <2> QED
      BY <2>1, <2>2, <2>3
  <1>6. CASE (\E k \in SupportKinds : PatchOwner(p, k)) \/ Verdict(p)
    <2>1. /\ pc[p] \in Owned /\ pc'[p] \in Owned \cup {"undo"} /\ UNCHANGED <<obj, job, pod, uid>>
      <3>1. CASE \E k \in SupportKinds : PatchOwner(p, k)
        <4>1. PICK k \in SupportKinds : PatchOwner(p, k)
          BY <3>1
        <4>2. (CASE k = "configmap" -> "patch2" [] k # "configmap" /\ part[p] = "emulate" -> "ok"
                 [] OTHER -> "pollFailed") \in {"patch2", "pollFailed"}
          OBVIOUS
        <4> QED
          BY <1>g, <4>1, <4>2 DEF PatchOwner, At, Labels, Owned, Polling, frontVars
      <3>2. CASE Verdict(p)
        BY <1>g, <3>2 DEF Verdict, At, Labels, Owned, Polling, kubeVars
      <3> QED
        BY <1>6, <3>1, <3>2
    <2>2. /\ Live /\ DoneIsWhole /\ (\A k \in Exporters : obj[k] = p)
          /\ (\A u \in Uids : Alive(u) => u = uid[p]) /\ \A k \in Artifacts \cup Up : obj[k] \in {0, uid[p]}
      BY <2>1 DEF OwnAt, Applied
    <2> QED
      BY <1>n, <1>s, <1>t, <2>1, <2>2 DEF OwnAt, Unapplied, Applied, Owned, Polling
  <1>7. CASE PollSucceeds(p)
    <2>1. /\ pc[p] = "pollDone" /\ pc'[p] = "ok" /\ obj["upload.done"] # 0 /\ uid' = uid
          /\ \A k \in Exporters \cup Artifacts : got'[p][k] = obj[k]
      <3>1. Exporters \cup Artifacts \subseteq Keys
        BY <1>k
      <3> QED
        BY <1>0, <1>7, <1>g, <3>1 DEF PollSucceeds, At, Labels, frontVars
    <2>2. /\ DoneIsWhole /\ (\A k \in Exporters : obj[k] = p) /\ \A k \in Artifacts \cup Up : obj[k] \in {0, uid[p]}
      BY <2>1 DEF OwnAt, Applied, Owned, Polling
    <2>3. \A k \in Artifacts : obj[k] = uid[p]
      BY <2>1, <2>2 DEF DoneIsWhole, Up
    <2> QED
      BY <2>1, <2>2, <2>3 DEF OwnAt, Unapplied, Applied, Owned, Polling
  <1> QED
    BY <1>1, <1>2, <1>3, <1>4, <1>5, <1>6, <1>7 DEF FrontStep

\* In a calm history every step keeps what the command owns.
LEMMA OwnNext ==
  ASSUME BaseInv, OneFront, StagedInv, VersionInv, OwnInv, [Next]_vars
  PROVE  OwnInv'
  <1>0. part' = part
    <2>1. \A p \in Procs : ProcStep(p) => part' = part
      BY ProcFrame DEF BaseInv, procVars
    <2>2. \A u \in Uids : PodStep(u) => part' = part
      BY PodLeaves
    <2>3. Collects => part' = part
      BY DEF Collects, JobCollected, SupportCollected, Kube, procVars
    <2>4. UNCHANGED vars => part' = part
      BY DEF vars, procVars
    <2> QED
      BY <2>1, <2>2, <2>3, <2>4, Steps
  <1> SUFFICES ASSUME Calm', NEW p \in Procs, part[p] = "full" PROVE OwnAt(p)'
    BY <1>0 DEF OwnInv
  <1>1. Calm /\ OwnAt(p)
    BY CalmBefore DEF OwnInv
  <1>2. ASSUME NEW q \in Procs, ProcStep(q), q # p PROVE OwnAt(p)'
    BY <1>1, <1>2, OwnBesideOthers
  <1>3. ASSUME ProcStep(p) PROVE OwnAt(p)'
    <2>1. ~CleanStep(p) /\ ~ReportWrites(p) /\ ~DownloadStep(p)
      BY DEF CleanStep, CleanExpands, CleanDeletes, ReportWrites, Reports, DownloadStep, DownloadChecksDone, SyncsJson,
         SyncsMarkdown, SetAside, Replace, RestoreOld, DiscardOld, At, DownloadOnly, BaseInv, RoleInv, RoleAt
    <2> QED
      BY <1>1, <1>3, <2>1, OwnPure, OwnFrontStep DEF ProcStep
  <1>4. ASSUME NEW u \in Uids, PodStep(u) PROVE OwnAt(p)'
    BY <1>1, <1>4, OwnPodStep
  <1>5. CASE Collects
    BY <1>1, <1>5, OwnCollected
  <1>6. CASE UNCHANGED vars
    BY <1>1, <1>6, OwnFrame DEF vars, kubeVars, frontVars
  <1> QED
    BY <1>2, <1>3, <1>4, <1>5, <1>6, Steps

-----------------------------------------------------------------------------
(***************************************************************************)
(* The grace round: when the probe has found the Job ended, no pod is left *)
(* to write a marker that the last round would miss.                       *)
(***************************************************************************)
GraceAt(p) ==
    /\ part[p] \in Fronts /\ pc[p] \notin Polling \cup Ended \cup {"undo", "undo2"} => ~grace[p]
    /\ faults = 0 /\ grace[p] /\ pc[p] \in Polling =>
        /\ NoneAlive
        /\ pc[p] \in {"probe", "giveUp"} => obj["upload.done"] = 0
GraceInv == Calm => \A p \in Procs : GraceAt(p)

\* No grace period runs at the start.
LEMMA GraceInit == Init => GraceInv
  BY DEF Init, GraceInv, GraceAt

\* A step that leaves the pods and the Job alone keeps the grace periods.
LEMMA GraceFrame ==
  ASSUME NEW p \in Procs, GraceAt(p), UNCHANGED part, pc'[p] = pc[p], grace'[p] = grace[p],
         faults \in Nat, faults' \in Nat, faults' >= faults,
         pc[p] \in Polling /\ NoneAlive => NoneAlive' /\ obj'["upload.done"] = obj["upload.done"]
  PROVE  GraceAt(p)'
  <1>1. faults' = 0 => faults = 0
    OBVIOUS
  <1> QED
    BY <1>1 DEF GraceAt

\* The moves of a front end that keep what it found.
LEMMA GraceOwn ==
  ASSUME BaseInv, Calm, OwnInv, NEW p \in Procs, GraceAt(p), ProcStep(p), part[p] \in Fronts,
         faults \in Nat, faults' \in Nat, faults' >= faults
  PROVE  GraceAt(p)'
  <1>0. /\ pc \in [Procs -> Labels] /\ grace \in [Procs -> BOOLEAN] /\ RoleAt(p) /\ part' = part
        /\ job \in JobType
    BY ProcFrame, TypeParts DEF BaseInv, RoleInv, TypeInv, FrontTypes, KubeTypes, procVars
  <1>g. \A label \in Labels : GoTo(p, label) => pc'[p] = label
    BY <1>0 DEF GoTo
  <1>f. faults' = 0 => faults = 0
    OBVIOUS
  <1>o. pc[p] \in Polling => Live /\ DoneIsWhole
    <2>1. pc[p] \in Polling => part[p] = "full"
      BY <1>0 DEF RoleAt, Polling
    <2> QED
      BY <2>1 DEF OwnInv, OwnAt, Applied, Owned
  <1>1. CASE Pure(p)
    <2>1. UNCHANGED <<grace, obj, pod>>
      BY <1>1 DEF Pure, frontVars, kubeVars
    <2>2. NoneAlive => NoneAlive'
      BY <2>1 DEF NoneAlive, Alive
    <2>3. CASE pc[p] \in Polling
      <3>1. CASE pc[p] = "pollFailed" /\ pc'[p] = "giveUp" /\ (obj["upload.failed"] # 0 \/ faults' # 0)
        BY <1>f, <1>o, <2>1, <2>2, <2>3, <3>1 DEF GraceAt, DoneIsWhole, Polling
      <3>2. CASE pc[p] = "pollFailed" /\ pc'[p] = "pollDone"
        BY <1>f, <2>1, <2>2, <3>2 DEF GraceAt, Polling
      <3>3. CASE pc[p] = "pollDone" /\ pc'[p] = "probe" /\ obj["upload.done"] = 0
        BY <1>f, <2>1, <2>2, <3>3 DEF GraceAt, Polling
      <3>4. CASE pc[p] = "pollDone" /\ pc'[p] = "giveUp" /\ faults' # 0
        BY <3>4 DEF GraceAt, Polling
      <3>5. CASE pc[p] = "probe" /\ pc'[p] = "giveUp"
        BY <1>f, <2>1, <2>2, <3>5 DEF GraceAt, Polling
      <3>6. pc'[p] \notin {"failed", "dead"}
        BY <1>1, <1>0, <2>3 DEF Pure, Seen, Polling, Fronts
      <3> QED
        BY <1>1, <2>3, <3>1, <3>2, <3>3, <3>4, <3>5, <3>6 DEF Pure, Seen, Polling
    <2>4. CASE pc[p] \notin Polling
      <3>1. pc[p] \notin {"undo", "undo2"} \cup Ended
        BY <1>0, <1>1 DEF Pure, Seen, Ended, Fronts, RoleAt, FrontOnly, DownloadOnly
      <3>2. ~grace'[p]
        BY <1>0, <2>1, <2>4, <3>1 DEF GraceAt
      <3> QED
        BY <3>2 DEF GraceAt
    <2> QED
      BY <2>3, <2>4
  <1>2. CASE FrontStarts(p) \/ StageFile(p) \/ StagedVerified(p) \/ ApplySupport(p) \/ ApplyJob(p) \/ ReadUid(p)
    <2>1. /\ grace' = grace /\ pc[p] \notin Polling \cup Ended \cup {"undo", "undo2"}
      BY <1>2 DEF FrontStarts, StageFile, StagedVerified, ApplySupport, ApplyJob, ReadUid, frontVars, At, Polling, Ended
    <2>2. ~grace'[p]
      BY <1>0, <2>1 DEF GraceAt
    <2> QED
      BY <2>2 DEF GraceAt
  <1>3. CASE \E k \in SupportKinds : PatchOwner(p, k)
    <2>1. /\ grace' = grace /\ pc[p] \notin Polling \cup Ended \cup {"undo", "undo2"}
      BY <1>3 DEF PatchOwner, frontVars, At, Polling, Ended
    <2>2. ~grace'[p]
      BY <1>0, <2>1 DEF GraceAt
    <2> QED
      BY <2>2 DEF GraceAt
  <1>4. CASE RollBackJob(p) \/ RollBackSupport(p) \/ PollSucceeds(p) \/ GiveUp(p) \/ FrontDies(p)
    <2>1. pc'[p] \in Ended \cup {"undo2"}
      BY <1>4, <1>g DEF RollBackJob, RollBackSupport, PollSucceeds, GiveUp, FrontDies, DeleteJob, Labels, Ended
    <2>2. pc'[p] \notin Polling
      BY <2>1 DEF Ended, Polling
    <2> QED
      BY <2>1, <2>2 DEF GraceAt
  <1>5. CASE Verdict(p)
    <2>0. pc[p] = "probe" /\ UNCHANGED <<obj, pod, job>> /\ pc[p] \in Polling
      BY <1>5 DEF Verdict, At, kubeVars, Polling
    <2>1. (NoneAlive => NoneAlive')
      BY <2>0 DEF NoneAlive, Alive
    <2>2. CASE grace[p] /\ GoTo(p, "giveUp") /\ UNCHANGED <<seen, grace>>
      <3>1. pc'[p] = "giveUp" /\ grace' = grace
        BY <1>g, <2>2 DEF Labels
      <3> QED
        BY <1>f, <2>0, <2>1, <3>1 DEF GraceAt, Polling
    <2>3. CASE ~grace[p] /\ GoTo(p, "pollFailed") /\ grace' = [grace EXCEPT ![p] = (Probe(p) = "terminal")]
      <3>1. pc'[p] = "pollFailed" /\ (grace'[p] <=> Probe(p) = "terminal")
        BY <1>0, <1>g, <2>3 DEF Labels
      <3>2. ASSUME Probe(p) = "terminal", faults = 0, NEW u \in Uids, Alive(u) PROVE FALSE
        <4>1. job.uid = u /\ job.state = "active" /\ u # 0
          BY <1>o, <2>0, <3>2, Numbers DEF Live, LiveAt
        <4>2. pod[u].phase # "stuck" /\ pod[u].ctl # "waiting"
          BY <3>2 DEF BaseInv, TypeInv, PodInv, PodAt
        <4>3. Probe(p) \in {"running", "queued"}
          BY <4>1, <4>2 DEF Probe
        <4> QED
          BY <3>2, <4>3
      <3>3. faults' = 0 /\ grace'[p] => NoneAlive'
        BY <1>f, <2>1, <3>1, <3>2 DEF NoneAlive
      <3> QED
        BY <3>1, <3>3 DEF GraceAt, Polling
    <2>4. CASE ~grace[p] /\ GoTo(p, "pollFailed") /\ UNCHANGED <<seen, grace>>
      <3>1. ~grace'[p]
        BY <2>4
      <3> QED
        BY <3>1 DEF GraceAt
    <2> QED
      BY <1>5, <2>2, <2>3, <2>4 DEF Verdict
  <1>6. ~CleanStep(p) /\ ~ReportWrites(p) /\ ~DownloadStep(p)
    BY <1>0 DEF CleanStep, CleanExpands, CleanDeletes, ReportWrites, Reports, DownloadStep, DownloadChecksDone, SyncsJson,
       SyncsMarkdown, SetAside, Replace, RestoreOld, DiscardOld, At, DownloadOnly, RoleAt, Fronts
  <1> QED
    BY <1>1, <1>2, <1>3, <1>4, <1>5, <1>6 DEF ProcStep, FrontStep

\* Every step keeps the grace periods.
LEMMA GraceNext ==
  ASSUME BaseInv, OneFront, OwnInv, GraceInv, [Next]_vars
  PROVE  GraceInv'
  <1> SUFFICES ASSUME Calm', NEW p \in Procs PROVE GraceAt(p)'
    BY DEF GraceInv
  <1>0. Calm /\ GraceAt(p) /\ faults \in Nat /\ faults' \in Nat /\ faults' >= faults
    BY CalmBefore, OverlapStays DEF GraceInv
  <1>k. "upload.done" \in RunKeys
    BY DEF RunKeys, Up
  <1>1. ASSUME NEW q \in Procs, ProcStep(q), q # p PROVE GraceAt(p)'
    <2>1. part' = part /\ pc'[p] = pc[p] /\ grace'[p] = grace[p]
      BY <1>1, ProcFrame DEF BaseInv, procVars
    <2>2. CASE pc[p] \in Polling
      <3>1. FrontAtWork(p)
        BY <2>2 DEF Polling, BaseInv, RoleInv, RoleAt, FrontAtWork, Working, Ended, Fronts
      <3>2. pod' = pod /\ obj'["upload.done"] = obj["upload.done"]
        BY <1>0, <1>1, <1>k, <3>1, OthersLeave
      <3> QED
        BY <1>0, <2>1, <3>2, GraceFrame DEF NoneAlive, Alive
    <2>3. CASE pc[p] \notin Polling
      BY <1>0, <2>1, <2>3, GraceFrame
    <2> QED
      BY <2>2, <2>3
  <1>2. ASSUME ProcStep(p) PROVE GraceAt(p)'
    <2>1. CASE part[p] \in Fronts
      BY <1>0, <1>2, <2>1, GraceOwn
    <2>2. CASE part[p] \notin Fronts
      <3>1. part'[p] = part[p] /\ RoleAt(p)'
        BY <1>2, ProcFrame, BaseNext DEF BaseInv, RoleInv, procVars
      <3>2. pc'[p] \notin Polling
        BY <2>2, <3>1 DEF RoleAt, Polling, Fronts
      <3> QED
        BY <2>2, <3>1, <3>2 DEF GraceAt
    <2> QED
      BY <2>1, <2>2
  <1>3. ASSUME NEW u \in Uids, PodStep(u) PROVE GraceAt(p)'
    <2>1. UNCHANGED <<pc, part, grace>> /\ Alive(u)
      BY <1>3, PodLeaves, PodFrame DEF BaseInv
    <2>2. ~NoneAlive
      BY <2>1 DEF NoneAlive
    <2> QED
      BY <1>0, <2>1, <2>2, GraceFrame
  <1>4. CASE UNCHANGED <<pc, part, grace, pod, obj>>
    BY <1>0, <1>4, GraceFrame DEF NoneAlive, Alive
  <1>5. Collects => UNCHANGED <<pc, part, grace, pod, obj>>
    BY CollectsTypes DEF BaseInv, TypeInv, Collects, JobCollected, SupportCollected, Kube, procVars, frontVars
  <1>6. UNCHANGED vars => UNCHANGED <<pc, part, grace, pod, obj>>
    BY DEF vars, procVars, kubeVars, frontVars
  <1> QED
    BY <1>1, <1>2, <1>3, <1>4, <1>5, <1>6, Steps

\* At most one command submits at the start.
LEMMA OneFrontInit == Init => OneFront
  BY DEF Init, OneFront, FrontAtWork, Working, Ended

RunInv == BaseInv /\ OneFront /\ StagedInv /\ VersionInv /\ OwnInv /\ GraceInv

\* What a front end calls its run is its own, whoever used the prefix before: the artifacts of
\* its own Job, the exporters it resumes with of one checkout, and a wait that is given up
\* because the Job ended has missed no marker.
THEOREM RunsAreOwn == RunSpec => []RunIsOwn
  <1>1. RunInv => RunIsOwn
    <2>1. RunInv => OkIsOwn
      BY DEF RunInv, OwnInv, OwnAt, Calm, OkIsOwn
    <2>2. RunInv => OneExporterVersion
      BY DEF RunInv, VersionInv, VersionAt, Calm, OneExporterVersion
    <2>3. RunInv => GraceSeesDone
      BY DEF RunInv, GraceInv, GraceAt, Calm, GraceSeesDone, At, Polling
    <2> QED
      BY <2>1, <2>2, <2>3 DEF RunIsOwn
  <1>2. Init => RunInv
    BY BaseInit, OneFrontInit, StagedInit, VersionInit, OwnInit, GraceInit DEF RunInv
  <1>3. RunInv /\ [Next]_vars => RunInv'
    BY BaseNext, OneFrontNext, StagedNext, VersionNext, OwnNext, GraceNext DEF RunInv
  <1> QED
    BY <1>1, <1>2, <1>3, PTL DEF RunSpec
=============================================================================
