------------------------------ MODULE RunPrefix ------------------------------
(***************************************************************************)
(* One run id: its S3 prefix, its Kubernetes Job, and the commands that    *)
(* meet there. A front end stages the exporters, applies the Job and waits *)
(* for the upload marker; the Job's pod runs the emulation and uploads it; *)
(* a resumed run stages exporters if there are none; clean-s3 deletes the  *)
(* prefix; a report job publishes a report and download-report fetches it. *)
(*                                                                         *)
(* Init deals each process its part, so one run covers several casts.      *)
(* kubectl and s5cmd may fail and processes may be killed, at most         *)
(* MaxFaults times; Kubernetes is modelled from what kubernetes.py relies  *)
(* on: a Job runs one pod, ends at its deadline, is collected after its    *)
(* TTL, and takes the objects it owns with it; a deleted Job's pod may     *)
(* finish its upload before it is killed.                                  *)
(***************************************************************************)
EXTENDS Integers, FiniteSets

CONSTANTS
    Procs,       \* 1..n; a process's number also names what it writes
    Casts,       \* the casts: part[p] for each process; apart: the front ends have different runs
                 \* roots; alike: they render the same Job; room: the cluster can start pods;
                 \* before: an earlier run of this run id is complete and its Job not yet collected
    MaxUid,      \* bound on the Jobs created
    Rounds,      \* EMULATION_TIMEOUT_SECONDS, in rounds of the uploader's loop
    MaxFaults    \* bound on failed calls and killed processes

Parts == {"full", "emulate", "resume", "clean", "report", "download", "idle"}
Fronts == {"full", "emulate", "resume"}

ASSUME PrefixAssumption ==
    /\ IsFiniteSet(Procs) /\ Procs = 1..Cardinality(Procs)
    /\ Casts \subseteq [part : [Procs -> Parts], apart : BOOLEAN, alike : BOOLEAN, room : BOOLEAN,
                        before : BOOLEAN]
    /\ MaxUid \in Nat \ {0} /\ Rounds \in Nat /\ MaxFaults \in Nat

Uids == 1..MaxUid
\* The objects of the prefix; REQUIRED_EXPORTERS stands for two files, the artifacts for two.
\* s5cmd transfers several files at once: one order is as good as another, so First fixes it.
Exporters == {"worker.py", "unified_report.py"}
Artifacts == {"blocks", "wallets"}
Report == {"json", "markdown"}
Markers == {"upload.done", "upload.failed", "report.done", "report.failed"}
Keys == Exporters \cup Artifacts \cup Report \cup Markers
SupportKinds == {"configmap", "role"}   \* two of S3_JOB_OWNED_RESOURCE_TYPES
Absent == -1                            \* a support object that does not exist; 0: without an owner
Old == 1 + MaxUid + Cardinality(Procs)  \* the report an earlier download left
NoDir == [k \in Report |-> 0]

First(S) == CHOOSE k \in S : TRUE

VARIABLES
    part, apart, alike, room,
    pc,
    obj,         \* obj[k]: who wrote the object, 0 when there is none
    job,         \* the Job of this run id: uid (0: none), spec, state
    support,     \* support[k]: Absent, 0 or the owning Job's uid
    pod,         \* pod[u]: the pod of Job u
    uid,         \* uid[p]: the Job the front end owns
    seen,        \* seen[p]: its probe has found the Job
    grace,       \* grace[p]: terminal_seen
    got,         \* got[p]: what the process found, or downloaded
    out,         \* the local report directory
    aside,       \* aside[p]: its .previous- directory
    faults,
    overlap,     \* history: two front ends worked at once
    swept,       \* history: clean-s3 was between its listing and its end while others were at work
    slipped,     \* history: a front end was killed or a deletion failed
    had,         \* history: there has been a report in the output directory
    disturbed    \* disturbed[p]: history: the report changed while p read it

vars == <<part, apart, alike, room, pc, obj, job, support, pod, uid, seen, grace, got, out, aside, faults,
          overlap, swept, slipped, had, disturbed>>
procVars == <<part, apart, alike, room>>
kubeVars == <<job, support, pod>>
frontVars == <<uid, seen, grace>>
localVars == <<out, aside>>
history == <<overlap, swept, slipped, had, disturbed>>

NoJob == [uid |-> 0, spec |-> 0, state |-> "active"]
NoPod == [phase |-> "none", ctl |-> "run", marker |-> "none", left |-> Rounds, up |-> "test", have |-> {}]
Gone == [NoPod EXCEPT !.phase = "ended"]
\* The Job process p renders; 0 is the front end of an earlier run.
JobSpec(p) == IF alike THEN 0 ELSE p
Labels == {"start", "s3", "kube", "empty", "stage", "verify", "support", "job", "uid", "patch", "patch2", "undo", "undo2",
           "pollFailed", "pollDone", "probe", "giveUp", "list", "delete", "clear", "clear2", "publish", "mark",
           "markFailed", "validate", "check", "check2", "sync", "whole", "move", "replace", "restore", "discard",
           "ok", "failed", "dead"}
Ended == {"ok", "failed", "dead"}

\* The state holds what S3, the cluster and the processes can hold.
TypeOK ==
    /\ part \in [Procs -> Parts] /\ pc \in [Procs -> Labels] /\ apart \in BOOLEAN /\ alike \in BOOLEAN /\ room \in BOOLEAN
    /\ obj \in [Keys -> 0..Old]
    /\ job \in [uid : 0..MaxUid, spec : {0} \cup Procs, state : {"active", "complete", "failed"}]
    /\ support \in [SupportKinds -> Absent..MaxUid]
    /\ pod \in [Uids -> [phase : {"none", "pending", "stuck", "running", "ended"},
                         ctl : {"waiting", "run", "exited"}, marker : {"none", "done", "failed"}, left : 0..Rounds,
                         up : {"preflight", "test", "look", "failed", "drain", "sync", "done", "exit0", "exit1"},
                         have : SUBSET Artifacts]]
    /\ uid \in [Procs -> 0..MaxUid] /\ seen \in [Procs -> BOOLEAN] /\ grace \in [Procs -> BOOLEAN]
    /\ got \in [Procs -> [Keys -> 0..Old]]
    /\ out \in [Report -> 0..Old] /\ aside \in [Procs -> [Report -> 0..Old]]
    /\ faults \in 0..MaxFaults /\ overlap \in BOOLEAN /\ swept \in BOOLEAN /\ slipped \in BOOLEAN /\ had \in BOOLEAN
    /\ disturbed \in [Procs -> BOOLEAN]

Init ==
    /\ \E c \in Casts :
        /\ part = c.part /\ apart = c.apart /\ alike = c.alike /\ room = c.room
        /\ obj = [k \in Keys |-> CASE ~c.before -> 0 [] c.before /\ k \in Exporters -> Old
                                  [] c.before /\ k \in Artifacts \cup {"upload.done"} -> 1 [] OTHER -> 0]
        /\ job = IF c.before THEN [uid |-> 1, spec |-> JobSpec(0), state |-> "complete"] ELSE NoJob
        /\ support = [k \in SupportKinds |-> IF c.before THEN 1 ELSE Absent]
        /\ pod = [u \in Uids |-> IF c.before /\ u = 1 THEN Gone ELSE NoPod]
    /\ pc = [p \in Procs |-> IF part[p] = "idle" THEN "ok" ELSE "start"]
    /\ uid = [p \in Procs |-> 0]
    /\ seen = [p \in Procs |-> FALSE] /\ grace = [p \in Procs |-> FALSE]
    /\ got = [p \in Procs |-> [k \in Keys |-> 0]]
    /\ out \in IF \E p \in Procs : part[p] = "download" THEN {NoDir, [k \in Report |-> Old]} ELSE {NoDir}
    /\ aside = [p \in Procs |-> NoDir]
    /\ faults = 0 /\ overlap = FALSE /\ swept = FALSE /\ slipped = FALSE /\ had = (out # NoDir)
    /\ disturbed = [p \in Procs |-> FALSE]

-----------------------------------------------------------------------------
(***************************************************************************)
(* Pieces.                                                                 *)
(***************************************************************************)
At(p, label) == pc[p] = label
GoTo(p, label) == pc' = [pc EXCEPT ![p] = label]
NoFault == UNCHANGED faults
Fault == faults < MaxFaults /\ faults' = faults + 1
Working(p) == ~(pc[p] \in Ended \cup {"start"})
Put(k, w) == obj' = [obj EXCEPT ![k] = w]
Only(p, label) == GoTo(p, label) /\ UNCHANGED <<procVars, obj, kubeVars, frontVars, got, localVars, history>>

\* command_lock_path: the front ends of one runs root share the run's .pipeline.lock;
\* pbs-from-s3 takes .pbs-submit.lock.
LockHeld(p) == \E q \in Procs \ {p} :
    ~apart /\ Working(q) /\ part[q] \in Fronts /\ (part[q] = "resume") = (part[p] = "resume")

Alive(u) == pod[u].phase \in {"pending", "stuck", "running"}
Uploading(u) == pod[u].phase = "running" /\ pod[u].up \notin {"preflight", "test", "look"}

\* clean-s3 has listed the prefix and deletes what it listed
Sweeping == \E q \in Procs : part[q] = "clean" /\ pc[q] = "delete"
\* clean-s3 is at work on the prefix, or ended halfway
HalfCleaned == \E q \in Procs : part[q] = "clean" /\ pc[q] \in {"delete", "failed"}

\* What changes a downloader's source
Disturb(keys) ==
    disturbed' = IF keys \cap (Report \cup {"report.done", "report.failed"}) = {} THEN disturbed
                 ELSE [q \in Procs |-> disturbed[q] \/ (part[q] = "download" /\ Working(q))]

-----------------------------------------------------------------------------
(***************************************************************************)
(* A front end: staging. Both preflights come before the upload.           *)
(***************************************************************************)
FrontStarts(p) ==
    /\ At(p, "start") /\ part[p] \in Fronts
    /\ GoTo(p, IF LockHeld(p) THEN "failed" ELSE IF part[p] = "resume" THEN "check" ELSE "s3")
    /\ overlap' = (overlap \/ (~LockHeld(p) /\ \E q \in Procs \ {p} : part[q] \in Fronts /\ Working(q)))
    /\ swept' = (swept \/ (~LockHeld(p) /\ Sweeping))
    /\ NoFault
    /\ UNCHANGED <<procVars, obj, kubeVars, frontVars, got, localVars, slipped, had, disturbed>>

\* s3_access_preflight: s5cmd, its version, the credentials file and one listing
S3Preflight(p) ==
    /\ At(p, "s3")
    /\ (NoFault /\ Only(p, "kube")) \/ (Fault /\ Only(p, "failed"))

\* kubernetes_s3_auth_preflight: the permissions, the namespace and the Secret
KubernetesPreflight(p) ==
    /\ At(p, "kube")
    /\ (NoFault /\ Only(p, "empty")) \/ (Fault /\ Only(p, "failed"))

MutEnsureEmpty(p) ==
    At(p, "empty") /\ NoFault /\ Only(p, IF \E k \in Exporters : obj[k] # 0 THEN "failed" ELSE "stage")
\* ensure_empty_run_prefix: anything under the prefix refuses the run id
EnsureEmpty(p) ==
    /\ At(p, "empty")
    /\ \/ NoFault /\ Only(p, IF \E k \in Keys : obj[k] # 0 THEN "failed" ELSE "stage")
       \/ Fault /\ Only(p, "failed")

MutStagedState(p) ==
    At(p, "check") /\ part[p] = "resume" /\ NoFault
    /\ Only(p, IF \A k \in Exporters : obj[k] # 0 THEN "verify" ELSE "stage")
\* ensure_staged_exporters: only a prefix without exporters gets them; a partial tree is refused.
\* (The fixed state prefix of synchronizations and persistent indexes is not a run id's prefix:
\* there they are staged anew every time, s3_staging.py:46-50, which is left out.)
StagedState(p) ==
    /\ At(p, "check") /\ part[p] = "resume"
    /\ \/ NoFault /\ LET missing == {k \in Exporters : obj[k] = 0} IN
            Only(p, CASE missing = {} -> "verify" [] missing = Exporters -> "stage" [] OTHER -> "failed")
       \/ Fault /\ Only(p, "failed")

\* upload_exporters: s5cmd sync goes through the files of the checkout; one that is already
\* there is left alone or replaced, as its size and time compare.
StageFile(p) ==
    /\ At(p, "stage") /\ (\E k \in Exporters : got[p][k] = 0)
    /\ LET k == First({x \in Exporters : got[p][x] = 0}) IN
        /\ Put(k, p) \/ (obj[k] # 0 /\ UNCHANGED obj)
        /\ got' = [got EXCEPT ![p][k] = p]
    /\ NoFault /\ UNCHANGED <<pc, procVars, kubeVars, frontVars, localVars, history>>
StageEnds(p) ==
    /\ At(p, "stage")
    /\ \/ (\A k \in Exporters : got[p][k] = p) /\ NoFault /\ Only(p, "verify")
       \/ Fault /\ Only(p, "failed")
\* ... and every required exporter must then be there
StagedVerified(p) ==
    /\ At(p, "verify") /\ NoFault
    /\ got' = [got EXCEPT ![p] = [k \in Keys |-> IF k \in Exporters THEN obj[k] ELSE 0]]
    /\ GoTo(p, IF \E k \in Exporters : obj[k] = 0 THEN "failed" ELSE IF part[p] = "resume" THEN "ok" ELSE "support")
    /\ UNCHANGED <<procVars, obj, kubeVars, frontVars, localVars, history>>

-----------------------------------------------------------------------------
(***************************************************************************)
(* A front end: apply_s3_emulation_resources.                              *)
(***************************************************************************)
\* The support objects come before the Job in the manifest: an apply that fails leaves some.
ApplySupport(p) ==
    /\ At(p, "support")
    /\ \E kinds \in SUBSET SupportKinds :
        /\ support' = [k \in SupportKinds |-> IF k \in kinds /\ support[k] = Absent THEN 0 ELSE support[k]]
        /\ \/ kinds = SupportKinds /\ NoFault /\ GoTo(p, "job")
           \/ kinds # SupportKinds /\ Fault /\ GoTo(p, "undo")
    /\ UNCHANGED <<procVars, obj, job, pod, frontVars, got, localVars, history>>

\* kubectl apply of the Job: created, left as it is when the same, refused when it differs
ApplyJob(p) ==
    /\ At(p, "job")
    /\ \/ /\ job.uid = 0 /\ NoFault
          /\ \E u \in Uids :
               /\ pod[u].phase = "none" /\ \A v \in Uids : pod[v].phase = "none" => u <= v
               /\ job' = [uid |-> u, spec |-> JobSpec(p), state |-> "active"]
               /\ pod' = [pod EXCEPT ![u].phase = "pending", ![u].up = "preflight"]
          /\ GoTo(p, "uid")
       \/ /\ job.uid # 0 /\ NoFault /\ UNCHANGED <<job, pod>>
          /\ GoTo(p, IF job.spec = JobSpec(p) THEN "uid" ELSE "undo")
       \/ Fault /\ UNCHANGED <<job, pod>> /\ GoTo(p, "undo")
    /\ UNCHANGED <<procVars, obj, support, frontVars, got, localVars, history>>

ReadUid(p) ==
    /\ At(p, "uid")
    /\ \/ job.uid # 0 /\ NoFault /\ GoTo(p, "patch") /\ uid' = [uid EXCEPT ![p] = job.uid]
       \/ job.uid = 0 /\ NoFault /\ GoTo(p, "undo") /\ UNCHANGED uid
       \/ Fault /\ GoTo(p, "undo") /\ UNCHANGED uid
    /\ UNCHANGED <<procVars, obj, kubeVars, seen, grace, got, localVars, history>>

MutPatchOwner(p, k) ==
    /\ At(p, IF k = "configmap" THEN "patch" ELSE "patch2")
    /\ \/ /\ support[k] # Absent /\ NoFault /\ support' = [support EXCEPT ![k] = uid[p]]
          /\ GoTo(p, CASE k = "configmap" -> "patch2" [] k # "configmap" /\ part[p] = "emulate" -> "ok"
                     [] OTHER -> "pollFailed")
       \/ support[k] = Absent /\ NoFault /\ GoTo(p, "failed") /\ UNCHANGED support
       \/ Fault /\ GoTo(p, "failed") /\ UNCHANGED support
    /\ UNCHANGED <<procVars, obj, job, pod, frontVars, got, localVars, history>>
\* One kubectl patch per support object. After the last, the standalone emulate ends and the
\* full run waits.
PatchOwner(p, k) ==
    /\ At(p, IF k = "configmap" THEN "patch" ELSE "patch2")
    /\ \/ /\ support[k] # Absent /\ NoFault /\ support' = [support EXCEPT ![k] = uid[p]]
          /\ GoTo(p, CASE k = "configmap" -> "patch2" [] k # "configmap" /\ part[p] = "emulate" -> "ok"
                     [] OTHER -> "pollFailed")
       \/ support[k] = Absent /\ NoFault /\ GoTo(p, "undo") /\ UNCHANGED support
       \/ Fault /\ GoTo(p, "undo") /\ UNCHANGED support
    /\ UNCHANGED <<procVars, obj, job, pod, frontVars, got, localVars, history>>

\* _delete: best effort, and it does not wait for the pod. The grace period of a deleted pod
\* ends an emulation; an upload may go on, and even finish.
DeleteJob(p, then) ==
    /\ GoTo(p, then)
    /\ \/ /\ job' = NoJob /\ NoFault /\ UNCHANGED slipped
          /\ pod' = [u \in Uids |-> IF u = job.uid /\ Alive(u) /\ ~Uploading(u) THEN Gone ELSE pod[u]]
       \/ Fault /\ slipped' = TRUE /\ UNCHANGED <<job, pod>>
    /\ UNCHANGED <<procVars, obj, support, frontVars, got, localVars, overlap, swept, had, disturbed>>
RollBackJob(p) == At(p, "undo") /\ DeleteJob(p, "undo2")
MutRollBackSupport(p) ==
    /\ At(p, "undo2") /\ GoTo(p, "failed") /\ NoFault
    /\ UNCHANGED <<procVars, obj, kubeVars, frontVars, got, localVars, history>>
RollBackSupport(p) ==
    /\ At(p, "undo2") /\ GoTo(p, "failed")
    /\ \/ support' = [k \in SupportKinds |-> Absent] /\ NoFault /\ UNCHANGED slipped
       \/ /\ Fault /\ slipped' = TRUE
          /\ \E kinds \in SUBSET SupportKinds :
               support' = [k \in SupportKinds |-> IF k \in kinds THEN Absent ELSE support[k]]
    /\ UNCHANGED <<procVars, obj, job, pod, frontVars, got, localVars, overlap, swept, had, disturbed>>

-----------------------------------------------------------------------------
(***************************************************************************)
(* A front end: wait_for_s3_marker with kubernetes_job_probe. The failed   *)
(* marker is looked for first; after a terminal probe one more cycle runs. *)
(***************************************************************************)
PollFailed(p) ==
    /\ At(p, "pollFailed")
    /\ \/ NoFault /\ Only(p, IF obj["upload.failed"] # 0 THEN "giveUp" ELSE "pollDone")
       \/ Fault /\ Only(p, "giveUp")

PollDone(p) ==
    /\ At(p, "pollDone")
    /\ \/ /\ obj["upload.done"] # 0 /\ NoFault /\ GoTo(p, "ok")
          /\ got' = [got EXCEPT ![p] = [k \in Keys |-> IF k \in Exporters \cup Artifacts THEN obj[k] ELSE 0]]
          /\ UNCHANGED <<procVars, obj, kubeVars, frontVars, localVars, history>>
       \/ obj["upload.done"] = 0 /\ NoFault /\ Only(p, "probe")
       \/ Fault /\ Only(p, "giveUp")

MutProbe(p) ==
    CASE job.uid = 0 -> "unknown"
      [] job.uid # 0 /\ (job.state # "active" \/ pod[job.uid].phase = "stuck") -> "terminal"
      [] OTHER -> "queued"
\* kubernetes_job_probe and _pod_state: a Job that has ended, that is gone after it was seen,
\* or whose pod cannot start a container is terminal.
Probe(p) ==
    CASE job.uid = 0 -> IF seen[p] THEN "terminal" ELSE "unknown"
      [] job.uid # 0 /\ job.state # "active" -> "terminal"
      [] job.uid # 0 /\ pod[job.uid].phase = "stuck" -> "terminal"
      [] job.uid # 0 /\ pod[job.uid].phase = "running" ->
            IF pod[job.uid].ctl = "waiting" THEN "terminal" ELSE "running"
      [] OTHER -> "queued"

MutVerdict(p) ==
    /\ At(p, "probe") /\ NoFault
    /\ GoTo(p, IF Probe(p) = "terminal" THEN "giveUp" ELSE "pollFailed")
    /\ seen' = [seen EXCEPT ![p] = @ \/ job.uid # 0] /\ grace' = [grace EXCEPT ![p] = (Probe(p) = "terminal")]
    /\ UNCHANGED <<procVars, obj, kubeVars, uid, got, localVars, history>>
\* The probe and what the loop makes of it. The deadlines may pass at any round.
Verdict(p) ==
    /\ At(p, "probe")
    /\ \/ grace[p] /\ NoFault /\ GoTo(p, "giveUp") /\ UNCHANGED <<seen, grace>>
       \/ /\ ~grace[p] /\ NoFault /\ GoTo(p, "pollFailed")
          /\ seen' = [seen EXCEPT ![p] = @ \/ job.uid # 0]
          /\ grace' = [grace EXCEPT ![p] = (Probe(p) = "terminal")]
       \/ ~grace[p] /\ Fault /\ GoTo(p, "pollFailed") /\ UNCHANGED <<seen, grace>>
    /\ UNCHANGED <<procVars, obj, kubeVars, uid, got, localVars, history>>
DeadlinePasses(p) == At(p, "probe") /\ NoFault /\ Only(p, "giveUp")

\* run_s3_full_run: after collecting diagnostics, the Job is deleted
GiveUp(p) == At(p, "giveUp") /\ DeleteJob(p, "failed")

\* Killed: nothing is rolled back
FrontDies(p) ==
    /\ Working(p) /\ part[p] \in Fronts /\ Fault /\ GoTo(p, "dead") /\ slipped' = TRUE
    /\ UNCHANGED <<procVars, obj, kubeVars, frontVars, got, localVars, overlap, swept, had, disturbed>>

-----------------------------------------------------------------------------
(***************************************************************************)
(* Kubernetes and the pod of Job u: the init container, the controller and *)
(* the uploader.                                                           *)
(***************************************************************************)
Kube == UNCHANGED <<pc, procVars, frontVars, got, localVars, history>>
Pod(u, r) == pod' = [pod EXCEPT ![u] = r]
InPod(u) == pod[u].phase = "running"

\* The pod is scheduled, or its init container's image cannot be pulled.
PodStarts(u) ==
    /\ pod[u].phase = "pending" /\ room /\ (\A k \in SupportKinds : support[k] # Absent)
    /\ \/ NoFault /\ Pod(u, [pod[u] EXCEPT !.phase = "running"])
       \/ Fault /\ Pod(u, [pod[u] EXCEPT !.phase = "stuck"])
    /\ Kube /\ UNCHANGED <<obj, job, support>>

\* k8s_s3_prefix_preflight.sh: nothing but complete exporters in the prefix. Then the
\* controller's image may be unpullable.
PrefixPreflight(u) ==
    /\ InPod(u) /\ pod[u].up = "preflight"
    /\ LET clean == (\A k \in Keys \ Exporters : obj[k] = 0) /\ (\A k \in Exporters : obj[k] # 0) IN
        \/ /\ clean /\ (NoFault \/ Fault) /\ UNCHANGED job
           /\ Pod(u, [pod[u] EXCEPT !.up = "test", !.ctl = IF faults' = faults THEN "run" ELSE "waiting"])
        \/ /\ (~clean /\ NoFault) \/ Fault
           /\ Pod(u, Gone)
           /\ job' = IF job.uid = u THEN [job EXCEPT !.state = "failed"] ELSE job
    /\ Kube /\ UNCHANGED <<obj, support>>

\* manager.py: it leaves its artifacts, the last with its marker, or fails, or exits without one
Controller(u) ==
    /\ InPod(u) /\ job.uid = u /\ pod[u].ctl = "run" /\ pod[u].up # "preflight" /\ NoFault
    /\ \/ pod[u].have = {} /\ pod[u].marker = "none" /\ Pod(u, [pod[u] EXCEPT !.have = {First(Artifacts)}])
       \/ /\ pod[u].have # {} /\ pod[u].marker = "none"
          /\ Pod(u, [pod[u] EXCEPT !.have = Artifacts, !.marker = "done"])
       \/ pod[u].marker = "none" /\ Pod(u, [pod[u] EXCEPT !.marker = "failed"])
       \/ Pod(u, [pod[u] EXCEPT !.ctl = "exited"])
    /\ Kube /\ UNCHANGED <<obj, job, support>>

\* k8s_s3_uploader.sh: the loop's test, and the timeout
UploaderTests(u) ==
    /\ InPod(u) /\ pod[u].up = "test" /\ NoFault
    /\ Pod(u, CASE pod[u].marker = "failed" -> [pod[u] EXCEPT !.up = "failed"]
                [] pod[u].marker = "done" -> [pod[u] EXCEPT !.up = "sync"]
                [] pod[u].marker = "none" /\ pod[u].left = 0 -> [pod[u] EXCEPT !.marker = "failed", !.up = "failed"]
                [] OTHER -> [pod[u] EXCEPT !.up = "look"])
    /\ Kube /\ UNCHANGED <<obj, job, support>>
\* The controller's state, as the API server tells it; kubectl's failures tell nothing.
\* By now the controller may have left a marker and exited: it counts as failed.
UploaderLooks(u) ==
    /\ InPod(u) /\ pod[u].up = "look"
    /\ \/ /\ pod[u].ctl # "run" /\ NoFault /\ Pod(u, [pod[u] EXCEPT !.marker = "failed", !.up = "failed"])
       \/ /\ (pod[u].ctl = "run" /\ NoFault) \/ Fault
          /\ Pod(u, [pod[u] EXCEPT !.up = "test", !.left = @ - 1])
    /\ Kube /\ UNCHANGED <<obj, job, support>>
\* A failed run: the marker first, then what there is; neither has to succeed.
UploadsFailure(u) ==
    /\ InPod(u)
    /\ \/ /\ pod[u].up = "failed" /\ Pod(u, [pod[u] EXCEPT !.up = "drain"])
          /\ (NoFault /\ Put("upload.failed", u)) \/ (Fault /\ UNCHANGED obj)
       \/ /\ pod[u].up = "drain" /\ NoFault /\ UNCHANGED pod
          /\ (\E k \in pod[u].have : obj[k] # u) /\ Put(First({k \in pod[u].have : obj[k] # u}), u)
       \/ pod[u].up = "drain" /\ NoFault /\ UNCHANGED obj /\ Pod(u, [pod[u] EXCEPT !.up = "exit1", !.have = {}])
    /\ Kube /\ UNCHANGED <<job, support>>

\* A finished run: every artifact, then the marker; a failure of either ends the script.
UploadsDone(u) ==
    /\ InPod(u)
    /\ \/ /\ pod[u].up = "sync" /\ NoFault /\ UNCHANGED pod
          /\ (\E k \in pod[u].have : obj[k] # u) /\ Put(First({k \in pod[u].have : obj[k] # u}), u)
       \/ /\ pod[u].up = "sync" /\ (\A k \in pod[u].have : obj[k] = u) /\ NoFault /\ UNCHANGED obj
          /\ Pod(u, [pod[u] EXCEPT !.up = "done"])
       \/ pod[u].up = "done" /\ NoFault /\ Put("upload.done", u) /\ Pod(u, [pod[u] EXCEPT !.up = "exit0"])
       \/ pod[u].up \in {"sync", "done"} /\ Fault /\ UNCHANGED obj /\ Pod(u, [pod[u] EXCEPT !.up = "exit1"])
    /\ Kube /\ UNCHANGED <<job, support>>

\* backoffLimit 0: the Job ends with its pod, once both containers have.
PodEnds(u) ==
    /\ InPod(u) /\ pod[u].up \in {"exit0", "exit1"} /\ pod[u].ctl = "exited" /\ NoFault
    /\ Pod(u, Gone)
    /\ job' = IF job.uid # u THEN job
              ELSE [job EXCEPT !.state = IF pod[u].up = "exit0" /\ pod[u].marker = "done" THEN "complete" ELSE "failed"]
    /\ Kube /\ UNCHANGED <<obj, support>>
\* activeDeadlineSeconds, and the end of a deleted Job's pod
PodKilled(u) ==
    /\ Alive(u) /\ NoFault
    /\ Pod(u, Gone)
    /\ job' = IF job.uid = u THEN [job EXCEPT !.state = "failed"] ELSE job
    /\ Kube /\ UNCHANGED <<obj, support>>
\* ttlSecondsAfterFinished
JobCollected ==
    /\ job.uid # 0 /\ job.state # "active" /\ NoFault
    /\ job' = NoJob /\ Kube /\ UNCHANGED <<obj, support, pod>>
\* The objects of a Job that is gone
SupportCollected(k) ==
    /\ support[k] \in Uids /\ job.uid # support[k] /\ NoFault
    /\ support' = [support EXCEPT ![k] = Absent] /\ Kube /\ UNCHANGED <<obj, job, pod>>

-----------------------------------------------------------------------------
(***************************************************************************)
(* clean-s3: it lists, and s5cmd rm then lists again and deletes what it   *)
(* finds, in batches; what arrives later stays.                            *)
(***************************************************************************)
CleanLists(p) ==
    /\ At(p, "start") /\ part[p] = "clean"
    /\ \/ NoFault /\ Only(p, IF \A k \in Keys : obj[k] = 0 THEN "ok" ELSE "list")
       \/ Fault /\ Only(p, "failed")
CleanExpands(p) ==
    /\ At(p, "list") /\ NoFault
    /\ GoTo(p, "delete") /\ got' = [got EXCEPT ![p] = obj]
    /\ swept' = (swept \/ (\E q \in Procs \ {p} : Working(q)) \/ \E u \in Uids : Alive(u))
    /\ UNCHANGED <<procVars, obj, kubeVars, frontVars, localVars, overlap, slipped, had, disturbed>>
CleanDeletes(p) ==
    /\ At(p, "delete")
    /\ \/ /\ NoFault /\ UNCHANGED pc
          /\ \E batch \in {Exporters, Artifacts, Report, Markers} :
               LET found == {k \in batch : got[p][k] # 0} IN
                /\ found # {} /\ got' = [got EXCEPT ![p] = [k \in Keys |-> IF k \in found THEN 0 ELSE @[k]]]
                /\ obj' = [k \in Keys |-> IF k \in found THEN 0 ELSE obj[k]]
                /\ Disturb(found)
       \/ /\ (\A k \in Keys : got[p][k] = 0) /\ NoFault /\ GoTo(p, "ok")
          /\ UNCHANGED <<obj, got, disturbed>>
       \/ Fault /\ GoTo(p, "failed") /\ UNCHANGED <<obj, got, disturbed>>
    /\ swept' = (swept \/ (\E q \in Procs \ {p} : Working(q)) \/ \E u \in Uids : Alive(u))
    /\ UNCHANGED <<procVars, kubeVars, frontVars, localVars, overlap, slipped, had>>

-----------------------------------------------------------------------------
(***************************************************************************)
(* A unified-report stage: its submission clears the markers, the job      *)
(* publishes the report and then a marker (S3Run has the whole graph).     *)
(***************************************************************************)
Reports(p, from, k, w, to) ==
    /\ At(p, from) /\ part[p] = "report" /\ NoFault
    /\ Put(k, w) /\ Disturb({k}) /\ GoTo(p, to) /\ swept' = (swept \/ Sweeping)
    /\ UNCHANGED <<procVars, kubeVars, frontVars, got, localVars, overlap, slipped, had>>
\* A second graph is refused while a job of the first is active.
ReportClears(p) ==
    \/ (\A q \in Procs : part[q] = "report" => ~Working(q)) /\ Reports(p, "start", "report.failed", 0, "clear2")
    \/ Reports(p, "clear2", "report.done", 0, "publish")
ReportPublishes(p) ==
    \/ \E k \in Report : obj[k] # p /\ Reports(p, "publish", k, p, "publish")
    \/ /\ At(p, "publish") /\ (\A k \in Report : obj[k] = p) /\ NoFault /\ Only(p, "mark")
    \/ At(p, "publish") /\ Fault /\ Only(p, "markFailed")
ReportMarks(p) ==
    \/ Reports(p, "mark", "report.done", p, "ok")
    \/ Reports(p, "markFailed", "report.failed", p, "failed")
    \/ At(p, "mark") /\ Fault /\ Only(p, "failed")

-----------------------------------------------------------------------------
(***************************************************************************)
(* download-report: into a staging directory beside the output, which then *)
(* replaces the old one.                                                   *)
(***************************************************************************)
\* validate_output_directory: an output that is no report is not replaced
DownloadStarts(p) ==
    /\ At(p, "start") /\ part[p] = "download" /\ NoFault
    /\ Only(p, IF out # NoDir /\ out["json"] = 0 THEN "failed" ELSE "check")
DownloadChecksFailed(p) ==
    /\ At(p, "check") /\ part[p] = "download"
    /\ \/ NoFault /\ Only(p, IF obj["report.failed"] # 0 THEN "failed" ELSE "check2")
       \/ Fault /\ Only(p, "failed")

MutDownloadChecksDone(p) ==
    /\ At(p, "check2") /\ NoFault /\ GoTo(p, IF obj["json"] = 0 THEN "failed" ELSE "sync")
    /\ disturbed' = [disturbed EXCEPT ![p] = HalfCleaned]
    /\ UNCHANGED <<procVars, obj, kubeVars, frontVars, got, localVars, overlap, swept, slipped, had>>
DownloadChecksDone(p) ==
    /\ At(p, "check2")
    /\ \/ NoFault /\ GoTo(p, IF obj["report.done"] = 0 THEN "failed" ELSE "sync")
       \/ Fault /\ GoTo(p, "failed")
    /\ disturbed' = [disturbed EXCEPT ![p] = HalfCleaned]
    /\ UNCHANGED <<procVars, obj, kubeVars, frontVars, got, localVars, overlap, swept, slipped, had>>

\* s5cmd sync, file by file; the JSON report must be there
DownloadSyncs(p) ==
    /\ At(p, "sync")
    /\ \/ /\ NoFault /\ GoTo(p, "whole")
          /\ got' = [got EXCEPT ![p]["json"] = obj["json"]]
          /\ UNCHANGED <<procVars, obj, kubeVars, frontVars, localVars, history>>
       \/ Fault /\ Only(p, "failed")
DownloadChecksWhole(p) ==
    /\ At(p, "whole")
    /\ \/ /\ NoFault /\ GoTo(p, IF got[p]["json"] = 0 THEN "failed" ELSE "move")
          /\ got' = [got EXCEPT ![p]["markdown"] = obj["markdown"]]
          /\ UNCHANGED <<procVars, obj, kubeVars, frontVars, localVars, history>>
       \/ Fault /\ Only(p, "failed")

Staged(p) == [k \in Report |-> got[p][k]]

MutSetAside(p) ==
    /\ At(p, "move") /\ NoFault
    /\ GoTo(p, "replace") /\ out' = NoDir /\ UNCHANGED aside
    /\ UNCHANGED <<procVars, obj, kubeVars, frontVars, got, history>>
\* The old output is renamed beside its place.
SetAside(p) ==
    /\ At(p, "move")
    /\ \/ out # NoDir /\ NoFault /\ GoTo(p, "replace") /\ aside' = [aside EXCEPT ![p] = out] /\ out' = NoDir
       \/ out = NoDir /\ NoFault /\ GoTo(p, "replace") /\ UNCHANGED localVars
       \/ Fault /\ GoTo(p, "failed") /\ UNCHANGED localVars
    /\ UNCHANGED <<procVars, obj, kubeVars, frontVars, got, history>>
\* A rename onto a directory that is not empty fails.
Replace(p) ==
    /\ At(p, "replace")
    /\ \/ /\ out = NoDir /\ NoFault /\ out' = Staged(p) /\ UNCHANGED aside /\ had' = TRUE
          /\ GoTo(p, IF aside[p] = NoDir THEN "ok" ELSE "discard")
       \/ /\ (out # NoDir /\ NoFault) \/ Fault
          /\ GoTo(p, IF aside[p] = NoDir THEN "failed" ELSE "restore") /\ UNCHANGED <<localVars, had>>
    /\ UNCHANGED <<procVars, obj, kubeVars, frontVars, got, overlap, swept, slipped, disturbed>>
RestoreOld(p) ==
    /\ At(p, "restore") /\ GoTo(p, "failed")
    /\ \/ out = NoDir /\ NoFault /\ out' = aside[p] /\ aside' = [aside EXCEPT ![p] = NoDir]
       \/ ((out # NoDir /\ NoFault) \/ Fault) /\ UNCHANGED localVars
    /\ UNCHANGED <<procVars, obj, kubeVars, frontVars, got, history>>
DiscardOld(p) ==
    /\ At(p, "discard")
    /\ \/ NoFault /\ GoTo(p, "ok") /\ aside' = [aside EXCEPT ![p] = NoDir]
       \/ Fault /\ GoTo(p, "failed") /\ UNCHANGED aside
    /\ UNCHANGED <<procVars, obj, kubeVars, frontVars, got, out, history>>
DownloadDies(p) == Working(p) /\ part[p] = "download" /\ Fault /\ Only(p, "dead")

-----------------------------------------------------------------------------
FrontSteps(p) ==
    \/ FrontStarts(p) \/ S3Preflight(p) \/ KubernetesPreflight(p) \/ EnsureEmpty(p) \/ StagedState(p)
    \/ StageFile(p) \/ StageEnds(p) \/ StagedVerified(p)
    \/ ApplySupport(p) \/ ApplyJob(p) \/ ReadUid(p) \/ (\E k \in SupportKinds : PatchOwner(p, k))
    \/ RollBackJob(p) \/ RollBackSupport(p) \/ PollFailed(p) \/ PollDone(p) \/ Verdict(p) \/ GiveUp(p)
OtherSteps(p) ==
    \/ CleanLists(p) \/ CleanExpands(p) \/ CleanDeletes(p)
    \/ ReportClears(p) \/ ReportPublishes(p) \/ ReportMarks(p)
    \/ DownloadStarts(p) \/ DownloadChecksFailed(p) \/ DownloadChecksDone(p) \/ DownloadSyncs(p)
    \/ DownloadChecksWhole(p) \/ SetAside(p) \/ Replace(p) \/ RestoreOld(p) \/ DiscardOld(p)
PodSteps(u) ==
    \/ PodStarts(u) \/ PrefixPreflight(u) \/ UploaderTests(u) \/ UploaderLooks(u)
    \/ UploadsFailure(u) \/ UploadsDone(u) \/ PodEnds(u)
Collects == JobCollected \/ \E k \in SupportKinds : SupportCollected(k)

Next ==
    \/ \E p \in Procs : FrontSteps(p) \/ OtherSteps(p) \/ DeadlinePasses(p) \/ FrontDies(p) \/ DownloadDies(p)
    \/ \E u \in Uids : PodSteps(u) \/ Controller(u) \/ PodKilled(u)
    \/ Collects

\* Processes go on, pods and controllers may hang; activeDeadlineSeconds and the collectors are
\* Kubernetes' promises. Of the front end's deadlines, the one for the start is needed, and only
\* by a probe that never finds the Job.
Fairness ==
    /\ \A p \in Procs : WF_vars(FrontSteps(p) \/ OtherSteps(p)) /\ SF_vars(~seen[p] /\ DeadlinePasses(p))
    /\ \A u \in Uids : WF_vars(PodKilled(u))
    /\ WF_vars(Collects)

RunSpec == Init /\ [][Next]_vars /\ Fairness

-----------------------------------------------------------------------------
\* A full run that found upload.done goes on with the whole artifacts of its own Job and its own
\* exporters, provided no other front end worked at the same time and clean-s3 met no one
\* at work: ensure_empty_run_prefix, the pod's preflight and the order of the uploads.
OkIsOwn ==
    ~overlap /\ ~swept => \A p \in Procs : part[p] = "full" /\ pc[p] = "ok" =>
        /\ \A k \in Artifacts : got[p][k] = uid[p]
        /\ \A k \in Exporters : got[p][k] = p

\* The exporters a resumed run goes on with are complete and of one checkout, a run's or an
\* earlier one's.
OneExporterVersion ==
    ~overlap /\ ~swept => \A p \in Procs : part[p] = "resume" /\ pc[p] = "ok" =>
        \E w \in Procs \cup {Old} : \A k \in Exporters : got[p][k] = w

\* Once every front end has ended, no support object is without an owner, unless a front end
\* was killed or a deletion failed: whatever of the apply failed was rolled back.
NoOrphans ==
    ~slipped /\ (\A p \in Procs : part[p] \in Fronts => pc[p] \in Ended)
        => \A k \in SupportKinds : support[k] # 0

\* A wait given up because the Job ended finds that the Job wrote no upload.done: a marker that
\* races the probe is still seen.
GraceSeesDone ==
    ~overlap /\ ~swept => \A p \in Procs : At(p, "giveUp") /\ grace[p] /\ faults = 0 => obj["upload.done"] = 0

\* A report that was downloaded stays on disk, in the output directory or beside it, whatever
\* downloads run at once, fail or are killed.
ReportNeverLost == had => out["json"] # 0 \/ \E p \in Procs : aside[p]["json"] # 0

\* A downloaded report is one report, unless it was published again while the download read it
\* or clean-s3 was deleting it, had ended halfway or met the report job at work.
DownloadIsOneReport ==
    ~swept => \A p \in Procs : part[p] = "download" /\ pc[p] = "ok" /\ ~disturbed[p] => got[p]["json"] = got[p]["markdown"]

\* A front end ends even when the pod hangs, and without its execution deadline.
FrontEnds == \A p \in Procs : <>(pc[p] \in Ended)

\* In the end nothing of the run is left in the cluster, unless a front end was killed or a
\* deletion failed.
ClusterEmptied == <>[](slipped \/ (job.uid = 0 /\ \A k \in SupportKinds : support[k] = Absent))

\* What a front end calls its run is its own, whoever used the prefix before: the Job's artifacts,
\* the exporters it resumes with, and the end it waited for.
RunIsOwn == OkIsOwn /\ OneExporterVersion /\ GraceSeesDone

\* A report once downloaded is kept, and each download is one report.
ReportHolds == ReportNeverLost /\ DownloadIsOneReport

\* Front ends end, and leave an empty cluster behind.
RunEnds == FrontEnds /\ ClusterEmptied
=============================================================================
