------------------------------- MODULE S3Run -------------------------------
(***************************************************************************)
(* One run ID of the Kubernetes -> S3 -> PBS path: the frontend commands   *)
(* that submit its PBS graph (full-run and pbs-from-s3), the jobs they     *)
(* submit, and the done/failed markers in S3 through which a waiting       *)
(* full-run learns how a job ended (s3_submission.py, s3_workflow.py,      *)
(* storage/s3.py, pbs/stage_runtime.py).                                   *)
(*                                                                         *)
(* A command submits each stage at most once, so a job is the pair of its  *)
(* command and its stage.  PBS is external: it starts a queued job once    *)
(* its afterok dependencies succeeded.                                     *)
(***************************************************************************)
EXTENDS Naturals, Sequences

CONSTANTS Commands,   \* the commands given for the run ID
          FullRuns,   \* those that wait for the jobs they submitted
          NoCommand,  \* nobody: a missing marker, lock or .jobid file
          Order,      \* the stages, in the order of StageGraph.scheduled
          Deps,       \* Deps[s]: StagePlan.dependencies
          Selected,   \* Selected[c]: the stages of the command's graph
          MaxFaults   \* bound on crashes, kills and failed calls

Stages == {Order[i] : i \in 1..Len(Order)}
Jobs == Commands \X Stages
MaybeCommand == Commands \cup {NoCommand}

ASSUME RunAssumption ==
    /\ FullRuns \subseteq Commands /\ NoCommand \notin Commands
    /\ Order \in Seq(STRING) /\ \A i, j \in 1..Len(Order) : Order[i] = Order[j] => i = j
    /\ Deps \in [Stages -> SUBSET Stages]
    /\ \A i, j \in 1..Len(Order) : Order[i] \in Deps[Order[j]] => i < j
    /\ Selected \in [Commands -> (SUBSET Stages) \ {{}}]
    /\ MaxFaults \in Nat

VARIABLES
    pc,         \* pc[c]: where the command is
    todo,       \* todo[c]: stages it has yet to submit
    submitted,  \* submitted[c]: submitted_jobs
    waits,      \* waits[c]: stages it has yet to see done
    late,       \* late[c]: the deadline of the current wait has passed
    executing,  \* executing[c]: the wait has an execution deadline
    probed,     \* probed[c]: what the last probe said
    terminal,   \* terminal[c]: terminal_seen
    lock,       \* the holder of .pbs-submit.lock
    jobid,      \* jobid[s]: whose job .pbs/<s>.jobid names
    job,        \* job[j]: where the job is
    ok,         \* ok[j]: its exit status is still 0
    signalled,  \* running jobs that qdel sent TERM
    done,       \* done[s]: whose job wrote the done marker
    failed,     \* failed[s]: whose job wrote the failed marker
    out,        \* out[s]: whose outputs are in the run prefix
    faults,     \* faults so far
    ghosts,     \* history: accepted jobs whose ID was never persisted
    stale,      \* history: jobs that read outputs of another command's job
    lost        \* history: jobs killed outright, or whose marker upload failed

waitVars == <<late, executing, probed, terminal>>
cmdVars == <<pc, todo, submitted, waits, lock, jobid>>
jobVars == <<job, ok, signalled, out, stale, lost>>
markVars == <<done, failed>>
vars == <<cmdVars, waitVars, jobVars, markVars, faults, ghosts>>

Init ==
    /\ pc = [c \in Commands |-> "idle"]
    /\ todo = Selected /\ waits = Selected
    /\ submitted = [c \in Commands |-> {}]
    /\ late = [c \in Commands |-> FALSE] /\ executing = [c \in Commands |-> FALSE]
    /\ probed = [c \in Commands |-> "none"] /\ terminal = [c \in Commands |-> FALSE]
    /\ lock = NoCommand
    /\ jobid = [s \in Stages |-> NoCommand]
    /\ job = [j \in Jobs |-> "none"] /\ ok = [j \in Jobs |-> TRUE]
    /\ signalled = {}
    /\ done = [s \in Stages |-> NoCommand] /\ failed = [s \in Stages |-> NoCommand]
    /\ out = [s \in Stages |-> NoCommand]
    /\ faults = 0
    /\ ghosts = {} /\ stale = {} /\ lost = {}

-----------------------------------------------------------------------------
(***************************************************************************)
(* Pieces of the steps.                                                    *)
(***************************************************************************)
Alive == {"queued", "running", "finalize", "mark", "clean"}
OnNode == Alive \ {"queued"}
Gone == {"over", "dropped"}      \* dropped: it left the queue without starting
EndedAt == {"refused", "ended", "completed"}

IsFirst(s, S) ==
    \E i \in 1..Len(Order) : s = Order[i] /\ s \in S /\ \A k \in 1..(i - 1) : Order[k] \notin S

\* dependents_of, by its own loop: blocked grows along the stage order.
Blocked(s) ==
    LET blocked[n \in 0..Len(Order)] ==
            IF n = 0 THEN {s}
            ELSE IF Deps[Order[n]] \cap blocked[n - 1] # {} THEN blocked[n - 1] \cup {Order[n]}
            ELSE blocked[n - 1]
    IN blocked[Len(Order)] \ {s}

GoTo(c, label) == pc' = [pc EXCEPT ![c] = label]

\* The command ends; its process exits and with it the flock goes.
Ends(c, label) == GoTo(c, label) /\ lock' = IF lock = c THEN NoCommand ELSE lock

Fault == faults < MaxFaults /\ faults' = faults + 1

\* qdel of jobs js: queued ones leave the queue, running ones get TERM.
Qdel(js) ==
    /\ job' = [j \in Jobs |-> IF j \in js /\ job[j] = "queued" THEN "dropped" ELSE job[j]]
    /\ ok' = [j \in Jobs |-> IF j \in js /\ job[j] = "queued" THEN FALSE ELSE ok[j]]
    /\ signalled' = signalled \cup {j \in js : job[j] \in OnNode}

\* _cancel of each: a qdel that fails is reported and the others go on.
CancelAll(js) ==
    \/ Qdel(js) /\ faults' = faults
    \/ \E refused \in SUBSET js : refused # {} /\ Fault /\ Qdel(js \ refused)

-----------------------------------------------------------------------------
(***************************************************************************)
(* Submission: submit_s3_pbs_graph.                                        *)
(***************************************************************************)
\* acquire_lock does not wait.
AcquireLock(c) ==
    /\ pc[c] = "idle"
    /\ IF lock = NoCommand
         THEN GoTo(c, "overlap") /\ lock' = c
         ELSE GoTo(c, "refused") /\ lock' = lock
    /\ UNCHANGED <<todo, submitted, waits, jobid, waitVars, jobVars, markVars, faults, ghosts>>

\* Mutant: a job whose state qstat cannot tell, or that is queued, does not count.
MutNoActive == \A s \in Stages : jobid[s] # NoCommand => job[<<jobid[s], s>>] # "running"

NoRecordedJobActive == \A s \in Stages : jobid[s] # NoCommand => job[<<jobid[s], s>>] \in Gone

\* ensure_no_active_s3_pbs_submission; an inconclusive qstat refuses too.
CheckOverlap(c) ==
    /\ pc[c] = "overlap"
    /\ \/ NoRecordedJobActive /\ GoTo(c, "clear") /\ lock' = lock
       \/ Ends(c, "refused")
    /\ UNCHANGED <<todo, submitted, waits, jobid, waitVars, jobVars, markVars, faults, ghosts>>

\* Mutant: the markers of an earlier attempt stay.
MutKeepMarkers(c) ==
    /\ pc[c] = "clear"
    /\ GoTo(c, "qsub")
    /\ UNCHANGED <<todo, submitted, waits, lock, jobid, waitVars, jobVars, markVars, faults, ghosts>>

\* clear_s3_stage_markers of the next stage: the failed marker, then the done marker.
ClearMarkers(c) ==
    /\ \E s \in Stages :
        /\ IsFirst(s, todo[c])
        /\ \/ /\ pc[c] = "clear"
              /\ failed' = [failed EXCEPT ![s] = NoCommand]
              /\ done' = done
              /\ GoTo(c, "clear done")
           \/ /\ pc[c] = "clear done"
              /\ done' = [done EXCEPT ![s] = NoCommand]
              /\ failed' = failed
              /\ GoTo(c, "qsub")
    /\ UNCHANGED <<todo, submitted, waits, lock, jobid, waitVars, jobVars, faults, ghosts>>

NextJob(c) == {c} \X {s \in Stages : IsFirst(s, todo[c])}

Accepted(c) ==
    \E s \in Stages : IsFirst(s, todo[c]) /\ job' = [job EXCEPT ![<<c, s>>] = "queued"]

Qsub(c) ==
    /\ pc[c] = "qsub"
    /\ Accepted(c)
    /\ GoTo(c, "record")
    /\ UNCHANGED <<todo, submitted, waits, lock, jobid, waitVars, ok, signalled, out, stale, lost,
                   markVars, faults, ghosts>>

\* submitted_jobs, jobs and persist_pbs_job_id.
Record(c) ==
    /\ pc[c] = "record"
    /\ \E s \in Stages :
        /\ IsFirst(s, todo[c])
        /\ submitted' = [submitted EXCEPT ![c] = @ \cup {s}]
        /\ todo' = [todo EXCEPT ![c] = @ \ {s}]
        /\ jobid' = [jobid EXCEPT ![s] = c]
        /\ IF todo[c] # {s} THEN GoTo(c, "clear") /\ lock' = lock
           ELSE IF c \in FullRuns THEN GoTo(c, "poll") /\ lock' = lock
           ELSE Ends(c, "ended")
    /\ UNCHANGED <<waits, waitVars, jobVars, markVars, faults, ghosts>>

\* An S3 error while clearing, or qsub fails; the job may be in the queue all the same.
SubmitFails(c) ==
    /\ Fault
    /\ \/ pc[c] \in {"clear", "clear done", "qsub"} /\ job' = job /\ ghosts' = ghosts
       \/ /\ pc[c] = "qsub"
          /\ Accepted(c)
          /\ ghosts' = ghosts \cup NextJob(c)
    /\ GoTo(c, "rollback")
    /\ UNCHANGED <<todo, submitted, waits, lock, jobid, waitVars, ok, signalled, out, stale, lost,
                   markVars>>

\* The .jobid file cannot be written: the job is known only to the rollback.
PersistFails(c) ==
    /\ Fault
    /\ pc[c] = "record"
    /\ \E s \in Stages :
        /\ IsFirst(s, todo[c])
        /\ submitted' = [submitted EXCEPT ![c] = @ \cup {s}]
        /\ ghosts' = ghosts \cup {<<c, s>>}
    /\ GoTo(c, "rollback")
    /\ UNCHANGED <<todo, waits, lock, jobid, waitVars, jobVars, markVars>>

\* rollback_s3_pbs_submissions.
Rollback(c) ==
    /\ pc[c] = "rollback"
    /\ CancelAll({c} \X submitted[c])
    /\ Ends(c, "ended")
    /\ UNCHANGED <<todo, submitted, waits, jobid, waitVars, out, stale, lost, markVars, ghosts>>

Submit(c) ==
    \/ AcquireLock(c) \/ CheckOverlap(c) \/ ClearMarkers(c) \/ Qsub(c) \/ Record(c) \/ Rollback(c)

-----------------------------------------------------------------------------
(***************************************************************************)
(* Waiting: wait_for_s3_marker for one stage after another.  Each look at  *)
(* a marker and each probe is a step of its own.                           *)
(***************************************************************************)
Stays == <<todo, submitted, jobid, jobVars, markVars, faults, ghosts>>

CheckFailed(c) ==
    /\ pc[c] = "poll"
    /\ \E s \in Stages :
        /\ IsFirst(s, waits[c])
        /\ GoTo(c, IF failed[s] # NoCommand THEN "failed" ELSE "done?")
    /\ UNCHANGED <<waits, lock, waitVars, Stays>>

\* done: on to the next stage, with a new wait.  Otherwise probe, except in the
\* grace cycle after a terminal report.
CheckDone(c) ==
    /\ pc[c] = "done?"
    /\ \E s \in Stages :
        /\ IsFirst(s, waits[c])
        /\ \/ /\ done[s] # NoCommand
              /\ waits' = [waits EXCEPT ![c] = @ \ {s}]
              /\ late' = [late EXCEPT ![c] = FALSE]
              /\ executing' = [executing EXCEPT ![c] = FALSE]
              /\ probed' = [probed EXCEPT ![c] = "none"]
              /\ terminal' = [terminal EXCEPT ![c] = FALSE]
              /\ IF waits[c] = {s} THEN Ends(c, "completed") ELSE GoTo(c, "poll") /\ lock' = lock
           \/ /\ done[s] = NoCommand
              /\ probed' = [probed EXCEPT ![c] = "none"]
              /\ GoTo(c, IF terminal[c] THEN "verdict" ELSE "probe")
              /\ UNCHANGED <<waits, lock, late, executing, terminal>>
    /\ UNCHANGED Stays

\* pbs_job_probe: qstat tells the job's state, or nothing conclusive.
Probe(c) ==
    /\ pc[c] = "probe"
    /\ \E s \in Stages :
        /\ IsFirst(s, waits[c])
        /\ LET state == job[<<c, s>>]
           IN \E answer \in {"unknown", IF state \in Gone THEN "terminal"
                                        ELSE IF state = "queued" THEN "queued" ELSE "running"} :
                probed' = [probed EXCEPT ![c] = answer]
    /\ GoTo(c, "verdict")
    /\ UNCHANGED <<waits, lock, late, executing, terminal, Stays>>

\* Mutant: no grace cycle after a terminal report.
MutNoGrace(c) ==
    /\ pc[c] = "verdict"
    /\ GoTo(c, IF probed[c] = "terminal" THEN "nomarker" ELSE "poll")
    /\ UNCHANGED <<waits, lock, waitVars, Stays>>

\* Mutant: every deadline is extended, not only that of a queued job.
MutExtendsAlways(c) ==
    /\ pc[c] = "verdict"
    /\ GoTo(c, IF terminal[c] THEN "nomarker" ELSE "poll")
    /\ executing' = [executing EXCEPT ![c] = @ \/ probed[c] = "running"]
    /\ late' = [late EXCEPT ![c] = FALSE]
    /\ terminal' = [terminal EXCEPT ![c] = @ \/ probed[c] = "terminal"]
    /\ UNCHANGED <<waits, lock, probed, Stays>>

\* The deadlines: a queued job extends the start deadline, a running one starts
\* the execution deadline once.  Then the second poll after a terminal report gives up.
Verdict(c) ==
    LET starts == probed[c] = "running" /\ ~executing[c]
        over == late[c] /\ ~starts
        extends == over /\ ~executing[c] /\ probed[c] = "queued"
    IN /\ pc[c] = "verdict"
       /\ GoTo(c, IF over /\ ~extends THEN "timeout" ELSE IF terminal[c] THEN "nomarker" ELSE "poll")
       /\ executing' = [executing EXCEPT ![c] = @ \/ starts]
       /\ late' = [late EXCEPT ![c] = @ /\ ~starts /\ ~extends]
       /\ terminal' = [terminal EXCEPT ![c] = @ \/ probed[c] = "terminal"]
       /\ UNCHANGED <<waits, lock, probed, Stays>>

DeadlinePasses(c) ==
    /\ pc[c] \in {"poll", "done?", "probe", "verdict"}
    /\ ~late[c]
    /\ late' = [late EXCEPT ![c] = TRUE]
    /\ UNCHANGED <<pc, waits, lock, executing, probed, terminal, Stays>>

\* s5cmd ls fails, or qstat tells a state nobody expects: the wait ends with an error.
PollFails(c) ==
    /\ Fault
    /\ pc[c] \in {"poll", "done?", "probe"}
    /\ GoTo(c, "failed")
    /\ UNCHANGED <<todo, submitted, waits, lock, jobid, waitVars, jobVars, markVars, ghosts>>

\* _wait_for_pbs_stage: the failed stage's dependents are cancelled, the rest left alone.
CancelDependents(c) ==
    /\ pc[c] \in {"failed", "timeout", "nomarker"}
    /\ \E s \in Stages :
        /\ IsFirst(s, waits[c])
        /\ CancelAll({c} \X (Blocked(s) \cap waits[c]))
    /\ Ends(c, "ended")
    /\ UNCHANGED <<todo, submitted, waits, jobid, waitVars, out, stale, lost, markVars, ghosts>>

Wait(c) == CheckFailed(c) \/ CheckDone(c) \/ Probe(c) \/ Verdict(c) \/ CancelDependents(c)

\* The frontend dies: its lock goes, its jobs stay.
CommandDies(c) ==
    /\ Fault
    /\ pc[c] \notin EndedAt \cup {"idle"}
    /\ ghosts' = IF pc[c] = "record" THEN ghosts \cup NextJob(c) ELSE ghosts
    /\ Ends(c, "ended")
    /\ UNCHANGED <<todo, submitted, waits, jobid, waitVars, jobVars, markVars>>

-----------------------------------------------------------------------------
(***************************************************************************)
(* A job: PBS, and main, run, finalize and finish of stage_runtime.py.     *)
(***************************************************************************)
Ancestors(j) == {<<j[1], d>> : d \in Deps[j[2]] \cap Selected[j[1]]}

Moves(j, label) == job' = [job EXCEPT ![j] = label]
Fails(j) == ok' = [ok EXCEPT ![j] = FALSE]
JobStays == <<cmdVars, waitVars, ghosts>>

\* PBS starts the job; the body downloads its inputs.
Starts(j) ==
    /\ job[j] = "queued"
    /\ \A a \in Ancestors(j) : job[a] = "over" /\ ok[a]
    /\ Moves(j, "running")
    /\ stale' = IF \E a \in Ancestors(j) : out[a[2]] # a[1] THEN stale \cup {j} ELSE stale
    /\ UNCHANGED <<ok, signalled, out, lost, markVars, faults, JobStays>>

\* PBS drops a job whose afterok dependency failed; it may also keep it held.
AfterokFails(j) ==
    /\ job[j] = "queued"
    /\ \E a \in Ancestors(j) : job[a] \in Gone /\ ~ok[a]
    /\ Moves(j, "dropped")
    /\ Fails(j)
    /\ UNCHANGED <<signalled, out, stale, lost, markVars, faults, JobStays>>

\* run: the body uploads its outputs and ends, or fails with some of them uploaded.
BodyEnds(j) ==
    /\ job[j] = "running"
    /\ Moves(j, "finalize")
    /\ \/ ok' = ok /\ out' = [out EXCEPT ![j[2]] = j[1]]
       \/ Fails(j) /\ out' \in {out, [out EXCEPT ![j[2]] = j[1]]}
    /\ UNCHANGED <<signalled, stale, lost, markVars, faults, JobStays>>

\* A finalizer that fails turns success into failure.
Finalize(j) ==
    /\ job[j] = "finalize"
    /\ Moves(j, "mark")
    /\ \/ ok' = ok /\ faults' = faults
       \/ Fails(j) /\ Fault
    /\ UNCHANGED <<signalled, out, stale, lost, markVars, JobStays>>

\* Mutant: the done marker goes up whatever the status.
MutDoneAlways(j) ==
    /\ job[j] = "mark"
    /\ done' = [done EXCEPT ![j[2]] = j[1]]
    /\ Moves(j, "clean")
    /\ UNCHANGED <<ok, failed, lost, faults, signalled, out, stale, JobStays>>

\* finish: a done marker whose upload fails, or seems to, turns into a failure.
PublishDone(j) ==
    /\ job[j] = "mark" /\ ok[j]
    /\ \/ /\ done' = [done EXCEPT ![j[2]] = j[1]]
          /\ Moves(j, "clean")
          /\ UNCHANGED <<ok, lost, faults>>
       \/ /\ Fault
          /\ done' \in {done, [done EXCEPT ![j[2]] = j[1]]}
          /\ Fails(j)
          /\ lost' = lost \cup {j}
          /\ job' = job
    /\ UNCHANGED <<failed, signalled, out, stale, JobStays>>

PublishFailed(j) ==
    /\ job[j] = "mark" /\ ~ok[j]
    /\ \/ failed' = [failed EXCEPT ![j[2]] = j[1]] /\ UNCHANGED <<faults, lost>>
       \/ Fault /\ failed' = failed /\ lost' = lost \cup {j}
    /\ Moves(j, "clean")
    /\ UNCHANGED <<ok, done, signalled, out, stale, JobStays>>

\* clean_scratch, and the worker returns its status.
Exits(j) ==
    /\ job[j] = "clean"
    /\ Moves(j, "over")
    /\ UNCHANGED <<ok, signalled, out, stale, lost, markVars, faults, JobStays>>

\* TERM, from qdel or at the walltime (a fault).  run turns it into status 143;
\* later it ends the worker where it is.
Terminated(j) ==
    /\ job[j] \in OnNode
    /\ IF j \in signalled THEN faults' = faults ELSE Fault
    /\ signalled' = signalled \ {j}
    /\ Fails(j)
    /\ Moves(j, IF job[j] = "running" THEN "finalize" ELSE "over")
    /\ UNCHANGED <<out, stale, lost, markVars, JobStays>>

\* SIGKILL, or the node is lost.
Killed(j) ==
    /\ Fault
    /\ job[j] \in OnNode
    /\ Fails(j)
    /\ Moves(j, "over")
    /\ signalled' = signalled \ {j}
    /\ lost' = lost \cup {j}
    /\ UNCHANGED <<out, stale, markVars, JobStays>>

Works(j) ==
    \/ Starts(j) \/ BodyEnds(j) \/ Finalize(j) \/ PublishDone(j) \/ PublishFailed(j) \/ Exits(j)

Next ==
    \/ \E c \in Commands :
        \/ Submit(c) \/ Wait(c) \/ DeadlinePasses(c)
        \/ SubmitFails(c) \/ PersistFails(c) \/ PollFails(c) \/ CommandDies(c)
    \/ \E j \in Jobs : Works(j) \/ AfterokFails(j) \/ Terminated(j) \/ Killed(j)

Spec == Init /\ [][Next]_vars

\* Frontend processes run, the clock runs, PBS starts the jobs it can start, and a
\* worker past its marker exits.  A job's body may hang.
FairSpec ==
    /\ Spec
    /\ \A c \in Commands : WF_vars(Submit(c) \/ Wait(c)) /\ WF_vars(DeadlinePasses(c))
    /\ \A j \in Jobs : WF_vars(Starts(j)) /\ WF_vars(Exits(j))

-----------------------------------------------------------------------------
(***************************************************************************)
(* Properties.                                                             *)
(***************************************************************************)
CommandLabels ==
    {"idle", "overlap", "clear", "clear done", "qsub", "record", "rollback", "poll", "done?",
     "probe", "verdict", "failed", "timeout", "nomarker", "refused", "ended", "completed"}

CommandTypes ==
    /\ pc \in [Commands -> CommandLabels]
    /\ todo \in [Commands -> SUBSET Stages] /\ submitted \in [Commands -> SUBSET Stages]
    /\ waits \in [Commands -> SUBSET Stages]
    /\ lock \in MaybeCommand /\ jobid \in [Stages -> MaybeCommand]
WaitTypes ==
    /\ late \in [Commands -> BOOLEAN] /\ executing \in [Commands -> BOOLEAN]
    /\ terminal \in [Commands -> BOOLEAN]
    /\ probed \in [Commands -> {"none", "queued", "running", "terminal", "unknown"}]
JobTypes ==
    /\ job \in [Jobs -> Alive \cup Gone \cup {"none"}] /\ ok \in [Jobs -> BOOLEAN]
    /\ done \in [Stages -> MaybeCommand] /\ failed \in [Stages -> MaybeCommand]
    /\ out \in [Stages -> MaybeCommand]
    /\ signalled \subseteq Jobs /\ ghosts \subseteq Jobs /\ stale \subseteq Jobs /\ lost \subseteq Jobs
    /\ faults \in 0..MaxFaults

\* Type invariant of the commands, their waits, the jobs and the markers.
TypeOK == CommandTypes /\ WaitTypes /\ JobTypes

\* However commands, crashes and rollbacks interleave, a stage of the run has at
\* most one job in the queue or on a node, jobs whose ID was lost aside.
OneJobPerStage ==
    \A s \in Stages : \A c, q \in Commands :
        /\ job[<<c, s>>] \in Alive /\ job[<<q, s>>] \in Alive
        /\ <<c, s>> \notin ghosts /\ <<q, s>> \notin ghosts
        => c = q

\* A wait only ever sees markers of the job it waits for, never those of an
\* earlier attempt, unless a job whose ID was lost is around.
OwnMarkersOnly ==
    ghosts = {} =>
        \A c \in Commands, s \in Stages :
            pc[c] \in {"poll", "done?", "probe", "verdict"} /\ s \in waits[c] =>
                done[s] \in {c, NoCommand} /\ failed[s] \in {c, NoCommand}

\* A job that got its done marker out before it left the scheduler is never
\* reported as "ended without marker": the grace cycle finds the marker.
DoneIsSeen ==
    \A c \in Commands, s \in Stages :
        pc[c] = "nomarker" /\ IsFirst(s, waits[c]) => done[s] # c

\* A completed full-run worked on its own results: every stage published its
\* outputs, and each dependent stage read those of this run's jobs.
CompletedIsWhole ==
    \A c \in Commands, s \in Stages :
        pc[c] = "completed" /\ ghosts = {} /\ lock = NoCommand /\ s \in Selected[c] /\ jobid[s] = c =>
            out[s] = c /\ <<c, s>> \notin stale

\* A stage the command saw done, whose job failed all the same: PBS holds its dependents.
Contradicted(c) == \E s \in Selected[c] \ waits[c] : ~ok[<<c, s>>]

\* Every command ends, whatever happens to its jobs, a body that hangs included -
\* unless a stage that was seen done failed afterwards, which leaves its dependents
\* in the queue, and the start deadline extended, for good.
CommandEnds == \A c \in Commands : pc[c] # "idle" ~> pc[c] \in EndedAt \/ Contradicted(c)

\* "Whatever happens, the stage writes and uploads" its done or its failed marker:
\* only SIGKILL, a lost node or a failed upload may leave none.
EndedJobLeftMarker ==
    \A c \in Commands, s \in Stages :
        job[<<c, s>>] = "over" /\ <<c, s>> \notin lost /\ jobid[s] = c /\ lock \in {c, NoCommand} =>
            done[s] = c \/ failed[s] = c
=============================================================================
