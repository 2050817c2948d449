--------------------------- MODULE StageExecutor ---------------------------
(***************************************************************************)
(* The commands that analyse one run directory on shared storage: the      *)
(* thread pool of stage_executor.py, the PBS jobs of submission_local.py   *)
(* with their markers on disk, and the stages that run in local            *)
(* containers.                                                             *)
(*                                                                         *)
(* A command is a whole analysis graph (full-run) or one stage (analyze,   *)
(* coinjoin-analysis, mappings). Each stage it submits gets a thread that  *)
(* waits for the stage; the main thread submits ready stages, collects the *)
(* threads that ended and cancels the others when one failed. A job is the *)
(* pair of the command that submitted it and its stage. Unlike the S3 path *)
(* (S3Run) nothing clears markers at submission and nothing refuses a      *)
(* submission while an older job of the stage lives.                       *)
(***************************************************************************)
EXTENDS Naturals, Sequences, FiniteSets

CONSTANTS
    Stages,
    Order,          \* StageGraph.ordered(): all stages, dependencies first
    Deps,           \* Deps[s]: the stages s depends on
    OnPbs,          \* stages whose runner is "pbs"; the others run in local containers
    Insists,        \* stages whose submission checks that its inputs exist (mappings)
    Commands,
    Plan,           \* Plan[c]: the stages of the command's graph
    Parallel,       \* commands given --parallel
    MaxFaults,      \* bound on faults
    NoCommand

Position(s) == CHOOSE n \in 1..Len(Order) : Order[n] = s

ASSUME ExecutorAssumption ==
    /\ Order \in Seq(Stages) /\ {Order[n] : n \in 1..Len(Order)} = Stages
    /\ \A m, n \in 1..Len(Order) : Order[m] = Order[n] => m = n
    /\ Deps \in [Stages -> SUBSET Stages]
    /\ \A s \in Stages : \A d \in Deps[s] : Position(d) < Position(s)
    /\ Plan \in [Commands -> SUBSET Stages] /\ IsFiniteSet(Stages)
    /\ OnPbs \subseteq Stages /\ Insists \subseteq OnPbs /\ Parallel \subseteq Commands
    /\ MaxFaults \in Nat /\ NoCommand \notin Commands

VARIABLES
    pc,         \* pc[c]: where the main thread is
    pending, running, completed, failures, cancelled,  \* execute_analysis' collections
    starting,   \* the stage whose submission is under way, or was cut short by a signal
    th,         \* th[c][s]: the thread that waits for the stage
    wid,        \* wid[c][s]: the job ID the thread read, as the command that submitted it
    seen,       \* the threads that saw a terminal state
    lock,       \* lock[p]: the command that holds the lock file p
    jobid,      \* .pbs/<stage>.jobid
    done, failed, \* .pbs/<stage>.done and .failed, by the command of the job that wrote it
    out,        \* the stage's outputs, by the command that computed them
    job,        \* job[j]: the PBS job
    term,       \* jobs that qdel sent a TERM
    faults,
    mixed,      \* history: stages submitted onto another attempt's markers or jobs
    late,       \* history: threads that gave up at their deadline
    ghosts,     \* history: jobs whose ID was not recorded
    stale,      \* history: stages that read outputs of another command
    struck      \* history: <<c, j>> where command c cancelled job j

poolVars == <<pending, starting, running, completed, failures, cancelled>>
threadVars == <<th, wid, seen>>
diskVars == <<jobid, done, failed, out>>
jobVars == <<job, term>>
histVars == <<mixed, late, ghosts, stale, struck>>
vars == <<pc, poolVars, threadVars, lock, diskVars, jobVars, faults, histVars>>

Jobs == Commands \X Stages
MaybeCommand == Commands \cup {NoCommand}
Locks == {"pipeline", "research"}
Submitting == {"qsub", "recorded", "enter"}
EndedAt == {"ok", "error", "stuck", "refused", "dead"}
CommandLabels == {"idle", "loop", "cancel", "raise", "drain"} \cup Submitting \cup EndedAt
Finished == {"ok", "error", "exit"}
ThreadLabels == {"none", "start", "look", "probe", "local"} \cup Finished
Alive == {"queued", "body", "exit0", "exit1"}
JobLabels == {"none", "succeeded", "failed"} \cup Alive

CommandTypes ==
    /\ pc \in [Commands -> CommandLabels]
    /\ pending \in [Commands -> SUBSET Stages] /\ running \in [Commands -> SUBSET Stages]
    /\ completed \in [Commands -> SUBSET Stages] /\ failures \in [Commands -> SUBSET Stages]
    /\ cancelled \in [Commands -> SUBSET Stages] /\ starting \in [Commands -> SUBSET Stages]
    /\ lock \in [Locks -> MaybeCommand]
ThreadTypes ==
    /\ th \in [Commands -> [Stages -> ThreadLabels]]
    /\ wid \in [Commands -> [Stages -> MaybeCommand]]
    /\ seen \subseteq Jobs
DiskTypes ==
    /\ jobid \in [Stages -> MaybeCommand] /\ done \in [Stages -> MaybeCommand]
    /\ failed \in [Stages -> MaybeCommand] /\ out \in [Stages -> MaybeCommand]
JobTypes ==
    /\ job \in [Jobs -> JobLabels] /\ term \subseteq Jobs /\ faults \in 0..MaxFaults
HistoryTypes ==
    /\ mixed \subseteq Jobs /\ late \subseteq Jobs /\ ghosts \subseteq Jobs /\ stale \subseteq Jobs
    /\ struck \subseteq Commands \X Jobs

\* The state holds what the program's variables and files can hold.
TypeOK == CommandTypes /\ ThreadTypes /\ DiskTypes /\ JobTypes /\ HistoryTypes

Nobody == [s \in Stages |-> NoCommand]
Init ==
    /\ pc = [c \in Commands |-> "idle"]
    /\ pending = [c \in Commands |-> {}] /\ running = [c \in Commands |-> {}]
    /\ completed = [c \in Commands |-> {}] /\ failures = [c \in Commands |-> {}]
    /\ cancelled = [c \in Commands |-> {}] /\ starting = [c \in Commands |-> {}]
    /\ th = [c \in Commands |-> [s \in Stages |-> "none"]]
    /\ wid = [c \in Commands |-> Nobody] /\ seen = {}
    /\ lock = [p \in Locks |-> NoCommand]
    /\ jobid = Nobody /\ done = Nobody /\ failed = Nobody /\ out = Nobody
    /\ job = [j \in Jobs |-> "none"] /\ term = {} /\ faults = 0
    /\ mixed = {} /\ late = {} /\ ghosts = {} /\ stale = {} /\ struck = {}

Fault == faults < MaxFaults /\ faults' = faults + 1

-----------------------------------------------------------------------------
(***************************************************************************)
(* Commands.                                                               *)
(***************************************************************************)
\* A graph is run by execute_analysis; a single stage by its own action.
IsGraph(c) == Plan[c] = Stages

\* command_lock_path
LockPath(c) == IF IsGraph(c) THEN "pipeline" ELSE "research"

\* run_analysis: every stage at once, or one at a time
MaxWorkers(c) == IF c \in Parallel THEN Cardinality(Plan[c]) ELSE 1

Released(c) == [p \in Locks |-> IF lock[p] = c THEN NoCommand ELSE lock[p]]

\* acquire_lock, without waiting
Begin(c) ==
    /\ pc[c] = "idle"
    /\ \/ /\ lock[LockPath(c)] = NoCommand
          /\ lock' = [lock EXCEPT ![LockPath(c)] = c]
          /\ pc' = [pc EXCEPT ![c] = "loop"]
          /\ pending' = [pending EXCEPT ![c] = Plan[c]]
       \/ /\ lock[LockPath(c)] # NoCommand
          /\ pc' = [pc EXCEPT ![c] = "refused"]
          /\ UNCHANGED <<lock, pending>>
    /\ UNCHANGED <<starting, running, completed, failures, cancelled, threadVars, diskVars, jobVars, faults, histVars>>

Ready(c) == {s \in pending[c] : Deps[s] \cap Plan[c] \subseteq completed[c]}
CanSubmit(c) == Ready(c) # {} /\ Cardinality(running[c]) < MaxWorkers(c) /\ failures[c] = {}
\* The first pending stage whose dependencies completed.
IsNext(c, s) == s \in Ready(c) /\ \A t \in Ready(c) : Position(s) <= Position(t)

\* Other attempts of stage s that c meets when it submits s: live jobs, commands at work, markers.
Foreign(c, s) ==
    {k \in Commands \ {c} : job[<<k, s>>] \in Alive \/ (s \in Plan[k] /\ pc[k] \notin EndedAt \cup {"idle"})}
Mixes(c, s) ==
    IF Foreign(c, s) # {} \/ done[s] # NoCommand \/ failed[s] # NoCommand
    THEN {<<c, s>>} \cup (Foreign(c, s) \X {s})
    ELSE {}

\* The outputs a stage reads; submit_mappings_pbs insists on them, the others find out in the job.
InputsExist(s) == \A d \in Deps[s] : out[d] # NoCommand
Accepts(s) == s \in Insists => InputsExist(s)
Reads(c, s) == IF \E d \in Deps[s] \cap Plan[c] : out[d] # c THEN {<<c, s>>} ELSE {}

\* runner.submit of a PBS stage, which writes the script and calls qsub: the job is in the queue,
\* and its ID is known only to this thread.
Qsub(c) ==
    /\ pc[c] = "loop" /\ CanSubmit(c)
    /\ \E s \in OnPbs :
        /\ IsNext(c, s) /\ Accepts(s)
        /\ pending' = [pending EXCEPT ![c] = @ \ {s}]
        /\ starting' = [starting EXCEPT ![c] = {s}]
        /\ job' = [job EXCEPT ![<<c, s>>] = "queued"]
        /\ mixed' = mixed \cup Mixes(c, s)
    /\ pc' = [pc EXCEPT ![c] = "qsub"]
    /\ UNCHANGED <<running, completed, failures, cancelled, threadVars, lock, diskVars, term, faults,
                   late, ghosts, stale, struck>>

\* persist_pbs_job_id, by a rename.
Record(c) ==
    /\ pc[c] = "qsub" /\ pc' = [pc EXCEPT ![c] = "recorded"]
    /\ jobid' = [s \in Stages |-> IF s \in starting[c] THEN c ELSE jobid[s]]
    /\ UNCHANGED <<poolVars, threadVars, lock, done, failed, out, jobVars, faults, histVars>>

\* executor.submit: the thread waits for the job from here on, while running does not hold the
\* stage yet. (A single stage waits in the main thread.)
StartThread(c) ==
    /\ pc[c] = "recorded" /\ pc' = [pc EXCEPT ![c] = "enter"]
    /\ th' = [th EXCEPT ![c] = [s \in Stages |-> IF s \in starting[c] THEN "start" ELSE @[s]]]
    /\ UNCHANGED <<poolVars, wid, seen, lock, diskVars, jobVars, faults, histVars>>

\* The assignment to running[...].
Enter(c) ==
    /\ pc[c] = "enter" /\ pc' = [pc EXCEPT ![c] = "loop"]
    /\ running' = [running EXCEPT ![c] = @ \cup starting[c]]
    /\ starting' = [starting EXCEPT ![c] = {}]
    /\ UNCHANGED <<pending, completed, failures, cancelled, threadVars, lock, diskVars, jobVars, faults, histVars>>

\* runner.submit of a local stage only prepares the container call; a thread makes it. A signal
\* before the stage is in running changes nothing: there is no job, and no cancel.
SubmitLocal(c) ==
    /\ pc[c] = "loop" /\ CanSubmit(c)
    /\ \E s \in Stages \ OnPbs :
        /\ IsNext(c, s)
        /\ pending' = [pending EXCEPT ![c] = @ \ {s}]
        /\ running' = [running EXCEPT ![c] = @ \cup {s}]
        /\ th' = [th EXCEPT ![c][s] = "local"]
        /\ mixed' = mixed \cup Mixes(c, s)
    /\ UNCHANGED <<pc, starting, completed, failures, cancelled, wid, seen, lock, diskVars, jobVars, faults,
                   late, ghosts, stale, struck>>

\* runner.submit raises before there is a job: an input is missing, or qsub failed.
SubmitFails(c) ==
    /\ pc[c] = "loop" /\ CanSubmit(c)
    /\ \E s \in OnPbs :
        /\ IsNext(c, s)
        /\ failures' = [failures EXCEPT ![c] = @ \cup {s}]
        /\ IF Accepts(s) THEN Fault ELSE UNCHANGED faults
    /\ pending' = [pending EXCEPT ![c] = {}]
    /\ pc' = [pc EXCEPT ![c] = "cancel"]
    /\ UNCHANGED <<starting, running, completed, cancelled, threadVars, lock, diskVars, jobVars, histVars>>

\* The job whose ID the command knows and no file holds.
Unrecorded(c) == IF pc[c] = "qsub" THEN {c} \X starting[c] ELSE {}

\* runner.submit raises after qsub: no job ID in qsub's answer, or it could not be persisted.
RecordFails(c) ==
    /\ pc[c] = "qsub" /\ Fault
    /\ ghosts' = ghosts \cup Unrecorded(c)
    /\ failures' = [failures EXCEPT ![c] = @ \cup starting[c]]
    /\ starting' = [starting EXCEPT ![c] = {}]
    /\ pending' = [pending EXCEPT ![c] = {}]
    /\ pc' = [pc EXCEPT ![c] = "cancel"]
    /\ UNCHANGED <<running, completed, cancelled, threadVars, lock, diskVars, jobVars, mixed, late, stale, struck>>

MutCancels(c) == (Plan[c] \cap OnPbs) \ cancelled[c]
\* _cancel_running: qdel_pbs_stage of each running stage that is not done and was not cancelled
\* before. The job is the one the stage's .jobid file names; a qdel that fails is not retried.
Cancels(c) == {s \in running[c] \cap OnPbs : th[c][s] \notin Finished} \ cancelled[c]
CancelRunning(c) ==
    LET named == {<<jobid[s], s>> : s \in {t \in Cancels(c) : jobid[t] # NoCommand}} IN
    /\ pc[c] \in {"cancel", "raise"}
    /\ pc' = [pc EXCEPT ![c] = IF @ = "cancel" THEN "loop" ELSE "drain"]
    /\ cancelled' = [cancelled EXCEPT ![c] = @ \cup Cancels(c)]
    /\ \E hit \in SUBSET named :
        /\ IF hit = named THEN faults' = faults ELSE Fault
        /\ job' = [j \in Jobs |-> IF j \in hit /\ job[j] = "queued" THEN "failed" ELSE job[j]]
        /\ term' = term \cup {j \in hit : job[j] \in Alive \ {"queued"}}
        /\ struck' = struck \cup ({c} \X {j \in hit : job[j] \in Alive})
    /\ UNCHANGED <<pending, starting, running, completed, failures, threadVars, lock, diskVars, mixed, late, ghosts, stale>>

MutCollectSwallows(c) ==
    /\ pc[c] = "loop" /\ ~CanSubmit(c)
    /\ \E s \in running[c] :
        /\ th[c][s] \in Finished
        /\ running' = [running EXCEPT ![c] = @ \ {s}]
        /\ completed' = [completed EXCEPT ![c] = @ \cup {t \in {s} : th[c][t] = "ok"}]
        /\ pending' = [pending EXCEPT ![c] = IF th[c][s] = "ok" THEN @ ELSE {}]
    /\ UNCHANGED <<pc, starting, failures, cancelled, threadVars, lock, diskVars, jobVars, faults, histVars>>
MutCollectLast(c) ==
    /\ pc[c] = "loop" /\ ~CanSubmit(c)
    /\ \E s \in running[c] :
        /\ th[c][s] \in Finished
        /\ running' = [running EXCEPT ![c] = @ \ {s}]
        /\ completed' = [completed EXCEPT ![c] = {s}]
    /\ UNCHANGED <<pc, pending, starting, failures, cancelled, threadVars, lock, diskVars, jobVars, faults, histVars>>
\* as_completed: any thread that ended, once no further stage can be submitted. An exception
\* fails the stage; a SystemExit leaves the loop.
Collect(c) ==
    /\ pc[c] = "loop" /\ ~CanSubmit(c)
    /\ \E s \in running[c] :
        /\ th[c][s] \in Finished
        /\ running' = [running EXCEPT ![c] = @ \ {s}]
        /\ \/ /\ th[c][s] = "ok"
              /\ completed' = [completed EXCEPT ![c] = @ \cup {s}]
              /\ UNCHANGED <<pc, pending, failures>>
           \/ /\ th[c][s] # "ok"
              /\ failures' = [failures EXCEPT ![c] = @ \cup {s}]
              /\ pending' = [pending EXCEPT ![c] = {}]
              /\ pc' = [pc EXCEPT ![c] = IF th[c][s] = "error" THEN "cancel" ELSE "raise"]
              /\ UNCHANGED completed
    /\ UNCHANGED <<starting, cancelled, threadVars, lock, diskVars, jobVars, faults, histVars>>

\* The loop is over: nothing runs and nothing can be submitted.
Finish(c) ==
    /\ pc[c] = "loop" /\ ~CanSubmit(c) /\ running[c] = {}
    /\ pc' = [pc EXCEPT ![c] = IF pending[c] # {} THEN "stuck" ELSE IF failures[c] # {} THEN "error" ELSE "ok"]
    /\ lock' = Released(c)
    /\ UNCHANGED <<poolVars, threadVars, diskVars, jobVars, faults, histVars>>

\* SIGINT or SIGTERM at any point: handle_termination restores the default handlers and closes
\* the locks, then SystemExit unwinds. A graph cancels what running holds; a single stage just
\* stops waiting. (A second signal is a kill: the handlers go with the lock.)
Interrupt(c) ==
    /\ pc[c] \in {"loop", "cancel", "raise", "drain"} \cup Submitting
    /\ lock[LockPath(c)] = c /\ Fault
    /\ lock' = Released(c)
    /\ ghosts' = ghosts \cup Unrecorded(c)
    /\ \/ /\ IsGraph(c)
          /\ pc' = [pc EXCEPT ![c] = IF @ \in {"raise", "drain"} THEN "drain" ELSE "raise"]
          /\ UNCHANGED th
       \/ /\ ~IsGraph(c)
          /\ pc' = [pc EXCEPT ![c] = "error"]
          /\ th' = [th EXCEPT ![c] = [s \in Stages |-> "none"]]
    /\ UNCHANGED <<poolVars, wid, seen, diskVars, jobVars, mixed, late, stale, struck>>

MutDrain(c) ==
    /\ pc[c] = "drain"
    /\ pc' = [pc EXCEPT ![c] = "error"]
    /\ lock' = Released(c)
    /\ UNCHANGED <<poolVars, threadVars, diskVars, jobVars, faults, histVars>>
\* The pool's exit joins its threads, those in running or not, before the interrupt leaves
\* execute_analysis.
Drain(c) ==
    /\ pc[c] = "drain" /\ \A s \in Stages : th[c][s] \in Finished \cup {"none"}
    /\ pc' = [pc EXCEPT ![c] = "error"]
    /\ lock' = Released(c)
    /\ UNCHANGED <<poolVars, threadVars, diskVars, jobVars, faults, histVars>>

\* SIGKILL: the kernel frees the lock; jobs go on, the threads do not.
CommandDies(c) ==
    /\ pc[c] \notin EndedAt \cup {"idle"} /\ Fault
    /\ pc' = [pc EXCEPT ![c] = "dead"]
    /\ lock' = Released(c)
    /\ th' = [th EXCEPT ![c] = [s \in Stages |-> "none"]]
    /\ ghosts' = ghosts \cup Unrecorded(c)
    /\ UNCHANGED <<poolVars, wid, seen, diskVars, jobVars, mixed, late, stale, struck>>

-----------------------------------------------------------------------------
(***************************************************************************)
(* Threads.                                                                *)
(***************************************************************************)
ThreadFrame == UNCHANGED <<pc, poolVars, lock, jobid, done, failed, jobVars, mixed, ghosts, struck>>
Goes(c, s, to) == th' = [th EXCEPT ![c][s] = to]

\* wait_for_pbs_marker reads the job ID once, from the file.
ReadJobId(c, s) ==
    /\ th[c][s] = "start" /\ Goes(c, s, "look")
    /\ wid' = [wid EXCEPT ![c][s] = jobid[s]]
    /\ ThreadFrame /\ UNCHANGED <<seen, out, faults, late, stale>>

MutLookForMarker(c, s) ==
    /\ th[c][s] = "look"
    /\ Goes(c, s, IF failed[s] # NoCommand THEN "error"
                  ELSE IF done[s] # NoCommand \/ <<c, s>> \in seen THEN "ok" ELSE "probe")
    /\ ThreadFrame /\ UNCHANGED <<wid, seen, out, faults, late, stale>>
\* A failed marker wins over a done marker; whose they are the files do not say.
LookForMarker(c, s) ==
    /\ th[c][s] = "look"
    /\ Goes(c, s, IF failed[s] # NoCommand THEN "error" ELSE IF done[s] # NoCommand THEN "ok" ELSE "probe")
    /\ ThreadFrame /\ UNCHANGED <<wid, seen, out, faults, late, stale>>

MutProbe(c, s) ==
    /\ th[c][s] = "probe"
    /\ Goes(c, s, IF job[<<wid[c][s], s>>] \in Alive THEN "look" ELSE "error")
    /\ ThreadFrame /\ UNCHANGED <<wid, seen, out, faults, late, stale>>
\* qstat (which may not answer), the deadline, and the one extra poll after a terminal state.
Probe(c, s) ==
    /\ th[c][s] = "probe"
    /\ LET alive == job[<<wid[c][s], s>>] \in Alive
           gaveUp == Goes(c, s, "error") /\ late' = late \cup {<<c, s>>} /\ UNCHANGED seen
       IN
       \/ <<c, s>> \in seen /\ Goes(c, s, "error") /\ UNCHANGED <<seen, late, faults>>
       \/ <<c, s>> \notin seen /\ alive /\ Goes(c, s, "look") /\ UNCHANGED <<seen, late, faults>>
       \/ <<c, s>> \notin seen /\ ~alive /\ Goes(c, s, "look") /\ seen' = seen \cup {<<c, s>>} /\ UNCHANGED <<late, faults>>
       \/ <<c, s>> \notin seen /\ ~alive /\ gaveUp /\ Fault
       \/ <<c, s>> \notin seen /\ alive /\ gaveUp /\ Fault
    /\ ThreadFrame /\ UNCHANGED <<wid, out, stale>>

\* A local container runs to its end; it has no cancel. The report's preflight (export_preflight_error)
\* calls sys.exit when an analysis is missing.
LocalStage(c, s) ==
    /\ th[c][s] = "local"
    /\ \/ /\ InputsExist(s) /\ Goes(c, s, "ok")
          /\ out' = [out EXCEPT ![s] = c]
          /\ stale' = stale \cup Reads(c, s)
          /\ UNCHANGED faults
       \/ /\ Goes(c, s, IF InputsExist(s) THEN "error" ELSE "exit") /\ UNCHANGED <<out, stale>>
          /\ IF InputsExist(s) THEN Fault ELSE UNCHANGED faults
    /\ ThreadFrame /\ UNCHANGED <<wid, seen, late>>

-----------------------------------------------------------------------------
(***************************************************************************)
(* PBS jobs: the script of local_preamble.sh around a stage's body.        *)
(***************************************************************************)
JobFrame == UNCHANGED <<pc, poolVars, threadVars, lock, jobid, mixed, late, ghosts, struck>>
Becomes(j, to) == job' = [job EXCEPT ![j] = to]

\* The preamble removes both markers, whoever wrote them, and sets the traps.
JobStarts(j) ==
    /\ job[j] = "queued" /\ Becomes(j, "body")
    /\ done' = [done EXCEPT ![j[2]] = NoCommand]
    /\ failed' = [failed EXCEPT ![j[2]] = NoCommand]
    /\ JobFrame /\ UNCHANGED <<out, term, faults, stale>>

\* The body computes the stage's outputs from those of its dependencies, or fails.
JobBody(j) ==
    /\ job[j] = "body"
    /\ \/ /\ InputsExist(j[2]) /\ Becomes(j, "exit0")
          /\ out' = [out EXCEPT ![j[2]] = j[1]]
          /\ stale' = stale \cup Reads(j[1], j[2])
          /\ UNCHANGED faults
       \/ /\ Becomes(j, "exit1") /\ UNCHANGED <<out, stale>>
          /\ IF InputsExist(j[2]) THEN Fault ELSE UNCHANGED faults
    /\ JobFrame /\ UNCHANGED <<done, failed, term>>

\* on_exit: the marker of the exit status, then the end of the job.
JobExits(j) ==
    /\ \/ /\ job[j] = "exit0" /\ Becomes(j, "succeeded")
          /\ done' = [done EXCEPT ![j[2]] = j[1]] /\ UNCHANGED failed
       \/ /\ job[j] = "exit1" /\ Becomes(j, "failed")
          /\ failed' = [failed EXCEPT ![j[2]] = j[1]] /\ UNCHANGED done
    /\ JobFrame /\ UNCHANGED <<out, term, faults, stale>>

\* TERM: the body exits with 143; on_exit has disarmed the trap and dies without a marker.
JobTerminated(j) ==
    /\ j \in term /\ term' = term \ {j}
    /\ \/ job[j] = "body" /\ Becomes(j, "exit1")
       \/ job[j] \in {"exit0", "exit1"} /\ Becomes(j, "failed")
    /\ JobFrame /\ UNCHANGED <<done, failed, out, faults, stale>>

\* SIGKILL, the loss of the node, or a job deleted by hand.
JobKilled(j) ==
    /\ job[j] \in Alive /\ Fault /\ Becomes(j, "failed")
    /\ JobFrame /\ UNCHANGED <<done, failed, out, term, stale>>

-----------------------------------------------------------------------------
MainThread(c) ==
    \/ Begin(c) \/ Qsub(c) \/ Record(c) \/ SubmitLocal(c) \/ StartThread(c) \/ Enter(c)
    \/ SubmitFails(c) \/ RecordFails(c) \/ CancelRunning(c) \/ Collect(c) \/ Finish(c) \/ Drain(c)
WaitThread(c, s) == ReadJobId(c, s) \/ LookForMarker(c, s) \/ Probe(c, s) \/ LocalStage(c, s)
JobStep(j) == JobStarts(j) \/ JobBody(j) \/ JobExits(j) \/ JobTerminated(j)

Next ==
    \/ \E c \in Commands : MainThread(c) \/ Interrupt(c) \/ CommandDies(c)
    \/ \E c \in Commands, s \in Stages : WaitThread(c, s)
    \/ \E j \in Jobs : JobStep(j) \/ JobKilled(j)

Spec == Init /\ [][Next]_vars

-----------------------------------------------------------------------------
(***************************************************************************)
(* Properties.                                                             *)
(***************************************************************************)
\* A thread reports success only for a job of its own command that succeeded, unless
\* the stage was submitted onto markers or jobs of another attempt.
SuccessIsOwn ==
    \A c \in Commands, s \in OnPbs :
        th[c][s] = "ok" /\ <<c, s>> \notin mixed => job[<<c, s>>] = "succeeded"

\* A job that succeeded is never reported failed, whatever the order of its marker, the
\* look and the qstat; only a deadline can do that. (The grace cycle after a terminal state.)
SuccessIsSeen ==
    \A c \in Commands, s \in OnPbs :
        /\ th[c][s] = "error" /\ <<c, s>> \notin mixed \cup late
        => job[<<c, s>>] # "succeeded"

\* A command that reports success ran every stage of its graph, each on the outputs of the
\* same command.
OkIsWhole ==
    \A c \in Commands : pc[c] = "ok" =>
        /\ completed[c] = Plan[c]
        /\ ({c} \X Plan[c]) \cap mixed = {} => ({c} \X Plan[c]) \cap stale = {}

\* Of the jobs of a command that ended, other than by SIGKILL, those still alive whose ID it
\* recorded, and that no other attempt of the stage met.
Left(c) == {s \in Stages : job[<<c, s>>] \in Alive /\ <<c, s>> \notin ghosts \cup mixed}

\* Every job left is named by its stage's .jobid file, so that it can be found and deleted, and
\* none is left but one the command gave up on at the deadline and those a signal made it
\* abandon: the job of an interrupted single stage, and, of an interrupted graph, at most the one
\* job whose submission the signal cut short after the ID was persisted and before its thread
\* was started (_cancel_running knows the stages in running alone).
NoJobLeftBehind ==
    \A c \in Commands : pc[c] \in {"ok", "error"} =>
        \A s \in Left(c) :
            /\ jobid[s] = c
            /\ <<c, s>> \notin late =>
                /\ pc[c] = "error" /\ th[c][s] = "none"
                /\ IsGraph(c) => starting[c] = {s}

\* A cancellation hits another command's job only where two attempts of a stage met.
CancelsOwnJobs ==
    \A h \in struck : h[2][1] # h[1] => <<h[1], h[2][2]>> \in mixed

\* The executor never finds stages it can neither run nor drop.
NeverStuck == \A c \in Commands : pc[c] # "stuck"

=============================================================================
