--------------------------------- MODULE Watch ---------------------------------
(***************************************************************************)
(* `cjp watch` (watch.py): it discovers the pods and the PBS jobs of a     *)
(* run, starts a reader thread for each source, and prints what the        *)
(* readers put into one queue until every source has said that it ended.   *)
(* A PBS job writes its own log file while it runs; its output file may    *)
(* appear only after the job ended.                                        *)
(***************************************************************************)
EXTENDS Records

CONSTANTS PbsIds,        \* the job IDs PBS gives out
          Lines,         \* bound: lines of one log
          Replay,        \* --tail: the lines replayed of a log first seen
          IdlePolls      \* polls of an ended job without a new line that end its reader

\* A printed line: of which file or process, of which of its beginnings, and its number there.
PrintedLines == {"out", "log", "pod", "frontend"} \X Nat \X Nat

\* One idle poll would not do: what a job wrote between a read and the qstat that found it ended
\* is read by the next poll.
ASSUME WatchAssumption ==
    /\ Lines \in Nat \ {0} /\ Replay \in Nat /\ IdlePolls \in Nat \ {0, 1}
    /\ None \notin PrintedLines /\ None \notin Nat

VARIABLES wants,         \* the options of the command, None before it starts
          watch,         \* main: where it is, its active sources, its exit code
          job,           \* the PBS job: its state, and whether qstat still knows it
          logs,          \* its files: how often each was begun anew, and its length; absent is None
          poll,          \* the thread that reads them
          tails,         \* the processes that follow the pod and the front end's log: exit codes
          queue,         \* what the readers put: a line, or the end of a source
          shown          \* the lines printed

watchVars == <<wants, watch, job, logs, poll, tails, queue, shown>>

Files == {"out", "log"}
Ended(source) == [source |-> source, line |-> None]
Line(source, line) == [source |-> source, line |-> line]
Length(f) == IF logs[f] = None THEN 0 ELSE logs[f].length
Put(messages) == queue' = queue \o messages

\* The options of a watch, and the job IDs its sources name.
JobIds == UNION {[stages -> PbsIds] : stages \in SUBSET {"followed", "stale"}}
Wants == [kubernetes : BOOLEAN, pbs : BOOLEAN, follow : BOOLEAN, frontend : BOOLEAN,
          recorded : JobIds, logged : JobIds, given : JobIds, described : SUBSET PbsIds]

NoWatch == [at |-> "off", active |-> {}, code |-> None]
NothingRead ==
    /\ job = [state |-> "Q", known |-> TRUE]
    /\ logs = [f \in Files |-> None]
    /\ poll = [at |-> "off", pos |-> [f \in Files |-> None], cut |-> [f \in Files |-> 0],
               seen |-> [f \in Files |-> 0], missed |-> {}, emitted |-> FALSE, idle |-> 0, lost |-> FALSE]
    /\ tails = [s \in {"pod", "frontend"} |-> "off"]
    /\ queue = << >>
    /\ shown = {}

IdleWatch == wants = None /\ watch = NoWatch /\ NothingRead
WatchInit == wants \in Wants /\ watch = [NoWatch EXCEPT !.at = "discover"] /\ NothingRead

-----------------------------------------------------------------------------
\* The job and its files (PBS and the worker it runs).
JobRuns ==
    /\ watch.at = "streaming"
    /\ job.state \in {"Q", "R"}
    /\ job' = [job EXCEPT !.state = IF @ = "Q" THEN "R" ELSE "F"]
    /\ UNCHANGED <<wants, watch, logs, poll, tails, queue, shown>>

JobWrites ==
    /\ watch.at = "streaming" /\ job.state = "R"
    /\ Length("log") < Lines
    /\ logs' = [logs EXCEPT !["log"] = [begun |-> IF @ = None THEN 1 ELSE @.begun, length |-> Length("log") + 1]]
    /\ UNCHANGED <<wants, watch, job, poll, tails, queue, shown>>

\* A worker that starts over begins its log anew.
JobStartsOver ==
    /\ watch.at = "streaming" /\ job.state = "R" /\ logs["log"] # None /\ logs["log"].begun = 1
    /\ logs' = [logs EXCEPT !["log"] = [begun |-> 2, length |-> 0]]
    /\ UNCHANGED <<wants, watch, job, poll, tails, queue, shown>>

\* PBS copies the output file back when the job has ended.
JobOutput ==
    /\ watch.at = "streaming" /\ job.state = "F" /\ logs["out"] = None
    /\ logs' = [logs EXCEPT !["out"] = [begun |-> 1, length |-> 1]]
    /\ UNCHANGED <<wants, watch, job, poll, tails, queue, shown>>

\* The server forgets an ended job.
JobForgotten ==
    /\ watch.at = "streaming" /\ job.state = "F" /\ job.known
    /\ job' = [job EXCEPT !.known = FALSE]
    /\ UNCHANGED <<wants, watch, logs, poll, tails, queue, shown>>

-----------------------------------------------------------------------------
\* The job of each stage: the run's .jobid files, overridden by the front end's log, and that by
\* --pbs-job.  A job qstat cannot describe is left out, and hides no other.
_pbs_sources(w) ==
    LET jobs == w.given @@ w.logged @@ w.recorded
    IN {s \in DOMAIN jobs : jobs[s] \in w.described}

Processes == (IF wants.kubernetes THEN {"pod"} ELSE {}) \cup (IF wants.frontend THEN {"frontend"} ELSE {})
Returns(code) == watch' = [watch EXCEPT !.at = "returned", !.code = code]

\* The outer pod, and the engine's, are looked for until --wait-seconds have passed.
_kubernetes_sources ==
    /\ watch.at = "discover"
    /\ \/ watch' = [watch EXCEPT !.at = "jobs"]
       \/ wants.kubernetes /\ Returns("usage")
    /\ UNCHANGED <<wants, job, logs, poll, tails, queue, shown>>

MutStartReaders ==
    /\ watch.at = "jobs"
    /\ LET follows == IF wants.pbs /\ "followed" \in _pbs_sources(wants) THEN {"pbs"} ELSE {}
       IN IF wants.pbs /\ _pbs_sources(wants) = {} THEN Returns("usage") /\ UNCHANGED <<poll, tails>>
          ELSE /\ watch' = [watch EXCEPT !.at = "streaming", !.active = Processes \cup _pbs_sources(wants)]
               /\ poll' = IF follows = {} THEN poll ELSE [poll EXCEPT !.at = "out"]
               /\ tails' = [s \in DOMAIN tails |-> IF s \in Processes THEN "follows" ELSE "off"]
    /\ UNCHANGED <<wants, job, logs, queue, shown>>

\* main goes on to the jobs, and starts a reader per source.
StartReaders ==
    /\ watch.at = "jobs"
    /\ LET follows == IF wants.pbs /\ "followed" \in _pbs_sources(wants) THEN {"pbs"} ELSE {}
       IN IF wants.pbs /\ _pbs_sources(wants) = {} THEN Returns("usage") /\ UNCHANGED <<poll, tails>>
          ELSE /\ watch' = [watch EXCEPT !.at = "streaming", !.active = Processes \cup follows]
               /\ poll' = IF follows = {} THEN poll ELSE [poll EXCEPT !.at = "out"]
               /\ tails' = [s \in DOMAIN tails |-> IF s \in Processes THEN "follows" ELSE "off"]
    /\ UNCHANGED <<wants, job, logs, queue, shown>>

\* kubectl prints a line, or ends with the pod; tail -f of the front end's log never ends.
_reader(s) ==
    /\ watch.at = "streaming" /\ tails[s] = "follows"
    /\ \/ /\ <<s, 1, 1>> \notin shown /\ Line(s, <<s, 1, 1>>) \notin Range(queue)
          /\ Put(<<Line(s, <<s, 1, 1>>)>>) /\ UNCHANGED tails
       \/ /\ s = "pod" \/ ~wants.follow
          /\ \E code \in {"ok", "failed"} : tails' = [tails EXCEPT ![s] = code]
          /\ Put(<<Ended(s)>>)
    /\ UNCHANGED <<wants, watch, job, logs, poll, shown>>

-----------------------------------------------------------------------------
\* The lines of a file a poll reads, from where: the tail of a file that is new or has shrunk,
\* else what was appended.
Replays(f) == poll.pos[f] = None \/ logs[f].length < poll.pos[f]
_log_lines(f) ==
    LET from == IF Replays(f) THEN Max({0, logs[f].length - Replay}) ELSE poll.pos[f]
    IN [i \in 1..(logs[f].length - from) |-> Line("pbs", <<f, logs[f].begun, from + i>>)]

\* A poll reads the output file, then the log directory.
Reads ==
    /\ watch.at = "streaming" /\ poll.at \in Files
    /\ LET f == poll.at
           next == IF f = "out" THEN "log" ELSE "state"
       IN IF logs[f] = None THEN poll' = [poll EXCEPT !.at = next] /\ UNCHANGED queue
          ELSE /\ Put(_log_lines(f))
               /\ poll' = [poll EXCEPT
                      !.at = next, !.pos[f] = logs[f].length,
                      !.emitted = @ \/ Len(_log_lines(f)) > 0,
                      !.cut[f] = IF Replays(f) THEN Max({0, logs[f].length - Replay}) ELSE @,
                      !.seen[f] = logs[f].begun,
                      !.missed = IF ~Replays(f) /\ poll.seen[f] # logs[f].begun THEN @ \cup {f} ELSE @]
    /\ UNCHANGED <<wants, watch, job, logs, tails, shown>>

\* Then it asks for the job's state, and counts the polls of an ended job that brought nothing.
MutEndsAfter(idle, last) == last = "F" /\ idle >= IdlePolls - 1
EndsAfter(idle, last) == last = "F" /\ idle >= IdlePolls
AsksState ==
    /\ watch.at = "streaming" /\ poll.at = "state"
    /\ IF ~wants.follow THEN poll' = [poll EXCEPT !.at = "ends"]
       ELSE IF ~job.known THEN poll' = [poll EXCEPT !.at = "ends", !.lost = TRUE]
       ELSE LET idle == IF poll.emitted \/ job.state # "F" THEN 0 ELSE poll.idle + 1
            IN poll' = [poll EXCEPT !.idle = idle, !.emitted = FALSE,
                                    !.at = IF EndsAfter(idle, job.state) THEN "ends" ELSE "out"]
    /\ UNCHANGED <<wants, watch, job, logs, tails, queue, shown>>

MutReaderEnds ==
    /\ watch.at = "streaming" /\ poll.at = "ends"
    /\ poll' = [poll EXCEPT !.at = "ended"]
    /\ IF poll.lost THEN UNCHANGED queue ELSE Put(<<Ended("pbs")>>)
    /\ UNCHANGED <<wants, watch, job, logs, tails, shown>>

\* However the reader ends, it says so.
ReaderEnds ==
    /\ watch.at = "streaming" /\ poll.at = "ends"
    /\ poll' = [poll EXCEPT !.at = "ended"]
    /\ Put(<<Ended("pbs")>>)
    /\ UNCHANGED <<wants, watch, job, logs, tails, shown>>

-----------------------------------------------------------------------------
\* The threads are daemons, and end with main.
\* main prints the next message, until no source is active.
stream_sources ==
    /\ watch.at = "streaming" /\ watch.active # {} /\ queue # << >>
    /\ queue' = Tail(queue)
    /\ IF Head(queue).line = None
       THEN watch' = [watch EXCEPT !.active = @ \ {Head(queue).source}] /\ UNCHANGED shown
       ELSE shown' = shown \cup {Head(queue).line} /\ UNCHANGED watch
    /\ UNCHANGED <<wants, job, logs, poll, tails>>

Finishes ==
    /\ watch.at = "streaming" /\ watch.active = {}
    /\ Returns(IF "failed" \in Range(tails) THEN "failure" ELSE "ok")
    /\ UNCHANGED <<wants, job, logs, poll, tails, queue, shown>>

Interrupted ==
    /\ watch.at = "streaming"
    /\ Returns("interrupted")
    /\ UNCHANGED <<wants, job, logs, poll, tails, queue, shown>>

PodEnds == _reader("pod") /\ tails'["pod"] # tails["pod"]
WatchSteps == _kubernetes_sources \/ StartReaders \/ Reads \/ AsksState \/ ReaderEnds \/ stream_sources \/ Finishes

\* The threads and processes of the watch run; the job and the pod it follows end.
WatchFairness == WF_watchVars(WatchSteps) /\ WF_watchVars(JobRuns) /\ WF_watchVars(PodEnds)

WatchNext ==
    \/ JobRuns
    \/ JobWrites
    \/ JobStartsOver
    \/ JobOutput
    \/ JobForgotten
    \/ _kubernetes_sources
    \/ StartReaders
    \/ \E s \in {"pod", "frontend"} : _reader(s)
    \/ Reads
    \/ AsksState
    \/ ReaderEnds
    \/ stream_sources
    \/ Finishes
    \/ Interrupted

WatchSpec == WatchInit /\ [][WatchNext]_watchVars /\ WatchFairness

-----------------------------------------------------------------------------
\* The state of the watch is of its kind.
WatchTypeOK ==
    /\ watch.at \in {"off", "discover", "jobs", "streaming", "returned"}
    /\ watch.active \subseteq {"pod", "frontend", "pbs"}
    /\ poll.at \in Files \cup {"off", "state", "ends", "ended"}
    /\ \A f \in Files : logs[f] # None => logs[f].length \in 0..Lines

\* A watch that ends by itself has shown every line the followed job wrote, but for what --tail cut
\* and for a log begun anew and grown past the old position between two polls: the reader reads the
\* files once more after it saw the job ended (watch.py:295-325), and main prints everything a
\* source put before its end (watch.py:381-387).  A job the server forgot is not waited for.
WatchShowsTheEnd ==
    watch.at = "returned" /\ watch.code \in {"ok", "failure"} /\ wants.pbs /\ wants.follow /\ ~poll.lost
    /\ "followed" \in _pbs_sources(wants) =>
        \/ logs["log"] = None
        \/ "log" \in poll.missed
        \/ \A i \in (poll.cut["log"] + 1)..logs["log"].length : <<"log", logs["log"].begun, i>> \in shown

\* A watch of its kind has shown the end of what it followed.
WatchHolds == WatchTypeOK /\ WatchShowsTheEnd

\* A watch that follows a run ends, unless it follows the front end's log: its sources end, and say so.
WatchReturns == (watch.at = "discover" /\ ~wants.frontend) ~> (watch.at = "returned")
=============================================================================
