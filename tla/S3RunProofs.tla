---------------------------- MODULE S3RunProofs ----------------------------
(***************************************************************************)
(* Proofs about S3Run, for every stage graph, any number of commands and   *)
(* any number of faults: types, one job per stage, no wait that reads      *)
(* another attempt's markers or gives up a job whose marker is out, and    *)
(* completed runs that worked on their own results.                        *)
(***************************************************************************)
EXTENDS S3Run, TLAPS

Inside(c) == pc[c] \notin EndedAt \cup {"idle"}
Past(c) == Inside(c) /\ pc[c] # "overlap"
Waiting == {"poll", "done?", "probe", "verdict"}

\* From acquire_lock to its end a command holds the lock.
HolderInside == \A c \in Commands : Inside(c) => lock = c

\* The overlap check knows of every job that is alive, but for one whose qsub just returned.
Recorded ==
    \A c \in Commands, s \in Stages :
        job[<<c, s>>] \in Alive /\ <<c, s>> \notin ghosts =>
            jobid[s] = c \/ (pc[c] = "record" /\ IsFirst(s, todo[c]))

\* Past the overlap check no other command's job is alive.
Alone ==
    \A c, q \in Commands, s \in Stages :
        Past(c) /\ q # c /\ job[<<q, s>>] \in Alive => <<q, s>> \in ghosts

Own(c, marker) == marker \in {c, NoCommand}

\* The markers of the stages submitted so far are the command's own, and so is each
\* marker of the next one, once it is cleared.
MarkersCleared ==
    ghosts = {} =>
        \A c \in Commands, s \in Stages :
            /\ Past(c) /\ s \in Selected[c] \ todo[c] => Own(c, done[s]) /\ Own(c, failed[s])
            /\ pc[c] \in {"clear done", "qsub", "record"} /\ IsFirst(s, todo[c]) => Own(c, failed[s])
            /\ pc[c] \in {"qsub", "record"} /\ IsFirst(s, todo[c]) => Own(c, done[s])

SubmittedAll ==
    \A c \in Commands :
        /\ pc[c] \in {"idle", "overlap"} => todo[c] = Selected[c]
        /\ pc[c] \in Waiting => todo[c] = {}
WaitsSelected == \A c \in Commands : waits[c] \subseteq Selected[c]

Links == HolderInside /\ Recorded /\ Alone /\ MarkersCleared /\ SubmittedAll /\ WaitsSelected
RunInv == TypeOK /\ Links

CommandStep(c) ==
    \/ Submit(c) \/ Wait(c) \/ DeadlinePasses(c)
    \/ SubmitFails(c) \/ PersistFails(c) \/ PollFails(c) \/ CommandDies(c)

JobStep(j) == Works(j) \/ AfterokFails(j) \/ Terminated(j) \/ Killed(j)

-----------------------------------------------------------------------------
\* At most one stage is the first of a set, and it is a member of it.
LEMMA FirstIsUnique ==
  ASSUME NEW S, NEW s \in Stages, NEW t \in Stages, IsFirst(s, S)
  PROVE  s \in S /\ (IsFirst(t, S) => s = t)
  <1>1. PICK i \in 1..Len(Order) : s = Order[i] /\ s \in S /\ \A k \in 1..(i - 1) : Order[k] \notin S
    BY DEF IsFirst
  <1>2. ASSUME IsFirst(t, S) PROVE s = t
    <2>1. PICK n \in 1..Len(Order) : t = Order[n] /\ t \in S /\ \A k \in 1..(n - 1) : Order[k] \notin S
      BY <1>2 DEF IsFirst
    <2>2. Len(Order) \in Nat
      BY RunAssumption
    <2>3. ~(i < n) /\ ~(n < i)
      BY <1>1, <2>1, <2>2
    <2> QED
      BY <1>1, <2>1, <2>2, <2>3
  <1> QED
    BY <1>1, <1>2

-----------------------------------------------------------------------------
(***************************************************************************)
(* Types.                                                                  *)
(***************************************************************************)
LEMMA InitTypes == Init => TypeOK
  BY RunAssumption DEF Init, TypeOK, CommandTypes, WaitTypes, JobTypes, CommandLabels, MaybeCommand, Jobs

\* A fault stays within the bound.
LEMMA FaultTypes ==
  ASSUME faults \in 0..MaxFaults, Fault \/ faults' = faults
  PROVE  faults' \in 0..MaxFaults
  BY RunAssumption DEF Fault

\* qdel keeps the types of the jobs.
LEMMA CancelTypes ==
  ASSUME NEW js, JobTypes, CancelAll(js)
  PROVE  /\ job' \in [Jobs -> Alive \cup Gone \cup {"none"}] /\ ok' \in [Jobs -> BOOLEAN]
         /\ faults' \in 0..MaxFaults
         /\ js \subseteq Jobs => signalled' \subseteq Jobs
  <1>1. faults' \in 0..MaxFaults
    BY FaultTypes DEF CancelAll, JobTypes
  <1>2. PICK ks \in SUBSET js : Qdel(ks)
    BY DEF CancelAll
  <1> QED
    BY <1>1, <1>2 DEF Qdel, JobTypes, Gone

LEMMA NextJobTypes ==
  ASSUME NEW c \in Commands
  PROVE  NextJob(c) \subseteq Jobs
  BY DEF NextJob, Jobs

\* A job left without a record is a job.
LEMMA GhostTypes ==
  ASSUME NEW G, NEW H, G \subseteq Jobs, H \subseteq Jobs, ghosts' = G \cup H
  PROVE  ghosts' \subseteq Jobs
  OBVIOUS

LEMMA PairIsJob ==
  ASSUME NEW c \in Commands, NEW s \in Stages
  PROVE  {<<c, s>>} \subseteq Jobs
  BY DEF Jobs

LEMMA CommandStepTypes ==
  ASSUME NEW c \in Commands, TypeOK, CommandStep(c)
  PROVE  TypeOK'
  <1> USE DEF TypeOK, CommandTypes, WaitTypes, JobTypes, MaybeCommand
  <1> USE DEF CommandLabels, GoTo, waitVars, jobVars, markVars
  <1>1. CASE AcquireLock(c)
    BY <1>1 DEF AcquireLock
  <1>2. CASE CheckOverlap(c)
    BY <1>2 DEF CheckOverlap, Ends
  <1>3. CASE ClearMarkers(c)
    BY <1>3 DEF ClearMarkers
  <1>4. CASE Qsub(c)
    BY <1>4 DEF Qsub, Accepted, Jobs, Alive
  <1>5. CASE Record(c)
    <2>0. PICK s \in Stages :
            /\ submitted' = [submitted EXCEPT ![c] = @ \cup {s}]
            /\ todo' = [todo EXCEPT ![c] = @ \ {s}]
            /\ jobid' = [jobid EXCEPT ![s] = c]
      BY <1>5 DEF Record
    <2>1. CommandTypes'
      <3>1. pc' \in [Commands -> CommandLabels] /\ lock' \in MaybeCommand
        <4>1. PICK l \in {"clear", "poll", "ended"} : pc' = [pc EXCEPT ![c] = l]
          BY <1>5 DEF Record, Ends
        <4>2. lock' \in {lock, NoCommand}
          BY <1>5 DEF Record, Ends
        <4>3. pc' \in [Commands -> CommandLabels]
          BY <4>1
        <4> QED
          BY <4>2, <4>3
      <3>2. todo' \in [Commands -> SUBSET Stages] /\ submitted' \in [Commands -> SUBSET Stages]
        BY <2>0
      <3>3. jobid' \in [Stages -> MaybeCommand]
        BY <2>0
      <3>4. waits' = waits
        BY <1>5 DEF Record
      <3> QED
        BY <3>1, <3>2, <3>3, <3>4
    <2>2. WaitTypes'
      BY <1>5 DEF Record
    <2>3. JobTypes'
      BY <1>5 DEF Record
    <2> QED
      BY <2>1, <2>2, <2>3
  <1>6. CASE SubmitFails(c)
    <2>1. CommandTypes'
      BY <1>6 DEF SubmitFails
    <2>2. WaitTypes'
      BY <1>6 DEF SubmitFails
    <2>3. JobTypes'
      <3>1. ghosts' \subseteq Jobs
        BY <1>6, NextJobTypes DEF SubmitFails
      <3>2. job' \in [Jobs -> Alive \cup Gone \cup {"none"}]
        BY <1>6 DEF SubmitFails, Accepted, Jobs, Alive
      <3> QED
        BY <1>6, <3>1, <3>2, FaultTypes DEF SubmitFails
    <2> QED
      BY <2>1, <2>2, <2>3
  <1>7. CASE PersistFails(c)
    <2>0. PICK s \in Stages :
            /\ submitted' = [submitted EXCEPT ![c] = @ \cup {s}]
            /\ ghosts' = ghosts \cup {<<c, s>>}
      BY <1>7 DEF PersistFails
    <2>1. CommandTypes'
      BY <1>7, <2>0 DEF PersistFails
    <2>2. WaitTypes'
      BY <1>7 DEF PersistFails
    <2>3. JobTypes'
      <3>0. ghosts \subseteq Jobs /\ {<<c, s>>} \subseteq Jobs
        BY PairIsJob
      <3>1. ghosts' \subseteq Jobs
        BY <2>0, <3>0, GhostTypes
      <3> QED
        BY <1>7, <3>1, FaultTypes DEF PersistFails
    <2> QED
      BY <2>1, <2>2, <2>3
  <1>8. CASE Rollback(c)
    <2>1. CommandTypes'
      BY <1>8 DEF Rollback, Ends
    <2>2. WaitTypes'
      BY <1>8 DEF Rollback
    <2>3. JobTypes'
      <3>1. {c} \X submitted[c] \subseteq Jobs
        BY DEF Jobs
      <3> QED
        BY <1>8, <3>1, CancelTypes DEF Rollback
    <2> QED
      BY <2>1, <2>2, <2>3
  <1>9. CASE CheckFailed(c)
    BY <1>9 DEF CheckFailed, Stays
  <1>10. CASE CheckDone(c)
    <2>1. CommandTypes'
      <3>1. pc' \in [Commands -> CommandLabels] /\ lock' \in MaybeCommand
        <4>1. PICK l \in {"completed", "poll", "verdict", "probe"} : pc' = [pc EXCEPT ![c] = l]
          BY <1>10 DEF CheckDone, Ends
        <4>2. lock' \in {lock, NoCommand}
          BY <1>10 DEF CheckDone, Ends
        <4>3. pc' \in [Commands -> CommandLabels]
          BY <4>1
        <4> QED
          BY <4>2, <4>3
      <3>2. waits' \in [Commands -> SUBSET Stages]
        <4>1. PICK s \in Stages : waits' = [waits EXCEPT ![c] = @ \ {s}] \/ waits' = waits
          BY <1>10 DEF CheckDone
        <4> QED
          BY <4>1
      <3> QED
        BY <1>10, <3>1, <3>2 DEF CheckDone, Stays
    <2>2. WaitTypes'
      BY <1>10 DEF CheckDone
    <2>3. JobTypes'
      BY <1>10 DEF CheckDone, Stays
    <2> QED
      BY <2>1, <2>2, <2>3
  <1>11. CASE Probe(c)
    BY <1>11 DEF Probe, Stays
  <1>12. CASE Verdict(c)
    BY <1>12 DEF Verdict, Stays
  <1>13. CASE CancelDependents(c)
    <2>1. CommandTypes'
      BY <1>13 DEF CancelDependents, Ends
    <2>2. WaitTypes'
      BY <1>13 DEF CancelDependents
    <2>3. JobTypes'
      <3>1. PICK s \in Stages : CancelAll({c} \X (Blocked(s) \cap waits[c]))
        BY <1>13 DEF CancelDependents
      <3>2. {c} \X (Blocked(s) \cap waits[c]) \subseteq Jobs
        BY DEF Jobs
      <3> QED
        BY <1>13, <3>1, <3>2, CancelTypes DEF CancelDependents
    <2> QED
      BY <2>1, <2>2, <2>3
  <1>14. CASE DeadlinePasses(c)
    BY <1>14 DEF DeadlinePasses, Stays
  <1>15. CASE PollFails(c)
    <2>1. CommandTypes'
      BY <1>15 DEF PollFails
    <2>2. WaitTypes'
      BY <1>15 DEF PollFails
    <2>3. JobTypes'
      BY <1>15, FaultTypes DEF PollFails
    <2> QED
      BY <2>1, <2>2, <2>3
  <1>16. CASE CommandDies(c)
    <2>1. CommandTypes'
      BY <1>16 DEF CommandDies, Ends
    <2>2. WaitTypes'
      BY <1>16 DEF CommandDies
    <2>3. JobTypes'
      <3>1. ghosts' \subseteq Jobs
        BY <1>16, NextJobTypes DEF CommandDies
      <3> QED
        BY <1>16, <3>1, FaultTypes DEF CommandDies
    <2> QED
      BY <2>1, <2>2, <2>3
  <1> QED
    BY <1>1, <1>2, <1>3, <1>4, <1>5, <1>6, <1>7, <1>8, <1>9, <1>10, <1>11, <1>12, <1>13, <1>14,
       <1>15, <1>16 DEF CommandStep, Submit, Wait

LEMMA JobStepTypes ==
  ASSUME NEW j \in Jobs, TypeOK, JobStep(j)
  PROVE  TypeOK'
  <1> USE DEF TypeOK, CommandTypes, WaitTypes, JobTypes, MaybeCommand
  <1> USE DEF JobStays, cmdVars, waitVars, markVars, Moves, Fails, Alive, Gone
  <1>0. j[1] \in Commands /\ j[2] \in Stages
    BY DEF Jobs
  <1>1. CASE Starts(j)
    BY <1>1 DEF Starts
  <1>2. CASE BodyEnds(j)
    BY <1>0, <1>2 DEF BodyEnds
  <1>3. CASE Finalize(j)
    <2>1. CommandTypes'
      BY <1>3 DEF Finalize
    <2>2. WaitTypes'
      BY <1>3 DEF Finalize
    <2>3. JobTypes'
      BY <1>3, FaultTypes DEF Finalize
    <2> QED
      BY <2>1, <2>2, <2>3
  <1>4. CASE PublishDone(j)
    <2>1. CommandTypes'
      BY <1>4 DEF PublishDone
    <2>2. WaitTypes'
      BY <1>4 DEF PublishDone
    <2>3. JobTypes'
      BY <1>0, <1>4, FaultTypes DEF PublishDone
    <2> QED
      BY <2>1, <2>2, <2>3
  <1>5. CASE PublishFailed(j)
    BY <1>0, <1>5, FaultTypes DEF PublishFailed
  <1>6. CASE Exits(j)
    BY <1>6 DEF Exits
  <1>7. CASE AfterokFails(j)
    BY <1>7 DEF AfterokFails
  <1>8. CASE Terminated(j)
    BY <1>8, FaultTypes DEF Terminated
  <1>9. CASE Killed(j)
    BY <1>9, FaultTypes DEF Killed
  <1> QED
    BY <1>1, <1>2, <1>3, <1>4, <1>5, <1>6, <1>7, <1>8, <1>9 DEF JobStep, Works

\* Type correctness of commands, waits, jobs and markers, for every stage graph.
THEOREM RunTypeCorrect == Spec => []TypeOK
  <1>1. TypeOK /\ [Next]_vars => TypeOK'
    <2> SUFFICES ASSUME TypeOK, [Next]_vars PROVE TypeOK'
      OBVIOUS
    <2>1. CASE UNCHANGED vars
      BY <2>1 DEF vars, cmdVars, waitVars, jobVars, markVars, TypeOK, CommandTypes, WaitTypes, JobTypes
    <2>2. CASE Next
      BY <2>2, CommandStepTypes, JobStepTypes DEF Next, CommandStep, JobStep
    <2> QED
      BY <2>1, <2>2
  <1> QED
    BY <1>1, InitTypes, PTL DEF Spec

-----------------------------------------------------------------------------
(***************************************************************************)
(* What the steps do to the state the invariant is about.                  *)
(***************************************************************************)
\* Jobs only leave; none comes to life.
OnlyLeave == \A k \in Jobs : job'[k] \in Alive => job[k] \in Alive

\* A job's step writes at most its own stage's markers, and while it is alive.
JobEffect(j) ==
    /\ UNCHANGED <<pc, todo, waits, lock, jobid, ghosts>>
    /\ OnlyLeave
    /\ job[j] \in Alive
    /\ \A s \in Stages :
        /\ done'[s] = done[s] \/ (s = j[2] /\ done'[s] = j[1])
        /\ failed'[s] = failed[s] \/ (s = j[2] /\ failed'[s] = j[1])

\* A command that waits, gives up or dies.
RetreatEffect(c) ==
    /\ Inside(c)
    /\ UNCHANGED <<todo, jobid, done, failed>>
    /\ OnlyLeave
    /\ ghosts' = IF pc[c] = "record" THEN ghosts \cup NextJob(c) ELSE ghosts
    /\ \A q \in Commands : waits'[q] \subseteq waits[q]
    /\ \A q \in Commands : q # c => pc'[q] = pc[q]
    /\ \/ pc'[c] \in EndedAt /\ lock' = (IF lock = c THEN NoCommand ELSE lock)
       \/ lock' = lock /\ pc[c] \in Waiting /\ pc'[c] \in Waiting \cup {"failed", "timeout", "nomarker"}

LEMMA JobStepEffect ==
  ASSUME NEW j \in Jobs, TypeOK, JobStep(j)
  PROVE  JobEffect(j)
  <1> USE DEF TypeOK, JobTypes, JobEffect, OnlyLeave
  <1> USE DEF JobStays, cmdVars, markVars, Moves, Alive
  <1>0. j[1] \in Commands /\ j[2] \in Stages
    BY DEF Jobs
  <1>1. CASE Starts(j)
    BY <1>1 DEF Starts
  <1>2. CASE BodyEnds(j)
    BY <1>2 DEF BodyEnds
  <1>3. CASE Finalize(j)
    BY <1>3 DEF Finalize
  <1>4. CASE PublishDone(j)
    <2>1. job' = job \/ job' = [job EXCEPT ![j] = "clean"]
      BY <1>4 DEF PublishDone
    <2>2. done' = done \/ done' = [done EXCEPT ![j[2]] = j[1]]
      BY <1>4 DEF PublishDone
    <2> QED
      BY <1>0, <1>4, <2>1, <2>2 DEF PublishDone
  <1>5. CASE PublishFailed(j)
    BY <1>0, <1>5 DEF PublishFailed
  <1>6. CASE Exits(j)
    BY <1>6 DEF Exits
  <1>7. CASE AfterokFails(j)
    BY <1>7 DEF AfterokFails
  <1>8. CASE Terminated(j)
    BY <1>8 DEF Terminated, OnNode
  <1>9. CASE Killed(j)
    BY <1>9 DEF Killed, OnNode
  <1> QED
    BY <1>1, <1>2, <1>3, <1>4, <1>5, <1>6, <1>7, <1>8, <1>9 DEF JobStep, Works

\* qdel brings no job to life.
LEMMA CancelOnlyLeaves ==
  ASSUME NEW js, JobTypes, CancelAll(js)
  PROVE  OnlyLeave
  <1>1. PICK ks \in SUBSET js : Qdel(ks)
    BY DEF CancelAll
  <1> QED
    BY <1>1 DEF Qdel, JobTypes, OnlyLeave, Alive

LEMMA RetreatStepEffect ==
  ASSUME NEW c \in Commands, TypeOK,
         Rollback(c) \/ Wait(c) \/ DeadlinePasses(c) \/ PollFails(c) \/ CommandDies(c)
  PROVE  RetreatEffect(c)
  <1> USE DEF TypeOK, CommandTypes, RetreatEffect, Inside, EndedAt, Waiting
  <1> USE DEF GoTo, jobVars, markVars, OnlyLeave
  <1>1. CASE Rollback(c)
    <2>1. OnlyLeave
      BY <1>1, CancelOnlyLeaves DEF Rollback
    <2> QED
      BY <1>1, <2>1 DEF Rollback, Ends
  <1>2. CASE CheckFailed(c)
    BY <1>2 DEF CheckFailed, Stays
  <1>3. CASE CheckDone(c)
    <2>1. PICK s \in Stages : waits' = [waits EXCEPT ![c] = @ \ {s}] \/ waits' = waits
      BY <1>3 DEF CheckDone
    <2>2. \A q \in Commands : waits'[q] \subseteq waits[q]
      BY <2>1
    <2> QED
      BY <1>3, <2>2 DEF CheckDone, Ends, Stays
  <1>4. CASE Probe(c)
    BY <1>4 DEF Probe, Stays
  <1>5. CASE Verdict(c)
    BY <1>5 DEF Verdict, Stays
  <1>6. CASE CancelDependents(c)
    <2>1. OnlyLeave
      BY <1>6, CancelOnlyLeaves DEF CancelDependents
    <2> QED
      BY <1>6, <2>1 DEF CancelDependents, Ends
  <1>7. CASE DeadlinePasses(c)
    BY <1>7 DEF DeadlinePasses, Stays
  <1>8. CASE PollFails(c)
    BY <1>8 DEF PollFails
  <1>9. CASE CommandDies(c)
    BY <1>9 DEF CommandDies, Ends
  <1> QED
    BY <1>1, <1>2, <1>3, <1>4, <1>5, <1>6, <1>7, <1>8, <1>9 DEF Wait

-----------------------------------------------------------------------------
(***************************************************************************)
(* The invariant is inductive.                                             *)
(***************************************************************************)
LEMMA InitLinks == Init => Links
  BY RunAssumption DEF Init, Links, HolderInside, Recorded, Alone, MarkersCleared, SubmittedAll,
     WaitsSelected, Inside, Past, Waiting, Alive, Jobs

LEMMA JobKeepsLinks ==
  ASSUME NEW j \in Jobs, Links, JobEffect(j)
  PROVE  Links'
  <1> USE DEF JobEffect, Links
  <1>1. HolderInside' /\ SubmittedAll' /\ WaitsSelected'
    BY DEF HolderInside, SubmittedAll, WaitsSelected, Inside
  <1>2. \A c \in Commands, s \in Stages : job'[<<c, s>>] \in Alive => job[<<c, s>>] \in Alive
    BY DEF OnlyLeave, Jobs
  <1>3. Recorded' /\ Alone'
    BY <1>2 DEF Recorded, Alone, Past, Inside, IsFirst
  <1>4. MarkersCleared'
    <2> SUFFICES ASSUME ghosts = {}, NEW c \in Commands, NEW s \in Stages, Past(c)
                 PROVE  /\ Own(c, done[s]) => Own(c, done'[s])
                        /\ Own(c, failed[s]) => Own(c, failed'[s])
      BY DEF MarkersCleared, Own, Past, Inside, IsFirst, EndedAt
    <2>1. PICK q \in Commands, u \in Stages : j = <<q, u>>
      BY DEF Jobs
    <2>2. q = c
      BY <2>1 DEF Alone
    <2> QED
      BY <2>1, <2>2 DEF Own
  <1> QED
    BY <1>1, <1>3, <1>4

LEMMA RetreatKeepsLinks ==
  ASSUME NEW c \in Commands, Links, RetreatEffect(c)
  PROVE  Links'
  <1> USE DEF RetreatEffect, Links
  <1>0. lock = c /\ \A q \in Commands : q # c => ~Inside(q) /\ ~Inside(q)'
    BY DEF HolderInside, Inside
  <1>1. HolderInside' /\ SubmittedAll' /\ WaitsSelected'
    BY <1>0 DEF HolderInside, SubmittedAll, WaitsSelected, Inside, EndedAt, Waiting
  <1>2. \A q \in Commands, s \in Stages : job'[<<q, s>>] \in Alive => job[<<q, s>>] \in Alive
    BY DEF OnlyLeave, Jobs
  <1>3. ghosts \subseteq ghosts'
    OBVIOUS
  <1>4. Recorded'
    <2> SUFFICES ASSUME NEW q \in Commands, NEW s \in Stages,
                        job'[<<q, s>>] \in Alive, <<q, s>> \notin ghosts'
                 PROVE  jobid[s] = q
      BY DEF Recorded
    <2>1. jobid[s] = q \/ (pc[q] = "record" /\ IsFirst(s, todo[q]))
      BY <1>2, <1>3 DEF Recorded
    <2>2. ASSUME pc[q] = "record", IsFirst(s, todo[q]) PROVE FALSE
      <3>1. q = c
        BY <1>0, <2>2 DEF Inside, EndedAt
      <3> QED
        BY <2>2, <3>1 DEF NextJob
    <2> QED
      BY <2>1, <2>2
  <1>5. Past(c)' => Past(c)
    BY DEF Past, Inside, Waiting, EndedAt
  <1>6. Alone'
    BY <1>0, <1>2, <1>3, <1>5 DEF Alone, Past
  <1>7. MarkersCleared'
    <2>1. pc'[c] \notin {"clear done", "qsub", "record"}
      BY DEF EndedAt, Waiting
    <2>2. ghosts' = {} => ghosts = {}
      BY <1>3
    <2>3. \A q \in Commands : pc'[q] \in {"clear done", "qsub", "record"} => Inside(q)'
      BY DEF Inside, EndedAt
    <2> QED
      BY <1>0, <1>5, <2>1, <2>2, <2>3 DEF MarkersCleared, Past
  <1> QED
    BY <1>1, <1>4, <1>6, <1>7

\* Of the command that holds the lock, every other one is outside.
LEMMA OthersOutside ==
  ASSUME NEW c \in Commands, HolderInside, lock = c \/ lock = NoCommand
  PROVE  \A q \in Commands : q # c => ~Inside(q)
  BY RunAssumption DEF HolderInside

LEMMA AcquireKeepsLinks ==
  ASSUME NEW c \in Commands, TypeOK, Links, AcquireLock(c)
  PROVE  Links'
  <1> USE DEF Links, AcquireLock, GoTo, jobVars, markVars, TypeOK, CommandTypes
  <1>1. HolderInside'
    BY OthersOutside DEF HolderInside, Inside, EndedAt
  <1>2. \A q \in Commands :
          /\ Past(q)' <=> Past(q)
          /\ pc'[q] \in CommandLabels \ {"overlap", "refused", "idle"} => pc'[q] = pc[q]
    BY DEF Past, Inside, EndedAt
  <1>3. Recorded'
    BY DEF Recorded, IsFirst
  <1>4. Alone'
    BY <1>2 DEF Alone
  <1>5. MarkersCleared' /\ SubmittedAll' /\ WaitsSelected'
    BY <1>2 DEF MarkersCleared, SubmittedAll, WaitsSelected, Waiting, CommandLabels, Own, IsFirst
  <1> QED
    BY <1>1, <1>3, <1>4, <1>5

LEMMA OverlapKeepsLinks ==
  ASSUME NEW c \in Commands, TypeOK, Links, CheckOverlap(c)
  PROVE  Links'
  <1> USE DEF CheckOverlap, GoTo, jobVars, markVars, TypeOK, CommandTypes
  <1>0. lock = c /\ \A q \in Commands : q # c => ~Inside(q)
    BY OthersOutside DEF Links, HolderInside, Inside, EndedAt
  <1>1. CASE pc' = [pc EXCEPT ![c] = "clear"] /\ lock' = lock /\ NoRecordedJobActive
    <2>1. HolderInside' /\ WaitsSelected'
      BY <1>0, <1>1 DEF Links, HolderInside, WaitsSelected, Inside
    <2>2. SubmittedAll'
      BY <1>1 DEF Links, SubmittedAll, Waiting
    <2>3. Recorded'
      BY <1>1 DEF Links, Recorded
    <2>4. \A q \in Commands : q # c => ~Past(q)'
      BY <1>0, <1>1 DEF Past, Inside
    <2>5. Alone'
      <3> SUFFICES ASSUME NEW q \in Commands, NEW s \in Stages, q # c,
                          job[<<q, s>>] \in Alive, <<q, s>> \notin ghosts
                   PROVE  FALSE
        BY <2>4 DEF Alone
      <3>1. pc[q] # "record"
        BY <1>0 DEF Inside, EndedAt
      <3>2. jobid[s] = q
        BY <3>1 DEF Links, Recorded
      <3> QED
        BY <1>1, <3>2, RunAssumption DEF NoRecordedJobActive, Alive, Gone
    <2>6. MarkersCleared'
      <3>1. todo[c] = Selected[c]
        BY DEF Links, SubmittedAll
      <3>2. \A q \in Commands : pc'[q] \notin {"clear done", "qsub", "record"}
        BY <1>0, <1>1 DEF Inside, EndedAt
      <3> QED
        BY <1>1, <2>4, <3>1, <3>2 DEF MarkersCleared
    <2> QED
      BY <2>1, <2>2, <2>3, <2>5, <2>6 DEF Links
  <1>2. CASE Ends(c, "refused")
    <2>1. RetreatEffect(c)
      BY <1>2 DEF RetreatEffect, Ends, Inside, EndedAt, OnlyLeave
    <2> QED
      BY <2>1, RetreatKeepsLinks
  <1> QED
    BY <1>1, <1>2

\* A step of the submission that stays inside: only this command's place changes.
LEMMA InsideStep ==
  ASSUME NEW c \in Commands, TypeOK, Links, Past(c), NEW label \in CommandLabels,
         label \notin EndedAt \cup {"idle", "overlap"},
         GoTo(c, label), lock' = lock, waits' = waits
  PROVE  /\ lock = c
         /\ HolderInside' /\ WaitsSelected'
         /\ \A q \in Commands : q # c => pc'[q] = pc[q] /\ ~Inside(q) /\ ~Inside(q)'
         /\ pc'[c] = label /\ Past(c)'
  <1> USE DEF GoTo, TypeOK, CommandTypes, Links
  <1>1. lock = c /\ \A q \in Commands : q # c => ~Inside(q)
    BY OthersOutside DEF HolderInside, Past
  <1>2. pc'[c] = label /\ \A q \in Commands : q # c => pc'[q] = pc[q]
    OBVIOUS
  <1> QED
    BY <1>1, <1>2 DEF HolderInside, WaitsSelected, Inside, Past

LEMMA ClearKeepsLinks ==
  ASSUME NEW c \in Commands, TypeOK, Links, ClearMarkers(c)
  PROVE  Links'
  <1> USE DEF ClearMarkers, jobVars, TypeOK, JobTypes
  <1>0. PICK s \in Stages :
          /\ IsFirst(s, todo[c])
          /\ \/ /\ pc[c] = "clear"
                /\ failed' = [failed EXCEPT ![s] = NoCommand] /\ done' = done
                /\ GoTo(c, "clear done")
             \/ /\ pc[c] = "clear done"
                /\ done' = [done EXCEPT ![s] = NoCommand] /\ failed' = failed
                /\ GoTo(c, "qsub")
    OBVIOUS
  <1>1. /\ lock = c
        /\ HolderInside' /\ WaitsSelected'
        /\ \A q \in Commands : q # c => pc'[q] = pc[q] /\ ~Inside(q) /\ ~Inside(q)'
        /\ Past(c) /\ Past(c)'
        /\ \/ pc[c] = "clear" /\ pc'[c] = "clear done"
           \/ pc[c] = "clear done" /\ pc'[c] = "qsub"
    BY <1>0, InsideStep DEF Past, Inside, EndedAt, Waiting, CommandLabels
  <1>2. Recorded' /\ Alone'
    BY <1>1 DEF Links, Recorded, Alone, Past
  <1>3. SubmittedAll'
    BY <1>1 DEF Links, SubmittedAll, Waiting, Inside, EndedAt
  <1>4. MarkersCleared'
    <2> SUFFICES ASSUME ghosts = {}, NEW t \in Stages
                 PROVE  /\ t \in Selected[c] \ todo[c] => Own(c, done'[t]) /\ Own(c, failed'[t])
                        /\ IsFirst(t, todo[c]) => Own(c, failed'[t])
                        /\ IsFirst(t, todo[c]) /\ pc'[c] = "qsub" => Own(c, done'[t])
      BY <1>1 DEF MarkersCleared, Inside, Past, EndedAt
    <2>1. s \in todo[c] /\ (IsFirst(t, todo[c]) => s = t)
      BY <1>0, FirstIsUnique
    <2>2. /\ t \in Selected[c] \ todo[c] => Own(c, done[t]) /\ Own(c, failed[t])
          /\ pc[c] = "clear done" /\ IsFirst(t, todo[c]) => Own(c, failed[t])
      BY <1>1 DEF Links, MarkersCleared
    <2> QED
      BY <1>0, <1>1, <2>1, <2>2 DEF Own
  <1> QED
    BY <1>1, <1>2, <1>3, <1>4 DEF Links

LEMMA QsubKeepsLinks ==
  ASSUME NEW c \in Commands, TypeOK, Links, Qsub(c)
  PROVE  Links'
  <1> USE DEF Qsub, markVars, TypeOK, JobTypes
  <1>0. PICK s \in Stages : IsFirst(s, todo[c]) /\ job' = [job EXCEPT ![<<c, s>>] = "queued"]
    BY DEF Accepted
  <1>1. /\ HolderInside' /\ WaitsSelected'
        /\ \A q \in Commands : q # c => pc'[q] = pc[q] /\ ~Inside(q) /\ ~Inside(q)'
        /\ Past(c) /\ pc'[c] = "record"
    BY InsideStep DEF Past, Inside, EndedAt, CommandLabels
  <1>2. \A q \in Commands, u \in Stages : <<q, u>> # <<c, s>> => job'[<<q, u>>] = job[<<q, u>>]
    BY <1>0 DEF Jobs
  <1>3. Recorded'
    <2> SUFFICES ASSUME NEW q \in Commands, NEW u \in Stages, <<q, u>> # <<c, s>>,
                        job[<<q, u>>] \in Alive, <<q, u>> \notin ghosts
                 PROVE  jobid[u] = q
      BY <1>0, <1>1, <1>2 DEF Recorded
    <2>1. pc[q] # "record"
      BY <1>1 DEF Inside, EndedAt
    <2> QED
      BY <2>1 DEF Links, Recorded
  <1>4. Alone'
    <2>1. \A q \in Commands, u \in Stages : q # c => job'[<<q, u>>] = job[<<q, u>>]
      BY <1>2
    <2> QED
      BY <1>1, <2>1 DEF Links, Alone, Past
  <1>5. SubmittedAll'
    BY <1>1 DEF Links, SubmittedAll, Waiting
  <1>6. MarkersCleared'
    BY <1>1 DEF Links, MarkersCleared, Past, Inside, EndedAt
  <1> QED
    BY <1>1, <1>3, <1>4, <1>5, <1>6 DEF Links

LEMMA RecordKeepsLinks ==
  ASSUME NEW c \in Commands, TypeOK, Links, Record(c)
  PROVE  Links'
  <1> USE DEF Record, jobVars, markVars, TypeOK, CommandTypes
  <1>0. PICK s \in Stages :
          /\ IsFirst(s, todo[c])
          /\ todo' = [todo EXCEPT ![c] = @ \ {s}]
          /\ jobid' = [jobid EXCEPT ![s] = c]
          /\ \/ GoTo(c, "clear") /\ lock' = lock
             \/ todo[c] = {s} /\ GoTo(c, "poll") /\ lock' = lock
             \/ Ends(c, "ended")
    BY DEF Record
  <1>1. lock = c /\ Past(c) /\ \A q \in Commands : q # c => ~Inside(q)
    BY OthersOutside DEF Links, HolderInside, Past, Inside, EndedAt
  <1>2. /\ \A q \in Commands : q # c => pc'[q] = pc[q] /\ todo'[q] = todo[q]
        /\ pc'[c] \in {"clear", "poll", "ended"} /\ todo'[c] = todo[c] \ {s}
        /\ pc'[c] = "poll" => todo[c] = {s}
        /\ pc'[c] # "ended" => lock' = lock
    BY <1>0 DEF GoTo, Ends
  <1>3. \A q \in Commands : q # c => ~Inside(q)'
    BY <1>1, <1>2 DEF Inside
  <1>4. HolderInside' /\ WaitsSelected'
    BY <1>1, <1>2, <1>3 DEF Links, HolderInside, WaitsSelected, Inside, EndedAt
  <1>5. SubmittedAll'
    BY <1>2 DEF Links, SubmittedAll, Waiting
  <1>6. Recorded'
    <2> SUFFICES ASSUME NEW q \in Commands, NEW u \in Stages,
                        job[<<q, u>>] \in Alive, <<q, u>> \notin ghosts
                 PROVE  jobid'[u] = q
      BY DEF Recorded
    <2>1. q = c \/ (u # s /\ jobid[u] = q)
      BY <1>0, <1>1 DEF Links, Alone, Recorded, Inside, EndedAt
    <2>2. q = c => jobid[u] = c \/ u = s
      BY <1>0, FirstIsUnique DEF Links, Recorded
    <2> QED
      BY <1>0, <2>1, <2>2
  <1>7. Alone'
    BY <1>1, <1>3 DEF Links, Alone, Past
  <1>8. MarkersCleared'
    <2>1. UNCHANGED <<ghosts, done, failed>>
      OBVIOUS
    <2>2. ASSUME ghosts = {}, NEW u \in Stages, u \in Selected[c], u \notin todo[c] \/ u = s
          PROVE  Own(c, done[u]) /\ Own(c, failed[u])
      BY <1>0, <1>1, <2>2 DEF Links, MarkersCleared
    <2>3. \A q \in Commands : pc'[q] \notin {"clear done", "qsub", "record"}
      BY <1>2, <1>3 DEF Inside, EndedAt
    <2>4. \A q \in Commands : Past(q)' => q = c
      BY <1>3 DEF Past
    <2> HIDE DEF Record, TypeOK
    <2> QED
      BY <1>2, <2>1, <2>2, <2>3, <2>4 DEF MarkersCleared, Own
  <1> QED
    BY <1>4, <1>5, <1>6, <1>7, <1>8 DEF Links

\* A submission that fails: the job qsub may have accepted is a ghost.
LEMMA FailKeepsLinks ==
  ASSUME NEW c \in Commands, TypeOK, Links, SubmitFails(c) \/ PersistFails(c)
  PROVE  Links'
  <1> USE DEF jobVars, markVars, TypeOK, JobTypes
  <1>0. /\ pc[c] \in {"clear", "clear done", "qsub", "record"}
        /\ GoTo(c, "rollback")
        /\ UNCHANGED <<todo, waits, lock, jobid, done, failed>>
        /\ ghosts \subseteq ghosts'
    BY DEF SubmitFails, PersistFails
  <1>1. /\ HolderInside' /\ WaitsSelected'
        /\ \A q \in Commands : q # c => pc'[q] = pc[q] /\ ~Inside(q) /\ ~Inside(q)'
        /\ Past(c) /\ pc'[c] = "rollback"
    BY <1>0, InsideStep DEF Past, Inside, EndedAt, CommandLabels
  <1>2. \A q \in Commands, u \in Stages :
          job'[<<q, u>>] \in Alive /\ <<q, u>> \notin ghosts' =>
            /\ job[<<q, u>>] \in Alive /\ <<q, u>> \notin ghosts
            /\ q = c /\ pc[c] = "record" => ~IsFirst(u, todo[c])
    <2>1. CASE SubmitFails(c)
      <3>1. CASE job' = job
        BY <1>0, <2>1, <3>1 DEF SubmitFails
      <3>2. CASE Accepted(c) /\ ghosts' = ghosts \cup NextJob(c)
        BY <1>0, <2>1, <3>2 DEF SubmitFails, Accepted, NextJob, Jobs
      <3> QED
        BY <2>1, <3>1, <3>2 DEF SubmitFails
    <2>2. CASE PersistFails(c)
      <3>1. PICK s \in Stages : IsFirst(s, todo[c]) /\ ghosts' = ghosts \cup {<<c, s>>}
        BY <2>2 DEF PersistFails
      <3>2. \A u \in Stages : IsFirst(u, todo[c]) => u = s
        BY <3>1, FirstIsUnique
      <3> QED
        BY <2>2, <3>1, <3>2 DEF PersistFails
    <2> QED
      BY <2>1, <2>2
  <1>3. Recorded'
    <2> SUFFICES ASSUME NEW q \in Commands, NEW u \in Stages,
                        job'[<<q, u>>] \in Alive, <<q, u>> \notin ghosts'
                 PROVE  jobid[u] = q
      BY <1>0 DEF Recorded
    <2>1. pc[q] = "record" => q = c
      BY <1>1 DEF Inside, EndedAt
    <2> QED
      BY <1>2, <2>1 DEF Links, Recorded
  <1>4. Alone'
    BY <1>1, <1>2 DEF Links, Alone, Past
  <1>5. SubmittedAll'
    BY <1>0, <1>1 DEF Links, SubmittedAll, Waiting
  <1>6. MarkersCleared'
    BY <1>0, <1>1 DEF Links, MarkersCleared, Past, Inside, EndedAt
  <1> QED
    BY <1>1, <1>3, <1>4, <1>5, <1>6 DEF Links

LEMMA RunInvariant == Spec => []RunInv
  <1>1. Init => RunInv
    BY InitTypes, InitLinks DEF RunInv
  <1>2. RunInv /\ [Next]_vars => RunInv'
    <2> SUFFICES ASSUME TypeOK, Links, [Next]_vars PROVE TypeOK' /\ Links'
      BY DEF RunInv
    <2>1. ASSUME NEW c \in Commands, CommandStep(c) PROVE TypeOK' /\ Links'
      BY <2>1, CommandStepTypes, AcquireKeepsLinks, OverlapKeepsLinks, ClearKeepsLinks,
         QsubKeepsLinks, RecordKeepsLinks, FailKeepsLinks, RetreatStepEffect, RetreatKeepsLinks
         DEF CommandStep, Submit
    <2>2. ASSUME NEW j \in Jobs, JobStep(j) PROVE TypeOK' /\ Links'
      BY <2>2, JobStepTypes, JobStepEffect, JobKeepsLinks
    <2>3. CASE UNCHANGED vars
      BY <2>3 DEF vars, cmdVars, waitVars, jobVars, markVars, TypeOK, CommandTypes, WaitTypes,
         JobTypes, Links, HolderInside, Recorded, Alone, MarkersCleared, SubmittedAll,
         WaitsSelected, Inside, Past
    <2> QED
      BY <2>1, <2>2, <2>3 DEF Next, CommandStep, JobStep
  <1> QED
    BY <1>1, <1>2, PTL DEF Spec

\* However many commands are given for a run ID, and wherever they fail, each stage has
\* at most one job in the queue or on a node, jobs whose ID was lost aside.
THEOREM StageHasOneJob == Spec => []OneJobPerStage
  <1>1. RunInv => OneJobPerStage
    <2> SUFFICES ASSUME Links, NEW s \in Stages, NEW c \in Commands, NEW q \in Commands,
                        job[<<c, s>>] \in Alive, job[<<q, s>>] \in Alive,
                        <<c, s>> \notin ghosts, <<q, s>> \notin ghosts, c # q
                 PROVE  FALSE
      BY DEF RunInv, OneJobPerStage
    <2>1. ~Past(c) /\ ~Past(q)
      BY DEF Links, Alone
    <2>2. jobid[s] = c /\ jobid[s] = q
      BY <2>1 DEF Links, Recorded, Past, Inside, EndedAt
    <2> QED
      BY <2>2
  <1> QED
    BY <1>1, RunInvariant, PTL

\* A waiting full-run sees no marker of another attempt at the run ID, as long as no
\* job's ID was lost.
THEOREM MarkersAreOwn == Spec => []OwnMarkersOnly
  <1>1. RunInv => OwnMarkersOnly
    BY DEF RunInv, Links, OwnMarkersOnly, MarkersCleared, SubmittedAll, WaitsSelected, Past, Inside,
       Waiting, EndedAt, Own
  <1> QED
    BY <1>1, RunInvariant, PTL

-----------------------------------------------------------------------------
(***************************************************************************)
(* A terminal report is followed by a last look at the done marker.        *)
(***************************************************************************)
Submitting == {"idle", "overlap", "clear", "clear done", "qsub", "record", "rollback"}

\* Once the scheduler reported the awaited job's end the job is gone for good, so
\* the look at the marker in the grace cycle is final.
GraceAt(c) ==
    /\ pc[c] \in Submitting => ~terminal[c] /\ probed[c] # "terminal"
    /\ pc[c] = "probe" => ~terminal[c]
    /\ \A s \in Stages : IsFirst(s, waits[c]) =>
        /\ terminal[c] \/ probed[c] = "terminal" => job[<<c, s>>] \in Gone
        /\ pc[c] = "verdict" /\ terminal[c] => done[s] # c
        /\ pc[c] = "nomarker" => terminal[c] /\ done[s] # c
GraceInv == \A c \in Commands : GraceAt(c)

\* What a command's step may change: its own state, its own next job, markers it
\* clears, and queued jobs it drops.
CommandFrame(c) ==
    /\ \A q \in Commands \ {c} :
        /\ pc'[q] = pc[q] /\ todo'[q] = todo[q] /\ waits'[q] = waits[q]
        /\ terminal'[q] = terminal[q] /\ probed'[q] = probed[q]
    /\ out' = out /\ stale' = stale /\ ghosts \subseteq ghosts'
    /\ \A s \in Stages : done'[s] \in {done[s], NoCommand}
    /\ \A q \in Commands, s \in Stages :
        \/ job'[<<q, s>>] = job[<<q, s>>] /\ ok'[<<q, s>>] = ok[<<q, s>>]
        \/ job[<<q, s>>] = "queued" /\ job'[<<q, s>>] = "dropped"
        \/ /\ q = c /\ pc[c] = "qsub" /\ IsFirst(s, todo[c])
           /\ job'[<<q, s>>] = "queued" /\ (pc'[c] = "record" \/ <<c, s>> \in ghosts')

\* qdel drops queued jobs and leaves the others as they are.
LEMMA CancelDrops ==
  ASSUME NEW js, JobTypes, CancelAll(js)
  PROVE  \A q \in Commands, s \in Stages :
           \/ job'[<<q, s>>] = job[<<q, s>>] /\ ok'[<<q, s>>] = ok[<<q, s>>]
           \/ job[<<q, s>>] = "queued" /\ job'[<<q, s>>] = "dropped"
  <1>1. PICK ks \in SUBSET js : Qdel(ks)
    BY DEF CancelAll
  <1> QED
    BY <1>1 DEF Qdel, JobTypes, Jobs

\* Every step of a command stays within its frame.
LEMMA CommandStepFrame ==
  ASSUME NEW c \in Commands, TypeOK, CommandStep(c)
  PROVE  CommandFrame(c)
  <1> USE DEF TypeOK, CommandTypes, WaitTypes, JobTypes, CommandFrame
  <1> USE DEF GoTo, jobVars, markVars, waitVars
  <1>1. CASE AcquireLock(c) \/ CheckOverlap(c)
    BY <1>1 DEF AcquireLock, CheckOverlap, Ends
  <1>2. CASE ClearMarkers(c)
    BY <1>2 DEF ClearMarkers
  <1>3. CASE Qsub(c)
    <2>1. PICK s \in Stages : IsFirst(s, todo[c]) /\ job' = [job EXCEPT ![<<c, s>>] = "queued"]
      BY <1>3 DEF Qsub, Accepted
    <2> QED
      BY <1>3, <2>1 DEF Qsub, Jobs
  <1>4. CASE Record(c)
    <2>1. PICK s \in Stages : todo' = [todo EXCEPT ![c] = @ \ {s}]
      BY <1>4 DEF Record
    <2> QED
      BY <1>4, <2>1 DEF Record, Ends
  <1>5. CASE SubmitFails(c)
    <2>1. CASE job' = job /\ ghosts' = ghosts
      BY <1>5, <2>1 DEF SubmitFails
    <2>2. CASE Accepted(c) /\ pc[c] = "qsub" /\ ghosts' = ghosts \cup NextJob(c)
      <3>1. PICK s \in Stages : IsFirst(s, todo[c]) /\ job' = [job EXCEPT ![<<c, s>>] = "queued"]
        BY <2>2 DEF Accepted
      <3>2. <<c, s>> \in ghosts'
        BY <2>2, <3>1 DEF NextJob
      <3> QED
        BY <1>5, <2>2, <3>1, <3>2 DEF SubmitFails, Jobs
    <2> QED
      BY <1>5, <2>1, <2>2 DEF SubmitFails
  <1>6. CASE PersistFails(c)
    BY <1>6 DEF PersistFails
  <1>7. CASE Rollback(c)
    BY <1>7, CancelDrops DEF Rollback, Ends
  <1>8. CASE CheckFailed(c) \/ Probe(c) \/ Verdict(c) \/ DeadlinePasses(c) \/ PollFails(c)
    BY <1>8 DEF CheckFailed, Probe, Verdict, DeadlinePasses, PollFails, Stays
  <1>9. CASE CheckDone(c)
    <2>1. PICK s \in Stages : waits' = [waits EXCEPT ![c] = @ \ {s}] \/ waits' = waits
      BY <1>9 DEF CheckDone
    <2> QED
      BY <1>9, <2>1 DEF CheckDone, Ends, Stays
  <1>10. CASE CancelDependents(c)
    BY <1>10, CancelDrops DEF CancelDependents, Ends
  <1>11. CASE CommandDies(c)
    BY <1>11 DEF CommandDies, Ends
  <1> QED
    BY <1>1, <1>2, <1>3, <1>4, <1>5, <1>6, <1>7, <1>8, <1>9, <1>10, <1>11
       DEF CommandStep, Submit, Wait

\* A command's step keeps what the other commands know of their jobs.
LEMMA OthersKeepGrace ==
  ASSUME NEW c \in Commands, GraceInv, CommandFrame(c), NEW q \in Commands \ {c}
  PROVE  GraceAt(q)'
  <1>1. /\ pc'[q] = pc[q] /\ waits'[q] = waits[q]
        /\ terminal'[q] = terminal[q] /\ probed'[q] = probed[q]
        /\ \A s \in Stages : done'[s] \in {done[s], NoCommand}
        /\ \A s \in Stages : job[<<q, s>>] \in Gone => job'[<<q, s>>] \in Gone
    BY DEF CommandFrame, Gone
  <1> QED
    BY <1>1, RunAssumption DEF GraceInv, GraceAt, IsFirst

\* Every step of a command keeps the last look final.
LEMMA CommandKeepsGrace ==
  ASSUME NEW c \in Commands, TypeOK, GraceInv, CommandStep(c)
  PROVE  GraceInv'
  <1>0. CommandFrame(c) /\ GraceAt(c)
    BY CommandStepFrame DEF GraceInv
  <1> SUFFICES GraceAt(c)'
    BY <1>0, OthersKeepGrace DEF GraceInv
  <1> USE DEF TypeOK, CommandTypes, WaitTypes, JobTypes, GoTo, waitVars, jobVars, markVars
  <1>1. CASE Submit(c) \/ SubmitFails(c) \/ PersistFails(c)
    <2>1. /\ pc[c] \in Submitting /\ terminal' = terminal /\ probed' = probed
          /\ pc'[c] \in Submitting \cup {"poll", "ended", "refused"}
      <3> USE DEF Submitting
      <3>1. CASE AcquireLock(c) \/ CheckOverlap(c)
        BY <3>1 DEF AcquireLock, CheckOverlap, Ends
      <3>2. CASE ClearMarkers(c)
        BY <3>2 DEF ClearMarkers
      <3>3. CASE Qsub(c)
        BY <3>3 DEF Qsub
      <3>4. CASE Record(c)
        <4>1. PICK l \in {"clear", "poll", "ended"} : pc' = [pc EXCEPT ![c] = l]
          BY <3>4 DEF Record, Ends
        <4>2. pc[c] = "record" /\ terminal' = terminal /\ probed' = probed
          BY <3>4 DEF Record
        <4>3. pc'[c] = l
          BY <4>1
        <4> QED
          BY <4>2, <4>3
      <3>5. CASE Rollback(c)
        BY <3>5 DEF Rollback, Ends
      <3>6. CASE SubmitFails(c) \/ PersistFails(c)
        BY <3>6 DEF SubmitFails, PersistFails
      <3> QED
        BY <1>1, <3>1, <3>2, <3>3, <3>4, <3>5, <3>6 DEF Submit
    <2> QED
      BY <1>0, <2>1 DEF GraceAt, Submitting
  <1>2. CASE CheckFailed(c)
    BY <1>0, <1>2 DEF CheckFailed, Stays, GraceAt, IsFirst, Submitting
  <1>3. CASE CheckDone(c)
    <2>1. PICK s \in Stages :
            /\ IsFirst(s, waits[c])
            /\ \/ terminal'[c] = FALSE /\ probed'[c] = "none" /\ pc'[c] \in {"completed", "poll"}
               \/ /\ done[s] = NoCommand /\ probed'[c] = "none" /\ terminal' = terminal
                  /\ waits' = waits /\ pc'[c] = IF terminal[c] THEN "verdict" ELSE "probe"
      BY <1>3 DEF CheckDone, Ends
    <2>2. \A t \in Stages : IsFirst(t, waits[c]) => t = s
      BY <2>1, FirstIsUnique
    <2>3. job' = job /\ done' = done /\ pc[c] = "done?"
      BY <1>3 DEF CheckDone, Stays
    <2>4. CASE terminal'[c] = FALSE /\ probed'[c] = "none" /\ pc'[c] \in {"completed", "poll"}
      BY <2>4 DEF GraceAt, Submitting
    <2>5. CASE /\ done[s] = NoCommand /\ probed'[c] = "none" /\ terminal' = terminal
               /\ waits' = waits /\ pc'[c] = IF terminal[c] THEN "verdict" ELSE "probe"
      <3>1. c # NoCommand
        BY RunAssumption
      <3> QED
        BY <1>0, <2>2, <2>3, <2>5, <3>1 DEF GraceAt, Submitting
    <2> QED
      BY <2>1, <2>4, <2>5
  <1>4. CASE Probe(c)
    <2>1. PICK s \in Stages :
            IsFirst(s, waits[c]) /\ (probed'[c] = "terminal" => job[<<c, s>>] \in Gone)
      BY <1>4 DEF Probe
    <2>2. \A t \in Stages : IsFirst(t, waits[c]) => t = s
      BY <2>1, FirstIsUnique
    <2>3. /\ job' = job /\ done' = done /\ waits' = waits /\ terminal' = terminal
          /\ pc[c] = "probe" /\ pc'[c] = "verdict"
      BY <1>4 DEF Probe, Stays
    <2> QED
      BY <1>0, <2>1, <2>2, <2>3 DEF GraceAt, Submitting
  <1>5. CASE Verdict(c)
    <2>1. /\ job' = job /\ done' = done /\ waits' = waits /\ probed' = probed
          /\ pc[c] = "verdict" /\ pc'[c] \in {"timeout", "nomarker", "poll"}
          /\ terminal'[c] = (terminal[c] \/ probed[c] = "terminal")
          /\ pc'[c] = "nomarker" => terminal[c]
      BY <1>5 DEF Verdict, Stays
    <2> QED
      BY <1>0, <2>1 DEF GraceAt, Submitting
  <1>6. CASE DeadlinePasses(c)
    BY <1>0, <1>6 DEF DeadlinePasses, Stays, GraceAt
  <1>7. CASE PollFails(c) \/ CancelDependents(c) \/ CommandDies(c)
    <2>1. /\ waits' = waits /\ terminal' = terminal /\ probed' = probed
          /\ pc[c] # "qsub" \/ job' = job
      BY <1>7 DEF PollFails, CancelDependents, CommandDies, Ends
    <2>2. pc'[c] \in {"failed", "ended"}
      BY <1>7 DEF PollFails, CancelDependents, CommandDies, Ends
    <2>3. \A s \in Stages : job[<<c, s>>] \in Gone => job'[<<c, s>>] \in Gone
      BY <1>0, <2>1 DEF CommandFrame, Gone
    <2> QED
      BY <1>0, <2>1, <2>2, <2>3 DEF GraceAt, Submitting
  <1> QED
    BY <1>1, <1>2, <1>3, <1>4, <1>5, <1>6, <1>7 DEF CommandStep, Wait

\* So does every step of a job: a job that is gone writes no marker.
LEMMA JobKeepsGrace ==
  ASSUME NEW j \in Jobs, TypeOK, GraceInv, JobStep(j)
  PROVE  GraceInv'
  <1>1. JobEffect(j)
    BY JobStepEffect
  <1>2. terminal' = terminal /\ probed' = probed
    BY DEF JobStep, Works, Starts, BodyEnds, Finalize, PublishDone, PublishFailed, Exits,
       AfterokFails, Terminated, Killed, JobStays, waitVars
  <1>3. \A c \in Commands, s \in Stages :
          job[<<c, s>>] \in Gone =>
            job'[<<c, s>>] \in Gone /\ (done'[s] = c => done[s] = c)
    <2> SUFFICES ASSUME NEW c \in Commands, NEW s \in Stages, job[<<c, s>>] \in Gone
                 PROVE  job'[<<c, s>>] \in Gone /\ (done'[s] = c => done[s] = c)
      OBVIOUS
    <2>1. <<c, s>> \in Jobs /\ j # <<c, s>> /\ (\A q \in Commands, t \in Stages : j = <<q, t>> => <<q, t>> # <<c, s>>)
      BY <1>1 DEF JobEffect, Jobs, Alive, Gone
    <2>2. job'[<<c, s>>] = job[<<c, s>>]
      BY <2>1 DEF JobStep, Works, Starts, BodyEnds, Finalize, PublishDone, PublishFailed, Exits,
         AfterokFails, Terminated, Killed, Moves, TypeOK, JobTypes
    <2>3. j = <<j[1], j[2]>>
      BY DEF Jobs
    <2> QED
      BY <1>1, <2>1, <2>2, <2>3 DEF JobEffect
  <1> QED
    BY <1>1, <1>2, <1>3 DEF GraceInv, GraceAt, JobEffect, IsFirst

\* The last look is final in every reachable state.
LEMMA GraceInvariant == Spec => []GraceInv
  <1>1. Init => GraceInv
    BY DEF Init, GraceInv, GraceAt, Submitting
  <1>2. TypeOK /\ GraceInv /\ [Next]_vars => GraceInv'
    <2> SUFFICES ASSUME TypeOK, GraceInv, [Next]_vars PROVE GraceInv'
      OBVIOUS
    <2>1. CASE UNCHANGED vars
      BY <2>1 DEF vars, cmdVars, waitVars, jobVars, markVars, GraceInv, GraceAt, IsFirst
    <2>2. CASE Next
      BY <2>2, CommandKeepsGrace, JobKeepsGrace DEF Next, CommandStep, JobStep
    <2> QED
      BY <2>1, <2>2
  <1> QED
    BY <1>1, <1>2, RunTypeCorrect, PTL DEF Spec

\* For any order of the job's last steps, the scheduler's report and the looks at the
\* markers: a job whose done marker is out is never given up as "ended without marker".
THEOREM DoneIsNeverMissed == Spec => []DoneIsSeen
  <1>1. GraceInv => DoneIsSeen
    BY DEF GraceInv, GraceAt, DoneIsSeen
  <1> QED
    BY <1>1, GraceInvariant, PTL

-----------------------------------------------------------------------------
(***************************************************************************)
(* A completed full-run worked on its own results.                         *)
(***************************************************************************)
\* c is about to record its job of stage s.
Submits(c, s) == pc[c] = "record" /\ IsFirst(s, todo[c])

\* The last job that stage s was submitted as is c's.
Owner(c, s) == Submits(c, s) \/ (jobid[s] = c /\ \A q \in Commands : ~Submits(q, s))

Succeeds(c, s) == job[<<c, s>>] \in {"finalize", "mark", "clean", "over"} /\ ok[<<c, s>>]

\* Stages are submitted before they are awaited, and a completed command awaits none.
PlanInv ==
    \A c \in Commands : todo[c] \subseteq waits[c] /\ (pc[c] = "completed" => waits[c] = {})

\* Jobs come up in the stage order, each recorded before the next one.
OrderAt(c, s) ==
    /\ job[<<c, s>>] = "none" => done[s] # c
    /\ job[<<c, s>>] # "none" =>
        /\ Deps[s] \cap Selected[c] \cap todo[c] = {}
        /\ s \in todo[c] => Submits(c, s)

\* As long as a command submits, or a job of its is alive, the jobs recorded for its
\* stages are its own.
HeldAt(c) ==
    Past(c) \/ (\E s \in Stages : job[<<c, s>>] \in Alive) =>
        \A t \in Selected[c] \ todo[c] : jobid[t] = c

\* The owner of a stage whose body succeeded, whose done marker is out, or which was
\* seen done, also has its outputs in the run prefix.
OutAt(c, s) ==
    Owner(c, s) /\ (done[s] = c \/ Succeeds(c, s) \/ s \in Selected[c] \ waits[c]) => out[s] = c

Outcomes ==
    /\ \A c \in Commands, s \in Stages : OrderAt(c, s) /\ OutAt(c, s)
    /\ \A c \in Commands : HeldAt(c)
    /\ stale = {}
WholeInv == PlanInv /\ (ghosts = {} => Outcomes)

\* The only command past the overlap check is the one that holds the lock.
LEMMA OnePast ==
  ASSUME Links, NEW c \in Commands, NEW q \in Commands, Past(c), Inside(q)
  PROVE  c = q
  BY DEF Links, HolderInside, Past

\* Only a stage's owner has a job alive for it.
LEMMA AliveIsOwner ==
  ASSUME Links, ghosts = {}, NEW c \in Commands, NEW q \in Commands, NEW s \in Stages,
         job[<<c, s>>] \in Alive, Owner(q, s)
  PROVE  q = c
  <1>1. jobid[s] = c \/ Submits(c, s)
    BY DEF Links, Recorded, Submits
  <1>2. \A p \in Commands : Submits(p, s) => Past(p)
    BY DEF Submits, Past, Inside, EndedAt
  <1>3. CASE Submits(q, s)
    BY <1>2, <1>3 DEF Links, Alone
  <1>4. CASE jobid[s] = q /\ \A p \in Commands : ~Submits(p, s)
    BY <1>1, <1>4
  <1> QED
    BY <1>3, <1>4 DEF Owner

\* While c's job of stage s is alive, c owns every stage it has submitted and that is
\* not being submitted again.
LEMMA AliveOwnsPlan ==
  ASSUME Links, ghosts = {}, NEW c \in Commands, NEW s \in Stages, NEW t \in Stages,
         HeldAt(c), job[<<c, s>>] \in Alive, t \in Selected[c] \ todo[c]
  PROVE  Owner(c, t)
  <1>1. jobid[t] = c
    BY DEF HeldAt
  <1>2. ASSUME NEW q \in Commands, Submits(q, t) PROVE FALSE
    <2>1. Past(q)
      BY <1>2 DEF Submits, Past, Inside, EndedAt
    <2>2. q = c
      BY <2>1 DEF Links, Alone
    <2> QED
      BY <1>2, <2>2 DEF Submits, IsFirst
  <1> QED
    BY <1>1, <1>2 DEF Owner

\* No dependency of the first stage left to submit is left too.
LEMMA FirstHasNoDeps ==
  ASSUME NEW S, NEW s \in Stages, IsFirst(s, S)
  PROVE  Deps[s] \cap S = {}
  <1>1. PICK i \in 1..Len(Order) : s = Order[i] /\ \A k \in 1..(i - 1) : Order[k] \notin S
    BY DEF IsFirst
  <1> SUFFICES ASSUME NEW d \in Deps[s], d \in S PROVE FALSE
    OBVIOUS
  <1>2. d \in Stages
    BY RunAssumption
  <1>3. PICK k \in 1..Len(Order) : d = Order[k]
    BY <1>2 DEF Stages
  <1>4. k < i /\ Len(Order) \in Nat
    BY <1>1, <1>3, RunAssumption
  <1> QED
    BY <1>1, <1>3, <1>4

-----------------------------------------------------------------------------
\* A step of a command after which every job's ID is still known either records the
\* job that qsub returned, or leaves the records as they are.
Recording(c, s) ==
    /\ Submits(c, s) /\ Past(c)
    /\ jobid' = [jobid EXCEPT ![s] = c] /\ todo' = [todo EXCEPT ![c] = @ \ {s}]
    /\ UNCHANGED <<waits, job, ok, done>>
    /\ pc'[c] \in {"clear", "poll", "ended"}
    /\ pc'[c] # "ended" => Past(c)'

\* c's step leaves the records alone.  It looks at done, clears markers or calls qsub.
Keeping(c) ==
    /\ UNCHANGED <<jobid, todo>>
    /\ \A s \in Stages : ~Submits(c, s)
    /\ pc'[c] = "record" => pc[c] = "qsub"
    /\ Past(c)' => Past(c) \/ todo[c] = Selected[c]
    /\ pc[c] = "qsub" => Past(c)
    /\ \/ waits' = waits /\ pc'[c] # "completed"
       \/ \E s \in Stages :
            /\ waits' = [waits EXCEPT ![c] = @ \ {s}]
            /\ pc[c] = "done?" /\ s \in waits[c] /\ done[s] # NoCommand
            /\ pc'[c] = "completed" => waits[c] = {s}

\* Every step of a command is one of the two kinds.
LEMMA CommandStepKinds ==
  ASSUME NEW c \in Commands, TypeOK, Links, CommandStep(c), ghosts' = {}
  PROVE  Keeping(c) \/ \E s \in Stages : Recording(c, s)
  <1> USE DEF TypeOK, CommandTypes, GoTo, jobVars, markVars, waitVars
  <1>0. /\ Past(c) <=> pc[c] \notin {"refused", "ended", "completed", "idle", "overlap"}
        /\ Past(c)' <=> pc'[c] \notin {"refused", "ended", "completed", "idle", "overlap"}
    BY DEF Past, Inside, EndedAt
  <1>1. CASE Record(c)
    <2>1. PICK s \in Stages :
            /\ IsFirst(s, todo[c])
            /\ jobid' = [jobid EXCEPT ![s] = c] /\ todo' = [todo EXCEPT ![c] = @ \ {s}]
      BY <1>1 DEF Record
    <2>2. pc[c] = "record" /\ pc'[c] \in {"clear", "poll", "ended"}
      BY <1>1 DEF Record, Ends
    <2>3. UNCHANGED <<waits, job, ok, done>>
      BY <1>1 DEF Record
    <2> QED
      BY <1>0, <2>1, <2>2, <2>3 DEF Recording, Submits
  <1>2. CASE CheckOverlap(c)
    <2>1. todo[c] = Selected[c]
      BY <1>2 DEF CheckOverlap, Links, SubmittedAll
    <2> QED
      BY <1>0, <1>2, <2>1 DEF CheckOverlap, Ends, Keeping, Submits
  <1>3. CASE AcquireLock(c) \/ ClearMarkers(c)
    BY <1>0, <1>3 DEF AcquireLock, ClearMarkers, Keeping, Submits
  <1>4. CASE Qsub(c) \/ Rollback(c)
    BY <1>0, <1>4 DEF Qsub, Rollback, Ends, Keeping, Submits
  <1>5. CASE SubmitFails(c)
    BY <1>0, <1>5 DEF SubmitFails, Keeping, Submits
  <1>6. CASE PersistFails(c)
    BY <1>6 DEF PersistFails
  <1>7. CASE CheckFailed(c) \/ Probe(c) \/ Verdict(c) \/ DeadlinePasses(c) \/ PollFails(c)
    BY <1>0, <1>7 DEF CheckFailed, Probe, Verdict, DeadlinePasses, PollFails, Stays, Keeping, Submits
  <1>8. CASE CheckDone(c)
    <2>1. PICK s \in Stages :
            /\ IsFirst(s, waits[c])
            /\ \/ /\ done[s] # NoCommand /\ waits' = [waits EXCEPT ![c] = @ \ {s}]
                  /\ pc'[c] \in {"completed", "poll"} /\ (pc'[c] = "completed" => waits[c] = {s})
               \/ waits' = waits /\ pc'[c] \in {"verdict", "probe"}
      BY <1>8 DEF CheckDone, Ends
    <2>2. s \in waits[c] /\ pc[c] = "done?" /\ UNCHANGED <<jobid, todo>>
      BY <1>8, <2>1 DEF CheckDone, Stays, IsFirst
    <2> QED
      BY <1>0, <2>1, <2>2 DEF Keeping, Submits
  <1>9. CASE CancelDependents(c)
    BY <1>0, <1>9 DEF CancelDependents, Ends, Keeping, Submits
  <1>10. CASE CommandDies(c)
    <2>1. ASSUME NEW s \in Stages, Submits(c, s) PROVE FALSE
      <3>1. <<c, s>> \in NextJob(c) /\ pc[c] = "record"
        BY <2>1 DEF NextJob, Submits
      <3>2. <<c, s>> \in ghosts'
        BY <1>10, <3>1 DEF CommandDies
      <3> QED
        BY <3>2
    <2> QED
      BY <1>0, <1>10, <2>1 DEF CommandDies, Ends, Keeping
  <1> QED
    BY <1>1, <1>2, <1>3, <1>4, <1>5, <1>6, <1>7, <1>8, <1>9, <1>10 DEF CommandStep, Submit, Wait

-----------------------------------------------------------------------------
\* A recording keeps the outcomes: its stage had the same owner before.
LEMMA RecordKeepsOutcomes ==
  ASSUME NEW c \in Commands, NEW s \in Stages, TypeOK, Links, ghosts = {}, Outcomes,
         CommandFrame(c), Recording(c, s)
  PROVE  Outcomes'
  <1> USE DEF TypeOK, CommandTypes
  <1>0. /\ pc[c] = "record" /\ IsFirst(s, todo[c]) /\ jobid'[s] = c
        /\ \A t \in Stages : t # s => jobid'[t] = jobid[t]
        /\ todo'[c] = todo[c] \ {s} /\ \A q \in Commands : q # c => todo'[q] = todo[q]
        /\ \A t \in Stages : IsFirst(t, todo[c]) => t = s
    BY FirstIsUnique DEF Recording, Submits
  <1>1. \A q \in Commands : q # c => ~Past(q) /\ \A t \in Stages : job[<<q, t>>] \notin Alive
    BY OnePast DEF Recording, Past, Links, Alone
  <1>2. \A q \in Commands, t \in Stages : q # c => ~Submits(q, t) /\ ~Submits(q, t)'
    BY <1>1 DEF Submits, Past, Inside, EndedAt, CommandFrame
  <1>3. \A t \in Stages : ~Submits(c, t)' /\ (Submits(c, t) <=> t = s)
    BY <1>0 DEF Submits, Recording
  <1>4. ASSUME NEW q \in Commands, NEW t \in Stages PROVE OrderAt(q, t)'
    <2>1. OrderAt(q, t) /\ job' = job /\ done' = done
      BY DEF Outcomes, Recording
    <2>2. CASE q = c
      BY <1>0, <1>3, <2>1, <2>2 DEF OrderAt
    <2>3. CASE q # c
      BY <1>0, <1>2, <2>1, <2>3 DEF OrderAt
    <2> QED
      BY <2>2, <2>3
  <1>5. ASSUME NEW q \in Commands, NEW t \in Stages PROVE OutAt(q, t)'
    <2>1. Owner(q, t)' => Owner(q, t)
      BY <1>0, <1>2, <1>3 DEF Owner
    <2> QED
      BY <2>1 DEF Outcomes, OutAt, Succeeds, Recording, CommandFrame
  <1>6. ASSUME NEW q \in Commands PROVE HeldAt(q)'
    <2>1. HeldAt(q)
      BY DEF Outcomes
    <2>2. CASE q = c
      BY <1>0, <2>1, <2>2 DEF HeldAt, Recording
    <2>3. CASE q # c
      <3>1. ~Past(q)' /\ \A t \in Stages : job'[<<q, t>>] \notin Alive
        BY <1>1, <2>3 DEF Past, Inside, CommandFrame, Recording
      <3> QED
        BY <3>1 DEF HeldAt
    <2> QED
      BY <2>2, <2>3
  <1> QED
    BY <1>4, <1>5, <1>6 DEF Outcomes, CommandFrame

\* A step that leaves the records keeps the outcomes: only qsub makes a new owner,
\* one that has no outcome yet, and only done of its own lets a wait go on.
LEMMA KeepingKeepsOutcomes ==
  ASSUME NEW c \in Commands, TypeOK, Links, PlanInv, ghosts = {}, ghosts' = {}, Outcomes,
         OwnMarkersOnly, CommandFrame(c), Keeping(c)
  PROVE  Outcomes'
  <1>0. \A q \in Commands, s \in Stages : IsFirst(s, todo[q])' <=> IsFirst(s, todo[q])
    BY DEF Keeping, IsFirst
  <1>1. \A q \in Commands, s \in Stages :
          Submits(q, s)' => Submits(q, s) \/ (q = c /\ pc[c] = "qsub" /\ IsFirst(s, todo[c]))
    BY <1>0 DEF Submits, Keeping, CommandFrame
  <1>2. \A q \in Commands, s \in Stages : Submits(q, s) => q # c /\ Submits(q, s)'
    BY <1>0 DEF Submits, Keeping, CommandFrame
  <1>3. \A s \in Stages : s \in todo[c] /\ ~Submits(c, s) => job[<<c, s>>] = "none" /\ done[s] # c
    BY DEF Outcomes, OrderAt
  <1>4. \A q \in Commands, s \in Stages :
          \/ job'[<<q, s>>] = job[<<q, s>>] /\ ok'[<<q, s>>] = ok[<<q, s>>]
          \/ job[<<q, s>>] = "queued" /\ job'[<<q, s>>] = "dropped"
          \/ /\ q = c /\ pc[c] = "qsub" /\ IsFirst(s, todo[c])
             /\ job'[<<q, s>>] = "queued" /\ Submits(q, s)'
    BY <1>0 DEF CommandFrame, Submits
  <1>5. \A q \in Commands, s \in Stages : done'[s] = q => done[s] = q
    BY RunAssumption DEF CommandFrame
  <1>6. ASSUME NEW q \in Commands, NEW s \in Stages PROVE OrderAt(q, s)'
    <2>1. OrderAt(q, s) /\ todo' = todo
      BY DEF Outcomes, Keeping
    <2>2. CASE \/ job'[<<q, s>>] = job[<<q, s>>]
               \/ job[<<q, s>>] = "queued" /\ job'[<<q, s>>] = "dropped"
      BY <1>2, <1>5, <2>1, <2>2 DEF OrderAt
    <2>3. CASE /\ q = c /\ IsFirst(s, todo[c])
               /\ job'[<<q, s>>] = "queued" /\ Submits(q, s)'
      <3>1. Deps[s] \cap todo[c] = {}
        BY <2>3, FirstHasNoDeps
      <3> QED
        BY <2>1, <2>3, <3>1 DEF OrderAt
    <2> QED
      BY <1>4, <2>2, <2>3
  <1>7. ASSUME NEW q \in Commands, NEW s \in Stages, Owner(q, s)',
               done'[s] = q \/ Succeeds(q, s)' \/ s \in Selected[q] \ waits'[q]
        PROVE  out[s] = q
    <2>1. CASE q = c /\ Submits(c, s)'
      <3>1. pc[c] = "qsub" /\ IsFirst(s, todo[c]) /\ ~Submits(c, s)
        BY <1>1, <1>2, <2>1
      <3>2. s \in todo[c] /\ s \in waits[c]
        BY <3>1 DEF IsFirst, PlanInv
      <3>3. job[<<c, s>>] = "none" /\ done[s] # c
        BY <1>3, <3>1, <3>2
      <3>4. waits' = waits
        BY <3>1 DEF Keeping
      <3>5. job'[<<c, s>>] \in {"none", "queued"}
        BY <1>4, <3>3
      <3> QED
        BY <1>5, <1>7, <2>1, <3>2, <3>3, <3>4, <3>5 DEF Succeeds
    <2>2. CASE ~(q = c /\ Submits(c, s)')
      <3>1. Owner(q, s)
        BY <1>1, <1>2, <1>7, <2>2 DEF Owner, Keeping
      <3>2. OutAt(q, s)
        BY DEF Outcomes
      <3>3. CASE done'[s] = q
        BY <1>5, <3>1, <3>2, <3>3 DEF OutAt
      <3>4. CASE Succeeds(q, s)'
        <4>1. Succeeds(q, s)
          BY <1>4, <3>4 DEF Succeeds
        <4> QED
          BY <3>1, <3>2, <4>1 DEF OutAt
      <3>5. CASE s \in Selected[q] \ waits'[q]
        <4>1. CASE s \notin waits[q]
          BY <3>1, <3>2, <3>5, <4>1 DEF OutAt
        <4>2. CASE s \in waits[q]
          <5>1. q = c /\ pc[c] = "done?" /\ done[s] # NoCommand
            BY <3>5, <4>2 DEF Keeping, CommandFrame, TypeOK, CommandTypes
          <5>2. done[s] = c
            BY <4>2, <5>1 DEF OwnMarkersOnly
          <5> QED
            BY <3>1, <3>2, <5>1, <5>2 DEF OutAt
        <4> QED
          BY <4>1, <4>2
      <3> QED
        BY <1>7, <3>3, <3>4, <3>5
    <2> QED
      BY <2>1, <2>2
  <1>8. ASSUME NEW q \in Commands PROVE HeldAt(q)'
    <2>1. HeldAt(q) /\ todo' = todo /\ jobid' = jobid
      BY DEF Outcomes, Keeping
    <2>2. Past(q)' => Past(q) \/ todo[q] = Selected[q]
      BY DEF Keeping, CommandFrame, Past, Inside
    <2>3. \A s \in Stages : job'[<<q, s>>] \in Alive => job[<<q, s>>] \in Alive \/ Past(q)
      BY <1>4 DEF Keeping, Alive
    <2> QED
      BY <2>1, <2>2, <2>3 DEF HeldAt
  <1>9. out' = out /\ stale' = stale
    BY DEF CommandFrame
  <1> QED
    BY <1>6, <1>7, <1>8, <1>9 DEF Outcomes, OutAt

\* The plan is kept by every step of a command.
LEMMA CommandKeepsPlan ==
  ASSUME NEW c \in Commands, TypeOK, Links, PlanInv, CommandStep(c)
  PROVE  PlanInv'
  <1>1. CommandFrame(c)
    BY CommandStepFrame
  <1> SUFFICES todo'[c] \subseteq waits'[c] /\ (pc'[c] = "completed" => waits'[c] = {})
    BY <1>1 DEF PlanInv, CommandFrame
  <1> USE DEF TypeOK, CommandTypes, GoTo, waitVars, jobVars
  <1>2. CASE CheckDone(c)
    <2>1. todo[c] = {} /\ todo' = todo
      BY <1>2 DEF CheckDone, Stays, Links, SubmittedAll, Waiting
    <2>2. PICK s \in Stages :
            \/ waits' = [waits EXCEPT ![c] = @ \ {s}] /\ (pc'[c] = "completed" => waits[c] = {s})
            \/ pc'[c] # "completed"
      BY <1>2 DEF CheckDone, Ends
    <2> QED
      BY <2>1, <2>2
  <1>3. CASE ~CheckDone(c)
    <2>1. waits' = waits /\ pc'[c] # "completed"
      BY <1>3 DEF CommandStep, Submit, Wait, AcquireLock, CheckOverlap, ClearMarkers, Qsub, Record,
         Rollback, CheckFailed, Probe, Verdict, CancelDependents, DeadlinePasses, SubmitFails,
         PersistFails, PollFails, CommandDies, Ends
    <2>2. todo'[c] \subseteq todo[c]
      <3>1. CASE Record(c)
        BY <3>1 DEF Record
      <3>2. CASE ~Record(c)
        BY <1>3, <3>2 DEF CommandStep, Submit, Wait, AcquireLock, CheckOverlap, ClearMarkers, Qsub,
           Rollback, CheckFailed, Probe, Verdict, CancelDependents, DeadlinePasses, SubmitFails,
           PersistFails, PollFails, CommandDies, Stays
      <3> QED
        BY <3>1, <3>2
    <2> QED
      BY <2>1, <2>2 DEF PlanInv
  <1> QED
    BY <1>2, <1>3

-----------------------------------------------------------------------------
\* What one step of a job does to its stage's outcome.
OutcomeEffect(c, s) ==
    /\ \A q \in Commands, t \in Stages :
        <<q, t>> # <<c, s>> => job'[<<q, t>>] = job[<<q, t>>] /\ ok'[<<q, t>>] = ok[<<q, t>>]
    /\ \A t \in Stages : t # s => out'[t] = out[t] /\ done'[t] = done[t]
    /\ out'[s] \in {out[s], c}
    /\ Succeeds(c, s)' => Succeeds(c, s) \/ out'[s] = c
    /\ done'[s] = done[s] \/ (done'[s] = c /\ Succeeds(c, s) /\ out'[s] = out[s])
    /\ job[<<c, s>>] \in Alive /\ job'[<<c, s>>] # "none"
    /\ \/ stale' = stale
       \/ \E d \in Deps[s] \cap Selected[c] : out[d] # c /\ Succeeds(c, d)

\* Every step of a job is such a step.
LEMMA JobOutcomeEffect ==
  ASSUME NEW c \in Commands, NEW s \in Stages, TypeOK, JobStep(<<c, s>>)
  PROVE  OutcomeEffect(c, s)
  <1> DEFINE j == <<c, s>>
  <1>0. j \in Jobs /\ j[1] = c /\ j[2] = s
    BY DEF Jobs
  <1>1. \A q \in Commands, t \in Stages : <<q, t>> \in Jobs
    BY DEF Jobs
  <1> HIDE DEF j
  <1> USE DEF TypeOK, JobTypes, Moves, Fails, markVars
  <1>2. CASE Starts(j)
    <2>1. job[j] = "queued" /\ job' = [job EXCEPT ![j] = "running"] /\ UNCHANGED <<ok, out, done>>
      BY <1>2 DEF Starts
    <2>2. stale' = stale \/ \E d \in Deps[s] \cap Selected[c] : out[d] # c /\ Succeeds(c, d)
      <3>1. stale' # stale => \E a \in Ancestors(j) : out[a[2]] # a[1] /\ job[a] = "over" /\ ok[a]
        BY <1>2 DEF Starts
      <3>2. \A a \in Ancestors(j) : \E d \in Deps[s] \cap Selected[c] : a = <<c, d>>
        BY <1>0 DEF Ancestors
      <3>3. ASSUME stale' # stale
            PROVE  \E d \in Deps[s] \cap Selected[c] : out[d] # c /\ Succeeds(c, d)
        <4>1. PICK a \in Ancestors(j) : out[a[2]] # a[1] /\ job[a] = "over" /\ ok[a]
          BY <3>1, <3>3
        <4>2. PICK d \in Deps[s] \cap Selected[c] : a = <<c, d>>
          BY <3>2
        <4> QED
          BY <4>1, <4>2 DEF Succeeds
      <3> QED
        BY <3>3
    <2> QED
      BY <1>0, <1>1, <2>1, <2>2 DEF OutcomeEffect, Succeeds, Alive, j
  <1>3. CASE BodyEnds(j)
    <2>1. /\ job[j] = "running" /\ job' = [job EXCEPT ![j] = "finalize"]
          /\ UNCHANGED <<done, stale>>
          /\ \/ ok' = ok /\ out' = [out EXCEPT ![s] = c]
             \/ ok' = [ok EXCEPT ![j] = FALSE] /\ out' \in {out, [out EXCEPT ![s] = c]}
      BY <1>0, <1>3 DEF BodyEnds
    <2>2. /\ \A t \in Stages : t # s => out'[t] = out[t]
          /\ out'[s] \in {out[s], c} /\ (ok'[j] => out'[s] = c)
      BY <1>0, <2>1
    <2>3. \A q \in Commands, t \in Stages :
            <<q, t>> # j => job'[<<q, t>>] = job[<<q, t>>] /\ ok'[<<q, t>>] = ok[<<q, t>>]
      BY <1>0, <1>1, <2>1
    <2> QED
      BY <1>0, <2>1, <2>2, <2>3 DEF OutcomeEffect, Succeeds, Alive, j
  <1>4. CASE Finalize(j)
    BY <1>0, <1>1, <1>4 DEF Finalize, OutcomeEffect, Succeeds, Alive, j
  <1>5. CASE PublishDone(j)
    <2>1. /\ job[j] = "mark" /\ ok[j]
          /\ UNCHANGED <<out, stale>>
          /\ ok' = ok \/ ok' = [ok EXCEPT ![j] = FALSE]
          /\ job' = job \/ job' = [job EXCEPT ![j] = "clean"]
          /\ done' = done \/ done' = [done EXCEPT ![s] = c]
      BY <1>0, <1>5 DEF PublishDone
    <2> QED
      BY <1>0, <1>1, <2>1 DEF OutcomeEffect, Succeeds, Alive, j
  <1>6. CASE PublishFailed(j)
    BY <1>0, <1>1, <1>6 DEF PublishFailed, OutcomeEffect, Succeeds, Alive, j
  <1>7. CASE Exits(j)
    BY <1>0, <1>1, <1>7 DEF Exits, OutcomeEffect, Succeeds, Alive, j
  <1>8. CASE AfterokFails(j)
    BY <1>0, <1>1, <1>8 DEF AfterokFails, OutcomeEffect, Succeeds, Alive, j
  <1>9. CASE Terminated(j)
    BY <1>0, <1>1, <1>9 DEF Terminated, OutcomeEffect, Succeeds, Alive, OnNode, j
  <1>10. CASE Killed(j)
    BY <1>0, <1>1, <1>10 DEF Killed, OutcomeEffect, Succeeds, Alive, OnNode, j
  <1> QED
    BY <1>2, <1>3, <1>4, <1>5, <1>6, <1>7, <1>8, <1>9, <1>10 DEF JobStep, Works, j

\* A job's step keeps the outcomes: only the owner's job writes the stage's outputs,
\* and a job starts only on outputs of its own run's jobs.
LEMMA JobKeepsOutcomes ==
  ASSUME NEW c \in Commands, NEW s \in Stages, TypeOK, Links, ghosts = {}, Outcomes,
         JobEffect(<<c, s>>), OutcomeEffect(c, s)
  PROVE  Outcomes'
  <1>0. UNCHANGED <<pc, todo, waits, jobid>> /\ job[<<c, s>>] \in Alive
    BY DEF JobEffect, OutcomeEffect
  <1>1. \A q \in Commands, t \in Stages :
          (Submits(q, t)' <=> Submits(q, t)) /\ (Owner(q, t)' <=> Owner(q, t))
    BY <1>0 DEF Submits, Owner, IsFirst
  <1>2. ASSUME NEW q \in Commands, NEW t \in Stages PROVE OrderAt(q, t)'
    <2>1. OrderAt(q, t)
      BY DEF Outcomes
    <2>2. CASE <<q, t>> = <<c, s>>
      BY <1>0, <1>1, <2>1, <2>2 DEF OrderAt, OutcomeEffect, Alive
    <2>3. CASE <<q, t>> # <<c, s>>
      <3>1. job'[<<q, t>>] = job[<<q, t>>] /\ (done'[t] = q => done[t] = q)
        BY <2>3 DEF OutcomeEffect
      <3> QED
        BY <1>0, <1>1, <2>1, <3>1 DEF OrderAt
    <2> QED
      BY <2>2, <2>3
  <1>3. ASSUME NEW q \in Commands, NEW t \in Stages, Owner(q, t),
               done'[t] = q \/ Succeeds(q, t)' \/ t \in Selected[q] \ waits[q]
        PROVE  out'[t] = q
    <2>1. OutAt(q, t)
      BY DEF Outcomes
    <2>2. CASE t = s
      <3>1. q = c
        BY <1>0, <1>3, <2>2, AliveIsOwner
      <3> QED
        BY <1>3, <2>1, <2>2, <3>1 DEF OutAt, OutcomeEffect
    <2>3. CASE t # s
      BY <1>3, <2>1, <2>3 DEF OutAt, OutcomeEffect, Succeeds
    <2> QED
      BY <2>2, <2>3
  <1>4. ASSUME NEW q \in Commands PROVE HeldAt(q)'
    <2>1. \A t \in Stages : job'[<<q, t>>] \in Alive => job[<<q, t>>] \in Alive
      BY DEF JobEffect, OnlyLeave, Jobs
    <2> QED
      BY <1>0, <2>1 DEF Outcomes, HeldAt, Past, Inside
  <1>5. ASSUME NEW d \in Deps[s] \cap Selected[c], Succeeds(c, d) PROVE out[d] = c
    <2>1. d \in Stages
      BY RunAssumption
    <2>2. d \notin todo[c]
      BY <1>0, <2>1 DEF Outcomes, OrderAt, Alive
    <2>3. Owner(c, d)
      BY <1>0, <2>1, <2>2, AliveOwnsPlan DEF Outcomes
    <2> QED
      BY <1>5, <2>1, <2>3 DEF Outcomes, OutAt
  <1>6. stale' = stale
    BY <1>5 DEF OutcomeEffect
  <1> QED
    BY <1>0, <1>1, <1>2, <1>3, <1>4, <1>6 DEF Outcomes, OutAt

\* The outcomes agree with the records in every reachable state.
LEMMA WholeInvariant == Spec => []WholeInv
  <1>1. Init => WholeInv
    BY RunAssumption DEF Init, WholeInv, PlanInv, Outcomes, OrderAt, OutAt, HeldAt, Owner, Submits,
       Succeeds, Past, Inside, Alive, Jobs
  <1>2. RunInv /\ OwnMarkersOnly /\ WholeInv /\ [Next]_vars => WholeInv'
    <2> SUFFICES ASSUME TypeOK, Links, OwnMarkersOnly, WholeInv, [Next]_vars PROVE WholeInv'
      BY DEF RunInv
    <2>1. ASSUME NEW c \in Commands, CommandStep(c) PROVE WholeInv'
      <3>1. CommandFrame(c) /\ PlanInv'
        BY <2>1, CommandStepFrame, CommandKeepsPlan DEF WholeInv
      <3>2. ASSUME ghosts' = {} PROVE Outcomes'
        <4>1. ghosts = {} /\ Outcomes /\ PlanInv
          BY <3>1, <3>2 DEF CommandFrame, WholeInv
        <4>2. CASE Keeping(c)
          BY <3>1, <3>2, <4>1, <4>2, KeepingKeepsOutcomes
        <4>3. CASE \E s \in Stages : Recording(c, s)
          BY <3>1, <4>1, <4>3, RecordKeepsOutcomes
        <4> QED
          BY <2>1, <3>2, <4>2, <4>3, CommandStepKinds
      <3> QED
        BY <3>1, <3>2 DEF WholeInv
    <2>2. ASSUME NEW j \in Jobs, JobStep(j) PROVE WholeInv'
      <3>1. PICK c \in Commands, s \in Stages : j = <<c, s>>
        BY DEF Jobs
      <3>2. JobEffect(<<c, s>>) /\ OutcomeEffect(c, s)
        BY <2>2, <3>1, JobStepEffect, JobOutcomeEffect
      <3>3. PlanInv'
        BY <3>2 DEF WholeInv, PlanInv, JobEffect
      <3>4. ghosts' = {} => Outcomes'
        BY <3>2, JobKeepsOutcomes DEF WholeInv, JobEffect
      <3> QED
        BY <3>3, <3>4 DEF WholeInv
    <2>3. CASE UNCHANGED vars
      BY <2>3 DEF vars, cmdVars, waitVars, jobVars, markVars, WholeInv, PlanInv, Outcomes, OrderAt,
         OutAt, HeldAt, Owner, Submits, Succeeds, Past, Inside, IsFirst
    <2> QED
      BY <2>1, <2>2, <2>3 DEF Next, CommandStep, JobStep
  <1> QED
    BY <1>1, <1>2, RunInvariant, MarkersAreOwn, PTL DEF Spec

\* A full-run that completed has its own outputs at every stage that no later command
\* submitted, and no job of its read another command's outputs, however commands,
\* crashes and rollbacks interleaved, as long as no job's ID was lost.
THEOREM CompletedRunIsWhole == Spec => []CompletedIsWhole
  <1>1. RunInv /\ WholeInv => CompletedIsWhole
    <2> SUFFICES ASSUME Links, WholeInv, NEW c \in Commands, NEW s \in Stages,
                        pc[c] = "completed", ghosts = {}, lock = NoCommand,
                        s \in Selected[c], jobid[s] = c
                 PROVE  out[s] = c /\ <<c, s>> \notin stale
      BY DEF RunInv, CompletedIsWhole
    <2>1. \A q \in Commands : ~Submits(q, s)
      BY RunAssumption DEF Links, HolderInside, Inside, Submits, EndedAt
    <2>2. Owner(c, s) /\ s \in Selected[c] \ waits[c]
      BY <2>1 DEF Owner, WholeInv, PlanInv
    <2> QED
      BY <2>2 DEF WholeInv, Outcomes, OutAt
  <1> QED
    BY <1>1, RunInvariant, WholeInvariant, PTL
=============================================================================
