------------------------ MODULE StageExecutorProofs ------------------------
(***************************************************************************)
(* Proofs about StageExecutor, for every stage graph, any number of        *)
(* commands and any number of faults: a stage succeeds only on its own     *)
(* job, its success is seen, a command that reports success ran its whole  *)
(* graph, it leaves no job behind, and it cancels only its own.            *)
(***************************************************************************)
EXTENDS StageExecutor, FiniteSetTheorems, TLAPS

Active(c) == pc[c] \in {"loop", "cancel", "raise", "drain"} \cup Submitting
Waiting == {"start", "look", "probe"}

\* What execute_analysis' collections hold.
PoolOf(c) ==
    /\ pending[c] \subseteq Plan[c] /\ running[c] \subseteq Plan[c] /\ completed[c] \subseteq Plan[c]
    /\ starting[c] \subseteq Plan[c] \cap OnPbs /\ \A s, t \in starting[c] : s = t
    /\ pc[c] = "idle" => running[c] = {} /\ completed[c] = {} /\ failures[c] = {}
    /\ pc[c] \in Submitting => starting[c] # {}
    /\ pending[c] \cap starting[c] = {}
    /\ starting[c] # {} => pc[c] \in {"raise", "drain", "error", "dead"} \cup Submitting
    /\ Active(c) /\ failures[c] = {} => Plan[c] \subseteq pending[c] \cup starting[c] \cup running[c] \cup completed[c]
    /\ failures[c] # {} => pending[c] = {}
    /\ pc[c] = "cancel" => failures[c] # {}
    /\ pc[c] = "ok" => completed[c] = Plan[c] /\ running[c] = {} /\ failures[c] = {}
    /\ pc[c] # "stuck"
PoolInv == \A c \in Commands : PoolOf(c)

\* A stage that was not submitted has neither a thread nor a job.
FreshAt(c, s) ==
    pc[c] = "idle" \/ s \in pending[c] => th[c][s] = "none" /\ job[<<c, s>>] = "none" /\ <<c, s>> \notin seen
FreshInv == \A c \in Commands, s \in Stages : FreshAt(c, s)

\* The threads of a command are those of the stages it runs or starts, after their dependencies.
ThreadAt(c, s) ==
    /\ th[c][s] \in Waiting \cup {"local"} => Active(c) /\ s \in running[c] \cup starting[c]
    /\ th[c][s] # "none" => s \in Plan[c]
    /\ th[c][s] \in Waiting => s \in OnPbs
    /\ th[c][s] = "local" => s \notin OnPbs
    /\ s \in running[c] /\ Active(c) => th[c][s] # "none"
    /\ s \in completed[c] /\ Active(c) => th[c][s] = "ok"
    /\ s \in running[c] \cup starting[c] => Deps[s] \cap Plan[c] \subseteq completed[c]
    /\ s \in starting[c] /\ pc[c] \in {"qsub", "recorded"} => th[c][s] = "none"
    /\ s \in starting[c] /\ pc[c] = "enter" => th[c][s] # "none"
ThreadInv == \A c \in Commands, s \in Stages : ThreadAt(c, s)

\* Only stages of its plan that run on PBS have jobs.
JobInv == \A c \in Commands, s \in Stages : job[<<c, s>>] # "none" => s \in OnPbs /\ s \in Plan[c]

\* A stage that was submitted.
Submitted(c, s) == s \in starting[c] \/ th[c][s] # "none"

\* A stage that met no other attempt has the marker files, the job ID and the outputs to itself.
OwnAt(c, s) ==
    Active(c) /\ <<c, s>> \notin mixed /\ Submitted(c, s) =>
        /\ \A k \in Commands \ {c} : job[<<k, s>>] \notin Alive /\ th[k][s] # "local"
        /\ s \in OnPbs /\ (th[c][s] # "none" \/ pc[c] \in {"recorded", "enter"}) => jobid[s] = c
        /\ done[s] \in {NoCommand, c} /\ failed[s] \in {NoCommand, c}
        /\ job[<<c, s>>] = "succeeded" => done[s] = c
        /\ job[<<c, s>>] \in {"exit0", "succeeded"} => out[s] = c
        /\ th[c][s] = "ok" /\ s \notin OnPbs => out[s] = c
        /\ th[c][s] \in {"look", "probe"} => wid[c][s] = c
        /\ th[c][s] = "probe" /\ <<c, s>> \in seen => job[<<c, s>>] # "succeeded"
OwnInv == \A c \in Commands, s \in Stages : OwnAt(c, s)

\* A stage whose job ID a command is about to record met the other attempts of it.
AboutToRecord(k, s) == pc[k] = "qsub" /\ s \in starting[k]
MeetAt(k, c, s) ==
    AboutToRecord(k, s) /\ (job[<<c, s>>] \in Alive \/ (Active(c) /\ Submitted(c, s))) => <<c, s>> \in mixed
MeetInv == \A c \in Commands, s \in Stages : \A k \in Commands \ {c} : MeetAt(k, c, s)

\* The .jobid file names every live job that was recorded and met no other attempt.
NamedAt(c, s) ==
    /\ job[<<c, s>>] \in Alive /\ <<c, s>> \notin ghosts \cup mixed /\ ~AboutToRecord(c, s)
    => jobid[s] = c
NamedInv == \A c \in Commands, s \in Stages : NamedAt(c, s)

\* A marker says how its job ended, and a job seen to have ended has ended.
MarkInv ==
    /\ \A s \in Stages : done[s] # NoCommand => job[<<done[s], s>>] = "succeeded"
    /\ \A s \in Stages : failed[s] # NoCommand => job[<<failed[s], s>>] = "failed"
SeenInv == \A j \in seen \ mixed : job[j] \notin Alive

\* What a thread reports of a stage that met no other attempt.
ResultAt(c, s) ==
    s \in OnPbs /\ <<c, s>> \notin mixed =>
        /\ th[c][s] = "ok" => job[<<c, s>>] = "succeeded"
        /\ th[c][s] = "error" /\ <<c, s>> \notin late => job[<<c, s>>] \notin Alive \cup {"succeeded"}
ResultInv == \A c \in Commands, s \in Stages : ResultAt(c, s)

\* Somebody waits for every live job that was recorded and not given up, but for one whose
\* submission is under way or was cut short, and those of an interrupted single stage.
LiveAt(c, s) ==
    job[<<c, s>>] \in Alive /\ <<c, s>> \notin ghosts \cup late \cup mixed /\ pc[c] # "dead" =>
        \/ th[c][s] \in Waiting
        \/ th[c][s] = "none" /\ (s \in starting[c] \/ (pc[c] = "error" /\ ~IsGraph(c)))
LiveInv == \A c \in Commands, s \in Stages : LiveAt(c, s)

\* A command that will not report success.
Doomed(c) ==
    \/ pc[c] \in {"cancel", "raise", "drain", "error", "dead"} \/ failures[c] # {}
    \/ \E s \in running[c] \cup starting[c] : th[c][s] \in {"error", "exit"}
DoomInv ==
    /\ \A j \in ghosts \cup late : Doomed(j[1])
    /\ \A j \in stale : Doomed(j[1]) \/ \E s \in Plan[j[1]] : <<j[1], s>> \in mixed

-----------------------------------------------------------------------------
(***************************************************************************)
(* The order of the stages.                                                *)
(***************************************************************************)
\* A nonempty set of positions has a least member.
LEMMA Least ==
  ASSUME NEW S, S \subseteq Nat, S # {}
  PROVE  \E x \in S : \A y \in S : x <= y
  <1> DEFINE Below == {1..x : x \in S}
  <1>1. Below \subseteq FiniteSubsetsOf(Nat)
    <2>1. \A x \in S : IsFiniteSet(1..x) /\ 1..x \subseteq Nat
      BY FS_Interval
    <2> QED
      BY <2>1 DEF FiniteSubsetsOf
  <1>2. Below # {}
    OBVIOUS
  <1>3. PICK B \in Below : \A C \in Below : ~(<<C, B>> \in StrictSubsetOrdering(Nat))
    <2> HIDE DEF Below
    <2>1. IsWellFoundedOn(StrictSubsetOrdering(Nat), FiniteSubsetsOf(Nat))
      BY FS_StrictSubsetOrderingWellFounded
    <2> QED
      BY <1>1, <1>2, <2>1, WFMin
  <1>4. PICK x \in S : B = 1..x
    BY <1>3
  <1>5. ASSUME NEW y \in S, ~(x <= y) PROVE FALSE
    <2>1. 1..y \subseteq 1..x /\ x \in 1..x /\ x \notin 1..y
      BY <1>5
    <2>2. <<1..y, 1..x>> \in StrictSubsetOrdering(Nat)
      BY <2>1 DEF StrictSubsetOrdering
    <2> QED
      BY <1>3, <1>4, <2>2
  <1> QED
    BY <1>5

LEMMA PositionType ==
  ASSUME NEW s \in Stages
  PROVE  Position(s) \in Nat
  <1>1. PICK n \in 1..Len(Order) : Order[n] = s
    BY ExecutorAssumption
  <1> QED
    BY <1>1 DEF Position

\* A nonempty set of stages has a first one.
LEMMA FirstStage ==
  ASSUME NEW S, S \subseteq Stages, S # {}
  PROVE  \E s \in S : \A t \in S : Position(s) <= Position(t)
  <1> DEFINE P == {Position(s) : s \in S}
  <1>1. P \subseteq Nat /\ P # {}
    BY PositionType
  <1>2. PICK x \in P : \A y \in P : x <= y
    <2> HIDE DEF P
    <2> QED
      BY <1>1, Least
  <1> QED
    BY <1>2

\* As long as every stage is somewhere and none runs or failed, a pending stage can be submitted.
LEMMA SomethingCanBeSubmitted ==
  ASSUME NEW c \in Commands, PoolInv, TypeOK,
         pc[c] = "loop", failures[c] = {}, running[c] = {}, pending[c] # {}
  PROVE  CanSubmit(c)
  <1>0. starting[c] = {}
    BY DEF PoolInv, PoolOf, Submitting
  <1>1. pending[c] \subseteq Stages /\ Plan[c] \subseteq Stages /\ IsFiniteSet(Plan[c])
    BY FS_Subset, ExecutorAssumption DEF TypeOK, CommandTypes
  <1>2. PICK s \in pending[c] : \A t \in pending[c] : Position(s) <= Position(t)
    BY <1>1, FirstStage
  <1>3. ASSUME NEW d \in Deps[s] \cap Plan[c] PROVE d \in completed[c]
    <2>1. d \in Stages /\ Position(d) < Position(s)
      BY <1>1, ExecutorAssumption
    <2>2. d \notin pending[c]
      BY <1>1, <1>2, <2>1, PositionType
    <2> QED
      BY <1>0, <2>2 DEF PoolInv, PoolOf, Active, Submitting
  <1>4. Ready(c) # {}
    BY <1>2, <1>3 DEF Ready
  <1>5. Cardinality(running[c]) < MaxWorkers(c)
    <2>1. Plan[c] # {}
      BY DEF PoolInv, PoolOf
    <2>2. Cardinality(Plan[c]) \in Nat /\ Cardinality(Plan[c]) # 0
      BY <1>1, <2>1, FS_CardinalityType, FS_EmptySet
    <2> QED
      BY <2>2, FS_EmptySet DEF MaxWorkers
  <1> QED
    BY <1>4, <1>5 DEF CanSubmit

-----------------------------------------------------------------------------
(***************************************************************************)
(* Types.                                                                  *)
(***************************************************************************)
LEMMA InitTypes == Init => TypeOK
  BY ExecutorAssumption DEF Init, TypeOK, CommandTypes, ThreadTypes, DiskTypes, JobTypes, HistoryTypes,
     Nobody, MaybeCommand, CommandLabels, Submitting, EndedAt, ThreadLabels, Finished, JobLabels, Alive, Jobs, Locks

LEMMA FaultTypes ==
  ASSUME faults \in 0..MaxFaults, Fault \/ faults' = faults
  PROVE  faults' \in 0..MaxFaults
  BY ExecutorAssumption DEF Fault

LEMMA MixesAreJobs ==
  ASSUME NEW c \in Commands, NEW s \in Stages
  PROVE  Mixes(c, s) \subseteq Jobs /\ Reads(c, s) \subseteq Jobs
  BY DEF Mixes, Foreign, Reads, Jobs

LEMMA ReleasedTypes ==
  ASSUME NEW c \in Commands, CommandTypes
  PROVE  Released(c) \in [Locks -> MaybeCommand]
  BY DEF Released, CommandTypes, MaybeCommand

LEMMA UpdateTypes ==
  ASSUME NEW T, NEW f \in [Commands -> T], NEW g, NEW c \in Commands, NEW x \in T,
         g = f \/ g = [f EXCEPT ![c] = x]
  PROVE  g \in [Commands -> T]
  OBVIOUS

LEMMA GoesTypes ==
  ASSUME NEW c \in Commands, NEW s \in Stages, NEW l \in ThreadLabels, ThreadTypes, Goes(c, s, l)
  PROVE  th' \in [Commands -> [Stages -> ThreadLabels]]
  BY DEF Goes, ThreadTypes

LEMMA MainThreadTypes ==
  ASSUME NEW c \in Commands, TypeOK, MainThread(c) \/ Interrupt(c) \/ CommandDies(c)
  PROVE  TypeOK'
  <1> USE DEF TypeOK, CommandTypes, ThreadTypes, DiskTypes, JobTypes, HistoryTypes, MaybeCommand
  <1> USE DEF CommandLabels, Submitting, EndedAt, ThreadLabels, Finished, poolVars, threadVars, diskVars, jobVars, histVars
  <1>0. \A s \in Stages : <<c, s>> \in Jobs
    BY DEF Jobs
  <1>1. CASE Begin(c)
    <2>1. pending' \in [Commands -> SUBSET Stages]
      <3>1. pending' = pending \/ pending' = [pending EXCEPT ![c] = Plan[c]]
        BY <1>1 DEF Begin
      <3>2. Plan[c] \in SUBSET Stages
        BY ExecutorAssumption
      <3> QED
        BY <3>1, <3>2
    <2>2. lock' \in [Locks -> MaybeCommand]
      BY <1>1 DEF Begin
    <2>3. pc' \in [Commands -> CommandLabels]
      BY <1>1 DEF Begin
    <2> QED
      BY <1>1, <2>1, <2>2, <2>3 DEF Begin
  <1>2. CASE Qsub(c)
    <2>1. PICK s \in OnPbs : Qsub(c)!2!(s)
      BY <1>2 DEF Qsub
    <2>2. s \in Stages /\ Mixes(c, s) \subseteq Jobs
      BY ExecutorAssumption, MixesAreJobs
    <2>3. job' \in [Jobs -> JobLabels]
      BY <2>1 DEF JobLabels, Alive
    <2>4. CommandTypes'
      <3>1. {s} \in SUBSET Stages /\ "qsub" \in CommandLabels
        BY <2>2
      <3>2. starting' \in [Commands -> SUBSET Stages]
        BY <2>1, <3>1
      <3>3. pending' \in [Commands -> SUBSET Stages] /\ pc' \in [Commands -> CommandLabels]
        BY <1>2, <2>1, <3>1 DEF Qsub
      <3> QED
        BY <1>2, <3>2, <3>3 DEF Qsub
    <2> QED
      BY <1>2, <2>1, <2>2, <2>3, <2>4 DEF Qsub
  <1>3. CASE SubmitLocal(c)
    <2>1. PICK s \in Stages \ OnPbs : SubmitLocal(c)!2!(s)
      BY <1>3 DEF SubmitLocal
    <2>2. Mixes(c, s) \subseteq Jobs
      BY MixesAreJobs
    <2>3. CommandTypes' /\ ThreadTypes'
      BY <1>3, <2>1 DEF SubmitLocal
    <2> QED
      BY <1>3, <2>1, <2>2, <2>3 DEF SubmitLocal
  <1>4. CASE SubmitFails(c)
    <2>1. PICK s \in OnPbs : SubmitFails(c)!2!(s)
      BY <1>4 DEF SubmitFails
    <2>2. s \in Stages
      BY ExecutorAssumption
    <2>4. faults' \in 0..MaxFaults
      BY <2>1, FaultTypes
    <2>5. CommandTypes'
      BY <1>4, <2>1, <2>2 DEF SubmitFails
    <2> QED
      BY <1>4, <2>4, <2>5 DEF SubmitFails
  <1>5. CASE CancelRunning(c)
    <2>1. Cancels(c) \subseteq Stages /\ {<<jobid[s], s>> : s \in {t \in Cancels(c) : jobid[t] # NoCommand}} \subseteq Jobs
      BY DEF Cancels, Jobs
    <2>2. PICK hit \in SUBSET Jobs : CancelRunning(c)!1!4!(hit)
      BY <1>5, <2>1 DEF CancelRunning
    <2>3. job' \in [Jobs -> JobLabels] /\ term' \subseteq Jobs /\ struck' \subseteq Commands \X Jobs
      BY <2>2 DEF JobLabels
    <2>4. faults' \in 0..MaxFaults
      BY <2>2, FaultTypes
    <2>5. CommandTypes'
      BY <1>5, <2>1 DEF CancelRunning
    <2> QED
      BY <1>5, <2>3, <2>4, <2>5 DEF CancelRunning
  <1>6. CASE Collect(c)
    <2>1. PICK s \in running[c] : Collect(c)!2!(s)
      BY <1>6 DEF Collect
    <2>2. s \in Stages
      OBVIOUS
    <2>3. pc' \in [Commands -> CommandLabels]
      BY <1>6, <2>1
    <2>4. pending' \in [Commands -> SUBSET Stages] /\ running' \in [Commands -> SUBSET Stages]
      BY <1>6, <2>1
    <2>5. completed' \in [Commands -> SUBSET Stages]
      <3>1. completed' = completed \/ completed' = [completed EXCEPT ![c] = completed[c] \cup {s}]
        BY <2>1
      <3>2. completed[c] \cup {s} \in SUBSET Stages
        BY <2>2
      <3> QED
        BY <3>1, <3>2, UpdateTypes
    <2>6. failures' \in [Commands -> SUBSET Stages]
      <3>1. failures' = failures \/ failures' = [failures EXCEPT ![c] = failures[c] \cup {s}]
        BY <2>1
      <3>2. failures[c] \cup {s} \in SUBSET Stages
        BY <2>2
      <3> QED
        BY <3>1, <3>2, UpdateTypes
    <2> QED
      BY <1>6, <2>3, <2>4, <2>5, <2>6 DEF Collect
  <1>7. CASE Finish(c)
    BY <1>7, ReleasedTypes DEF Finish
  <1>8. CASE Drain(c)
    BY <1>8, ReleasedTypes DEF Drain
  <1>9. CASE Interrupt(c)
    <2>1. faults' \in 0..MaxFaults
      BY <1>9, FaultTypes DEF Interrupt
    <2>2. ghosts' \subseteq Jobs
      BY <1>9 DEF Interrupt, Unrecorded, Jobs
    <2>3. CommandTypes'
      BY <1>9, ReleasedTypes DEF Interrupt
    <2>4. th' \in [Commands -> [Stages -> ThreadLabels]]
      <3>1. th' = th \/ th' = [th EXCEPT ![c] = [s \in Stages |-> "none"]]
        BY <1>9 DEF Interrupt
      <3>2. [s \in Stages |-> "none"] \in [Stages -> ThreadLabels]
        OBVIOUS
      <3> QED
        BY <3>1, <3>2, UpdateTypes
    <2> QED
      BY <1>9, <2>1, <2>2, <2>3, <2>4 DEF Interrupt
  <1>10. CASE CommandDies(c)
    <2>1. faults' \in 0..MaxFaults
      BY <1>10, FaultTypes DEF CommandDies
    <2>2. ghosts' \subseteq Jobs
      BY <1>10 DEF CommandDies, Unrecorded, Jobs
    <2> QED
      BY <1>10, <2>1, <2>2, ReleasedTypes DEF CommandDies
  <1>11. CASE Record(c)
    BY <1>11 DEF Record
  <1>12. CASE StartThread(c)
    BY <1>12 DEF StartThread
  <1>13. CASE Enter(c)
    BY <1>13 DEF Enter
  <1>14. CASE RecordFails(c)
    <2>1. faults' \in 0..MaxFaults
      BY <1>14, FaultTypes DEF RecordFails
    <2>2. ghosts' \subseteq Jobs
      BY <1>14 DEF RecordFails, Unrecorded, Jobs
    <2>3. CommandTypes'
      BY <1>14 DEF RecordFails
    <2> QED
      BY <1>14, <2>1, <2>2, <2>3 DEF RecordFails
  <1> QED
    BY <1>1, <1>2, <1>3, <1>4, <1>5, <1>6, <1>7, <1>8, <1>9, <1>10, <1>11, <1>12, <1>13, <1>14 DEF MainThread

LEMMA ThreadStepTypes ==
  ASSUME NEW c \in Commands, NEW s \in Stages, TypeOK, WaitThread(c, s)
  PROVE  TypeOK'
  <1> USE DEF TypeOK, CommandTypes, ThreadTypes, DiskTypes, JobTypes, HistoryTypes, MaybeCommand
  <1> USE DEF ThreadLabels, Finished, ThreadFrame, Goes, poolVars, jobVars
  <1>0. <<c, s>> \in Jobs /\ Reads(c, s) \subseteq Jobs
    BY MixesAreJobs DEF Jobs
  <1>1. CASE ReadJobId(c, s)
    BY <1>1 DEF ReadJobId
  <1>2. CASE LookForMarker(c, s)
    BY <1>2 DEF LookForMarker
  <1>3. CASE Probe(c, s)
    <2>1. faults' \in 0..MaxFaults
      BY <1>3, FaultTypes DEF Probe
    <2>2. \E l \in {"look", "error"} : Goes(c, s, l)
      BY <1>3 DEF Probe
    <2>3. th' \in [Commands -> [Stages -> ThreadLabels]]
      BY <2>2, GoesTypes
    <2>4. seen' \subseteq Jobs /\ late' \subseteq Jobs
      BY <1>0, <1>3 DEF Probe
    <2> QED
      BY <1>3, <2>1, <2>3, <2>4 DEF Probe
  <1>4. CASE LocalStage(c, s)
    <2>1. faults' \in 0..MaxFaults
      BY <1>4, FaultTypes DEF LocalStage
    <2>2. \E l \in Finished : Goes(c, s, l)
      BY <1>4 DEF LocalStage
    <2>4. th' \in [Commands -> [Stages -> ThreadLabels]]
      BY <2>2, GoesTypes
    <2>5. stale' \subseteq Jobs
      BY <1>0, <1>4 DEF LocalStage
    <2>3. out' \in [Stages -> MaybeCommand]
      BY <1>4 DEF LocalStage
    <2> QED
      BY <1>4, <2>1, <2>3, <2>4, <2>5 DEF LocalStage
  <1> QED
    BY <1>1, <1>2, <1>3, <1>4 DEF WaitThread

LEMMA JobStepTypes ==
  ASSUME NEW c \in Commands, NEW s \in Stages, TypeOK, JobStep(<<c, s>>) \/ JobKilled(<<c, s>>)
  PROVE  TypeOK'
  <1> DEFINE j == <<c, s>>
  <1> USE DEF TypeOK, CommandTypes, ThreadTypes, DiskTypes, JobTypes, HistoryTypes, MaybeCommand
  <1> USE DEF JobFrame, Becomes, JobLabels, Alive, poolVars, threadVars
  <1>0. j \in Jobs /\ Reads(c, s) \subseteq Jobs
    BY MixesAreJobs DEF Jobs
  <1>1. CASE JobStarts(j)
    BY <1>0, <1>1 DEF JobStarts
  <1>2. CASE JobBody(j)
    <2>1. faults' \in 0..MaxFaults
      BY <1>2, FaultTypes DEF JobBody
    <2>2. job' \in [Jobs -> JobLabels] /\ stale' \subseteq Jobs
      BY <1>0, <1>2 DEF JobBody
    <2>3. out' \in [Stages -> MaybeCommand]
      BY <1>2 DEF JobBody
    <2> QED
      BY <1>2, <2>1, <2>2, <2>3 DEF JobBody
  <1>3. CASE JobExits(j)
    <2>1. job' \in [Jobs -> JobLabels]
      BY <1>0, <1>3 DEF JobExits
    <2>2. done' \in [Stages -> MaybeCommand]
      BY <1>3 DEF JobExits
    <2>3. failed' \in [Stages -> MaybeCommand]
      BY <1>3 DEF JobExits
    <2> QED
      BY <1>3, <2>1, <2>2, <2>3 DEF JobExits
  <1>4. CASE JobTerminated(j)
    BY <1>0, <1>4 DEF JobTerminated
  <1>5. CASE JobKilled(j)
    <2>1. faults' \in 0..MaxFaults
      BY <1>5, FaultTypes DEF JobKilled
    <2> QED
      BY <1>0, <1>5, <2>1 DEF JobKilled
  <1> QED
    BY <1>1, <1>2, <1>3, <1>4, <1>5 DEF JobStep

LEMMA StutterTypes == TypeOK /\ UNCHANGED vars => TypeOK'
  BY DEF TypeOK, CommandTypes, ThreadTypes, DiskTypes, JobTypes, HistoryTypes, vars,
     poolVars, threadVars, diskVars, jobVars, histVars

\* A step is one of a command, of one of its threads, or of a job.
LEMMA Steps ==
  ASSUME Next
  PROVE  \/ \E c \in Commands : MainThread(c) \/ Interrupt(c) \/ CommandDies(c)
         \/ \E c \in Commands, s \in Stages :
               WaitThread(c, s) \/ JobStep(<<c, s>>) \/ JobKilled(<<c, s>>)
  <1>1. \A j \in Jobs : \E c \in Commands, s \in Stages : j = <<c, s>>
    BY DEF Jobs
  <1> QED
    BY <1>1 DEF Next

LEMMA NextTypes == TypeOK /\ [Next]_vars => TypeOK'
  BY Steps, MainThreadTypes, ThreadStepTypes, JobStepTypes, StutterTypes

\* The state always holds what the program's variables and files can hold.
THEOREM Types == Spec => []TypeOK
  BY InitTypes, NextTypes, PTL DEF Spec

-----------------------------------------------------------------------------
(***************************************************************************)
(* The pool: what is pending, running and completed.                       *)
(***************************************************************************)
CommandStep(c) == MainThread(c) \/ Interrupt(c) \/ CommandDies(c)

\* A step of one command's main thread leaves the other commands' variables alone.
LEMMA OthersKept ==
  ASSUME NEW c \in Commands, NEW k \in Commands \ {c}, TypeOK, CommandStep(c)
  PROVE  /\ pc'[k] = pc[k] /\ pending'[k] = pending[k] /\ running'[k] = running[k]
         /\ completed'[k] = completed[k] /\ failures'[k] = failures[k] /\ starting'[k] = starting[k]
         /\ th'[k] = th[k] /\ wid' = wid /\ seen' = seen
  <1> USE DEF TypeOK, CommandTypes, ThreadTypes, poolVars, threadVars, diskVars, jobVars, histVars
  <1>1. CASE Begin(c)
    BY <1>1 DEF Begin
  <1>2. CASE Qsub(c)
    BY <1>2 DEF Qsub
  <1>3. CASE SubmitLocal(c)
    BY <1>3 DEF SubmitLocal
  <1>4. CASE SubmitFails(c)
    BY <1>4 DEF SubmitFails
  <1>5. CASE CancelRunning(c)
    BY <1>5 DEF CancelRunning
  <1>6. CASE Collect(c)
    BY <1>6 DEF Collect
  <1>7. CASE Finish(c)
    BY <1>7 DEF Finish
  <1>8. CASE Drain(c)
    BY <1>8 DEF Drain
  <1>9. CASE Interrupt(c)
    BY <1>9 DEF Interrupt
  <1>10. CASE CommandDies(c)
    BY <1>10 DEF CommandDies
  <1>11. CASE Record(c) \/ Enter(c)
    BY <1>11 DEF Record, Enter
  <1>12. CASE StartThread(c)
    BY <1>12 DEF StartThread
  <1>13. CASE RecordFails(c)
    BY <1>13 DEF RecordFails
  <1> QED
    BY <1>1, <1>2, <1>3, <1>4, <1>5, <1>6, <1>7, <1>8, <1>9, <1>10, <1>11, <1>12, <1>13 DEF CommandStep, MainThread

LEMMA PoolCommandStep ==
  ASSUME NEW c \in Commands, TypeOK, PoolInv, CommandStep(c)
  PROVE  PoolOf(c)'
  <1> USE DEF PoolOf, Active, Submitting, TypeOK, CommandTypes, poolVars
  <1>0. PoolOf(c) /\ Plan[c] \subseteq Stages
    BY ExecutorAssumption DEF PoolInv
  <1>1. CASE Begin(c)
    BY <1>0, <1>1 DEF Begin
  <1>2. CASE Qsub(c)
    <2>1. PICK s \in OnPbs : Qsub(c)!2!(s)
      BY <1>2 DEF Qsub
    <2>2. s \in pending[c] /\ starting[c] = {}
      BY <1>0, <1>2, <2>1 DEF IsNext, Ready, Qsub
    <2>3. /\ pc[c] = "loop" /\ pc'[c] = "qsub" /\ pending'[c] = pending[c] \ {s} /\ starting'[c] = {s}
          /\ UNCHANGED <<running, completed, failures>>
      BY <1>2, <2>1 DEF Qsub
    <2> QED
      BY <1>0, <2>2, <2>3
  <1>3. CASE SubmitLocal(c)
    <2>1. PICK s \in Stages \ OnPbs : SubmitLocal(c)!2!(s)
      BY <1>3 DEF SubmitLocal
    <2>2. s \in pending[c]
      BY <2>1 DEF IsNext, Ready
    <2> QED
      BY <1>0, <1>3, <2>1, <2>2 DEF SubmitLocal
  <1>4. CASE SubmitFails(c)
    BY <1>0, <1>4 DEF SubmitFails
  <1>5. CASE CancelRunning(c)
    BY <1>0, <1>5 DEF CancelRunning
  <1>6. CASE Collect(c)
    <2>1. PICK s \in running[c] : Collect(c)!2!(s)
      BY <1>6 DEF Collect
    <2>2. CASE th[c][s] = "ok"
      <3>1. /\ pc' = pc /\ pending' = pending /\ failures' = failures
            /\ running'[c] = running[c] \ {s} /\ completed'[c] = completed[c] \cup {s} /\ starting' = starting
        BY <1>6, <2>1, <2>2 DEF Collect
      <3>2. pc[c] = "loop" /\ s \in Plan[c]
        BY <1>0, <1>6 DEF Collect
      <3> QED
        BY <1>0, <3>1, <3>2
    <2>3. CASE th[c][s] # "ok"
      <3>1. /\ pc'[c] \in {"cancel", "raise"} /\ pending'[c] = {} /\ completed' = completed
            /\ running'[c] = running[c] \ {s} /\ failures'[c] = failures[c] \cup {s} /\ starting' = starting
            /\ pc[c] = "loop"
        BY <1>6, <2>1, <2>3 DEF Collect
      <3> QED
        BY <1>0, <3>1
    <2> QED
      BY <2>2, <2>3
  <1>7. CASE Finish(c)
    <2>1. pending[c] = {}
      BY <1>0, <1>7, SomethingCanBeSubmitted DEF Finish
    <2> QED
      BY <1>0, <1>7, <2>1 DEF Finish
  <1>8. CASE Drain(c)
    BY <1>0, <1>8 DEF Drain
  <1>9. CASE Interrupt(c)
    BY <1>0, <1>9 DEF Interrupt
  <1>10. CASE CommandDies(c)
    BY <1>0, <1>10 DEF CommandDies
  <1>11. CASE Record(c) \/ StartThread(c)
    BY <1>0, <1>11 DEF Record, StartThread
  <1>12. CASE Enter(c)
    BY <1>0, <1>12 DEF Enter
  <1>13. CASE RecordFails(c)
    BY <1>0, <1>13 DEF RecordFails
  <1> QED
    BY <1>1, <1>2, <1>3, <1>4, <1>5, <1>6, <1>7, <1>8, <1>9, <1>10, <1>11, <1>12, <1>13 DEF CommandStep, MainThread

\* Threads and jobs do not touch the pools.
LEMMA PoolFrame ==
  ASSUME NEW c \in Commands, NEW s \in Stages, WaitThread(c, s) \/ JobStep(<<c, s>>) \/ JobKilled(<<c, s>>)
  PROVE  UNCHANGED <<pc, pending, starting, running, completed, failures, jobid, mixed>>
  BY DEF WaitThread, ReadJobId, LookForMarker, Probe, LocalStage, ThreadFrame,
     JobStep, JobStarts, JobBody, JobExits, JobTerminated, JobKilled, JobFrame, poolVars

LEMMA PoolStep == TypeOK /\ PoolInv /\ [Next]_vars => PoolInv'
  <1> SUFFICES ASSUME TypeOK, PoolInv, [Next]_vars, NEW k \in Commands PROVE PoolOf(k)'
    BY DEF PoolInv
  <1>1. PoolOf(k)
    BY DEF PoolInv
  <1>2. ASSUME NEW c \in Commands, CommandStep(c) PROVE PoolOf(k)'
    <2>1. CASE k = c
      BY <1>2, <2>1, PoolCommandStep
    <2>2. CASE k # c
      BY <1>1, <1>2, <2>2, OthersKept DEF PoolOf, Active
    <2> QED
      BY <2>1, <2>2
  <1>3. ASSUME NEW c \in Commands, NEW s \in Stages, WaitThread(c, s) \/ JobStep(<<c, s>>) \/ JobKilled(<<c, s>>)
        PROVE  PoolOf(k)'
    BY <1>1, <1>3, PoolFrame DEF PoolOf, Active
  <1>4. CASE UNCHANGED vars
    BY <1>1, <1>4 DEF PoolOf, Active, vars, poolVars
  <1> QED
    BY <1>2, <1>3, <1>4, Steps DEF CommandStep

-----------------------------------------------------------------------------
(***************************************************************************)
(* How threads and jobs move.                                              *)
(***************************************************************************)
JobMove(j) == JobStep(j) \/ JobKilled(j)

\* A stage's job is queued, and a local stage is given its thread.
Queues(c, s) ==
    /\ pc[c] = "loop" /\ s \in Ready(c) \cap OnPbs /\ failures[c] = {}
    /\ pending' = [pending EXCEPT ![c] = @ \ {s}]
    /\ starting' = [starting EXCEPT ![c] = {s}]
    /\ job' = [job EXCEPT ![<<c, s>>] = "queued"]
    /\ mixed' = mixed \cup Mixes(c, s)
    /\ pc' = [pc EXCEPT ![c] = "qsub"]
    /\ UNCHANGED <<running, completed, failures, th, wid, seen, jobid, done, failed, out, late, ghosts, stale, struck>>
Launches(c, s) ==
    /\ pc[c] = "loop" /\ s \in Ready(c) \ OnPbs /\ failures[c] = {}
    /\ pending' = [pending EXCEPT ![c] = @ \ {s}]
    /\ running' = [running EXCEPT ![c] = @ \cup {s}]
    /\ th' = [th EXCEPT ![c][s] = "local"]
    /\ mixed' = mixed \cup Mixes(c, s)
    /\ UNCHANGED <<pc, starting, completed, failures, wid, seen, jobid, done, failed, out, job, late, ghosts, stale, struck>>
\* The other steps of the main thread but the cancellation: they leave the jobs alone.
Moves(c) ==
    /\ \/ Begin(c) \/ Record(c) \/ StartThread(c) \/ Enter(c) \/ SubmitFails(c) \/ RecordFails(c)
       \/ Collect(c) \/ Finish(c) \/ Drain(c) \/ Interrupt(c) \/ CommandDies(c)
    /\ UNCHANGED <<job, mixed, wid, seen, done, failed, out, late, stale, struck>>

LEMMA CommandSteps ==
  ASSUME NEW c \in Commands, CommandStep(c)
  PROVE  \/ \E s \in Stages : Queues(c, s) \/ Launches(c, s)
         \/ CancelRunning(c)
         \/ Moves(c)
  <1> USE DEF poolVars, threadVars, diskVars, jobVars, histVars
  <1>1. CASE Qsub(c)
    <2>1. PICK s \in OnPbs : Qsub(c)!2!(s)
      BY <1>1 DEF Qsub
    <2>2. s \in Stages
      BY ExecutorAssumption
    <2>3. Queues(c, s)
      BY <1>1, <2>1, <2>2 DEF Qsub, Queues, IsNext, CanSubmit
    <2> QED
      BY <2>2, <2>3
  <1>2. CASE SubmitLocal(c)
    <2>1. PICK s \in Stages \ OnPbs : SubmitLocal(c)!2!(s)
      BY <1>2 DEF SubmitLocal
    <2>2. Launches(c, s)
      BY <1>2, <2>1 DEF SubmitLocal, Launches, IsNext, CanSubmit
    <2> QED
      BY <2>2
  <1>3. CASE Begin(c) \/ Record(c) \/ StartThread(c) \/ Enter(c)
    BY <1>3 DEF Moves, Begin, Record, StartThread, Enter
  <1>4. CASE SubmitFails(c) \/ RecordFails(c) \/ Finish(c) \/ Drain(c)
    BY <1>4 DEF Moves, SubmitFails, RecordFails, Finish, Drain
  <1>5. CASE Collect(c) \/ Interrupt(c) \/ CommandDies(c)
    BY <1>5 DEF Moves, Collect, Interrupt, CommandDies
  <1> QED
    BY <1>1, <1>2, <1>3, <1>4, <1>5 DEF CommandStep, MainThread

\* A main thread submits pending stages and deletes queued jobs; other jobs stay as they are.
LEMMA CommandMovesJobs ==
  ASSUME NEW c \in Commands, NEW k \in Commands, NEW t \in Stages, TypeOK, CommandStep(c)
  PROVE  \/ job'[<<k, t>>] = job[<<k, t>>]
         \/ job[<<k, t>>] = "queued" /\ job'[<<k, t>>] = "failed"
         \/ k = c /\ Queues(c, t) /\ t \in OnPbs \cap pending[c] /\ job'[<<k, t>>] = "queued"
  <1> USE DEF TypeOK, CommandTypes, JobTypes, poolVars, jobVars
  <1>0. <<k, t>> \in Jobs
    BY DEF Jobs
  <1>1. CASE \E s \in Stages : Queues(c, s)
    <2>1. PICK s \in Stages : Queues(c, s)
      BY <1>1
    <2> QED
      BY <1>0, <2>1 DEF Queues, Ready
  <1>3. CASE CancelRunning(c)
    BY <1>0, <1>3 DEF CancelRunning
  <1>4. CASE ~CancelRunning(c) /\ ~\E s \in Stages : Queues(c, s)
    BY <1>4, CommandSteps DEF Launches, Moves
  <1> QED
    BY <1>1, <1>3, <1>4

\* A thread moves itself only, and starts from a label at which it waits or runs.
LEMMA ThreadMoves ==
  ASSUME NEW c \in Commands, NEW s \in Stages, TypeOK, WaitThread(c, s)
  PROVE  /\ \A k \in Commands, t \in Stages : k # c \/ t # s =>
               /\ th'[k][t] = th[k][t] /\ wid'[k][t] = wid[k][t]
               /\ (<<k, t>> \in seen' <=> <<k, t>> \in seen)
         /\ \/ th[c][s] \in Waiting /\ th'[c][s] \in Waiting \cup {"ok", "error"}
            \/ th[c][s] = "local" /\ th'[c][s] \in Finished
         /\ job' = job /\ jobid' = jobid /\ done' = done /\ failed' = failed /\ ghosts' = ghosts /\ struck' = struck
  <1> USE DEF TypeOK, ThreadTypes, ThreadFrame, Goes, Waiting, Finished, jobVars
  <1>1. CASE ReadJobId(c, s)
    BY <1>1 DEF ReadJobId
  <1>2. CASE LookForMarker(c, s)
    BY <1>2 DEF LookForMarker
  <1>3. CASE Probe(c, s)
    BY <1>3 DEF Probe
  <1>4. CASE LocalStage(c, s)
    BY <1>4 DEF LocalStage
  <1> QED
    BY <1>1, <1>2, <1>3, <1>4 DEF WaitThread

LEMMA OtherThreadsKept ==
  ASSUME NEW c \in Commands, NEW s \in Stages, NEW k \in Commands, NEW t \in Stages,
         TypeOK, WaitThread(c, s), k # c \/ t # s
  PROVE  th'[k][t] = th[k][t]
  <1> USE DEF TypeOK, ThreadTypes, Goes
  <1>1. CASE ReadJobId(c, s)
    BY <1>1 DEF ReadJobId
  <1>2. CASE LookForMarker(c, s)
    BY <1>2 DEF LookForMarker
  <1>3. CASE Probe(c, s)
    BY <1>3 DEF Probe
  <1>4. CASE LocalStage(c, s)
    BY <1>4 DEF LocalStage
  <1> QED
    BY <1>1, <1>2, <1>3, <1>4 DEF WaitThread

\* A job that moves is alive, and moves alone.
LEMMA JobMoves ==
  ASSUME NEW c \in Commands, NEW s \in Stages, TypeOK, JobMove(<<c, s>>)
  PROVE  /\ th' = th /\ wid' = wid /\ seen' = seen /\ jobid' = jobid
         /\ mixed' = mixed /\ ghosts' = ghosts /\ late' = late /\ struck' = struck
         /\ \A j \in Jobs \ {<<c, s>>} : job'[j] = job[j]
         /\ job[<<c, s>>] \in Alive
         /\ job'[<<c, s>>] \in {"body", "exit0", "exit1", "succeeded", "failed"}
  <1> USE DEF TypeOK, JobTypes, JobFrame, Becomes, Alive, threadVars
  <1>0. <<c, s>> \in Jobs
    BY DEF Jobs
  <1>1. CASE JobStarts(<<c, s>>)
    BY <1>0, <1>1 DEF JobStarts
  <1>2. CASE JobBody(<<c, s>>)
    BY <1>0, <1>2 DEF JobBody
  <1>3. CASE JobExits(<<c, s>>)
    BY <1>0, <1>3 DEF JobExits
  <1>4. CASE JobTerminated(<<c, s>>)
    BY <1>0, <1>4 DEF JobTerminated
  <1>5. CASE JobKilled(<<c, s>>)
    BY <1>0, <1>5 DEF JobKilled
  <1> QED
    BY <1>1, <1>2, <1>3, <1>4, <1>5 DEF JobMove, JobStep

\* What a step of the main thread does to its threads, and what it never touches.
LEMMA CommandMovesThreads ==
  ASSUME NEW c \in Commands, NEW t \in Stages, TypeOK, CommandStep(c)
  PROVE  /\ UNCHANGED <<wid, seen, done, failed, out, late, stale>> /\ mixed \subseteq mixed'
         /\ \/ th'[c][t] = th[c][t]
            \/ th'[c][t] = "none" /\ pc'[c] \in {"error", "dead"}
            \/ StartThread(c) /\ t \in starting[c] /\ th'[c][t] = "start"
            \/ Launches(c, t) /\ th'[c][t] = "local"
  <1> USE DEF TypeOK, ThreadTypes, CommandTypes
  <1> USE DEF poolVars, threadVars, diskVars, jobVars, histVars
  <1>1. CASE \E s \in Stages : Launches(c, s)
    <2>1. PICK s \in Stages : Launches(c, s)
      BY <1>1
    <2>2. UNCHANGED <<wid, seen, done, failed, out, late, stale>> /\ mixed \subseteq mixed'
      BY <2>1 DEF Launches
    <2>3. th'[c][t] = IF s # t THEN th[c][t] ELSE "local"
      BY <2>1 DEF Launches
    <2> QED
      BY <2>1, <2>2, <2>3
  <1>2. CASE CancelRunning(c) \/ \E s \in Stages : Queues(c, s)
    BY <1>2 DEF CancelRunning, Queues
  <1>3. CASE Moves(c)
    <2>1. UNCHANGED <<wid, seen, done, failed, out, late, stale, mixed>>
      BY <1>3 DEF Moves
    <2>2. CASE Begin(c) \/ Record(c) \/ Enter(c) \/ SubmitFails(c) \/ RecordFails(c) \/ Collect(c) \/ Finish(c) \/ Drain(c)
      BY <2>1, <2>2 DEF Begin, Record, Enter, SubmitFails, RecordFails, Collect, Finish, Drain
    <2>3. CASE StartThread(c)
      BY <2>1, <2>3 DEF StartThread
    <2>4. CASE Interrupt(c)
      BY <2>1, <2>4 DEF Interrupt
    <2>5. CASE CommandDies(c)
      BY <2>1, <2>5 DEF CommandDies
    <2> QED
      BY <1>3, <2>2, <2>3, <2>4, <2>5 DEF Moves
  <1> QED
    BY <1>1, <1>2, <1>3, CommandSteps

LEMMA FreshCommandStep ==
  ASSUME NEW c \in Commands, NEW k \in Commands, NEW t \in Stages,
         TypeOK, PoolInv, FreshAt(k, t), CommandStep(c)
  PROVE  FreshAt(k, t)'
  <1> USE DEF FreshAt, TypeOK, CommandTypes
  <1> USE DEF poolVars, threadVars, diskVars, jobVars, histVars
  <1>1. CASE k # c
    BY <1>1, OthersKept, CommandMovesJobs
  <1>2. CASE k = c
    <2>1. CASE \E s \in Stages : Queues(c, s)
      <3>1. PICK s \in Stages : Queues(c, s)
        BY <2>1
      <3>2. pc'[c] = "qsub" /\ pending'[c] = pending[c] \ {s} /\ seen' = seen /\ th' = th
        BY <3>1 DEF Queues
      <3>3. t # s => job'[<<c, t>>] = job[<<c, t>>]
        BY <3>1 DEF Queues, JobTypes, Jobs
      <3> QED
        BY <1>2, <3>2, <3>3
    <2>2. CASE \E s \in Stages : Launches(c, s)
      <3>1. PICK s \in Stages : Launches(c, s)
        BY <2>2
      <3>2. pc'[c] = "loop" /\ pending'[c] = pending[c] \ {s} /\ seen' = seen /\ job' = job
        BY <3>1 DEF Launches
      <3>3. t # s => th'[c][t] = th[c][t]
        BY <3>1 DEF Launches, ThreadTypes
      <3> QED
        BY <1>2, <3>2, <3>3
    <2>3. CASE CancelRunning(c)
      <3>1. pc'[c] # "idle" /\ pending' = pending /\ th' = th /\ seen' = seen
        BY <2>3 DEF CancelRunning
      <3>2. job'[<<c, t>>] = job[<<c, t>>] \/ job[<<c, t>>] = "queued"
        BY <2>3 DEF CancelRunning, Jobs
      <3> QED
        BY <1>2, <3>1, <3>2
    <2>4. CASE Moves(c)
      <3>1. job' = job /\ seen' = seen
        BY <2>4 DEF Moves
      <3>2. CASE Begin(c)
        <4>1. pc[c] = "idle" /\ th' = th
          BY <3>2 DEF Begin
        <4> QED
          BY <1>2, <3>1, <4>1
      <3>3. CASE Record(c) \/ Enter(c) \/ SubmitFails(c) \/ RecordFails(c) \/ Collect(c) \/ Finish(c) \/ Drain(c)
        <4>1. pc'[c] # "idle" /\ pending'[c] \subseteq pending[c] /\ th' = th
          BY <3>3 DEF Record, Enter, SubmitFails, RecordFails, Collect, Finish, Drain
        <4> QED
          BY <1>2, <3>1, <4>1
      <3>4. CASE StartThread(c)
        <4>1. pc'[c] = "enter" /\ pending' = pending /\ pc[c] = "recorded"
          BY <3>4 DEF StartThread
        <4>2. t \in pending[c] => t \notin starting[c]
          BY DEF PoolInv, PoolOf
        <4>3. t \notin starting[c] => th'[c][t] = th[c][t]
          BY <3>4 DEF StartThread, ThreadTypes
        <4> QED
          BY <1>2, <3>1, <4>1, <4>2, <4>3
      <3>5. CASE Interrupt(c)
        <4>1. pc'[c] # "idle" /\ pending' = pending
          BY <3>5 DEF Interrupt
        <4>2. th'[c][t] = th[c][t] \/ th'[c][t] = "none"
          BY <3>5 DEF Interrupt, ThreadTypes
        <4> QED
          BY <1>2, <3>1, <4>1, <4>2
      <3>6. CASE CommandDies(c)
        BY <1>2, <3>1, <3>6 DEF CommandDies, ThreadTypes
      <3> QED
        BY <2>4, <3>2, <3>3, <3>4, <3>5, <3>6 DEF Moves
    <2> QED
      BY <2>1, <2>2, <2>3, <2>4, CommandSteps
  <1> QED
    BY <1>1, <1>2

LEMMA FreshStep == TypeOK /\ PoolInv /\ FreshInv /\ [Next]_vars => FreshInv'
  <1> SUFFICES ASSUME TypeOK, PoolInv, FreshInv, [Next]_vars, NEW k \in Commands, NEW t \in Stages
               PROVE  FreshAt(k, t)'
    BY DEF FreshInv
  <1>0. FreshAt(k, t) /\ <<k, t>> \in Jobs
    BY DEF FreshInv, Jobs
  <1>1. ASSUME NEW c \in Commands, CommandStep(c) PROVE FreshAt(k, t)'
    BY <1>0, <1>1, FreshCommandStep
  <1>2. ASSUME NEW c \in Commands, NEW s \in Stages, WaitThread(c, s) PROVE FreshAt(k, t)'
    BY <1>0, <1>2, ThreadMoves, PoolFrame DEF FreshAt, Waiting
  <1>3. ASSUME NEW c \in Commands, NEW s \in Stages, JobMove(<<c, s>>) PROVE FreshAt(k, t)'
    BY <1>0, <1>3, JobMoves, PoolFrame DEF FreshAt, Alive, JobMove
  <1>4. CASE UNCHANGED vars
    BY <1>0, <1>4 DEF FreshAt, vars, poolVars, threadVars, jobVars
  <1> QED
    BY <1>1, <1>2, <1>3, <1>4, Steps DEF CommandStep, JobMove

-----------------------------------------------------------------------------
(***************************************************************************)
(* The threads of a command.                                               *)
(***************************************************************************)
LEMMA ThreadCommandStep ==
  ASSUME NEW c \in Commands, NEW t \in Stages,
         TypeOK, PoolInv, FreshInv, ThreadAt(c, t), CommandStep(c)
  PROVE  ThreadAt(c, t)'
  <1> USE DEF ThreadAt, Active, Submitting, Waiting, TypeOK, CommandTypes
  <1> USE DEF poolVars, threadVars, diskVars, jobVars, histVars
  <1>0. FreshAt(c, t) /\ PoolOf(c)
    BY DEF FreshInv, PoolInv
  <1>1. CASE \E s \in Stages : Queues(c, s)
    <2>1. PICK s \in Stages : Queues(c, s)
      BY <1>1
    <2>2. /\ pc'[c] = "qsub" /\ pc[c] = "loop" /\ UNCHANGED <<running, completed, th>>
          /\ starting'[c] = {s} /\ s \in pending[c] /\ s \in OnPbs
          /\ Deps[s] \cap Plan[c] \subseteq completed[c]
      BY <2>1 DEF Queues, Ready
    <2>3. starting[c] = {} /\ (t = s => th[c][t] = "none")
      BY <1>0, <2>2 DEF FreshAt, PoolOf
    <2> QED
      BY <2>2, <2>3
  <1>2. CASE \E s \in Stages : Launches(c, s)
    <2>1. PICK s \in Stages : Launches(c, s)
      BY <1>2
    <2>2. /\ pc'[c] = "loop" /\ pc[c] = "loop" /\ completed' = completed /\ starting' = starting
          /\ running'[c] = running[c] \cup {s} /\ s \in pending[c] /\ s \notin OnPbs
          /\ Deps[s] \cap Plan[c] \subseteq completed[c]
      BY <2>1 DEF Launches, Ready
    <2>3. CASE t # s
      <3>1. th'[c][t] = th[c][t]
        BY <2>1, <2>3 DEF Launches, ThreadTypes
      <3> QED
        BY <2>2, <2>3, <3>1
    <2>4. CASE t = s
      <3>1. th'[c][t] = "local"
        BY <2>1, <2>4 DEF Launches, ThreadTypes
      <3>2. t \notin completed[c] /\ t \in Plan[c]
        BY <1>0, <2>2, <2>4 DEF FreshAt, PoolOf
      <3> QED
        BY <2>2, <2>4, <3>1, <3>2
    <2> QED
      BY <2>3, <2>4
  <1>3. CASE Begin(c)
    <2>1. th' = th /\ UNCHANGED <<running, completed, starting>> /\ pc[c] = "idle"
      BY <1>3 DEF Begin
    <2>2. starting[c] = {}
      BY <1>0, <2>1 DEF PoolOf
    <2> QED
      BY <1>0, <2>1, <2>2 DEF PoolOf
  <1>4. CASE SubmitFails(c)
    BY <1>4 DEF SubmitFails
  <1>5. CASE CancelRunning(c)
    BY <1>5 DEF CancelRunning
  <1>6. CASE Collect(c)
    <2>1. PICK s \in running[c] : Collect(c)!2!(s)
      BY <1>6 DEF Collect
    <2>2. /\ th' = th /\ pc[c] = "loop" /\ pc'[c] \in {"loop", "cancel", "raise"}
          /\ running'[c] = running[c] \ {s} /\ th[c][s] \in Finished /\ starting' = starting
      BY <1>6, <2>1 DEF Collect
    <2>3. completed'[c] = completed[c] \/ (completed'[c] = completed[c] \cup {s} /\ th[c][s] = "ok")
      BY <2>1
    <2> QED
      BY <2>2, <2>3 DEF Finished
  <1>7. CASE Finish(c)
    <2>1. th' = th /\ UNCHANGED <<running, completed, starting>> /\ running[c] = {} /\ pc[c] = "loop"
      BY <1>7 DEF Finish
    <2>2. pc'[c] \in {"stuck", "error", "ok"}
      BY <1>7 DEF Finish
    <2>3. starting[c] = {}
      BY <1>0, <2>1 DEF PoolOf
    <2> QED
      BY <2>1, <2>2, <2>3
  <1>8. CASE Drain(c)
    <2>1. th' = th /\ UNCHANGED <<running, completed, starting>> /\ th[c][t] \in Finished \cup {"none"}
      BY <1>8 DEF Drain
    <2>2. pc'[c] = "error"
      BY <1>8 DEF Drain
    <2> QED
      BY <2>1, <2>2 DEF Finished
  <1>9. CASE Interrupt(c)
    <2>1. UNCHANGED <<running, completed, starting>> /\ Active(c)
      BY <1>9 DEF Interrupt
    <2>2. \/ pc'[c] \in {"raise", "drain"} /\ th' = th
          \/ pc'[c] = "error" /\ th'[c][t] = "none"
      BY <1>9 DEF Interrupt, ThreadTypes
    <2> QED
      BY <2>1, <2>2
  <1>10. CASE CommandDies(c)
    <2>1. UNCHANGED <<running, completed, starting>> /\ pc'[c] = "dead" /\ th'[c][t] = "none"
      BY <1>10 DEF CommandDies, ThreadTypes
    <2> QED
      BY <2>1
  <1>11. CASE Record(c)
    <2>1. pc[c] = "qsub" /\ pc'[c] = "recorded" /\ UNCHANGED <<th, running, completed, starting>>
      BY <1>11 DEF Record
    <2> QED
      BY <2>1
  <1>12. CASE StartThread(c)
    <2>1. pc[c] = "recorded" /\ pc'[c] = "enter" /\ UNCHANGED <<running, completed, starting>>
      BY <1>12 DEF StartThread
    <2>2. th'[c][t] = IF t \in starting[c] THEN "start" ELSE th[c][t]
      BY <1>12 DEF StartThread, ThreadTypes
    <2>3. t \in starting[c] => t \in Plan[c] \cap OnPbs /\ th[c][t] = "none"
      BY <1>0, <2>1 DEF PoolOf
    <2> QED
      BY <2>1, <2>2, <2>3
  <1>13. CASE Enter(c)
    <2>1. /\ pc[c] = "enter" /\ pc'[c] = "loop" /\ UNCHANGED <<th, completed>>
          /\ starting'[c] = {} /\ running'[c] = running[c] \cup starting[c]
      BY <1>13 DEF Enter
    <2> QED
      BY <2>1
  <1>14. CASE RecordFails(c)
    <2>1. /\ pc[c] = "qsub" /\ pc'[c] = "cancel" /\ UNCHANGED <<th, completed, running>>
          /\ starting'[c] = {}
      BY <1>14 DEF RecordFails
    <2> QED
      BY <2>1
  <1> QED
    BY <1>1, <1>2, <1>3, <1>4, <1>5, <1>6, <1>7, <1>8, <1>9, <1>10, <1>11, <1>12, <1>13, <1>14, CommandSteps
       DEF Moves

LEMMA ThreadStep == TypeOK /\ PoolInv /\ FreshInv /\ ThreadInv /\ [Next]_vars => ThreadInv'
  <1> SUFFICES ASSUME TypeOK, PoolInv, FreshInv, ThreadInv, [Next]_vars, NEW k \in Commands, NEW t \in Stages
               PROVE  ThreadAt(k, t)'
    BY DEF ThreadInv
  <1>0. ThreadAt(k, t)
    BY DEF ThreadInv
  <1>1. ASSUME NEW c \in Commands, CommandStep(c) PROVE ThreadAt(k, t)'
    <2>1. CASE k = c
      BY <1>0, <1>1, <2>1, ThreadCommandStep
    <2>2. CASE k # c
      BY <1>0, <1>1, <2>2, OthersKept DEF ThreadAt, Active
    <2> QED
      BY <2>1, <2>2
  <1>2. ASSUME NEW c \in Commands, NEW s \in Stages, WaitThread(c, s) PROVE ThreadAt(k, t)'
    <2>1. pc' = pc /\ UNCHANGED <<running, completed, starting>>
      BY <1>2, PoolFrame
    <2>2. CASE k # c \/ t # s
      <3>1. th'[k][t] = th[k][t]
        BY <1>2, <2>2, OtherThreadsKept
      <3> QED
        BY <1>0, <2>1, <3>1 DEF ThreadAt, Active
    <2>3. CASE k = c /\ t = s
      <3>1. \/ th[c][s] \in Waiting /\ th'[c][s] \in Waiting \cup {"ok", "error"}
            \/ th[c][s] = "local" /\ th'[c][s] \in Finished
        BY <1>2, ThreadMoves
      <3> QED
        BY <1>0, <2>1, <2>3, <3>1 DEF ThreadAt, Active, Submitting, Waiting, Finished
    <2> QED
      BY <2>2, <2>3
  <1>3. ASSUME NEW c \in Commands, NEW s \in Stages, JobMove(<<c, s>>) PROVE ThreadAt(k, t)'
    BY <1>0, <1>3, JobMoves, PoolFrame DEF ThreadAt, Active, JobMove
  <1>4. CASE UNCHANGED vars
    BY <1>0, <1>4 DEF ThreadAt, Active, vars, poolVars, threadVars
  <1> QED
    BY <1>1, <1>2, <1>3, <1>4, Steps DEF CommandStep, JobMove

\* Only stages of its plan that run on PBS have jobs.
LEMMA JobInvStep == TypeOK /\ PoolInv /\ JobInv /\ [Next]_vars => JobInv'
  <1> SUFFICES ASSUME TypeOK, PoolInv, JobInv, [Next]_vars, NEW k \in Commands, NEW t \in Stages,
                      job'[<<k, t>>] # "none"
               PROVE  t \in OnPbs /\ t \in Plan[k]
    BY DEF JobInv
  <1>0. job[<<k, t>>] # "none" => t \in OnPbs /\ t \in Plan[k]
    BY DEF JobInv
  <1>1. ASSUME NEW c \in Commands, CommandStep(c) PROVE t \in OnPbs /\ t \in Plan[k]
    BY <1>0, <1>1, CommandMovesJobs DEF PoolInv, PoolOf
  <1>2. ASSUME NEW c \in Commands, NEW s \in Stages, WaitThread(c, s) PROVE t \in OnPbs /\ t \in Plan[k]
    BY <1>0, <1>2, ThreadMoves
  <1>3. ASSUME NEW c \in Commands, NEW s \in Stages, JobMove(<<c, s>>) PROVE t \in OnPbs /\ t \in Plan[k]
    <2>1. <<k, t>> \in Jobs
      BY DEF Jobs
    <2>2. job[<<c, s>>] # "none"
      BY <1>3, JobMoves DEF Alive
    <2> QED
      BY <1>0, <1>3, <2>1, <2>2, JobMoves
  <1>4. CASE UNCHANGED vars
    BY <1>0, <1>4 DEF vars, jobVars
  <1> QED
    BY <1>1, <1>2, <1>3, <1>4, Steps DEF CommandStep, JobMove

-----------------------------------------------------------------------------
(***************************************************************************)
(* Markers, and what each attempt has to itself.                           *)
(***************************************************************************)
\* A job that a step changes was alive, or is a stage submitted for the first time.
LEMMA EndedJobsStay ==
  ASSUME NEW k \in Commands, NEW t \in Stages, TypeOK, FreshInv, Next,
         job[<<k, t>>] \in {"succeeded", "failed"}
  PROVE  job'[<<k, t>>] = job[<<k, t>>]
  <1>0. <<k, t>> \in Jobs /\ FreshAt(k, t)
    BY DEF Jobs, FreshInv
  <1>1. ASSUME NEW c \in Commands, CommandStep(c) PROVE job'[<<k, t>>] = job[<<k, t>>]
    BY <1>0, <1>1, CommandMovesJobs DEF FreshAt
  <1>2. ASSUME NEW c \in Commands, NEW s \in Stages, WaitThread(c, s) PROVE job'[<<k, t>>] = job[<<k, t>>]
    BY <1>2, ThreadMoves
  <1>3. ASSUME NEW c \in Commands, NEW s \in Stages, JobMove(<<c, s>>) PROVE job'[<<k, t>>] = job[<<k, t>>]
    BY <1>0, <1>3, JobMoves DEF Alive
  <1> QED
    BY <1>1, <1>2, <1>3, Steps DEF CommandStep, JobMove

\* Only the exit of a job writes a marker.
LEMMA MarkersMove ==
  ASSUME NEW t \in Stages, TypeOK, Next
  PROVE  /\ \/ done'[t] \in {NoCommand, done[t]}
            \/ done'[t] \in Commands /\ job'[<<done'[t], t>>] = "succeeded" /\ job[<<done'[t], t>>] \in Alive
         /\ \/ failed'[t] \in {NoCommand, failed[t]}
            \/ failed'[t] \in Commands /\ job'[<<failed'[t], t>>] = "failed" /\ job[<<failed'[t], t>>] \in Alive
  <1>1. ASSUME NEW c \in Commands, CommandStep(c) PROVE done' = done /\ failed' = failed
    BY <1>1, CommandMovesThreads
  <1>2. ASSUME NEW c \in Commands, NEW s \in Stages, WaitThread(c, s) PROVE done' = done /\ failed' = failed
    BY <1>2, ThreadMoves
  <1>3. ASSUME NEW c \in Commands, NEW s \in Stages, JobMove(<<c, s>>)
        PROVE  /\ \/ done'[t] \in {NoCommand, done[t]}
                  \/ done'[t] = c /\ s = t /\ job'[<<c, s>>] = "succeeded"
               /\ \/ failed'[t] \in {NoCommand, failed[t]}
                  \/ failed'[t] = c /\ s = t /\ job'[<<c, s>>] = "failed"
    <2> USE DEF TypeOK, DiskTypes, JobTypes, Becomes
    <2>0. <<c, s>> \in Jobs
      BY DEF Jobs
    <2>1. CASE JobStarts(<<c, s>>)
      BY <2>1 DEF JobStarts
    <2>2. CASE JobExits(<<c, s>>)
      BY <2>0, <2>2 DEF JobExits
    <2>3. CASE JobBody(<<c, s>>) \/ JobTerminated(<<c, s>>) \/ JobKilled(<<c, s>>)
      BY <2>3 DEF JobBody, JobTerminated, JobKilled
    <2> QED
      BY <1>3, <2>1, <2>2, <2>3 DEF JobMove, JobStep
  <1>4. ASSUME NEW c \in Commands, NEW s \in Stages, JobMove(<<c, s>>) PROVE job[<<c, s>>] \in Alive
    BY <1>4, JobMoves
  <1> QED
    BY <1>1, <1>2, <1>3, <1>4, Steps DEF CommandStep, JobMove

LEMMA MarkStep == TypeOK /\ FreshInv /\ MarkInv /\ [Next]_vars => MarkInv'
  <1> SUFFICES ASSUME TypeOK, FreshInv, MarkInv, [Next]_vars PROVE MarkInv'
    OBVIOUS
  <1>1. CASE Next
    <2>1. ASSUME NEW t \in Stages, done'[t] # NoCommand PROVE job'[<<done'[t], t>>] = "succeeded"
      <3>1. CASE done'[t] = done[t]
        <4>1. done[t] \in Commands /\ job[<<done[t], t>>] = "succeeded"
          BY <2>1, <3>1 DEF MarkInv, TypeOK, DiskTypes, MaybeCommand
        <4> QED
          BY <1>1, <3>1, <4>1, EndedJobsStay
      <3> QED
        BY <1>1, <2>1, <3>1, MarkersMove
    <2>2. ASSUME NEW t \in Stages, failed'[t] # NoCommand PROVE job'[<<failed'[t], t>>] = "failed"
      <3>1. CASE failed'[t] = failed[t]
        <4>1. failed[t] \in Commands /\ job[<<failed[t], t>>] = "failed"
          BY <2>2, <3>1 DEF MarkInv, TypeOK, DiskTypes, MaybeCommand
        <4> QED
          BY <1>1, <3>1, <4>1, EndedJobsStay
      <3> QED
        BY <1>1, <2>2, <3>1, MarkersMove
    <2> QED
      BY <2>1, <2>2 DEF MarkInv
  <1>2. CASE UNCHANGED vars
    BY <1>2 DEF MarkInv, vars, diskVars, jobVars
  <1> QED
    BY <1>1, <1>2

\* A command that submits a stage another command is working on marks both.
LEMMA Meets ==
  ASSUME NEW c \in Commands, NEW k \in Commands \ {c}, NEW s \in Stages, TypeOK, Active(c), s \in Plan[c]
  PROVE  <<c, s>> \in Mixes(k, s)
  BY DEF Mixes, Foreign, Active, Submitting, EndedAt

LEMMA SeenStep == TypeOK /\ FreshInv /\ ThreadInv /\ OwnInv /\ SeenInv /\ [Next]_vars => SeenInv'
  <1> SUFFICES ASSUME TypeOK, FreshInv, ThreadInv, OwnInv, SeenInv, [Next]_vars, NEW j \in seen' \ mixed'
               PROVE  job'[j] \notin Alive
    BY DEF SeenInv
  <1>5. PICK k \in Commands, t \in Stages : j = <<k, t>>
    <2>1. TypeOK'
      BY NextTypes
    <2> QED
      BY <2>1 DEF TypeOK, ThreadTypes, Jobs
  <1> SUFFICES job'[<<k, t>>] \notin Alive
    BY <1>5
  <1>6. <<k, t>> \in seen' \ mixed'
    BY <1>5
  <1>0. <<k, t>> \in Jobs /\ FreshAt(k, t) /\ (<<k, t>> \in seen \ mixed => job[<<k, t>>] \notin Alive)
    BY DEF Jobs, FreshInv, SeenInv
  <1>1. ASSUME NEW c \in Commands, CommandStep(c) PROVE job'[<<k, t>>] \notin Alive
    <2>1. <<k, t>> \in seen \ mixed
      BY <1>1, <1>6, CommandMovesThreads
    <2> QED
      BY <1>0, <1>1, <2>1, CommandMovesJobs DEF FreshAt, Alive
  <1>2. ASSUME NEW c \in Commands, NEW s \in Stages, WaitThread(c, s) PROVE job'[<<k, t>>] \notin Alive
    <2>0. job' = job /\ mixed' = mixed
      BY <1>2, ThreadMoves, PoolFrame
    <2>1. CASE <<k, t>> \in seen
      BY <1>0, <1>6, <2>0, <2>1
    <2>2. CASE <<k, t>> \notin seen
      <3>1. k = c /\ t = s
        BY <1>2, <1>6, <2>2, ThreadMoves
      <3>2. Probe(c, s) /\ th[c][s] = "probe" /\ job[<<wid[c][s], s>>] \notin Alive
        BY <1>2, <1>6, <2>2, <3>1 DEF WaitThread, ReadJobId, LookForMarker, LocalStage, Probe
      <3>3. wid[c][s] = c
        BY <1>6, <2>0, <3>1, <3>2 DEF ThreadInv, ThreadAt, Waiting, OwnInv, OwnAt, Submitted
      <3> QED
        BY <2>0, <3>1, <3>2, <3>3
    <2> QED
      BY <2>1, <2>2
  <1>3. ASSUME NEW c \in Commands, NEW s \in Stages, JobMove(<<c, s>>) PROVE job'[<<k, t>>] \notin Alive
    BY <1>0, <1>3, <1>6, JobMoves, PoolFrame DEF JobMove
  <1>4. CASE UNCHANGED vars
    BY <1>0, <1>4, <1>6 DEF vars, threadVars, jobVars, histVars
  <1> QED
    BY <1>1, <1>2, <1>3, <1>4, Steps DEF CommandStep, JobMove

\* Only the recording of a job's ID changes the stage's .jobid file.
LEMMA JobIdMoves ==
  ASSUME NEW k \in Commands, NEW t \in Stages, TypeOK, CommandStep(k)
  PROVE  jobid'[t] = jobid[t] \/ (Record(k) /\ AboutToRecord(k, t) /\ jobid'[t] = k)
  <1> USE DEF diskVars
  <1>1. CASE Record(k)
    BY <1>1 DEF Record, AboutToRecord, TypeOK, DiskTypes
  <1>2. CASE ~Record(k)
    BY <1>2, CommandSteps DEF Queues, Launches, Moves, CancelRunning, Begin, StartThread, Enter, SubmitFails,
       RecordFails, Collect, Finish, Drain, Interrupt, CommandDies
  <1> QED
    BY <1>1, <1>2

\* A stage becomes submitted when its job is queued or its container call is handed to a thread.
LEMMA SubmissionMoves ==
  ASSUME NEW c \in Commands, NEW s \in Stages, NEW k \in Commands, TypeOK, PoolInv, FreshInv,
         CommandStep(k), Active(c)', Submitted(c, s)'
  PROVE  \/ k = c /\ (Queues(c, s) \/ Launches(c, s))
         \/ Active(c) /\ Submitted(c, s)
  <1> USE DEF Submitted, TypeOK, CommandTypes, ThreadTypes
  <1>1. CASE k # c
    BY <1>1, OthersKept DEF Active
  <1>2. CASE k = c /\ ~Queues(c, s) /\ ~Launches(c, s)
    <2>1. th'[c][s] # "none" => Submitted(c, s)
      BY <1>2, CommandMovesThreads DEF Active, Submitting
    <2>2. s \in starting'[c] => s \in starting[c]
      <3>1. CASE \E t \in Stages : Queues(c, t)
        <4>1. PICK t \in Stages : Queues(c, t)
          BY <3>1
        <4> QED
          BY <1>2, <4>1 DEF Queues
      <3>2. CASE ~\E t \in Stages : Queues(c, t)
        BY <1>2, <3>2, CommandSteps DEF Launches, Moves, CancelRunning, Begin, Record, StartThread, Enter, SubmitFails,
           RecordFails, Collect, Finish, Drain, Interrupt, CommandDies, poolVars
      <3> QED
        BY <3>1, <3>2
    <2>3. Submitted(c, s)
      BY <2>1, <2>2
    <2>4. pc[c] # "idle"
      BY <2>3 DEF FreshInv, FreshAt, PoolInv, PoolOf, Submitting
    <2>5. pc[c] \notin EndedAt
      BY <1>2, <2>4, CommandSteps DEF Queues, Launches, Moves, CancelRunning, Begin, Record, StartThread, Enter,
         SubmitFails, RecordFails, Collect, Finish, Drain, Interrupt, CommandDies, EndedAt, Submitting
    <2> QED
      BY <2>3, <2>4, <2>5 DEF CommandLabels, Active
  <1> QED
    BY <1>1, <1>2

\* The same, for the life of its job.
LEMMA LivelyMoves ==
  ASSUME NEW c \in Commands, NEW s \in Stages, NEW k \in Commands, TypeOK, CommandStep(k), job'[<<c, s>>] \in Alive
  PROVE  job[<<c, s>>] \in Alive \/ (k = c /\ Queues(c, s))
  BY CommandMovesJobs DEF Alive

\* A command at work on a stage is met by whoever queues a job of it, and the other way round.
LEMMA MeetCommandStep ==
  ASSUME NEW c \in Commands, NEW s \in Stages, NEW k \in Commands \ {c}, NEW i \in Commands,
         TypeOK, PoolInv, FreshInv, ThreadInv, MeetAt(k, c, s), CommandStep(i)
  PROVE  MeetAt(k, c, s)'
  <1> SUFFICES ASSUME AboutToRecord(k, s)', job'[<<c, s>>] \in Alive \/ (Active(c)' /\ Submitted(c, s)')
               PROVE  <<c, s>> \in mixed'
    BY DEF MeetAt
  <1>0. mixed \subseteq mixed'
    BY CommandMovesThreads
  <1>1. CASE Queues(k, s)
    <2>1. mixed' = mixed \cup Mixes(k, s)
      BY <1>1 DEF Queues
    <2>2. job[<<c, s>>] \in Alive \/ (Active(c) /\ Submitted(c, s))
      <3>1. job'[<<c, s>>] = job[<<c, s>>] /\ UNCHANGED th /\ pc'[c] = pc[c] /\ starting'[c] = starting[c]
        BY <1>1 DEF Queues, TypeOK, CommandTypes, JobTypes, Jobs
      <3> QED
        BY <3>1 DEF Active, Submitted
    <2>3. Active(c) /\ Submitted(c, s) => s \in Plan[c]
      BY DEF Submitted, PoolInv, PoolOf, ThreadInv, ThreadAt
    <2>4. <<c, s>> \in Mixes(k, s)
      BY <2>2, <2>3, Meets DEF Mixes, Foreign
    <2> QED
      BY <2>1, <2>4
  <1>2. CASE ~Queues(k, s)
    <2>1. AboutToRecord(k, s)
      <3>1. CASE i # k
        BY <3>1, OthersKept DEF AboutToRecord
      <3>2. CASE i = k
        <4>1. PICK t \in Stages : Queues(k, t)
          <5> USE DEF AboutToRecord, TypeOK, CommandTypes
          <5>1. ~Launches(k, s) /\ \A t \in Stages : ~Launches(k, t)
            BY DEF Launches
          <5>2. ~CancelRunning(k) /\ ~Moves(k)
            BY DEF CancelRunning, Moves, Begin, Record, StartThread, Enter, SubmitFails, RecordFails, Collect, Finish,
               Drain, Interrupt, CommandDies
          <5> QED
            BY <3>2, <5>1, <5>2, CommandSteps
        <4>2. starting'[k] = {t}
          BY <4>1 DEF Queues, TypeOK, CommandTypes
        <4> QED
          BY <1>2, <4>1, <4>2 DEF AboutToRecord
      <3> QED
        BY <3>1, <3>2
    <2>2. CASE job[<<c, s>>] \in Alive \/ (Active(c) /\ Submitted(c, s))
      BY <1>0, <2>1, <2>2 DEF MeetAt
    <2>3. CASE Queues(c, s)
      <3>1. s \in Plan[k] /\ Active(k) /\ s \in OnPbs
        BY <2>1 DEF AboutToRecord, PoolInv, PoolOf, Active, Submitting
      <3>2. k \in Foreign(c, s)
        BY <3>1 DEF Foreign, Active, Submitting, EndedAt
      <3>3. <<c, s>> \in Mixes(c, s)
        BY <3>2 DEF Mixes
      <3> QED
        BY <2>3, <3>3 DEF Queues
    <2>4. ~Launches(c, s)
      BY <2>1 DEF AboutToRecord, PoolInv, PoolOf, Launches
    <2> QED
      BY <2>2, <2>3, <2>4, SubmissionMoves, LivelyMoves
  <1> QED
    BY <1>1, <1>2

LEMMA MeetStep ==
  TypeOK /\ PoolInv /\ FreshInv /\ ThreadInv /\ MeetInv /\ [Next]_vars => MeetInv'
  <1> SUFFICES ASSUME TypeOK, PoolInv, FreshInv, ThreadInv, MeetInv, [Next]_vars,
                      NEW c \in Commands, NEW s \in Stages, NEW k \in Commands \ {c}
               PROVE  MeetAt(k, c, s)'
    BY DEF MeetInv
  <1>0. MeetAt(k, c, s) /\ <<c, s>> \in Jobs
    BY DEF MeetInv, Jobs
  <1> USE DEF MeetAt, AboutToRecord, Active, Submitted
  <1>1. ASSUME NEW i \in Commands, CommandStep(i) PROVE MeetAt(k, c, s)'
    BY <1>0, <1>1, MeetCommandStep
  <1>2. ASSUME NEW i \in Commands, NEW t \in Stages, WaitThread(i, t) PROVE MeetAt(k, c, s)'
    <2>1. UNCHANGED <<pc, starting, mixed, job>>
      BY <1>2, PoolFrame, ThreadMoves
    <2>2. th'[c][s] # "none" => th[c][s] # "none"
      BY <1>2, ThreadMoves, OtherThreadsKept DEF Waiting
    <2> QED
      BY <1>0, <2>1, <2>2
  <1>3. ASSUME NEW i \in Commands, NEW t \in Stages, JobMove(<<i, t>>) PROVE MeetAt(k, c, s)'
    <2>1. UNCHANGED <<pc, starting, mixed, th>>
      BY <1>3, PoolFrame, JobMoves DEF JobMove
    <2>2. job'[<<c, s>>] \in Alive => job[<<c, s>>] \in Alive
      BY <1>0, <1>3, JobMoves
    <2> QED
      BY <1>0, <2>1, <2>2
  <1>4. CASE UNCHANGED vars
    BY <1>0, <1>4 DEF vars, poolVars, threadVars, jobVars, histVars
  <1> QED
    BY <1>1, <1>2, <1>3, <1>4, Steps DEF CommandStep, JobMove

LEMMA GhostsGrow ==
  ASSUME NEW c \in Commands, CommandStep(c)
  PROVE  ghosts \subseteq ghosts'
  BY CommandSteps DEF Queues, Launches, Moves, CancelRunning, Begin, Record, StartThread, Enter, SubmitFails, RecordFails,
     Collect, Finish, Drain, Interrupt, CommandDies, histVars

\* The .jobid file is overwritten only by a command that met the one it named.
LEMMA NamedStep == TypeOK /\ MeetInv /\ NamedInv /\ [Next]_vars => NamedInv'
  <1> SUFFICES ASSUME TypeOK, MeetInv, NamedInv, [Next]_vars, NEW c \in Commands, NEW s \in Stages
               PROVE  NamedAt(c, s)'
    BY DEF NamedInv
  <1>0. NamedAt(c, s) /\ <<c, s>> \in Jobs
    BY DEF NamedInv, Jobs
  <1>1. ASSUME NEW k \in Commands, CommandStep(k) PROVE NamedAt(c, s)'
    <2> SUFFICES ASSUME job'[<<c, s>>] \in Alive, <<c, s>> \notin ghosts' \cup mixed', ~AboutToRecord(c, s)'
                 PROVE  jobid'[s] = c
      BY DEF NamedAt
    <2> USE DEF TypeOK, CommandTypes, AboutToRecord
    <2>1. ~Queues(c, s)
      BY DEF Queues
    <2>2. job[<<c, s>>] \in Alive
      BY <1>1, <2>1, LivelyMoves
    <2>3. <<c, s>> \notin mixed
      BY <1>1, CommandMovesThreads
    <2>4. <<c, s>> \notin ghosts
      BY <1>1, GhostsGrow
    <2>5. CASE Record(k) /\ AboutToRecord(k, s) /\ jobid'[s] = k
      BY <2>2, <2>3, <2>5 DEF MeetInv, MeetAt
    <2>6. CASE jobid'[s] = jobid[s]
      <3>1. CASE ~AboutToRecord(c, s)
        BY <1>0, <2>2, <2>3, <2>4, <2>6, <3>1 DEF NamedAt
      <3>2. CASE AboutToRecord(c, s)
        <4>1. k = c
          BY <1>1, <3>2, OthersKept
        <4>2. ~CancelRunning(c) /\ \A t \in Stages : ~Queues(c, t) /\ ~Launches(c, t)
          BY <3>2 DEF CancelRunning, Queues, Launches
        <4>3. Record(c) \/ RecordFails(c) \/ Interrupt(c) \/ CommandDies(c)
          BY <1>1, <3>2, <4>1, <4>2, CommandSteps DEF Moves, Begin, StartThread, Enter, SubmitFails, Collect, Finish, Drain
        <4>4. ~(RecordFails(c) \/ Interrupt(c) \/ CommandDies(c))
          BY <3>2 DEF RecordFails, Interrupt, CommandDies, Unrecorded
        <4>5. Record(c) => jobid'[s] = c
          BY <3>2 DEF Record
        <4> QED
          BY <4>3, <4>4, <4>5
      <3> QED
        BY <3>1, <3>2
    <2> QED
      BY <1>1, <2>5, <2>6, JobIdMoves
  <1>2. ASSUME NEW k \in Commands, NEW t \in Stages, WaitThread(k, t) PROVE NamedAt(c, s)'
    BY <1>0, <1>2, PoolFrame, ThreadMoves DEF NamedAt, AboutToRecord
  <1>3. ASSUME NEW k \in Commands, NEW t \in Stages, JobMove(<<k, t>>) PROVE NamedAt(c, s)'
    <2>1. UNCHANGED <<pc, starting, mixed, ghosts, jobid>>
      BY <1>3, PoolFrame, JobMoves DEF JobMove
    <2>2. job'[<<c, s>>] \in Alive => job[<<c, s>>] \in Alive
      BY <1>0, <1>3, JobMoves
    <2> QED
      BY <1>0, <2>1, <2>2 DEF NamedAt, AboutToRecord
  <1>4. CASE UNCHANGED vars
    BY <1>0, <1>4 DEF NamedAt, AboutToRecord, vars, poolVars, diskVars, jobVars, histVars
  <1> QED
    BY <1>1, <1>2, <1>3, <1>4, Steps DEF CommandStep, JobMove

\* A stage just submitted, that met no other attempt.
LEMMA OwnAfterSubmission ==
  ASSUME NEW c \in Commands, NEW s \in Stages, TypeOK, PoolInv, FreshInv, ThreadInv,
         Queues(c, s) \/ Launches(c, s), <<c, s>> \notin mixed'
  PROVE  OwnAt(c, s)'
  <1> USE DEF TypeOK, CommandTypes, ThreadTypes, DiskTypes, JobTypes
  <1>1. Mixes(c, s) = {}
    BY DEF Queues, Launches, Mixes
  <1>2. Foreign(c, s) = {} /\ done[s] = NoCommand /\ failed[s] = NoCommand
    BY <1>1 DEF Mixes
  <1>3. ASSUME NEW k \in Commands \ {c} PROVE job[<<k, s>>] \notin Alive /\ th[k][s] # "local"
    <2>1. job[<<k, s>>] \notin Alive /\ (s \in Plan[k] => pc[k] \in EndedAt \cup {"idle"})
      BY <1>2 DEF Foreign
    <2>2. ThreadAt(k, s)
      BY DEF ThreadInv
    <2> QED
      BY <2>1, <2>2 DEF ThreadAt, Active, Submitting, EndedAt
  <1>4. \A k \in Commands \ {c} : th'[k][s] = th[k][s]
    BY DEF Queues, Launches
  <1>5. /\ th[c][s] = "none" /\ job[<<c, s>>] = "none"
        /\ \/ s \in OnPbs /\ th'[c][s] = "none" /\ pc'[c] = "qsub"
           \/ s \notin OnPbs /\ th'[c][s] = "local"
    BY DEF Queues, Launches, FreshInv, FreshAt, Ready
  <1>6. <<c, s>> \in Jobs /\ \A k \in Commands \ {c} : <<k, s>> \in Jobs
    BY DEF Jobs
  <1>7. job'[<<c, s>>] \in {"queued", "none"} /\ \A k \in Commands \ {c} : job'[<<k, s>>] = job[<<k, s>>]
    BY <1>5, <1>6 DEF Queues, Launches
  <1>8. done'[s] = NoCommand /\ failed'[s] = NoCommand
    BY <1>2 DEF Queues, Launches
  <1> QED
    BY <1>3, <1>4, <1>5, <1>7, <1>8 DEF OwnAt

LEMMA OwnCommandStep ==
  ASSUME NEW c \in Commands, NEW s \in Stages, NEW k \in Commands,
         TypeOK, PoolInv, FreshInv, ThreadInv, MeetInv, OwnAt(c, s), CommandStep(k)
  PROVE  OwnAt(c, s)'
  <1> SUFFICES ASSUME Active(c)', <<c, s>> \notin mixed', Submitted(c, s)' PROVE OwnAt(c, s)'
    BY DEF OwnAt
  <1>0. FreshAt(c, s) /\ ThreadAt(c, s) /\ PoolOf(c)
    BY DEF FreshInv, ThreadInv, PoolInv
  <1>1. CASE k = c /\ (Queues(c, s) \/ Launches(c, s))
    BY <1>1, OwnAfterSubmission
  <1>2. CASE ~(k = c /\ (Queues(c, s) \/ Launches(c, s)))
    <2>1. Active(c) /\ Submitted(c, s)
      BY <1>2, SubmissionMoves
    <2>2. <<c, s>> \notin mixed
      BY CommandMovesThreads
    <2>3. s \in Plan[c]
      BY <1>0, <2>1 DEF ThreadAt, PoolOf, Submitted
    <2>4. k # c => <<c, s>> \in Mixes(k, s)
      BY <2>1, <2>3, Meets
    <2>5. ~Queues(k, s) /\ ~Launches(k, s)
      BY <1>2, <2>4 DEF Queues, Launches
    <2>6. jobid'[s] = jobid[s] \/ (k = c /\ jobid'[s] = c)
      <3>1. CASE k = c
        BY <3>1, JobIdMoves
      <3>2. CASE k # c
        <4>1. ~AboutToRecord(k, s)
          BY <2>1, <2>2, <3>2 DEF MeetInv, MeetAt
        <4> QED
          BY <4>1, JobIdMoves
      <3> QED
        BY <3>1, <3>2
    <2>7. UNCHANGED <<wid, seen, done, failed, out>>
      BY CommandMovesThreads
    <2>8. ASSUME NEW i \in Commands
          PROVE  job'[<<i, s>>] = job[<<i, s>>] \/ (job[<<i, s>>] = "queued" /\ job'[<<i, s>>] = "failed")
      BY <2>5, CommandMovesJobs
    <2>9. ASSUME NEW i \in Commands \ {c} PROVE th'[i][s] = th[i][s] \/ th'[i][s] # "local"
      <3>1. CASE i = k
        BY <2>5, <3>1, CommandMovesThreads
      <3>2. CASE i # k
        BY <3>2, OthersKept
      <3> QED
        BY <3>1, <3>2
    <2>10. job'[<<c, s>>] = job[<<c, s>>] \/ (job[<<c, s>>] = "queued" /\ job'[<<c, s>>] = "failed")
      BY <2>8
    <2>11. \A i \in Commands \ {c} : job'[<<i, s>>] \notin Alive /\ th'[i][s] # "local"
      BY <2>1, <2>2, <2>8, <2>9 DEF OwnAt, Alive
    <2>12. th'[c][s] = th[c][s] \/ (th[c][s] = "none" /\ th'[c][s] = "start")
      <3>1. CASE k # c
        BY <3>1, OthersKept
      <3>2. CASE k = c
        <4>1. StartThread(c) /\ s \in starting[c] => th[c][s] = "none"
          BY <1>0 DEF StartThread, ThreadAt
        <4> QED
          BY <2>5, <3>2, <4>1, CommandMovesThreads DEF Active, Submitting
      <3> QED
        BY <3>1, <3>2
    <2>13. ASSUME s \in OnPbs, th'[c][s] # "none" \/ pc'[c] \in {"recorded", "enter"}
           PROVE  jobid'[s] = c
      <3>1. CASE k # c
        <4>1. th'[c] = th[c] /\ pc'[c] = pc[c]
          BY <3>1, OthersKept
        <4> QED
          BY <2>1, <2>2, <2>6, <2>13, <3>1, <4>1 DEF OwnAt
      <3>2. CASE k = c /\ Record(c) /\ s \in starting[c]
        BY <3>2 DEF Record
      <3>3. CASE k = c /\ ~(Record(c) /\ s \in starting[c])
        <4>1. th[c][s] # "none" \/ pc[c] \in {"recorded", "enter"}
          <5>1. CASE th[c][s] = "none" /\ th'[c][s] # "none"
            BY <2>5, <3>3, <5>1, CommandMovesThreads DEF StartThread
          <5>2. CASE th[c][s] = "none" /\ th'[c][s] = "none"
            <6>1. s \in starting[c] /\ ~Record(c)
              BY <2>1, <3>3, <5>2 DEF Submitted
            <6>2. StartThread(c) => pc[c] = "recorded"
              BY DEF StartThread
            <6>3. ~StartThread(c) => FALSE
              <7> USE DEF TypeOK, CommandTypes
              <7>1. pc'[c] \in {"recorded", "enter"}
                BY <2>13, <5>2
              <7> QED
                BY <3>3, <6>1, <7>1, CommandSteps DEF Queues, Launches, Moves, CancelRunning, Begin, Enter, SubmitFails,
                   RecordFails, Collect, Finish, Drain, Interrupt, CommandDies
            <6> QED
              BY <6>2, <6>3
          <5> QED
            BY <5>1, <5>2
        <4> QED
          BY <2>1, <2>2, <2>6, <2>13, <4>1 DEF OwnAt
      <3> QED
        BY <3>1, <3>2, <3>3
    <2> QED
      BY <2>1, <2>2, <2>7, <2>10, <2>11, <2>12, <2>13 DEF OwnAt
  <1> QED
    BY <1>1, <1>2

LEMMA OwnThreadStep ==
  ASSUME NEW c \in Commands, NEW s \in Stages, NEW k \in Commands, NEW t \in Stages,
         TypeOK, ThreadInv, JobInv, OwnAt(c, s), WaitThread(k, t)
  PROVE  OwnAt(c, s)'
  <1> SUFFICES ASSUME Active(c)', <<c, s>> \notin mixed', Submitted(c, s)' PROVE OwnAt(c, s)'
    BY DEF OwnAt
  <1>1. Active(c) /\ <<c, s>> \notin mixed /\ Submitted(c, s) /\ pc' = pc
    <2>1. th'[c][s] # "none" => th[c][s] # "none"
      BY ThreadMoves, OtherThreadsKept DEF Waiting
    <2> QED
      BY <2>1, PoolFrame DEF Active, Submitted
  <1>2. ThreadAt(c, s) /\ (job[<<c, s>>] # "none" => s \in OnPbs)
    BY DEF ThreadInv, JobInv
  <1>3. UNCHANGED <<job, jobid, done, failed>>
    BY ThreadMoves
  <1>4. CASE k = c /\ t = s
    <2>0. \A i \in Commands \ {c} : th'[i][s] = th[i][s]
      BY <1>4, OtherThreadsKept
    <2>1. th[c][s] # "none"
      BY <1>4, ThreadMoves DEF Waiting
    <2> USE DEF Goes, TypeOK, ThreadTypes, DiskTypes, ThreadFrame
    <2>2. CASE ReadJobId(c, s)
      <3>1. th'[c][s] = "look" /\ wid'[c][s] = jobid[s] /\ out' = out /\ th[c][s] = "start"
        BY <2>2 DEF ReadJobId
      <3> QED
        BY <1>1, <1>2, <1>3, <2>0, <2>1, <3>1 DEF OwnAt, ThreadAt, Waiting
    <2>3. CASE LookForMarker(c, s)
      <3>1. /\ th[c][s] = "look" /\ th'[c][s] \in {"error", "ok", "probe"} /\ wid' = wid /\ out' = out
            /\ th'[c][s] = "probe" => done[s] = NoCommand
        BY <2>3 DEF LookForMarker
      <3>2. c # NoCommand
        BY ExecutorAssumption
      <3> QED
        BY <1>1, <1>2, <1>3, <2>0, <2>1, <3>1, <3>2 DEF OwnAt, ThreadAt, Waiting
    <2>4. CASE Probe(c, s)
      <3>1. th[c][s] = "probe" /\ th'[c][s] \in {"look", "error"} /\ wid' = wid /\ out' = out
        BY <2>4 DEF Probe
      <3> QED
        BY <1>1, <1>3, <2>0, <2>1, <3>1 DEF OwnAt
    <2>5. CASE LocalStage(c, s)
      <3>1. /\ th[c][s] = "local" /\ th'[c][s] \in {"ok", "error", "exit"} /\ wid' = wid
            /\ out'[s] = c \/ (out' = out /\ th'[c][s] # "ok")
        BY <2>5 DEF LocalStage
      <3> QED
        BY <1>1, <1>2, <1>3, <2>0, <2>1, <3>1 DEF OwnAt, ThreadAt
    <2> QED
      BY <1>4, <2>2, <2>3, <2>4, <2>5 DEF WaitThread
  <1>5. CASE k # c \/ t # s
    <2>1. th'[c][s] = th[c][s] /\ wid'[c][s] = wid[c][s] /\ (<<c, s>> \in seen' <=> <<c, s>> \in seen)
      BY <1>5, ThreadMoves
    <2>2. \A i \in Commands \ {c} : th'[i][s] # "local"
      <3>1. \A i \in Commands \ {c} : th[i][s] # "local"
        BY <1>1, <2>1 DEF OwnAt
      <3>2. ASSUME NEW i \in Commands \ {c} PROVE th'[i][s] # "local"
        <4>1. CASE i = k /\ t = s
          <5>1. th'[k][t] \in Waiting \cup Finished
            BY ThreadMoves DEF Finished
          <5>2. th'[k][t] # "local"
            BY <5>1 DEF Waiting, Finished
          <5> QED
            BY <4>1, <5>2
        <4>2. CASE i # k \/ t # s
          <5>1. th'[i][s] = th[i][s]
            BY <4>2, OtherThreadsKept
          <5> QED
            BY <3>1, <5>1
        <4> QED
          BY <4>1, <4>2
      <3> QED
        BY <3>2
    <2>3. out'[s] = out[s]
      <3>1. CASE LocalStage(k, t)
        <4>1. th[k][t] = "local"
          BY <3>1 DEF LocalStage
        <4>2. t # s
          BY <1>1, <1>5, <2>1, <4>1 DEF OwnAt
        <4> QED
          BY <3>1, <4>2 DEF LocalStage, TypeOK, DiskTypes
      <3>2. CASE ReadJobId(k, t) \/ LookForMarker(k, t) \/ Probe(k, t)
        BY <3>2 DEF ReadJobId, LookForMarker, Probe
      <3> QED
        BY <3>1, <3>2 DEF WaitThread
    <2> QED
      BY <1>1, <1>3, <2>1, <2>2, <2>3 DEF OwnAt
  <1> QED
    BY <1>4, <1>5

LEMMA OwnJobStep ==
  ASSUME NEW c \in Commands, NEW s \in Stages, NEW k \in Commands, NEW t \in Stages,
         TypeOK, SeenInv, OwnAt(c, s), JobMove(<<k, t>>)
  PROVE  OwnAt(c, s)'
  <1> SUFFICES ASSUME Active(c)', <<c, s>> \notin mixed', Submitted(c, s)' PROVE OwnAt(c, s)'
    BY DEF OwnAt
  <1>2. UNCHANGED <<th, wid, seen, jobid>>
    BY JobMoves
  <1>1. Active(c) /\ <<c, s>> \notin mixed /\ Submitted(c, s) /\ pc' = pc
    BY <1>2, PoolFrame DEF Active, Submitted, JobMove
  <1>3. \A i \in Commands \ {c} : job[<<i, s>>] \notin Alive /\ <<i, s>> \in Jobs
    BY <1>1, <1>2 DEF OwnAt, Jobs
  <1>4. t = s => k = c
    BY <1>3, JobMoves
  <1>5. \A i \in Commands \ {c} : job'[<<i, s>>] = job[<<i, s>>]
    BY <1>3, <1>4, JobMoves
  <1>6. <<c, s>> \in Jobs
    BY DEF Jobs
  <1> USE DEF TypeOK, DiskTypes, JobTypes, Becomes
  <1>7. CASE t = s
    <2>1. JobMove(<<c, s>>) /\ job[<<c, s>>] \in Alive
      BY <1>4, <1>7, JobMoves
    <2>2. <<c, s>> \notin seen
      BY <1>1, <2>1 DEF SeenInv
    <2>3. CASE JobStarts(<<c, s>>)
      <3>1. job'[<<c, s>>] = "body" /\ done'[s] = NoCommand /\ failed'[s] = NoCommand /\ out' = out
        BY <1>6, <2>3 DEF JobStarts
      <3> QED
        BY <1>1, <1>2, <1>3, <1>5, <2>2, <3>1 DEF OwnAt
    <2>4. CASE JobBody(<<c, s>>)
      <3>1. /\ job'[<<c, s>>] \in {"exit0", "exit1"} /\ done' = done /\ failed' = failed
            /\ out'[s] = c \/ (out' = out /\ job'[<<c, s>>] = "exit1")
        BY <1>6, <2>4 DEF JobBody
      <3> QED
        BY <1>1, <1>2, <1>3, <1>5, <2>2, <3>1 DEF OwnAt
    <2>5. CASE JobExits(<<c, s>>)
      <3>1. /\ out' = out
            /\ \/ job[<<c, s>>] = "exit0" /\ job'[<<c, s>>] = "succeeded" /\ done'[s] = c /\ failed' = failed
               \/ job'[<<c, s>>] = "failed" /\ failed'[s] = c /\ done' = done
        BY <1>6, <2>5 DEF JobExits
      <3> QED
        BY <1>1, <1>2, <1>3, <1>5, <2>2, <3>1 DEF OwnAt
    <2>6. CASE JobTerminated(<<c, s>>) \/ JobKilled(<<c, s>>)
      <3>1. job'[<<c, s>>] \in {"exit1", "failed"} /\ UNCHANGED <<out, done, failed>>
        BY <1>6, <2>6 DEF JobTerminated, JobKilled
      <3> QED
        BY <1>1, <1>2, <1>3, <1>5, <2>2, <3>1 DEF OwnAt
    <2> QED
      BY <2>1, <2>3, <2>4, <2>5, <2>6 DEF JobMove, JobStep
  <1>8. CASE t # s
    <2>1. job'[<<c, s>>] = job[<<c, s>>]
      BY <1>6, <1>8, JobMoves
    <2>2. done'[s] = done[s] /\ failed'[s] = failed[s] /\ out'[s] = out[s]
      BY <1>8 DEF JobMove, JobStep, JobStarts, JobBody, JobExits, JobTerminated, JobKilled
    <2> QED
      BY <1>1, <1>2, <1>3, <1>5, <2>1, <2>2 DEF OwnAt
  <1> QED
    BY <1>7, <1>8

LEMMA OwnStep ==
  TypeOK /\ PoolInv /\ FreshInv /\ ThreadInv /\ JobInv /\ SeenInv /\ MeetInv /\ OwnInv /\ [Next]_vars => OwnInv'
  <1> SUFFICES ASSUME TypeOK, PoolInv, FreshInv, ThreadInv, JobInv, SeenInv, MeetInv, OwnInv, [Next]_vars,
                      NEW c \in Commands, NEW s \in Stages
               PROVE  OwnAt(c, s)'
    BY DEF OwnInv
  <1>0. OwnAt(c, s)
    BY DEF OwnInv
  <1>1. CASE UNCHANGED vars
    BY <1>0, <1>1 DEF OwnAt, Active, Submitted, vars, poolVars, threadVars, diskVars, jobVars, histVars
  <1> QED
    BY <1>0, <1>1, Steps, OwnCommandStep, OwnThreadStep, OwnJobStep DEF CommandStep, JobMove

-----------------------------------------------------------------------------
(***************************************************************************)
(* What a thread reports, and who waits for a job.                         *)
(***************************************************************************)
LEMMA ResultThreadStep ==
  ASSUME NEW c \in Commands, NEW s \in Stages, NEW k \in Commands, NEW t \in Stages,
         TypeOK, ThreadInv, OwnInv, MarkInv, SeenInv, ResultAt(c, s), WaitThread(k, t)
  PROVE  ResultAt(c, s)'
  <1> SUFFICES ASSUME s \in OnPbs, <<c, s>> \notin mixed' PROVE ResultAt(c, s)'
    BY DEF ResultAt
  <1>1. mixed' = mixed /\ job' = job
    BY PoolFrame, ThreadMoves
  <1>2. late \subseteq late'
    BY DEF WaitThread, ReadJobId, LookForMarker, Probe, LocalStage
  <1>3. CASE k # c \/ t # s
    <2>1. th'[c][s] = th[c][s]
      BY <1>3, ThreadMoves
    <2> QED
      BY <1>1, <1>2, <2>1 DEF ResultAt
  <1>4. CASE k = c /\ t = s
    <2> USE DEF Goes, TypeOK, ThreadTypes
    <2>0. ThreadAt(c, s) /\ OwnAt(c, s)
      BY DEF ThreadInv, OwnInv
    <2>1. CASE ReadJobId(c, s)
      BY <2>1 DEF ReadJobId, ResultAt
    <2>2. CASE LookForMarker(c, s)
      <3>1. /\ th[c][s] = "look"
            /\ th'[c][s] = "ok" => done[s] # NoCommand
            /\ th'[c][s] = "error" => failed[s] # NoCommand
        BY <2>2 DEF LookForMarker
      <3>2. done[s] \in {NoCommand, c} /\ failed[s] \in {NoCommand, c}
        BY <1>1, <2>0, <3>1 DEF ThreadAt, OwnAt, Submitted, Waiting
      <3> QED
        BY <1>1, <3>1, <3>2 DEF ResultAt, MarkInv, Alive
    <2>3. CASE Probe(c, s)
      <3>1. th[c][s] = "probe" /\ th'[c][s] \in {"look", "error"}
        BY <2>3 DEF Probe
      <3>2. th'[c][s] = "error" => <<c, s>> \in seen \cup late'
        BY <2>3 DEF Probe
      <3>3. <<c, s>> \in seen => job[<<c, s>>] \notin Alive \cup {"succeeded"}
        BY <1>1, <2>0, <3>1 DEF ThreadAt, OwnAt, Submitted, Waiting, SeenInv
      <3> QED
        BY <1>1, <3>1, <3>2, <3>3 DEF ResultAt
    <2>4. CASE LocalStage(c, s)
      BY <2>0, <2>4 DEF LocalStage, ThreadAt
    <2> QED
      BY <1>4, <2>1, <2>2, <2>3, <2>4 DEF WaitThread
  <1> QED
    BY <1>3, <1>4

LEMMA ResultCommandStep ==
  ASSUME NEW c \in Commands, NEW s \in Stages, NEW k \in Commands,
         TypeOK, FreshInv, ResultAt(c, s), CommandStep(k)
  PROVE  ResultAt(c, s)'
  <1>0. FreshAt(c, s)
    BY DEF FreshInv
  <1>1. mixed \subseteq mixed' /\ late' = late
    BY CommandMovesThreads
  <1>2. th'[c][s] = th[c][s] \/ th'[c][s] \notin {"ok", "error"}
    <2>1. CASE k = c
      BY <2>1, CommandMovesThreads
    <2>2. CASE k # c
      BY <2>2, OthersKept
    <2> QED
      BY <2>1, <2>2
  <1>3. \/ job'[<<c, s>>] = job[<<c, s>>]
        \/ job[<<c, s>>] = "queued" /\ job'[<<c, s>>] = "failed"
        \/ s \in pending[c]
    BY CommandMovesJobs
  <1> QED
    BY <1>0, <1>1, <1>2, <1>3 DEF ResultAt, FreshAt, Alive

LEMMA ResultStep ==
  TypeOK /\ FreshInv /\ ThreadInv /\ OwnInv /\ MarkInv /\ SeenInv /\ ResultInv /\ [Next]_vars => ResultInv'
  <1> SUFFICES ASSUME TypeOK, FreshInv, ThreadInv, OwnInv, MarkInv, SeenInv, ResultInv, [Next]_vars,
                      NEW c \in Commands, NEW s \in Stages
               PROVE  ResultAt(c, s)'
    BY DEF ResultInv
  <1>0. ResultAt(c, s) /\ <<c, s>> \in Jobs
    BY DEF ResultInv, Jobs
  <1>1. ASSUME NEW k \in Commands, NEW t \in Stages, JobMove(<<k, t>>) PROVE ResultAt(c, s)'
    <2>1. th' = th /\ mixed' = mixed /\ late' = late
      BY <1>1, JobMoves
    <2>2. \/ job'[<<c, s>>] = job[<<c, s>>]
          \/ job[<<c, s>>] \in Alive
      BY <1>0, <1>1, JobMoves
    <2> QED
      BY <1>0, <2>1, <2>2 DEF ResultAt, Alive
  <1>2. CASE UNCHANGED vars
    BY <1>0, <1>2 DEF ResultAt, vars, threadVars, jobVars, histVars
  <1> QED
    BY <1>0, <1>1, <1>2, Steps, ResultThreadStep, ResultCommandStep DEF CommandStep, JobMove

LEMMA LiveCommandStep ==
  ASSUME NEW c \in Commands, NEW s \in Stages, NEW k \in Commands,
         TypeOK, PoolInv, FreshInv, ThreadInv, LiveAt(c, s), CommandStep(k)
  PROVE  LiveAt(c, s)'
  <1> USE DEF LiveAt, TypeOK, CommandTypes, ThreadTypes
  <1>0. ThreadAt(c, s) /\ FreshAt(c, s) /\ PoolOf(c)
    BY DEF ThreadInv, FreshInv, PoolInv
  <1>1. mixed \subseteq mixed' /\ late' = late /\ ghosts \subseteq ghosts'
    BY CommandMovesThreads, GhostsGrow
  <1>2. job'[<<c, s>>] \in Alive => job[<<c, s>>] \in Alive \/ (k = c /\ Queues(c, s))
    BY LivelyMoves
  <1>3. CASE k # c
    <2>1. th'[c] = th[c] /\ pc'[c] = pc[c] /\ starting'[c] = starting[c]
      BY <1>3, OthersKept
    <2> QED
      BY <1>1, <1>2, <1>3, <2>1
  <1>4. CASE k = c
    <2>1. CASE Queues(c, s)
      <3>1. th'[c][s] = "none" /\ s \in starting'[c]
        BY <1>0, <2>1 DEF Queues, Ready, FreshAt
      <3> QED
        BY <3>1
    <2>2. CASE \E t \in Stages \ {s} : Queues(c, t)
      <3>1. PICK t \in Stages \ {s} : Queues(c, t)
        BY <2>2
      <3>2. th' = th /\ pc[c] = "loop" /\ starting[c] = {}
        BY <1>0, <3>1 DEF Queues, PoolOf, Submitting
      <3>3. ~Queues(c, s)
        <4>1. starting'[c] = {t}
          BY <3>1 DEF Queues
        <4>2. Queues(c, s) => starting'[c] = {s}
          BY DEF Queues
        <4> QED
          BY <3>1, <4>1, <4>2
      <3> QED
        BY <1>1, <1>2, <3>2, <3>3
    <2>3. CASE \E t \in Stages : Launches(c, t)
      <3>1. PICK t \in Stages : Launches(c, t)
        BY <2>3
      <3>2. pc' = pc /\ pc[c] = "loop" /\ starting' = starting /\ job' = job /\ th'[c][s] = IF s = t THEN "local" ELSE th[c][s]
        BY <3>1 DEF Launches
      <3>3. s = t => th[c][s] = "none" /\ s \notin starting[c]
        BY <1>0, <3>1 DEF Launches, Ready, FreshAt, PoolOf
      <3> QED
        BY <1>1, <3>2, <3>3 DEF Waiting
    <2>4. CASE CancelRunning(c)
      <3>1. th' = th /\ pc[c] \in {"cancel", "raise"} /\ starting' = starting
        BY <2>4 DEF CancelRunning, threadVars
      <3>2. ~Queues(c, s)
        BY <3>1 DEF Queues
      <3> QED
        BY <1>1, <1>2, <3>1, <3>2
    <2>5. CASE Moves(c)
      <3>0. job' = job
        BY <2>5 DEF Moves
      <3>1. CASE Begin(c) \/ Record(c) \/ SubmitFails(c) \/ Collect(c) \/ Finish(c) \/ Drain(c)
        <4>1. th' = th /\ starting' = starting /\ pc[c] \notin {"dead", "error"}
          BY <3>1 DEF Begin, Record, SubmitFails, Collect, Finish, Drain, poolVars, threadVars
        <4> QED
          BY <1>1, <3>0, <4>1
      <3>2. CASE StartThread(c)
        <4>1. starting' = starting /\ pc[c] = "recorded" /\ th'[c][s] = IF s \in starting[c] THEN "start" ELSE th[c][s]
          BY <3>2 DEF StartThread, poolVars
        <4> QED
          BY <1>1, <3>0, <4>1 DEF Waiting
      <3>3. CASE Enter(c)
        <4>1. th' = th /\ pc[c] = "enter"
          BY <3>3 DEF Enter, threadVars
        <4> QED
          BY <1>0, <1>1, <3>0, <4>1 DEF ThreadAt
      <3>4. CASE RecordFails(c)
        <4>1. th' = th /\ pc[c] = "qsub" /\ ghosts' = ghosts \cup ({c} \X starting[c])
          BY <3>4 DEF RecordFails, Unrecorded, threadVars
        <4> QED
          BY <1>1, <3>0, <4>1
      <3>5. CASE Interrupt(c)
        <4>1. starting' = starting /\ pc[c] \notin {"dead", "error"}
          BY <3>5 DEF Interrupt, poolVars, Submitting
        <4>2. th' = th \/ (th'[c][s] = "none" /\ pc'[c] = "error" /\ ~IsGraph(c))
          BY <3>5 DEF Interrupt
        <4> QED
          BY <1>1, <3>0, <4>1, <4>2
      <3>6. CASE CommandDies(c)
        BY <3>6 DEF CommandDies
      <3> QED
        BY <2>5, <3>1, <3>2, <3>3, <3>4, <3>5, <3>6 DEF Moves
    <2> QED
      BY <1>4, <2>1, <2>2, <2>3, <2>4, <2>5, CommandSteps
  <1> QED
    BY <1>3, <1>4

LEMMA LiveThreadStep ==
  ASSUME NEW c \in Commands, NEW s \in Stages, NEW k \in Commands, NEW t \in Stages,
         TypeOK, JobInv, LiveAt(c, s), ResultAt(c, s)', WaitThread(k, t)
  PROVE  LiveAt(c, s)'
  <1> SUFFICES ASSUME job'[<<c, s>>] \in Alive, <<c, s>> \notin (ghosts \cup late \cup mixed)', pc'[c] # "dead"
               PROVE  \/ th'[c][s] \in Waiting
                      \/ th'[c][s] = "none" /\ (s \in starting'[c] \/ (pc'[c] = "error" /\ ~IsGraph(c)))
    BY DEF LiveAt
  <1>1. UNCHANGED <<mixed, job, ghosts, pc, starting>>
    BY PoolFrame, ThreadMoves
  <1>2. late \subseteq late'
    BY DEF WaitThread, ReadJobId, LookForMarker, Probe, LocalStage
  <1>3. \/ th[c][s] \in Waiting
        \/ th[c][s] = "none" /\ (s \in starting[c] \/ (pc[c] = "error" /\ ~IsGraph(c)))
    BY <1>1, <1>2 DEF LiveAt
  <1>4. s \in OnPbs
    BY <1>1 DEF JobInv, Alive
  <1>5. CASE k # c \/ t # s
    <2>1. th'[c][s] = th[c][s]
      BY <1>5, ThreadMoves
    <2> QED
      BY <1>1, <1>3, <2>1
  <1>6. CASE k = c /\ t = s
    <2>1. th'[c][s] \in Waiting \cup {"ok", "error"}
      BY <1>3, <1>6, ThreadMoves DEF Waiting
    <2>2. th'[c][s] # "ok" /\ th'[c][s] # "error"
      BY <1>4 DEF ResultAt, Alive
    <2> QED
      BY <2>1, <2>2
  <1> QED
    BY <1>5, <1>6

LEMMA LiveStep ==
  TypeOK /\ PoolInv /\ FreshInv /\ ThreadInv /\ JobInv /\ LiveInv /\ ResultInv' /\ [Next]_vars => LiveInv'
  <1> SUFFICES ASSUME TypeOK, PoolInv, FreshInv, ThreadInv, JobInv, LiveInv, ResultInv', [Next]_vars,
                      NEW c \in Commands, NEW s \in Stages
               PROVE  LiveAt(c, s)'
    BY DEF LiveInv
  <1>0. LiveAt(c, s) /\ <<c, s>> \in Jobs /\ ResultAt(c, s)'
    BY DEF LiveInv, Jobs, ResultInv
  <1>1. ASSUME NEW k \in Commands, NEW t \in Stages, JobMove(<<k, t>>) PROVE LiveAt(c, s)'
    <2>1. UNCHANGED <<th, mixed, late, ghosts, pc, starting>>
      BY <1>1, JobMoves, PoolFrame DEF JobMove
    <2>2. job'[<<c, s>>] \in Alive => job[<<c, s>>] \in Alive
      BY <1>0, <1>1, JobMoves
    <2> QED
      BY <1>0, <2>1, <2>2 DEF LiveAt
  <1>2. CASE UNCHANGED vars
    BY <1>0, <1>2 DEF LiveAt, vars, poolVars, threadVars, jobVars, histVars
  <1> QED
    BY <1>0, <1>1, <1>2, Steps, LiveThreadStep, LiveCommandStep DEF CommandStep, JobMove

-----------------------------------------------------------------------------
(***************************************************************************)
(* Commands that will not report success.                                  *)
(***************************************************************************)
LEMMA DoomedStays ==
  ASSUME NEW c \in Commands, TypeOK, PoolInv, FreshInv, ThreadInv, Doomed(c), [Next]_vars
  PROVE  Doomed(c)'
  <1>0. PoolOf(c) /\ pc[c] # "idle" /\ running[c] \cup starting[c] \subseteq Stages
    BY DEF PoolInv, PoolOf, Submitting, Doomed, TypeOK, CommandTypes
  <1>1. ASSUME NEW k \in Commands \ {c}, CommandStep(k) PROVE Doomed(c)'
    BY <1>1, OthersKept DEF Doomed
  <1>2. ASSUME CommandStep(c) PROVE Doomed(c)'
    <2> USE DEF Doomed, TypeOK, CommandTypes, ThreadTypes
    <2>1. CASE \E s \in Stages : Queues(c, s) \/ Launches(c, s)
      <3>1. PICK s \in Stages : Queues(c, s) \/ Launches(c, s)
        BY <2>1
      <3>2. failures[c] = {} /\ pc[c] = "loop" /\ s \in pending[c]
        BY <3>1 DEF Queues, Launches, Ready
      <3>3. starting[c] = {}
        BY <1>0, <3>2 DEF PoolOf, Submitting
      <3>4. PICK t \in running[c] : th[c][t] \in {"error", "exit"}
        BY <3>2, <3>3
      <3>5. t # s /\ t \in Stages
        BY <1>0, <3>2, <3>4 DEF FreshInv, FreshAt
      <3>6. th'[c][t] = th[c][t] /\ t \in running'[c]
        BY <3>1, <3>4, <3>5 DEF Queues, Launches
      <3> QED
        BY <3>4, <3>6
    <2>2. CASE SubmitFails(c) \/ RecordFails(c)
      BY <2>2 DEF SubmitFails, RecordFails
    <2>3. CASE CancelRunning(c)
      <3>1. failures' = failures /\ pc'[c] \in {"loop", "drain"} /\ (pc[c] = "cancel" => failures[c] # {})
        BY <1>0, <2>3 DEF CancelRunning, PoolOf
      <3>2. pc[c] = "raise" => pc'[c] = "drain"
        BY <2>3 DEF CancelRunning
      <3> QED
        BY <2>3, <3>1, <3>2 DEF CancelRunning
    <2>4. CASE Collect(c)
      <3>1. PICK s \in running[c] : Collect(c)!2!(s)
        BY <2>4 DEF Collect
      <3>2. /\ th' = th /\ pc[c] = "loop" /\ running'[c] = running[c] \ {s} /\ starting' = starting
        BY <2>4, <3>1 DEF Collect, threadVars
      <3>3. CASE th[c][s] = "ok"
        <4>1. failures' = failures
          BY <3>1, <3>3
        <4> QED
          BY <3>2, <3>3, <4>1
      <3>4. CASE th[c][s] # "ok"
        <4>1. failures' = [failures EXCEPT ![c] = @ \cup {s}]
          BY <3>1, <3>4
        <4> QED
          BY <4>1
      <3> QED
        BY <3>3, <3>4
    <2>5. CASE Finish(c)
      <3>1. running[c] = {} /\ pc[c] = "loop" /\ failures' = failures
        BY <2>5 DEF Finish, poolVars
      <3>2. starting[c] = {}
        BY <1>0, <3>1 DEF PoolOf, Submitting
      <3>3. failures[c] # {}
        BY <3>1, <3>2
      <3> QED
        BY <3>1, <3>3
    <2>6. CASE Drain(c) \/ Interrupt(c) \/ CommandDies(c)
      BY <2>6 DEF Drain, Interrupt, CommandDies
    <2>7. CASE Record(c)
      BY <2>7 DEF Record, poolVars, threadVars
    <2>8. CASE Enter(c)
      <3>1. /\ pc[c] = "enter" /\ failures' = failures /\ th' = th
            /\ running'[c] = running[c] \cup starting[c]
        BY <2>8 DEF Enter, threadVars
      <3> QED
        BY <3>1
    <2>9. CASE StartThread(c)
      <3>1. /\ pc[c] = "recorded" /\ UNCHANGED <<failures, running, starting>>
            /\ \A t \in Stages \ starting[c] : th'[c][t] = th[c][t]
        BY <2>9 DEF StartThread, poolVars
      <3>2. \A t \in starting[c] : th[c][t] = "none"
        BY <1>0, <3>1 DEF ThreadInv, ThreadAt
      <3> QED
        BY <1>0, <3>1, <3>2
    <2>10. ~Begin(c)
      BY <1>0 DEF Begin
    <2> QED
      BY <1>2, <2>1, <2>2, <2>3, <2>4, <2>5, <2>6, <2>7, <2>8, <2>9, <2>10, CommandSteps DEF Moves
  <1>3. ASSUME NEW k \in Commands, NEW t \in Stages, WaitThread(k, t) PROVE Doomed(c)'
    <2>1. UNCHANGED <<pc, failures, running, starting>>
      BY <1>3, PoolFrame
    <2>2. ASSUME NEW s \in running[c] \cup starting[c], th[c][s] \in {"error", "exit"} PROVE th'[c][s] = th[c][s]
      <3>1. s \in Stages
        BY <1>0
      <3>2. k # c \/ t # s
        BY <1>3, <2>2, <3>1, ThreadMoves DEF Waiting
      <3> QED
        BY <1>3, <3>1, <3>2, OtherThreadsKept
    <2> QED
      BY <2>1, <2>2 DEF Doomed
  <1>4. ASSUME NEW k \in Commands, NEW t \in Stages, JobMove(<<k, t>>) PROVE Doomed(c)'
    BY <1>4, JobMoves, PoolFrame DEF Doomed, JobMove
  <1>5. CASE UNCHANGED vars
    BY <1>5 DEF Doomed, vars, poolVars, threadVars
  <1> QED
    BY <1>1, <1>2, <1>3, <1>4, <1>5, Steps DEF CommandStep, JobMove

\* A stage whose ID was lost or whose thread gave up dooms its command.
LEMMA GhostsDoom ==
  ASSUME TypeOK, ThreadInv, Next, NEW c \in Commands, NEW s \in Stages,
         <<c, s>> \in (ghosts \cup late)', <<c, s>> \notin ghosts \cup late
  PROVE  Doomed(c)'
  <1> USE DEF Doomed, TypeOK, CommandTypes, ThreadTypes
  <1>1. ASSUME NEW k \in Commands, CommandStep(k) PROVE Doomed(c)'
    <2>1. late' = late
      BY <1>1, CommandMovesThreads
    <2>2. RecordFails(k) \/ Interrupt(k) \/ CommandDies(k)
      BY <1>1, <2>1, CommandSteps DEF Queues, Launches, Moves, CancelRunning, Begin, Record, StartThread, Enter, SubmitFails,
         Collect, Finish, Drain, histVars
    <2>3. k = c
      BY <2>1, <2>2 DEF RecordFails, Interrupt, CommandDies, Unrecorded
    <2> QED
      BY <2>2, <2>3 DEF RecordFails, Interrupt, CommandDies
  <1>2. ASSUME NEW k \in Commands, NEW t \in Stages, WaitThread(k, t) PROVE Doomed(c)'
    <2>1. ghosts' = ghosts /\ running' = running /\ starting' = starting
      BY <1>2, ThreadMoves, PoolFrame
    <2>2. k = c /\ t = s /\ th[c][s] = "probe" /\ th'[c][s] = "error"
      BY <1>2, <2>1 DEF WaitThread, ReadJobId, LookForMarker, Probe, LocalStage, Goes
    <2>3. s \in running[c] \cup starting[c]
      BY <2>2 DEF ThreadInv, ThreadAt, Waiting
    <2> QED
      BY <2>1, <2>2, <2>3
  <1>3. ASSUME NEW k \in Commands, NEW t \in Stages, JobMove(<<k, t>>) PROVE FALSE
    BY <1>3, JobMoves
  <1> QED
    BY <1>1, <1>2, <1>3, Steps DEF CommandStep, JobMove

\* The outputs of a completed stage that met no other attempt are the command's own.
LEMMA CompletedIsOwn ==
  ASSUME NEW c \in Commands, NEW d \in Stages, TypeOK, ThreadInv, OwnInv, ResultInv,
         Active(c), d \in completed[c], <<c, d>> \notin mixed
  PROVE  out[d] = c
  <1>1. th[c][d] = "ok"
    BY DEF ThreadInv, ThreadAt
  <1>2. OwnAt(c, d) /\ ResultAt(c, d)
    BY DEF OwnInv, ResultInv
  <1> QED
    BY <1>1, <1>2 DEF OwnAt, Submitted, ResultAt

\* So a stage that is run by a command at work reads its own command's outputs.
LEMMA ReadsAreOwn ==
  ASSUME NEW c \in Commands, NEW s \in Stages, TypeOK, ThreadInv, OwnInv, ResultInv,
         Active(c), s \in running[c] \cup starting[c], Reads(c, s) # {}
  PROVE  \E d \in Plan[c] : <<c, d>> \in mixed
  <1>1. PICK d \in Deps[s] \cap Plan[c] : out[d] # c
    BY DEF Reads
  <1>2. d \in Stages /\ d \in completed[c]
    BY ExecutorAssumption DEF ThreadInv, ThreadAt
  <1> QED
    BY <1>1, <1>2, CompletedIsOwn

LEMMA StaleDooms ==
  ASSUME TypeOK, PoolInv, ThreadInv, JobInv, OwnInv, ResultInv, LiveInv, DoomInv, Next,
         NEW c \in Commands, NEW s \in Stages, <<c, s>> \in stale', <<c, s>> \notin stale
  PROVE  Doomed(c) \/ \E d \in Plan[c] : <<c, d>> \in mixed
  <1>1. ASSUME NEW k \in Commands, CommandStep(k) PROVE FALSE
    BY <1>1, CommandMovesThreads
  <1>2. ASSUME NEW k \in Commands, NEW t \in Stages, WaitThread(k, t)
        PROVE  \E d \in Plan[c] : <<c, d>> \in mixed
    <2>1. LocalStage(k, t) /\ stale' = stale \cup Reads(k, t)
      BY <1>2 DEF WaitThread, ReadJobId, LookForMarker, Probe, LocalStage
    <2>2. k = c /\ t = s /\ Reads(c, s) # {}
      BY <2>1 DEF Reads
    <2>3. Active(c) /\ s \in running[c] \cup starting[c]
      BY <2>1, <2>2 DEF LocalStage, ThreadInv, ThreadAt
    <2> QED
      BY <2>2, <2>3, ReadsAreOwn
  <1>3. ASSUME NEW k \in Commands, NEW t \in Stages, JobMove(<<k, t>>)
        PROVE  Doomed(c) \/ \E d \in Plan[c] : <<c, d>> \in mixed
    <2>1. JobBody(<<k, t>>) /\ stale' = stale \cup Reads(k, t)
      BY <1>3 DEF JobMove, JobStep, JobStarts, JobBody, JobExits, JobTerminated, JobKilled
    <2>2. k = c /\ t = s /\ Reads(c, s) # {} /\ job[<<c, s>>] = "body"
      BY <2>1 DEF Reads, JobBody
    <2>3. CASE <<c, s>> \in ghosts \cup late
      <3>1. Doomed(<<c, s>>[1])
        BY <2>3 DEF DoomInv
      <3> QED
        BY <3>1
    <2>4. CASE <<c, s>> \in mixed
      BY <2>2, <2>4 DEF JobInv
    <2>5. CASE pc[c] = "dead"
      BY <2>5 DEF Doomed
    <2>6. CASE <<c, s>> \notin ghosts \cup late \cup mixed /\ pc[c] # "dead"
      <3>1. th[c][s] \in Waiting \/ s \in starting[c] \/ pc[c] = "error"
        BY <2>2, <2>6 DEF LiveInv, LiveAt, Alive
      <3>2. (Active(c) /\ s \in running[c] \cup starting[c]) \/ pc[c] = "error"
        BY <2>6, <3>1 DEF ThreadInv, ThreadAt, PoolInv, PoolOf, Active
      <3> QED
        BY <2>2, <3>2, ReadsAreOwn DEF Doomed
    <2> QED
      BY <2>3, <2>4, <2>5, <2>6
  <1> QED
    BY <1>1, <1>2, <1>3, Steps DEF CommandStep, JobMove

LEMMA MixedStays == TypeOK /\ [Next]_vars => mixed \subseteq mixed'
  <1> SUFFICES ASSUME TypeOK, [Next]_vars PROVE mixed \subseteq mixed'
    OBVIOUS
  <1>1. ASSUME NEW k \in Commands, CommandStep(k) PROVE mixed \subseteq mixed'
    BY <1>1, CommandSteps DEF Queues, Launches, Moves, CancelRunning
  <1>2. ASSUME NEW k \in Commands, NEW t \in Stages, WaitThread(k, t) \/ JobMove(<<k, t>>) PROVE mixed' = mixed
    BY <1>2, PoolFrame DEF JobMove
  <1>3. CASE UNCHANGED vars
    BY <1>3 DEF vars, histVars
  <1> QED
    BY <1>1, <1>2, <1>3, Steps DEF CommandStep, JobMove

LEMMA DoomStep ==
  /\ TypeOK /\ PoolInv /\ FreshInv /\ ThreadInv /\ JobInv /\ OwnInv /\ ResultInv /\ LiveInv /\ DoomInv
  /\ [Next]_vars
  => DoomInv'
  <1> SUFFICES ASSUME TypeOK, PoolInv, FreshInv, ThreadInv, JobInv, OwnInv, ResultInv, LiveInv, DoomInv,
                      [Next]_vars
               PROVE  DoomInv'
    OBVIOUS
  <1>0. /\ \A j \in (ghosts \cup late)' : \E c \in Commands, s \in Stages : j = <<c, s>>
        /\ \A j \in stale' : \E c \in Commands, s \in Stages : j = <<c, s>>
    <2>1. TypeOK'
      BY NextTypes
    <2> QED
      BY <2>1 DEF TypeOK, HistoryTypes, Jobs
  <1>1. ASSUME NEW c \in Commands, NEW s \in Stages, <<c, s>> \in (ghosts \cup late)'
        PROVE  Doomed(c)'
    <2>1. CASE <<c, s>> \in ghosts \cup late
      <3>1. Doomed(<<c, s>>[1])
        BY <2>1 DEF DoomInv
      <3> QED
        BY <3>1, DoomedStays
    <2>2. CASE <<c, s>> \notin ghosts \cup late
      <3>1. Next
        BY <1>1, <2>2 DEF vars, histVars
      <3> QED
        BY <1>1, <2>2, <3>1, GhostsDoom
    <2> QED
      BY <2>1, <2>2
  <1>2. ASSUME NEW c \in Commands, NEW s \in Stages, <<c, s>> \in stale'
        PROVE  Doomed(c)' \/ \E d \in Plan[c] : <<c, d>> \in mixed'
    <2>1. Doomed(c) \/ \E d \in Plan[c] : <<c, d>> \in mixed
      <3>1. CASE <<c, s>> \in stale
        <4>1. Doomed(<<c, s>>[1]) \/ \E d \in Plan[<<c, s>>[1]] : <<<<c, s>>[1], d>> \in mixed
          BY <3>1 DEF DoomInv
        <4> QED
          BY <4>1
      <3>2. CASE <<c, s>> \notin stale
        <4>1. Next
          BY <1>2, <3>2 DEF vars, histVars
        <4> QED
          BY <1>2, <3>2, <4>1, StaleDooms
      <3> QED
        BY <3>1, <3>2
    <2> QED
      BY <2>1, DoomedStays, MixedStays
  <1>3. ASSUME NEW j \in (ghosts \cup late)' PROVE Doomed(j[1])'
    <2>1. PICK c \in Commands, s \in Stages : j = <<c, s>>
      BY <1>0
    <2>2. Doomed(c)'
      BY <1>1, <2>1
    <2> QED
      BY <2>1, <2>2
  <1>4. ASSUME NEW j \in stale' PROVE Doomed(j[1])' \/ \E d \in Plan[j[1]] : <<j[1], d>> \in mixed'
    <2>1. PICK c \in Commands, s \in Stages : j = <<c, s>>
      BY <1>0
    <2>2. Doomed(c)' \/ \E d \in Plan[c] : <<c, d>> \in mixed'
      BY <1>2, <2>1
    <2> QED
      BY <2>1, <2>2
  <1> QED
    BY <1>3, <1>4 DEF DoomInv

LEMMA CancelStep == TypeOK /\ ThreadInv /\ OwnInv /\ CancelsOwnJobs /\ [Next]_vars => CancelsOwnJobs'
  <1> SUFFICES ASSUME TypeOK, ThreadInv, OwnInv, CancelsOwnJobs, [Next]_vars,
                      NEW h \in struck', h[2][1] # h[1]
               PROVE  <<h[1], h[2][2]>> \in mixed'
    BY DEF CancelsOwnJobs
  <1>1. CASE h \in struck
    BY <1>1, MixedStays DEF CancelsOwnJobs
  <1>2. CASE h \notin struck
    <2>1. ASSUME NEW k \in Commands, CommandStep(k) PROVE CancelRunning(k)
      BY <1>2, <2>1, CommandSteps DEF Queues, Launches, Moves
    <2>2. ASSUME NEW k \in Commands, NEW t \in Stages, WaitThread(k, t) PROVE FALSE
      BY <1>2, <2>2, ThreadMoves
    <2>3. ASSUME NEW k \in Commands, NEW t \in Stages, JobMove(<<k, t>>) PROVE FALSE
      BY <1>2, <2>3, JobMoves
    <2>4. CASE UNCHANGED vars
      BY <1>2, <2>4 DEF vars, histVars
    <2>5. ASSUME NEW k \in Commands, CancelRunning(k) PROVE <<h[1], h[2][2]>> \in mixed'
      <3>1. /\ h \in {k} \X {<<jobid[s], s>> : s \in {t \in Cancels(k) : jobid[t] # NoCommand}}
            /\ mixed' = mixed /\ pc[k] \in {"cancel", "raise"}
        BY <1>2, <2>5 DEF CancelRunning
      <3>2. PICK s \in Cancels(k) : h = <<k, <<jobid[s], s>>>>
        BY <3>1
      <3>3. /\ s \in running[k] \cap OnPbs /\ th[k][s] \notin Finished /\ s \in Stages
        BY <3>2 DEF Cancels, TypeOK, CommandTypes
      <3>4. jobid[s] # k
        BY <3>2
      <3>5. Active(k) /\ th[k][s] # "none"
        BY <3>1, <3>3 DEF Active, ThreadInv, ThreadAt
      <3> QED
        BY <3>1, <3>2, <3>3, <3>4, <3>5 DEF OwnInv, OwnAt, Submitted
    <2> QED
      BY <2>1, <2>2, <2>3, <2>4, <2>5, Steps DEF CommandStep, JobMove
  <1> QED
    BY <1>1, <1>2

-----------------------------------------------------------------------------
(***************************************************************************)
(* The inductive invariant and the theorems.                               *)
(***************************************************************************)
IInv ==
    /\ TypeOK /\ PoolInv /\ FreshInv /\ ThreadInv /\ JobInv /\ MarkInv /\ SeenInv /\ MeetInv /\ NamedInv
    /\ OwnInv /\ ResultInv /\ LiveInv /\ DoomInv /\ CancelsOwnJobs

LEMMA InitInv == Init => IInv
  <1> SUFFICES ASSUME Init PROVE IInv
    OBVIOUS
  <1> USE DEF Init, Nobody
  <1>0. \A c \in Commands, s \in Stages : <<c, s>> \in Jobs /\ job[<<c, s>>] = "none" /\ th[c][s] = "none"
    BY DEF Jobs
  <1>1. PoolInv
    BY DEF PoolInv, PoolOf, Active, Submitting
  <1>2. FreshInv /\ JobInv /\ ResultInv
    BY <1>0 DEF FreshInv, FreshAt, JobInv, ResultInv, ResultAt
  <1>3. ThreadInv
    BY <1>0 DEF ThreadInv, ThreadAt, Active, Submitting, Waiting
  <1>4. OwnInv /\ LiveInv /\ MeetInv /\ NamedInv
    BY <1>0 DEF OwnInv, OwnAt, Submitted, LiveInv, LiveAt, MeetInv, MeetAt, AboutToRecord, NamedInv, NamedAt, Alive
  <1>5. MarkInv /\ SeenInv /\ DoomInv /\ CancelsOwnJobs
    BY DEF MarkInv, SeenInv, DoomInv, CancelsOwnJobs
  <1> QED
    BY <1>1, <1>2, <1>3, <1>4, <1>5, InitTypes DEF IInv

LEMMA NextInv == IInv /\ [Next]_vars => IInv'
  <1> SUFFICES ASSUME IInv, [Next]_vars PROVE IInv'
    OBVIOUS
  <1> USE DEF IInv
  <1>1. ResultInv'
    BY ResultStep
  <1>2. TypeOK' /\ PoolInv' /\ FreshInv' /\ ThreadInv' /\ JobInv'
    BY NextTypes, PoolStep, FreshStep, ThreadStep, JobInvStep
  <1>3. MarkInv' /\ SeenInv' /\ OwnInv'
    BY MarkStep, SeenStep, OwnStep
  <1>5. MeetInv' /\ NamedInv'
    BY MeetStep, NamedStep
  <1>4. LiveInv' /\ DoomInv' /\ CancelsOwnJobs'
    BY <1>1, LiveStep, DoomStep, CancelStep
  <1> QED
    BY <1>1, <1>2, <1>3, <1>4, <1>5

LEMMA SpecInv == Spec => []IInv
  BY InitInv, NextInv, PTL DEF Spec

\* A thread reports success only for a job of its own command that succeeded, unless the
\* stage was submitted onto another attempt's markers or jobs (wait_for_pbs_marker).
THEOREM OwnSuccess == Spec => []SuccessIsOwn
  <1>1. IInv => SuccessIsOwn
    BY ExecutorAssumption DEF IInv, ResultInv, ResultAt, SuccessIsOwn
  <1> QED
    BY <1>1, SpecInv, PTL

\* A job that succeeded is never reported failed but at a deadline: the one more look after
\* a terminal state suffices in every order of marker, look and qstat.
THEOREM SeenSuccess == Spec => []SuccessIsSeen
  <1>1. IInv => SuccessIsSeen
    BY ExecutorAssumption DEF IInv, ResultInv, ResultAt, SuccessIsSeen
  <1> QED
    BY <1>1, SpecInv, PTL

\* The command's main thread never runs out of stages it can submit while some are pending
\* and none runs (execute_analysis' "No stage is ready; dependencies were not satisfied").
THEOREM Progress == Spec => []NeverStuck
  <1>1. IInv => NeverStuck
    BY DEF IInv, PoolInv, PoolOf, NeverStuck
  <1> QED
    BY <1>1, SpecInv, PTL

\* A command that reports success completed its whole plan, and no stage of it read the
\* outputs of another command unless the two met.
THEOREM WholeSuccess == Spec => []OkIsWhole
  <1>1. ASSUME IInv, NEW c \in Commands, pc[c] = "ok"
        PROVE  /\ completed[c] = Plan[c]
               /\ ({c} \X Plan[c]) \cap mixed = {} => ({c} \X Plan[c]) \cap stale = {}
    <2>1. PoolOf(c) /\ DoomInv
      BY <1>1 DEF IInv, PoolInv
    <2>2. ~Doomed(c) /\ completed[c] = Plan[c]
      BY <1>1, <2>1 DEF PoolOf, Doomed, Submitting
    <2>3. ASSUME NEW s \in Plan[c], <<c, s>> \in stale
          PROVE  \E d \in Plan[c] : <<c, d>> \in mixed
      <3>1. Doomed(<<c, s>>[1]) \/ \E d \in Plan[<<c, s>>[1]] : <<<<c, s>>[1], d>> \in mixed
        BY <2>1, <2>3 DEF DoomInv
      <3> QED
        BY <2>2, <3>1
    <2>4. ASSUME NEW x \in ({c} \X Plan[c]) \cap stale PROVE ({c} \X Plan[c]) \cap mixed # {}
      <3>1. PICK s \in Plan[c] : x = <<c, s>>
        OBVIOUS
      <3>2. PICK d \in Plan[c] : <<c, d>> \in mixed
        BY <2>3, <2>4, <3>1
      <3> QED
        BY <3>2
    <2> QED
      BY <2>2, <2>4
  <1>2. IInv => OkIsWhole
    BY <1>1 DEF OkIsWhole
  <1> QED
    BY <1>2, SpecInv, PTL

\* Of the jobs of a command that ended, other than by SIGKILL, each live one that was recorded
\* and met no other attempt is named by its .jobid file, and is one the command gave up on at
\* its deadline, the job of an interrupted single stage, or the one job whose submission a
\* signal cut short between the recording of its ID and its entry into running.
THEOREM NoneLeftBehind == Spec => []NoJobLeftBehind
  <1>1. ASSUME IInv, NEW c \in Commands, pc[c] \in {"ok", "error"}, NEW s \in Left(c)
        PROVE  /\ jobid[s] = c
               /\ <<c, s>> \notin late =>
                    pc[c] = "error" /\ th[c][s] = "none" /\ (IsGraph(c) => starting[c] = {s})
    <2>1. LiveAt(c, s) /\ ThreadAt(c, s) /\ NamedAt(c, s) /\ PoolOf(c)
      BY <1>1 DEF IInv, LiveInv, ThreadInv, NamedInv, PoolInv, Left
    <2>2. jobid[s] = c
      BY <1>1, <2>1 DEF NamedAt, AboutToRecord, Left
    <2>3. ASSUME <<c, s>> \notin late
          PROVE  th[c][s] = "none" /\ (s \in starting[c] \/ (pc[c] = "error" /\ ~IsGraph(c)))
      BY <1>1, <2>1, <2>3 DEF LiveAt, ThreadAt, Active, Submitting, Left
    <2>4. s \in starting[c] => starting[c] = {s} /\ pc[c] = "error"
      BY <1>1, <2>1 DEF PoolOf, Submitting
    <2> QED
      BY <2>2, <2>3, <2>4
  <1>2. IInv => NoJobLeftBehind
    BY <1>1 DEF NoJobLeftBehind
  <1> QED
    BY <1>2, SpecInv, PTL

\* A cancellation deletes another command's job only where two attempts of a stage met.
THEOREM OwnCancellations == Spec => []CancelsOwnJobs
  <1>1. IInv => CancelsOwnJobs
    BY DEF IInv
  <1> QED
    BY <1>1, SpecInv, PTL
============================================================================
