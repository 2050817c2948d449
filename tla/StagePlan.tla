------------------------------ MODULE StagePlan -----------------------------
(***************************************************************************)
(* The stage graph of an S3 invocation (execution/stages.py) and the job   *)
(* each of its stages becomes (execution/s3_submission.py,                 *)
(* execution/pbs/templates_s3.py, analysis_modes.py, commands.py and the   *)
(* job bodies of execution/pbs/stage_runtime.py).                          *)
(*                                                                         *)
(* A stage is [name, kind, runner, after].  A job is the data flow of its  *)
(* body: [refused, needs, writes, kept], directories below the prefix of   *)
(* the run, of the source run, or persistent; `kept` is uploaded even when *)
(* the body fails, and `refused` says the renderer raised.                 *)
(***************************************************************************)
EXTENDS RunOptions

-----------------------------------------------------------------------------
\* Graphs: sequences of stages.

Stage(name, kind, runner, after) == [name |-> name, kind |-> kind, runner |-> runner, after |-> after]

Names(stages) == {s.name : s \in Range(stages)}

\* The stages not yet placed whose dependencies are.
Ready(stages, placed) ==
    {i \in DOMAIN stages : stages[i].name \notin Names(placed) /\ stages[i].after \subseteq Names(placed)}

\* One round of the loop: the first of them comes next; nothing is placed on a cycle.
PlaceOne(stages, placed) ==
    LET ready == Ready(stages, placed)
    IN IF ready = {} THEN placed ELSE Append(placed, stages[Min(ready)])

Placed(stages) ==
    LET placed[n \in 0..Len(stages)] == IF n = 0 THEN << >> ELSE PlaceOne(stages, placed[n - 1])
    IN placed[Len(stages)]

\* None for a graph with a repeated name, an unknown dependency or a cycle.
ordered(stages) ==
    IF \/ Cardinality(Names(stages)) # Len(stages)
       \/ \E s \in Range(stages) : ~s.after \subseteq Names(stages)
       \/ Len(Placed(stages)) # Len(stages)
    THEN None ELSE Placed(stages)

get(stages, name) == IF name \in Names(stages) THEN CHOOSE s \in Range(stages) : s.name = name ELSE None

\* The places in the order of the stages PBS runs.
scheduled(stages) == {i \in DOMAIN ordered(stages) : ordered(stages)[i].runner = "pbs"}

\* MUTANT: only the stages that name the failed one are blocked.
MutDependentsOf(stages, name) == {s.name : s \in {t \in Range(stages) : name \in t.after}}

\* The stages that cannot run once `name` failed, collected along the order.
Block(blocked, s) == IF s.name \notin blocked /\ blocked \cap s.after # {} THEN blocked \cup {s.name} ELSE blocked
dependents_of(stages, name) ==
    LET order == ordered(stages)
        blocked[n \in 0..Len(order)] == IF n = 0 THEN {name} ELSE Block(blocked[n - 1], order[n])
    IN blocked[Len(order)] \ {name}

\* The stages of the graph a job is told to wait for: those already submitted.
dependency_ids(stages, name, jobs) ==
    IF get(stages, name) = None THEN {} ELSE get(stages, name).after \cap jobs

-----------------------------------------------------------------------------
\* The plans.

_mappings_stage(after) == Stage("coinjoin-mappings", "mappings", "pbs", {after.name})

\* MUTANT: the report does not wait for the mappings.
MutReportStage(runner, analyzers) ==
    Stage("unified-report", "report", runner, {s.name : s \in analyzers} \ {"coinjoin-mappings"})

_report_stage(runner, analyzers) == Stage("unified-report", "report", runner, {s.name : s \in analyzers})

Emulation == Stage("kubernetes-emulation", "emulation", "kubernetes", {})

\* The stage that works on an index, by task.
WorkNames == [detect |-> "blocksci-analyze", script |-> "blocksci-script", notebook |-> "blocksci-notebook",
              external |-> "blocksci-external", backup |-> "blocksci-backup"]

\* The parse and the work stage, each as a sequence of at most one stage.
_blocksci_stages(c) ==
    LET From(kind, name, after) == <<Stage(name, kind, "pbs", {after.name})>>
        parse == IF c.workflow = "reusable" THEN From("parse", "blocksci-parse", Emulation) ELSE << >>
        after == IF parse = << >> THEN Emulation ELSE parse[1]
    IN IF ~Given(c, "blocksci") THEN <<<< >>, << >>>>
       ELSE IF c.task = "update" THEN <<<< >>, From("update", "blocksci-update", Emulation)>>
       ELSE IF c.workflow = "combined" THEN <<<< >>, From("work", "blocksci", Emulation)>>
       ELSE <<parse, IF c.task = "parse" THEN << >> ELSE From("work", WorkNames[c.task], after)>>

s3_full_run_plan(c) ==
    LET baseline == IF Given(c, "analysis")
                    THEN <<Stage("coinjoin-analysis", "baseline", "pbs", {Emulation.name})>> ELSE << >>
        mappings == IF Given(c, "mappings")
                    THEN <<_mappings_stage(IF baseline = << >> THEN Emulation ELSE baseline[1])>> ELSE << >>
        blocksci == _blocksci_stages(c)
        report == IF runs_unified_report(c)
                  THEN <<_report_stage("pbs", Range(baseline \o blocksci[2] \o mappings))>> ELSE << >>
    IN <<Emulation>> \o baseline \o blocksci[1] \o blocksci[2] \o mappings \o report

\* The local graph: baseline, BlockSci, mappings and the report.
analysis_plan(analysisPbs, blocksciPbs, mappingsPbs) ==
    LET Runner(onPbs) == IF onPbs THEN "pbs" ELSE "local"
        baseline == Stage("coinjoin-analysis", "baseline", Runner(analysisPbs), {})
        blocksci == Stage("blocksci", "work", Runner(blocksciPbs), {})
        mappings == IF mappingsPbs THEN <<_mappings_stage(baseline)>> ELSE << >>
        analyzers == <<baseline, blocksci>> \o mappings
    IN Append(analyzers, _report_stage(Runner(blocksciPbs), Range(analyzers)))

-----------------------------------------------------------------------------
\* The jobs.  Directories: what the Kubernetes uploader publishes, the exporters, and the outputs.

Run(name) == <<"run", name>>
Source(name) == <<"source", name>>
Emulated == {Run("bitcoin_data"), Run("coinjoin_emulator_data")}
Exporters == Run("exporters")
Index == Run("blocksci-parse_data")
Baseline == Run("coinjoin-analysis_data")
Mappings == Run("coinjoin-mappings_data")
Analysis == Run("blocksci-analysis_data")
ReportDir == Run("coinjoinPipeline_data")
Persistent == <<"persistent", "index">>

Refused == [refused |-> TRUE, needs |-> {}, writes |-> {}, kept |-> {}]
Job(needs, writes, kept) == [refused |-> FALSE, needs |-> needs, writes |-> writes, kept |-> kept]

\* The baseline from the emulated blocks, or from a Dumplings scan.
coinjoin_analysis == Job({Run("coinjoin_emulator_data")}, {Baseline}, {})
dumplings_baseline == Job({<<"dumplings", "Scanner">>}, {Baseline}, {})

\* The analyzer operations work on a copy and keep the run's baseline as it is.
_analysis(c) ==
    IF c.coinjoin_analysis # None THEN Job({}, {}, {Run("coinjoin-analysis_tools")})
    ELSE IF Given(c, "dumplings_uri") THEN dumplings_baseline ELSE coinjoin_analysis

coinjoin_mappings == Job({Baseline}, {}, {Mappings})

\* The single source of a parse; None when the renderer refuses it.
_parse_source(c) ==
    LET sources == c.given \cap {"external_bitcoin_datadir", "bitcoin_blocks_uri", "external_blocksci_dir"}
    IN IF Cardinality(sources) > 1 THEN None
       ELSE IF BitcoinSource(c) /\ (c.network = None \/ ~Given(c, "max_block")) THEN None
       ELSE IF Given(c, "bitcoin_blocks_uri")
               /\ \/ c.network = "bitcoin" /\ c.expected_block_hash = None
                  \/ c.expected_block_hash = "invalid"
            THEN None
       ELSE IF sources = {} THEN "emulator" ELSE CHOOSE s \in sources : TRUE

\* A parse publishes the run's cache, or fills a persistent index from an external chain.
_parse(c) ==
    LET source == _parse_source(c)
        inputs == {Exporters} \cup (IF source = "emulator" THEN Emulated ELSE {})
    IN IF source = None \/ (c.index_dir # None /\ source \notin {"external_bitcoin_datadir", "bitcoin_blocks_uri"})
       THEN Refused
       ELSE Job(inputs, {IF c.index_dir = None THEN Index ELSE Persistent}, {})

\* An update extends a source run's cache into this run, or the persistent index in place.
_update(c) ==
    LET source == _parse_source(c)
    IN IF \/ source \notin {"external_bitcoin_datadir", "bitcoin_blocks_uri"}
          \/ c.index_dir = None /\ c.cache_source_run_id \in {None, c.run_id}
       THEN Refused
       ELSE IF c.index_dir # None THEN Job({Exporters, Persistent}, {Persistent}, {})
       ELSE Job({Exporters, Source("blocksci-parse_data")}, {Index}, {})

\* Detection, an external comparison, a script or a notebook over an index: its output is kept.
analysis_mode_settings(c) ==
    [detect |-> [inputs |-> {Exporters, Run("coinjoin_emulator_data")}, output |-> Analysis],
     external |-> [inputs |-> {Exporters, <<"external", "baseline">>}, output |-> ReportDir],
     script |-> [inputs |-> {}, output |-> Run("blocksci-custom_data")],
     notebook |-> [inputs |-> {}, output |-> Run("blocksci-notebooks")]][c.task]

blocksci_analysis(c) ==
    LET mode == analysis_mode_settings(c)
        source == c.cache_source_run_id
        index == IF c.index_dir # None THEN Persistent ELSE IF source # None THEN Source("blocksci-parse_data") ELSE Index
    IN IF \/ source # None /\ c.index_dir # None
          \/ c.task = "detect" /\ (source # None \/ c.index_dir # None)
          \/ c.task # "external" /\ Given(c, "external_false_cjtxs_uri")
          \/ source # None /\ source = c.run_id
          \/ c.task = "external" /\ ~Given(c, "external_baseline_uri")
          \/ c.task = "script" /\ c.script = None
       THEN Refused
       ELSE Job(mode.inputs \cup {index}, {}, {mode.output})

\* The combined job reports in place only when the graph has no report stage of its own.
blocksci(c) ==
    LET reportHere == ~(Given(c, "blocksci") /\ c.task = "detect")
    IN Job(Emulated \cup {Exporters} \cup (IF reportHere THEN {Baseline} ELSE {}),
           {Index, IF reportHere THEN ReportDir ELSE Analysis}, {})

_blocksci_work(c, stage) ==
    IF c.task = "backup"
    THEN IF c.index_dir = None \/ ~Given(c, "index_backup_uri") THEN Refused
         ELSE Job({Persistent}, {<<"persistent", "backup">>}, {})
    ELSE IF stage.name = "blocksci" THEN blocksci(c) ELSE blocksci_analysis(c)

unified_report(c) ==
    Job({Exporters, Run("coinjoin_emulator_data"), Baseline, Analysis}
        \cup (IF Given(c, "mappings") THEN {Mappings} ELSE {}), {ReportDir}, {})

\* The rendered job of a stage.
JobOf(c, stage) ==
    IF stage.kind = "baseline" THEN _analysis(c)
    ELSE IF stage.kind = "mappings" THEN coinjoin_mappings
    ELSE IF stage.kind = "parse" THEN _parse(c)
    ELSE IF stage.kind = "update" THEN _update(c)
    ELSE IF stage.kind = "work" THEN _blocksci_work(c, stage)
    ELSE unified_report(c)

-----------------------------------------------------------------------------
\* What the submission checks and prepares before the first job.

pbs_stages_need_exporters(c) ==
    Given(c, "blocksci") /\ (c.workflow = "combined" \/ c.task \in {"detect", "external", "parse", "update"})

\* MUTANT: only the report is taken to read the baseline.
MutCheckedInputs(c) ==
    IF c.cache_source_run_id # None THEN {Source("blocksci-parse_data")}
    ELSE IF ~Given(c, "analysis") /\ runs_unified_report(c) THEN {Baseline} ELSE {}

\* The objects the submission finds in S3 before it submits a job, or refuses.
CheckedInputs(c) ==
    LET readsBaseline == \E s \in Range(s3_full_run_plan(c)) : s.kind \in {"report", "mappings"}
    IN (IF c.cache_source_run_id # None THEN {Source("blocksci-parse_data")} ELSE {})
       \cup (IF ~Given(c, "analysis") /\ readsBaseline THEN {Baseline} ELSE {})

\* The exporters a run has when its jobs start: staged now, or by the emulation before it.
StagedInputs(c) == IF pbs_stages_need_exporters(c) \/ c.action = "full-run" THEN {Exporters} ELSE {}

-----------------------------------------------------------------------------
\* Ordering by reference: what is in every set that has `name` and, with a stage, all that depend on it.
Closed(stages, S) == \A s \in Range(stages) : s.after \cap S # {} => s.name \in S
Reached(stages, name) == {m \in Names(stages) : \A S \in SUBSET Names(stages) : name \in S /\ Closed(stages, S) => m \in S}
Downstream(stages, name) == Reached(stages, name) \ {name}

Topological(stages) == \A i \in DOMAIN stages : stages[i].after \subseteq {stages[j].name : j \in 1..(i - 1)}

Acyclic(stages) == \A s \in Range(stages) : s.after \cap (Downstream(stages, s.name) \cup {s.name}) = {}

\* A graph is ordered exactly when it has no cycle, every order it gets puts dependencies first
\* and keeps every stage, and a failure blocks exactly what depends on it (stages.py:87-142).
OrderIsTopological(stages) ==
    LET order == ordered(stages)
        known == \A s \in Range(stages) : s.after \subseteq Names(stages)
    IN /\ (order # None) = (known /\ Acyclic(stages))
       /\ order # None =>
            /\ Topological(order) /\ Range(order) = Range(stages)
            /\ \A n \in Names(stages) : dependents_of(stages, n) = Downstream(stages, n)

\* The stages an invocation submits, in the order of submission.
Order(c) == ordered(s3_full_run_plan(c))
Submitted(c) == {Order(c)[i] : i \in scheduled(s3_full_run_plan(c))}

Ancestors(stages, stage) == {s \in Range(stages) : stage.name \in Downstream(stages, s.name)}

\* What a run has before its jobs: the emulation's uploads with the exporters staged before it, an
\* external dataset, the persistent index, and the cache a cached workflow was published earlier.
World(c) ==
    (IF BitcoinSource(c) \/ Given(c, "external_blocksci_dir") \/ c.index_dir # None
        \/ (c.task = "external" /\ c.workflow = "cached")
     THEN {} ELSE Emulated \cup {Exporters})
    \cup {<<"dumplings", "Scanner">>, <<"external", "baseline">>}
    \cup (IF c.index_dir # None THEN {Persistent} ELSE {})
    \cup (IF c.workflow = "cached" /\ c.cache_source_run_id = None THEN {Index} ELSE {})

\* Every job of an accepted configuration finds its inputs: each directory its body downloads is
\* written by a job it waits for, checked or staged by the submission, or there from before
\* (s3_submission.py:293-322 with the bodies of stage_runtime.py).
JobsFindTheirInputs(c) ==
    LET plan == s3_full_run_plan(c)
    IN \A s \in Submitted(c) :
           LET made == UNION {JobOf(c, t).writes \cup JobOf(c, t).kept : t \in Ancestors(plan, s) \ {Emulation}}
           IN JobOf(c, s).needs \subseteq made \cup CheckedInputs(c) \cup StagedInputs(c) \cup World(c)

\* Jobs that may run at the same time share no directory one of them writes, and every result has
\* one job that writes it (stages.py:244-285).
JobsDoNotRace(c) ==
    LET plan == s3_full_run_plan(c)
        Out(s) == JobOf(c, s).writes \cup JobOf(c, s).kept
        Ordered(s, t) == t.name \in Downstream(plan, s.name) \/ s.name \in Downstream(plan, t.name)
    IN \A s, t \in Submitted(c) :
           s # t => /\ Out(s) \cap Out(t) = {}
                    /\ ~Ordered(s, t) => Out(s) \cap JobOf(c, t).needs = {}

\* A configuration the rules accept and a renderer refuses is refused before the first job is
\* submitted, so nothing has to be rolled back (option_rules.py:118-129, templates_s3.py:333-481).
RefusedBeforeTheFirstJob(c) ==
    LET places == scheduled(s3_full_run_plan(c))
    IN \A i, j \in places : i < j => ~JobOf(c, Order(c)[j]).refused
=============================================================================
