------------------------------- MODULE RunFolder -------------------------------
(***************************************************************************)
(* One run directory below the runs root of a host, and the commands that  *)
(* work on it: cli.main records each launch in research_manifest.json and  *)
(* takes the command's lock, `external analyze` imports a baseline and     *)
(* runs the BlockSci container, the local actions run Compose containers,  *)
(* and the catalog (`cjp runs`) reads the directory at any time.  A        *)
(* command may be killed; its container then goes on without its lock.     *)
(***************************************************************************)
EXTENDS Records

CONSTANTS Host,          \* the command slots of a host
          MaxKills       \* bound: commands killed in one behaviour

\* A manifest says how the run came to be, who imported it, and how its last launch ended.
HostManifests == [mode : {"emulator", "external"}, inputs : Host \cup {None},
                  status : {"prepared", "finished", None}]

ASSUME HostAssumption ==
    None \notin Host /\ None \notin HostManifests /\ None \notin {"prepared", "finished"} /\ MaxKills \in Nat

VARIABLES cmd,           \* the command of each slot, None when it has none
          at,            \* where the command is
          seen,          \* what it has read: the manifest, or the report inputs
          held,          \* the command locks and their holders
          folder,        \* the run directory
          killed,        \* commands whose process was killed
          overtaken,     \* assemblies whose inputs changed under another lock
          early          \* launches whose last look found no provenance

folderVars == <<cmd, at, seen, held, folder, killed, overtaken, early>>

-----------------------------------------------------------------------------
\* The files the report is derived from; a version is the slot that wrote the file, 0 before all.
REPORT_INPUT_FILES == {"scenario", "baseline", "sidecars", "artifact"}
NoFiles == [f \in REPORT_INPUT_FILES |-> None]
NoFolder == [dir |-> FALSE, emulator |-> FALSE, config |-> FALSE, files |-> NoFiles, mode |-> None,
             manifest |-> None, report |-> None, markdown |-> FALSE]
EmulatedRun == [NoFolder EXCEPT !.dir = TRUE, !.emulator = TRUE, !.files["scenario"] = 0,
                                !.manifest = [mode |-> "emulator", inputs |-> None, status |-> "finished"]]

\* What each action runs, in order, once it holds its lock; Compose containers have fixed names.
MutImport == <<"mkdir", "baseline", "manifest", "sidecars">>
Import == <<"mkdir", "baseline", "sidecars", "manifest">>
Assembly == <<"read", "analysis", "hash", "write", "markdown">>
_emulate == <<"emulate">>
run_coinjoin_analysis == <<"find", "collect">>
AnalysisScript == <<"find", "up", "collect", "parse", "artifact">> \o Assembly
run_export_only == <<"find", "preflight">> \o Assembly
external_command == <<"parse", "artifact">> \o Assembly
Flow(c) ==
    CASE c.action = "emulate" -> _emulate
      [] c.action = "coinjoin-analysis" -> run_coinjoin_analysis
      [] c.action = "analyze" -> AnalysisScript
      [] c.action = "export" -> run_export_only
      [] c.action = "external" -> (IF c.resume THEN << >> ELSE Import) \o external_command
InContainer == {"collect", "parse", "artifact", "emulate"} \cup {Assembly[i] : i \in DOMAIN Assembly}
Compose(c) == c.action \in {"analyze", "coinjoin-analysis"}

\* Whether the launch is recorded in the manifest of the run.
start_host_manifest(c) == c.action # "external" /\ (c.run_dir \/ c.action = "emulate")

\* The lock of a command: the run's own with --run-dir, the runs root's without.
command_lock_path(c) ==
    IF c.action = "external" THEN "import"
    ELSE IF c.other THEN "other"
    ELSE IF c.run_dir THEN "research" ELSE "pipeline"

-----------------------------------------------------------------------------
\* The catalog.
load_manifest(d) == d.manifest

mode_for_run(d) ==
    IF load_manifest(d) # None THEN d.manifest.mode
    ELSE IF d.emulator THEN "emulator" ELSE "unknown"

is_run_dir(d) == d.dir /\ (d.manifest # None \/ d.emulator \/ d.config)

MutStale(d) == \E f \in REPORT_INPUT_FILES : d.files[f] # None /\ d.report.recorded[f] = None

\* An input that is missing is no evidence of change; a new or rewritten one is.
_report_is_stale(d) == \E f \in REPORT_INPUT_FILES : d.files[f] # None /\ d.files[f] # d.report.recorded[f]

report_status(d) ==
    IF d.report = None THEN "missing"
    ELSE IF d.report.torn THEN "invalid"
    ELSE IF _report_is_stale(d) THEN "stale"
    ELSE d.report.verdict

stage_state(d) ==
    LET present(x) == IF x THEN "present" ELSE "missing"
        status == report_status(d)
        dated(x) == IF x = "present" /\ status = "stale" THEN "stale" ELSE x
    IN [emulation |-> present(d.emulator), baseline |-> present(d.files["baseline"] # None),
        blocksci |-> present(d.config), report |-> dated(present(status # "missing")),
        markdown |-> dated(present(d.markdown))]

\* The exit code of `cjp runs validate`, when the container it runs succeeds.
validate_existing_run(d) ==
    IF ~d.dir THEN 3
    ELSE IF mode_for_run(d) # "emulator" THEN 2
    ELSE IF \E s \in {"emulation", "baseline", "blocksci", "report"} : stage_state(d)[s] = "missing" THEN 3
    ELSE IF report_status(d) # "complete" THEN 4 ELSE 0

-----------------------------------------------------------------------------
\* --resume and --dry-run are options of an import here; --run-dir names an existing run, this one
\* or another, whose analysis still removes the Compose containers of this one.
Invocations ==
    {c \in [action : {"emulate", "coinjoin-analysis", "analyze", "export", "external"},
            resume : BOOLEAN, dry_run : BOOLEAN, run_dir : BOOLEAN, other : BOOLEAN] :
        /\ c.resume \/ c.dry_run => c.action = "external"
        /\ c.run_dir => c.action \in {"analyze", "coinjoin-analysis", "export"}
        /\ c.other => c.action = "analyze" /\ c.run_dir}
Assignments == [Host -> Invocations \cup {None}]

StartLabel(c) == IF c = None THEN "off" ELSE IF c.action = "external" THEN "inputs" ELSE "launch"
FolderBegins(cast, found) ==
    /\ cmd = cast /\ at = [p \in Host |-> StartLabel(cast[p])] /\ seen = [p \in Host |-> None]
    /\ held = [l \in {"import", "other", "research", "pipeline"} |-> None]
    /\ folder = found /\ killed = {} /\ overtaken = {} /\ early = {}
IdleFolder == FolderBegins([p \in Host |-> None], NoFolder)
FolderInit == \E cast \in Assignments, found \in {NoFolder, EmulatedRun} : FolderBegins(cast, found)

Go(p, where) == at' = [at EXCEPT ![p] = where]
Release(p) == held' = [l \in DOMAIN held |-> IF held[l] = p THEN None ELSE held[l]]

\* The next step of a command; close_locks runs before main records the end.
After(p) ==
    LET flow == Flow(cmd[p])
        i == CHOOSE i \in DOMAIN flow : flow[i] = at[p]
    IN IF i < Len(flow) THEN flow[i + 1] ELSE "over"
Leaves(p) == IF p \in killed THEN "dead" ELSE IF start_host_manifest(cmd[p]) THEN "ending" ELSE "done"
MutContinue(p) == Go(p, After(p)) /\ UNCHANGED held
Continue(p) ==
    IF After(p) = "over" THEN Go(p, Leaves(p)) /\ Release(p) ELSE Go(p, After(p)) /\ UNCHANGED held
Stops(p) == Go(p, Leaves(p)) /\ Release(p)

HasProvenance(m) == m # None /\ m.inputs # None

\* What store_host_manifest makes of the manifest it read.
MutStored(existing, status) == [mode |-> "emulator", inputs |-> None, status |-> status]
Stored(existing, status) ==
    IF existing = None THEN [mode |-> "emulator", inputs |-> None, status |-> status]
    ELSE [existing EXCEPT !.status = status]

\* The launches that have nothing to merge their record into, once p has looked.
Look(p) == IF HasProvenance(folder.manifest) THEN early \ {p} ELSE early \cup {p}

\* main checks the options: --run-dir names a directory; then it reads the manifest to extend it.
Launch(p) ==
    /\ at[p] = "launch"
    /\ IF cmd[p].run_dir /\ ~cmd[p].other /\ ~folder.dir
       THEN Go(p, "done") /\ UNCHANGED <<seen, early>>
       ELSE IF ~start_host_manifest(cmd[p]) \/ cmd[p].other THEN Go(p, "lock") /\ UNCHANGED <<seen, early>>
       ELSE /\ seen' = [seen EXCEPT ![p] = load_manifest(folder)]
            /\ early' = Look(p)
            /\ Go(p, "record")
    /\ UNCHANGED <<cmd, held, folder, killed, overtaken>>

\* The atomic write of the manifest at the launch, and again at the end.
Record(p) ==
    /\ at[p] \in {"record", "recorded"}
    /\ folder' = [folder EXCEPT !.dir = TRUE,
                                !.manifest = Stored(seen[p], IF at[p] = "record" THEN "prepared" ELSE "finished")]
    /\ Go(p, IF at[p] = "record" THEN "lock" ELSE "done")
    /\ UNCHANGED <<cmd, seen, held, killed, overtaken, early>>

\* main's finally block reads the manifest again, whatever ended the command.
Ending(p) ==
    /\ at[p] = "ending"
    /\ IF cmd[p].other THEN Go(p, "done") /\ UNCHANGED <<seen, early>>
       ELSE /\ seen' = [seen EXCEPT ![p] = load_manifest(folder)]
            /\ early' = Look(p)
            /\ Go(p, "recorded")
    /\ UNCHANGED <<cmd, held, folder, killed, overtaken>>

\* A new run has no directory yet; a resumed one has the provenance and the baseline of its import.
InputsGiven(c, d) ==
    IF c.resume THEN d.dir /\ HasProvenance(load_manifest(d)) /\ d.files["baseline"] # None
    ELSE ~d.dir

\* external analyze checks its inputs, and ends there on a dry run.
external_inputs(p) ==
    /\ at[p] = "inputs"
    /\ Go(p, IF InputsGiven(cmd[p], folder) /\ ~cmd[p].dry_run THEN "lock" ELSE "done")
    /\ UNCHANGED <<cmd, seen, held, folder, killed, overtaken, early>>

MutAcquireLock(p) ==
    /\ at[p] = "lock"
    /\ LET l == command_lock_path(cmd[p])
       IN IF held[l] = None
          THEN Go(p, Head(Flow(cmd[p]))) /\ held' = [held EXCEPT ![l] = p]
          ELSE Go(p, "done") /\ UNCHANGED held
    /\ UNCHANGED <<cmd, seen, folder, killed, overtaken, early>>

\* The command's lock, not waited for; a refused command still records its end.
AcquireCommandLock(p) ==
    /\ at[p] = "lock"
    /\ LET l == command_lock_path(cmd[p])
       IN IF held[l] = None
          THEN Go(p, Head(Flow(cmd[p]))) /\ held' = [held EXCEPT ![l] = p]
          ELSE Stops(p)
    /\ UNCHANGED <<cmd, seen, folder, killed, overtaken, early>>

\* Assemblies of other slots that have read some inputs and not yet hashed them.
Overtaken(p) ==
    {q \in Host \ {p} : /\ at[q] \in {"analysis", "hash"}
                        /\ \/ command_lock_path(cmd[q]) # command_lock_path(cmd[p])
                           \/ {p, q} \cap killed # {}}

create_external_manifest(p) == [mode |-> "external", inputs |-> p, status |-> None]

\* The directory is made under the lock, and must be new; each copy and the manifest follow.
external_analyze(p) ==
    /\ at[p] \in {"mkdir", "baseline", "sidecars", "manifest"}
    /\ IF (at[p] = "mkdir" /\ folder.dir) \/ (at[p] = "manifest" /\ folder.manifest # None)
       THEN Stops(p) /\ UNCHANGED folder
       ELSE /\ folder' = CASE at[p] = "mkdir" -> [folder EXCEPT !.dir = TRUE]
                           [] at[p] = "manifest" -> [folder EXCEPT !.manifest = create_external_manifest(p)]
                           [] OTHER -> [folder EXCEPT !.files[at[p]] = p]
            /\ Continue(p)
    /\ overtaken' = IF at[p] \in REPORT_INPUT_FILES THEN overtaken \cup Overtaken(p) ELSE overtaken
    /\ UNCHANGED <<cmd, seen, killed, early>>

\* --run-dir, or the newest run the emulator has finished.
resolve_run_id(c) == c.run_dir \/ folder.files["scenario"] # None
\* Export needs both analyses' results.
export_preflight_error(d) == d.files["baseline"] = None \/ d.files["artifact"] = None

Find(p) ==
    /\ at[p] \in {"find", "preflight"}
    /\ IF (IF at[p] = "find" THEN resolve_run_id(cmd[p]) ELSE ~export_preflight_error(folder))
       THEN Continue(p) ELSE Stops(p)
    /\ UNCHANGED <<cmd, seen, folder, killed, overtaken, early>>

\* analysis.sh removes the containers of the Compose project, whoever started them.
ComposeUp(p) ==
    /\ at[p] = "up"
    /\ at' = [q \in Host |-> IF q = p THEN IF cmd[p].other THEN Leaves(p) ELSE After(p)
                             ELSE IF cmd[q] # None /\ Compose(cmd[q]) /\ at[q] \in InContainer THEN Leaves(q)
                             ELSE at[q]]
    /\ held' = [l \in DOMAIN held |->
                   IF held[l] # None /\ ((held[l] = p /\ cmd[p].other)
                                         \/ (held[l] # p /\ Compose(cmd[held[l]]) /\ at[held[l]] \in InContainer))
                   THEN None ELSE held[l]]
    /\ UNCHANGED <<cmd, seen, folder, killed, overtaken, early>>

\* A container writes its result over the former one.
Produce(p) ==
    /\ at[p] \in {"emulate", "collect", "parse", "artifact"}
    /\ folder' = CASE at[p] = "emulate" -> [folder EXCEPT !.emulator = TRUE, !.files["scenario"] = p]
                   [] at[p] = "collect" -> [folder EXCEPT !.files["baseline"] = p]
                   [] at[p] = "parse" -> [folder EXCEPT !.config = TRUE]
                   [] at[p] = "artifact" ->
                          [folder EXCEPT !.files["artifact"] = p,
                                         !.mode = IF cmd[p].action = "external" THEN "external" ELSE "emulator"]
    /\ overtaken' = IF at[p] = "parse" THEN overtaken ELSE overtaken \cup Overtaken(p)
    /\ Continue(p)
    /\ UNCHANGED <<cmd, seen, killed, early>>

\* assemble_report reads the baseline and the sidecars, later the artifact and the scenario, ...
assemble_reads(p) ==
    /\ at[p] \in {"read", "analysis"}
    /\ IF at[p] = "read"
       THEN /\ seen' = [seen EXCEPT ![p] = [NoFiles EXCEPT !["baseline"] = folder.files["baseline"],
                                                           !["sidecars"] = folder.files["sidecars"]]]
            /\ overtaken' = overtaken \ {p}
            /\ IF folder.files["baseline"] # None THEN Continue(p) ELSE Stops(p)
       ELSE /\ seen' = [seen EXCEPT ![p]["artifact"] = folder.files["artifact"],
                                    ![p]["scenario"] = folder.files["scenario"]]
            /\ IF folder.mode = (IF cmd[p].action = "external" THEN "external" ELSE "emulator")
               THEN Continue(p) ELSE Stops(p)
            /\ UNCHANGED overtaken
    /\ UNCHANGED <<cmd, folder, killed, early>>

Verdicts(c) == IF c.action = "external" THEN {"baseline_agreement_only"} ELSE {"complete", "diagnostics_not_ok"}

\* ... hashes the inputs present, and writes the report in place, then its Markdown; two writers of
\* one report may leave a mixture of both.
assemble_writes(p) ==
    /\ at[p] \in {"hash", "write", "markdown"}
    /\ \/ /\ at[p] = "hash"
          /\ \E v \in Verdicts(cmd[p]) :
                 seen' = [seen EXCEPT ![p] = [read |-> seen[p], recorded |-> folder.files, verdict |-> v,
                                              overtaken |-> p \in overtaken, torn |-> FALSE]]
          /\ folder' = [folder EXCEPT !.report = [torn |-> TRUE]]
       \/ /\ at[p] = "write"
          /\ \/ folder' = [folder EXCEPT !.report = seen[p]]
             \/ /\ \E q \in Host \ {p} : at[q] = "write"
                /\ folder' = [folder EXCEPT !.report = [torn |-> TRUE]]
          /\ UNCHANGED seen
       \/ at[p] = "markdown" /\ folder' = [folder EXCEPT !.markdown = TRUE] /\ UNCHANGED seen
    /\ Continue(p)
    /\ UNCHANGED <<cmd, killed, overtaken, early>>

\* A container or a copy fails; a terminated command stops the Compose containers, whoever started them.
Fails(p) ==
    /\ at[p] \in InContainer \cup {"baseline", "sidecars"}
    /\ Stops(p)
    /\ UNCHANGED <<cmd, seen, folder, killed, overtaken, early>>

\* SIGKILL of the command: the kernel drops its lock, the container daemon keeps its container.
Killed(p) ==
    /\ Cardinality(killed) < MaxKills
    /\ p \notin killed
    /\ at[p] \notin {"off", "done", "dead"}
    /\ killed' = killed \cup {p}
    /\ IF at[p] \in InContainer THEN UNCHANGED at ELSE Go(p, "dead")
    /\ Release(p)
    /\ UNCHANGED <<cmd, seen, folder, overtaken, early>>

FolderStep(p) ==
    \/ Launch(p)
    \/ Record(p)
    \/ Ending(p)
    \/ external_inputs(p)
    \/ AcquireCommandLock(p)
    \/ external_analyze(p)
    \/ Find(p)
    \/ ComposeUp(p)
    \/ Produce(p)
    \/ assemble_reads(p)
    \/ assemble_writes(p)
    \/ Fails(p)
    \/ Killed(p)
FolderNext == \E p \in Host : FolderStep(p)

FolderSpec == FolderInit /\ [][FolderNext]_folderVars

-----------------------------------------------------------------------------
Steps == {"off", "launch", "record", "lock", "inputs", "find", "preflight", "up", "ending", "recorded", "done", "dead"}
             \cup {Import[i] : i \in DOMAIN Import} \cup InContainer

\* The state of the run directory and of the commands on it is of its kind.
FolderTypeOK ==
    /\ at \in [Host -> Steps]
    /\ \A l \in DOMAIN held : held[l] \in Host \cup {None} /\ (held[l] # None => command_lock_path(cmd[held[l]]) = l)
    /\ folder.files \in [REPORT_INPUT_FILES -> Host \cup {0, None}]
    /\ killed \cup overtaken \cup early \subseteq Host

\* An import that has a manifest is whole and of one invocation: research.py:209-246 makes the
\* directory under the lock and writes the manifest last, so that what a resumed run finds are the
\* sidecars and the baseline the manifest names, unless a local analysis rewrote the baseline.
ImportIsWhole ==
    HasProvenance(folder.manifest) =>
        /\ folder.files["sidecars"] = folder.manifest.inputs
        /\ \/ folder.files["baseline"] = folder.manifest.inputs
           \/ Compose(cmd[folder.files["baseline"]])

\* `cjp runs validate` accepts no report whose inputs are others than the ones present: a rewritten
\* or new input makes it stale (run_catalog.py:80-114), and the lock keeps inputs from changing
\* while a report is assembled; commands under another lock, and containers of killed commands,
\* are not kept out (locks.py:66-76).
ValidIsCurrent ==
    validate_existing_run(folder) = 0 =>
        \/ folder.report.overtaken
        \/ \A f \in REPORT_INPUT_FILES : folder.files[f] # None => folder.report.read[f] = folder.files[f]

\* Once no command runs and none was killed, the manifest does not call a launch prepared: main
\* records the end of every launch, refused ones too (cli.py:190-234), also when launches overlap.
NoneLeftPrepared ==
    (\A p \in Host : at[p] \in {"off", "done"}) /\ folder.manifest # None => folder.manifest.status # "prepared"

\* No launch loses the provenance of an import, which `external analyze --resume` needs: each merges
\* its record into the manifest it read (runs.py:54-68); only one that found no provenance can,
\* because it looked before the import wrote its manifest, or after such a launch overwrote it.
KeepsProvenance ==
    HasProvenance(folder.manifest) =>
        \/ folder'.manifest.inputs = folder.manifest.inputs
        \/ \E p \in early : at[p] \in {"record", "recorded"} /\ at'[p] # at[p]

ProvenanceKept == [][KeepsProvenance]_folderVars

\* Commands that overlap on a run directory leave whole imports, valid reports that are current and
\* launches with an end.
FolderHolds == FolderTypeOK /\ ImportIsWhole /\ ValidIsCurrent /\ NoneLeftPrepared
=============================================================================
