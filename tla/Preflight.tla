----------------------------- MODULE Preflight ------------------------------
(***************************************************************************)
(* What a configuration is resolved to, what the host is checked for       *)
(* before anything runs, and what the dispatched action then uses          *)
(* (context.py, doctor.py, execution/orchestrator.py, execution/local.py,  *)
(* execution/kubernetes_launch.py).                                        *)
(*                                                                         *)
(* A host is [tools, daemon, local, registry, kubeconfig, run_dirs,        *)
(* blocks, writable, copies]: the commands on its path ("runtime" is       *)
(* docker or podman), whether the runtime answers, the component images it *)
(* has and can pull, the run directories below the runs root, the datadirs *)
(* that hold regtest/blocks, and whether the container that copies a       *)
(* chain into the BlockSci volume will succeed, which no check foresees.   *)
(* Scenario files are left out.                                            *)
(***************************************************************************)
EXTENDS StagePlan

StageSwitches == {"analysis", "blocksci", "mappings"}
Queue == {"qsub", "qstat", "qdel"}
Fresh == {"full-run", "emulate"}

Configured(c, stage) ==
    CASE stage = "analysis" -> c.given \cap {"analysis_resources", "analysis_multijob"} # {}
      [] stage = "blocksci" -> Given(c, "blocksci_resources") \/ c.multijob # None
      [] stage = "mappings" -> c.given \cap {"mappings_resources", "mappings_multijob"} # {}

\* The effective configuration, or None when a rule refuses it: settings of a PBS stage imply the
\* stage unless the user switched it explicitly.
resolve_configuration(c, provided) ==
    LET implied == {s \in StageSwitches : Configured(c, s) /\ s \notin provided}
        joinmarket == c.engine = "joinmarket" /\ "coinjoin_type" \notin provided
        resolved == [c EXCEPT !.given = @ \cup implied,
                              !.backend = IF c.action = "pbs-from-s3" THEN "s3" ELSE @,
                              !.coinjoin_type = IF joinmarket THEN "joinmarket" ELSE @,
                              !.run_id = IF c.action \in Fresh /\ @ = None THEN "generated" ELSE @]
    IN IF validate(resolved) THEN resolved ELSE None

-----------------------------------------------------------------------------
\* MUTANT: an emulation whose analyzers run on PBS is taken to need no container runtime.
MutRequiredCapabilities(c) ==
    LET s3 == c.backend = "s3"
        pbs == c.given \cap StageSwitches # {} \/ c.action = "pbs-from-s3"
    IN (IF c.driver = "kubernetes" THEN {"kubectl"} ELSE {})
       \cup (IF pbs \/ (s3 /\ c.action = "full-run") THEN Queue ELSE {})
       \cup (IF s3 THEN {"s5cmd"} ELSE {})
       \cup (IF s3 \/ pbs THEN {} ELSE {"runtime"})

required_capabilities(c) ==
    LET s3 == c.backend = "s3"
        pbs == c.given \cap StageSwitches # {} \/ c.action = "pbs-from-s3"
        delegated == s3 \/ (pbs /\ c.action \notin Fresh)
    IN (IF c.driver = "kubernetes" THEN {"kubectl"} ELSE {})
       \cup (IF pbs \/ (s3 /\ c.action = "full-run") THEN Queue ELSE {})
       \cup (IF s3 THEN {"s5cmd"} ELSE {})
       \cup (IF delegated THEN {} ELSE {"runtime"})

\* The component images of the action that no PBS stage brings itself.
required_image_components(c) ==
    LET of == [analysis |-> {"coinjoin_analysis"}, blocksci |-> {"blocksci"}, mappings |-> {"mappings", "sake"}]
        delegated == UNION {of[s] : s \in c.given \cap StageSwitches}
        selected == CASE c.action = "external analyze" -> {"blocksci"}
                      [] c.action = "emulate" -> {"emulator"}
                      [] c.action = "coinjoin-analysis" -> {"coinjoin_analysis"}
                      [] c.action = "analyze" -> {"blocksci", "coinjoin_analysis"}
                      [] c.action = "export" -> {}
                      [] c.action = "mappings" -> {"mappings", "sake"}
                      [] OTHER -> {"emulator", "coinjoin_analysis", "blocksci"}
    IN IF \/ c.backend = "s3" \/ c.action = "clean"
          \/ delegated # {} /\ c.action \notin Fresh
       THEN {} ELSE selected \ delegated

_image_errors(host, selected) == {image \in selected : image \notin host.local \cup host.registry}

check(host, c) ==
    LET required == required_capabilities(c)
        runtime == "runtime" \in required
    IN (required \ host.tools)
       \cup (IF runtime /\ "runtime" \in host.tools /\ ~host.daemon THEN {"daemon"} ELSE {})
       \cup (IF host.writable THEN {} ELSE {"output"})
       \cup (IF runtime /\ "runtime" \in host.tools THEN _image_errors(host, required_image_components(c)) ELSE {})

\* MUTANT: any Kubernetes emulation is taken to fill the datadir of the BlockSci job.
MutValidateArguments(host, c) ==
    (IF c.driver = "kubernetes" /\ ~host.kubeconfig THEN {"kubeconfig"} ELSE {})
    \cup (IF /\ Given(c, "blocksci") /\ c.pbs_bitcoin_datadir # None
             /\ ~(c.driver = "kubernetes" /\ c.action \in Fresh)
             /\ c.pbs_bitcoin_datadir \notin host.blocks
          THEN {"blocks"} ELSE {})
    \cup (IF Given(c, "run_dir") /\ host.run_dirs = {} THEN {"run_dir"} ELSE {})

\* The inputs the host must show: a datadir may be empty only when the emulation is going to fill it.
validate_arguments(host, c) ==
    LET filled == c.driver = "kubernetes" /\ c.action \in Fresh /\ ~Given(c, "copy_to_host")
    IN (IF c.driver = "kubernetes" /\ ~host.kubeconfig THEN {"kubeconfig"} ELSE {})
       \cup (IF /\ Given(c, "blocksci") /\ c.pbs_bitcoin_datadir # None
                /\ ~filled /\ c.pbs_bitcoin_datadir \notin host.blocks
             THEN {"blocks"} ELSE {})
       \cup (IF Given(c, "run_dir") /\ host.run_dirs = {} THEN {"run_dir"} ELSE {})

preflight_errors(host, c) == validate_arguments(host, c) \cup check(host, c)

-----------------------------------------------------------------------------
\* What the dispatched action uses: [tools, images].

Use(tools, images) == [tools |-> tools, images |-> images]
Both(uses) == Use(UNION {u.tools : u \in uses}, UNION {u.images : u \in uses})
Docker(images) == Use({"runtime"}, images)
Submits == Use({"qsub", "qdel"}, {})

run_kubernetes_emulation == Both({Use({"kubectl"}, {}), Docker({"emulator"})})

EmulationUses(c) == IF c.driver = "kubernetes" THEN run_kubernetes_emulation ELSE Docker({"emulator"})

\* A stage of the local analysis: a PBS job, or a container of its own image.
LocalStage(stage) ==
    IF stage.runner = "pbs" THEN Submits
    ELSE Docker(CASE stage.kind = "baseline" -> {"coinjoin_analysis"}
                  [] stage.kind = "work" -> {"blocksci"}
                  [] stage.kind = "report" -> {})

LocalPlan(c) == analysis_plan(Given(c, "analysis"), Given(c, "blocksci"), Given(c, "mappings"))

LocalUses(c) ==
    CASE c.action = "clean" -> Docker({})
      [] c.action = "emulate" -> EmulationUses(c)
      [] c.action = "full-run" -> Both({Docker({}), EmulationUses(c)} \cup {LocalStage(s) : s \in Range(LocalPlan(c))})
      [] c.action = "mappings" -> Submits
      [] c.action = "analyze" -> IF Given(c, "blocksci") THEN Submits ELSE Docker({"blocksci", "coinjoin_analysis"})
      [] c.action = "export" -> Docker({})
      [] c.action = "coinjoin-analysis" ->
            IF c.coinjoin_analysis = None /\ Given(c, "analysis") THEN Submits ELSE Docker({"coinjoin_analysis"})

\* A dry run of a PBS or S3 path renders, of another path only prints: neither uses the host.
_print_dry_run(c) == ~Given(c, "dry_run")

run_configuration(c) ==
    LET s3 == c.backend = "s3"
        emulates == Use({"kubectl", "s5cmd"}, {})
        pbs == Use(Queue \cup {"s5cmd"}, {})
    IN IF ~_print_dry_run(c) THEN Use({}, {})
       ELSE CASE c.action = "external analyze" -> Docker({"blocksci"})
              [] c.action = "pbs-from-s3" -> pbs
              [] c.action = "emulate" /\ s3 -> emulates
              [] c.action = "full-run" /\ s3 -> IF Submitted(c) = {} THEN emulates ELSE Both({emulates, pbs})
              [] OTHER -> LocalUses(c)

\* Where the chain of an emulation on Kubernetes is written.
Target(c) ==
    IF Given(c, "copy_to_host") THEN "copied"
    ELSE IF c.btc_datadir # None THEN c.btc_datadir
    ELSE IF c.action = "full-run" /\ c.pbs_bitcoin_datadir # None THEN c.pbs_bitcoin_datadir
    ELSE "copied"

\* MUTANT: no full run copies the chain, as if BlockSci always ran on PBS.
MutEmulatedChain(host, c) ==
    IF c.driver # "kubernetes" THEN {"volume"}
    ELSE {Target(c)} \cup {v \in {"volume"} : c.action # "full-run" /\ host.copies}
\* The places that hold the chain once the local emulation has ended.  One written to a directory is
\* copied to the volume of the local BlockSci unless BlockSci runs on PBS; a copy that fails is a
\* warning, and what follows runs without it.
EmulatedChain(host, c) ==
    IF c.driver # "kubernetes" THEN {"volume"}
    ELSE {Target(c)} \cup {v \in {"volume"} : ~(c.action = "full-run" /\ Given(c, "blocksci")) /\ host.copies}

-----------------------------------------------------------------------------
Accepted(host, c) == Given(c, "dry_run") \/ preflight_errors(host, c) = {}

\* A local action has the backend of a local action: with the S3 backend the check takes it for a
\* delegated one.
LocalOrS3(c) == c.backend = "s3" => c.action \in Fresh \cup {"pbs-from-s3"}

\* A host that passes the check has what the action it dispatches uses: the commands, a runtime that
\* answers, the images (doctor.py:28-69 with orchestrator.py:61-104 and local.py:62-112).
HostHasWhatRuns(host, c) ==
    LET used == run_configuration(c)
    IN Accepted(host, c) /\ LocalOrS3(c) =>
       /\ used.tools \subseteq host.tools
       /\ "runtime" \in used.tools => host.daemon
       /\ "kubectl" \in used.tools => host.kubeconfig
       /\ used.images \subseteq host.local \cup host.registry

\* The PBS job finds a datadir that was seen to hold blocks or that the emulation filled, and the
\* local BlockSci of a full run the chain of its own emulation (doctor.py:84-91 with
\* option_rules.py:156-158, local.py:27-31 and kubernetes_launch.py:137-225).  The one exception is a
\* copy from Kubernetes that failed: it is only a warning, and the full run goes on with the volume as
\* it is, although nothing found a chain there.
CopyFailed(host, c) == c.driver = "kubernetes" /\ ~host.copies
BlockSciFindsAChain(host, c) ==
    Accepted(host, c) /\ ~Given(c, "dry_run") /\ c.backend # "s3" /\ c.action \in {"full-run", "analyze"} =>
        IF Given(c, "blocksci")
        THEN \/ c.pbs_bitcoin_datadir = None
             \/ c.pbs_bitcoin_datadir \in host.blocks
             \/ c.action = "full-run" /\ c.pbs_bitcoin_datadir \in EmulatedChain(host, c)
        ELSE c.action = "full-run" => "volume" \in EmulatedChain(host, c) \/ CopyFailed(host, c)
=============================================================================
