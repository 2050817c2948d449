----------------------------- MODULE RunOptions -----------------------------
(***************************************************************************)
(* The configuration of a pipeline invocation and the rules it has to meet *)
(* before anything runs (configuration.py, option_rules.py, the operation  *)
(* rules of execution/coinjoin_tools.py).                                  *)
(*                                                                         *)
(* A configuration has a field for every option whose value a rule reads,  *)
(* and `given`: the options set to a value that is not null or false.  A   *)
(* rule is a named condition; an error is the name of a rule that is met.  *)
(***************************************************************************)
EXTENDS CoinjoinTools, TLC

Violated(rules) == Conditions(rules)

Actions == {"full-run", "emulate", "analyze", "export", "coinjoin-analysis", "mappings", "pbs-from-s3",
            "clean", "external analyze"}
Tasks == {"detect", "parse", "update", "script", "notebook", "external", "backup"}
Workflows == {"combined", "reusable", "cached"}

\* The options without a default other than null or false, as far as a rule reads whether they are set.
Switches == {"run_dir", "all_runs", "dry_run", "yes", "parallel", "analysis", "blocksci", "mappings",
             "notebooks_dir", "analysis_action", "external_bitcoin_datadir", "bitcoin_blocks_uri",
             "external_blocksci_dir", "external_baseline_uri", "external_false_cjtxs_uri", "max_block",
             "index_backup_uri", "index_state_uri", "index_in_scratch", "restore_index",
             "blocksci.dumplings_uri", "dumplings_dir", "storage_report_uri", "dumplings_uri",
             "kubeconfig", "namespace", "reuse_namespace", "copy_to_host",
             "artifact_uri", "endpoint_url", "secret_name", "credentials_file", "profile",
             "analysis_resources", "blocksci_resources", "mappings_resources", "unified_report_resources",
             "analysis_multijob", "mappings_multijob", "unified_report_multijob",
             "external.bitcoin_datadir", "external.baseline", "external.resume", "mainnet"}

\* The defaults of the options with a value.
Defaults == [action |-> "full-run", backend |-> "shared-storage", driver |-> "docker", engine |-> "wasabi",
             coinjoin_type |-> "wasabi2", run_id |-> None, cache_source_run_id |-> None,
             workflow |-> "combined", task |-> "detect", network |-> None, expected_block_hash |-> None,
             index_dir |-> None, multijob |-> None, script |-> None, notebook_port |-> None,
             btc_datadir |-> None, pbs_bitcoin_datadir |-> None, coinjoin_analysis |-> None,
             pin_height |-> None, scan_start_height |-> None, scan_end_height |-> None]

\* The least value of a numeric option; the others start at 0.
Minimum(option) == IF option = "scan_end_height" THEN 1 ELSE 0

\* The configuration of a mapping that sets `values` and `given`; unknown keys and numbers below
\* their minimum are refused.
from_mapping(values, given) ==
    IF /\ DOMAIN values \subseteq DOMAIN Defaults /\ given \subseteq Switches
       /\ \A option \in DOMAIN values \cap {"pin_height", "scan_start_height", "scan_end_height"} :
              values[option] = None \/ values[option] >= Minimum(option)
    THEN values @@ Defaults @@ [given |-> given] ELSE None

Given(c, option) == option \in c.given

ReadOnlyCacheTasks == {"script", "external", "notebook"}

blocksci_alone(c) == Given(c, "blocksci") /\ ~Given(c, "analysis")

BitcoinSource(c) == Given(c, "external_bitcoin_datadir") \/ Given(c, "bitcoin_blocks_uri")

\* The report joins detection with a baseline, of this invocation or of the run it resumes.
runs_unified_report(c) ==
    Given(c, "blocksci") /\ c.task = "detect" /\ (Given(c, "analysis") \/ c.action # "full-run")

-----------------------------------------------------------------------------
\* An index directory is on shared storage, on the multijob scratch of a location, or elsewhere.
Locations == {"brno", "plzen", "global"}

\* MUTANT: detection may name a persistent index too.
MutPersistentIndexErrors(c) ==
    IF c.index_dir = None /\ c.task = "backup" THEN {"backup_without_index"} ELSE {}

_persistent_index_errors(c) ==
    LET backup == Given(c, "index_backup_uri")
        stage == [multijob_of_another_stage |->
                      c.given \cap {"analysis_multijob", "mappings_multijob", "unified_report_multijob"} # {},
                  state_prefix |-> /\ Given(c, "index_state_uri")
                                   /\ c.index_dir = None \/ c.task \notin {"parse", "update", "backup"}]
        without == [backup_uri_without_index |-> backup, multijob_without_index |-> c.multijob # None,
                    backup_without_index |-> c.task = "backup"]
        with == [index_task |-> c.task = "detect",
                 one_index_source |-> c.cache_source_run_id # None,
                 parse_source |-> c.task = "parse" /\ ~BitcoinSource(c),
                 index_root |-> c.index_dir \notin Locations \cup {"storage"},
                 index_location |-> c.index_dir \in Locations /\ c.multijob # c.index_dir,
                 multijob_elsewhere |-> c.index_dir = "storage" /\ c.multijob # None,
                 backup_target |-> c.task = "backup" /\ ~backup,
                 in_scratch |-> Given(c, "index_in_scratch") /\ (~backup \/ c.task \notin ReadOnlyCacheTasks),
                 restore |-> /\ Given(c, "restore_index")
                             /\ ~backup \/ c.task # "notebook" \/ Given(c, "index_in_scratch"),
                 storage_report |-> Given(c, "storage_report_uri") /\ ~Given(c, "restore_index"),
                 dumplings_copy |-> /\ Given(c, "blocksci.dumplings_uri")
                                    /\ c.given \cap {"index_in_scratch", "restore_index"} = {},
                 dumplings_in_place |-> /\ Given(c, "dumplings_dir")
                                        /\ \/ c.task # "notebook"
                                           \/ c.given \cap {"index_in_scratch", "restore_index"} # {}]
    IN Violated(stage) \cup (IF c.index_dir = None THEN Violated(without) ELSE Violated(with))

_run_selection_errors(c) ==
    Violated([run_dir_and_all_runs |-> {"run_dir", "all_runs"} \subseteq c.given,
              no_run_selected |-> /\ c.action \in {"analyze", "export", "coinjoin-analysis", "mappings"}
                                  /\ c.given \cap {"run_dir", "all_runs"} = {},
              clean_unconfirmed |-> c.action = "clean" /\ c.given \cap {"dry_run", "yes"} = {},
              invalid_run_id |-> "invalid" \in {c.run_id, c.cache_source_run_id}])

_driver_errors(c) ==
    Violated([kubernetes_option |-> /\ c.driver # "kubernetes"
                                    /\ c.given \cap {"kubeconfig", "namespace", "reuse_namespace", "copy_to_host"} # {}])

_pbs_stage_errors(c) ==
    LET permitted == [analysis |-> {"full-run", "coinjoin-analysis", "pbs-from-s3"},
                      blocksci |-> {"full-run", "analyze", "pbs-from-s3"},
                      mappings |-> {"full-run", "mappings", "pbs-from-s3"}]
    IN Violated([stage_of_another_action |-> \E s \in c.given \cap DOMAIN permitted : c.action \notin permitted[s],
                 resources_without_stage |->
                     \/ Given(c, "analysis_resources") /\ ~Given(c, "analysis")
                     \/ (Given(c, "blocksci_resources") \/ c.multijob # None) /\ ~Given(c, "blocksci")
                     \/ Given(c, "mappings_resources") /\ ~Given(c, "mappings")])

_blocksci_task_errors(c) ==
    LET onS3 == c.action = "pbs-from-s3"
        required == IF c.task = "parse" THEN "reusable" ELSE "cached"
    IN Violated([workflow_without_stage |-> c.workflow # "combined" /\ ~Given(c, "blocksci"),
                 index_task_workflow |-> c.task \in {"parse", "update"} /\ (~onS3 \/ c.workflow # required),
                 index_task_alone |-> c.task \in {"parse", "update"} /\ ~blocksci_alone(c),
                 cached_task |-> /\ c.task \in {"script", "notebook", "backup"}
                                 /\ ~onS3 \/ c.workflow = "combined" \/ ~blocksci_alone(c),
                 script_missing |-> onS3 /\ c.task = "script" /\ c.script = None,
                 script_unused |-> onS3 /\ c.task # "script" /\ c.script # None,
                 notebook_option |-> c.task # "notebook" /\ (Given(c, "notebooks_dir") \/ c.notebook_port # None)])

_cache_source_errors(c) ==
    LET source == c.cache_source_run_id
        readOnly == c.task \in ReadOnlyCacheTasks /\ source # None
    IN Violated([update_source |-> c.task = "update" /\ source = None /\ c.index_dir = None,
                 update_blocks |-> c.task = "update" /\ ~BitcoinSource(c),
                 update_of_an_index |-> c.task = "update" /\ Given(c, "external_blocksci_dir"),
                 source_is_target |-> (c.task = "update" \/ readOnly) /\ source # None /\ source = c.run_id,
                 source_needs_cached |-> readOnly /\ c.workflow # "cached",
                 source_unused |-> source # None /\ c.task \in {"detect", "parse", "backup"}])

_dumplings_errors(c) ==
    LET given == Given(c, "dumplings_uri")
    IN Violated([dumplings_baseline |-> given /\ (c.action # "pbs-from-s3" \/ ~Given(c, "analysis")),
                 dumplings_mappings |-> given /\ Given(c, "mappings")])

\* MUTANT: the end of the scanned range is not bounded by the pin.
MutHeightErrors(c) ==
    Violated([empty_scan |-> /\ None \notin {c.scan_start_height, c.scan_end_height}
                             /\ c.scan_start_height >= c.scan_end_height])

_height_errors(c) ==
    LET heights == {c.pin_height, c.scan_start_height, c.scan_end_height}
    IN Violated([heights_task |-> c.task \notin {"script", "external"} /\ heights # {None},
                 empty_scan |-> /\ None \notin {c.scan_start_height, c.scan_end_height}
                                /\ c.scan_start_height >= c.scan_end_height,
                 scan_past_pin |-> /\ None \notin {c.pin_height, c.scan_end_height}
                                   /\ c.scan_end_height > c.pin_height + 1])

_blocksci_source_errors(c) ==
    LET sources == c.given \cap {"external_bitcoin_datadir", "bitcoin_blocks_uri", "external_blocksci_dir"}
        onS3 == c.action = "pbs-from-s3"
        parses == onS3 /\ c.workflow = "reusable" /\ c.task = "parse"
        updates == onS3 /\ c.workflow = "cached" /\ c.task = "update" /\ ~Given(c, "external_blocksci_dir")
        chain == {c.network # None, Given(c, "max_block")}
        blocks == Given(c, "bitcoin_blocks_uri")
    IN Violated([one_source |-> Cardinality(sources) > 1,
                 source_task |-> sources # {} /\ ~parses /\ ~updates,
                 chain_missing |-> BitcoinSource(c) /\ chain # {TRUE},
                 chain_unused |-> ~BitcoinSource(c) /\ chain # {FALSE},
                 hash_unused |-> c.expected_block_hash # None /\ ~blocks,
                 hash_invalid |-> c.expected_block_hash = "invalid",
                 mainnet_hash |-> blocks /\ c.network = "bitcoin" /\ c.expected_block_hash = None])

_external_baseline_errors(c) ==
    LET external == c.task = "external"
    IN Violated([external_workflow |-> external /\ (c.action # "pbs-from-s3" \/ c.workflow = "combined"),
                 external_alone |-> external /\ ~blocksci_alone(c),
                 external_baseline |-> external # Given(c, "external_baseline_uri"),
                 external_false |-> ~external /\ Given(c, "external_false_cjtxs_uri")])

_missing_s3_options(c, withSecret) ==
    c.run_id = None
    \/ ~({"artifact_uri", "endpoint_url", "credentials_file", "profile"}
         \cup (IF withSecret THEN {"secret_name"} ELSE {})) \subseteq c.given

_s3_errors(c) ==
    LET s3 == c.backend = "s3"
        fresh == s3 /\ c.action \in {"full-run", "emulate"}
        fullRun == s3 /\ c.action = "full-run"
    IN Violated([s3_settings |-> \/ c.action = "pbs-from-s3" /\ _missing_s3_options(c, FALSE)
                                 \/ fresh /\ _missing_s3_options(c, TRUE),
                 no_stage |-> c.action = "pbs-from-s3" /\ c.given \cap {"analysis", "blocksci", "mappings"} = {},
                 report_resources |-> /\ s3 /\ c.action \in {"full-run", "pbs-from-s3"}
                                      /\ Given(c, "unified_report_resources") /\ ~runs_unified_report(c),
                 s3_driver |-> fresh /\ c.driver # "kubernetes",
                 s3_namespace |-> fresh /\ ~Given(c, "reuse_namespace"),
                 cached_full_run |-> fullRun /\ c.workflow = "cached",
                 mappings_baseline |-> fullRun /\ Given(c, "mappings") /\ ~Given(c, "analysis"),
                 full_run_option |-> fullRun /\ (Given(c, "parallel") \/ c.script # None)])

_remaining_errors(c) ==
    LET maps == Given(c, "mappings")
    IN Violated([local_workflow |-> /\ c.action = "full-run" /\ c.backend # "s3"
                                    /\ c.workflow # "combined" \/ c.task # "detect",
                 script_missing_file |-> c.script = "missing",
                 mappings_protocol |-> maps /\ (c.engine # "wasabi" \/ c.coinjoin_type # "wasabi2"),
                 mappings_stage |-> c.action = "mappings" /\ ~maps])

\* The ports a notebook may ask for.
NotebookPorts == 1024..65535

_general_errors(c) ==
    LET external == {"external.bitcoin_datadir", "external.baseline"}
        datadirs == {c.btc_datadir, c.pbs_bitcoin_datadir}
    IN Violated([option_of_another_action |->
                     \/ Given(c, "run_dir") /\ c.action \notin {"analyze", "mappings", "export", "coinjoin-analysis"}
                     \/ c.run_id # None /\ c.action \notin {"emulate", "full-run", "pbs-from-s3", "external analyze"}
                     \/ Given(c, "parallel") /\ c.action # "full-run"
                     \/ Given(c, "all_runs") /\ c.action # "coinjoin-analysis"
                     \/ Given(c, "analysis_action") /\ c.action # "coinjoin-analysis"
                     \/ Given(c, "yes") /\ c.action # "clean",
                 external_run_id |-> c.action = "external analyze" /\ c.run_id = None,
                 all_runs_on_pbs |-> {"all_runs", "analysis"} \subseteq c.given,
                 shared_bitcoin_storage |-> /\ c.backend = "s3" /\ c.action # "pbs-from-s3"
                                            /\ datadirs # {None} \/ Given(c, "copy_to_host"),
                 two_datadirs |-> /\ c.driver = "kubernetes" /\ Given(c, "blocksci") /\ ~Given(c, "copy_to_host")
                                  /\ None \notin datadirs /\ Cardinality(datadirs) = 2,
                 notebook_port |-> c.notebook_port # None /\ c.notebook_port \notin NotebookPorts,
                 external_settings |-> c.action # "external analyze" /\ c.given \cap (external \cup {"external.resume"}) # {},
                 external_resume |-> /\ c.action = "external analyze" /\ Given(c, "external.resume")
                                     /\ c.given \cap external # {},
                 external_new |-> /\ c.action = "external analyze" /\ ~Given(c, "external.resume")
                                  /\ ~external \subseteq c.given])

_action_errors(c) ==
    (IF c.coinjoin_analysis = None THEN {} ELSE option_errors(c, c.coinjoin_analysis))
    \cup _run_selection_errors(c) \cup _driver_errors(c) \cup _pbs_stage_errors(c) \cup _blocksci_task_errors(c)
    \cup _cache_source_errors(c) \cup _persistent_index_errors(c) \cup _dumplings_errors(c) \cup _height_errors(c)
    \cup _blocksci_source_errors(c) \cup _external_baseline_errors(c) \cup _s3_errors(c) \cup _remaining_errors(c)

cross_option_errors(c) ==
    (IF Given(c, "mainnet") THEN {"mainnet_settings"} ELSE _action_errors(c)) \cup _general_errors(c)

\* Configurations the pipeline goes on with.
validate(c) == cross_option_errors(c) = {}
=============================================================================
