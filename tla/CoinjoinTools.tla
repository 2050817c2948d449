--------------------------- MODULE CoinjoinTools ----------------------------
(***************************************************************************)
(* The analyzer operations of coinjoin-analysis run on a copy of their     *)
(* input (execution/coinjoin_tools.py, the coinjoin_tools job of           *)
(* execution/pbs/stage_runtime.py, exporters/coinjoin_research.py).        *)
(*                                                                         *)
(* Options t: [program, actions, data_mode, targets, load_config,          *)
(* env_vars, filename, input, txid, tx_hex, transaction_file,              *)
(* coordinator_file, indices, allow_network, research].  A path is Inside  *)
(* or Outside the input dataset, `input` is None, "uri" or "dir", and      *)
(* `research` the research settings the configuration names.               *)
(***************************************************************************)
EXTENDS Records

Inside == "inside"
Outside == "outside"

PROGRAM_ACTIONS ==
    [parse_cj_logs |-> {"collect_local", "collect_docker", "analyze_only"},
     parse_dumplings |-> {"process_dumplings", "detect_false_positives", "detect_coordinators",
                          "split_coordinators", "plot_coinjoins"},
     ww2_analyze_client |-> {"process_as25as38", "process_emulations", "compute_num_predict_matrix"},
     coinjoin_statistics |-> {"wasabi2", "wasabi1", "joinmarket"},
     scan_results_plot |-> {}, file_check |-> {}, visualize_coordinators |-> {}, perf_processing |-> {},
     analyze_tx_size |-> {}, generate_llm_inputs |-> {}, update_txids_with_wabisator |-> {}]

POSITIONAL_PROGRAMS == {"scan_results_plot", "file_check", "visualize_coordinators", "perf_processing"}
WORKFLOW_PROGRAMS == {"coinjoin_statistics"}

RESEARCH_FIELDS ==
    [analyze_tx_size |-> {"txid", "tx_hex", "transaction_file", "indices", "allow_network"},
     generate_llm_inputs |-> {"generator"},
     update_txids_with_wabisator |-> {"coordinator_file", "allow_network"}]

RESEARCH_PROGRAMS == DOMAIN RESEARCH_FIELDS

Conditions(rules) == {name \in DOMAIN rules : rules[name]}

\* Whether the job copies the run's own data when the options name no dataset.
uses_run_input(t) ==
    CASE t.program = "update_txids_with_wabisator" -> t.coordinator_file # None
      [] t.program = "analyze_tx_size" ->
            /\ t.tx_hex = None
            /\ ~(t.data_mode = "mainnet" /\ t.allow_network /\ t.transaction_file = None)
      [] OTHER -> TRUE

research_option_errors(t) ==
    LET fields == IF t.program \in RESEARCH_PROGRAMS THEN RESEARCH_FIELDS[t.program] ELSE {}
        size == t.program = "analyze_tx_size"
    IN Conditions([research_fields |-> ~t.research \subseteq fields]) \cup
       IF t.program \notin RESEARCH_PROGRAMS THEN {}
       ELSE Conditions(
           [parser_switches |-> t.env_vars \/ t.load_config # None \/ t.filename # None,
            research_targets |-> t.program # "generate_llm_inputs" /\ t.targets # << >>,
            online_emulation |-> t.allow_network /\ t.data_mode # "mainnet",
            bad_txid |-> t.txid = "bad",
            two_transactions |-> size /\ None \notin {t.tx_hex, t.transaction_file},
            no_transaction |-> size /\ {t.txid, t.tx_hex, t.transaction_file} = {None},
            bad_hex |-> size /\ t.tx_hex = "bad",
            no_index |-> size /\ t.indices = << >>,
            bad_index |-> size /\ (\E i \in DOMAIN t.indices : t.indices[i] < 0 \/ ~IsInjective(t.indices)),
            offline_refresh |-> t.program = "update_txids_with_wabisator" /\ ~t.allow_network,
            research_path |-> Outside \in {t.transaction_file, t.coordinator_file}])

needs_external_input(t) ==
    \/ t.program \in {"parse_dumplings"} \cup POSITIONAL_PROGRAMS \cup WORKFLOW_PROGRAMS
    \/ t.actions = <<"collect_local">>
    \/ t.program = "ww2_analyze_client" /\ t.actions # <<"process_emulations">>

_data_mode_errors(t) ==
    Conditions([mainnet_operation |-> /\ t.program \in {"parse_dumplings", "visualize_coordinators",
                                                        "update_txids_with_wabisator", "coinjoin_statistics"}
                                      /\ t.data_mode # "mainnet",
                wallet_labels |-> t.program \in {"parse_cj_logs", "generate_llm_inputs"} /\ t.data_mode # "emulation",
                client_mode |-> /\ t.program = "ww2_analyze_client"
                                /\ \E a \in Range(t.actions) :
                                       (a = "process_emulations") = (t.data_mode = "mainnet")])

\* The operations run alone, locally or as the analysis stage of pbs-from-s3.
_placement_errors(c) ==
    Conditions([tools_action |-> c.action \notin {"coinjoin-analysis", "pbs-from-s3"},
                tools_stage |-> c.action = "pbs-from-s3" /\ "analysis" \notin c.given,
                tools_alone |-> c.given \cap {"blocksci", "mappings", "all_runs", "dumplings_uri"} # {},
                tools_local |-> c.action = "coinjoin-analysis" /\ "analysis" \in c.given])

_operation_errors(t) ==
    LET allowed == PROGRAM_ACTIONS[t.program]
        repeats == ~IsInjective(t.actions)
    IN Conditions([no_operation |-> allowed # {} /\ t.actions = << >>,
                   invalid_operation |-> ~Range(t.actions) \subseteq allowed,
                   one_operation |-> t.program = "parse_cj_logs" /\ Len(t.actions) # 1,
                   filename |-> IF t.program = "scan_results_plot" THEN t.filename # Inside
                                ELSE t.filename # None,
                   positional_switches |-> /\ t.program \in POSITIONAL_PROGRAMS
                                           /\ t.env_vars \/ t.load_config # None,
                   workflow_switches |-> /\ t.program \in WORKFLOW_PROGRAMS
                                         /\ t.env_vars \/ t.load_config # None \/ t.targets # << >> \/ repeats,
                   load_config |-> t.load_config # None /\ t.program \notin {"parse_cj_logs", "parse_dumplings"}])

_input_errors(c, t) ==
    Conditions([one_target |-> t.program # "parse_cj_logs" /\ Len(t.targets) > 1,
                csv_target |-> t.program = "perf_processing" /\ t.targets = << >>,
                path_outside |-> Outside \in Range(t.targets) \cup {t.load_config},
                own_dataset |-> needs_external_input(t) /\ t.input = None,
                uri_locally |-> t.input = "uri" /\ c.action # "pbs-from-s3",
                dir_on_pbs |-> t.input = "dir" /\ c.action # "coinjoin-analysis"])

option_errors(c, t) ==
    _data_mode_errors(t) \cup research_option_errors(t) \cup _placement_errors(c)
    \cup _operation_errors(t) \cup _input_errors(c, t)

-----------------------------------------------------------------------------
\* MUTANT: the generator always looks below the run's directory.
MutCommandArgv(t) ==
    IF t.program = "generate_llm_inputs" /\ t.targets = << >> THEN <<"run">>
    ELSE IF t.program = "ww2_analyze_client" /\ t.targets = << >> /\ t.input = None THEN <<"run">>
    ELSE IF t.targets = << >> THEN <<"root">> ELSE t.targets

\* The places below the input dataset the command is pointed at: its root, the run's directory in
\* it, or the target paths.  A research program without targets finds its files by name.
command_argv(t) ==
    LET default == IF t.program = "ww2_analyze_client" /\ t.input = None THEN "run" ELSE "root"
    IN IF t.program = "generate_llm_inputs" /\ t.targets = << >>
       THEN IF t.input # None THEN <<"root">> ELSE <<"run">>
       ELSE IF t.program \in RESEARCH_PROGRAMS THEN t.targets
       ELSE IF t.targets # << >> THEN t.targets ELSE <<default>>

\* What the job and the local run put below the input directory; the run's data go to a directory
\* of its own, and a run without baseline and emulator data is refused.
coinjoin_tools(t, run) ==
    IF t.input # None THEN {"root", Inside}
    ELSE IF ~uses_run_input(t) THEN {}
    ELSE IF run = {} THEN None
    ELSE {"root", "run", Inside}

\* The transaction the size analysis reads: given, a file of the dataset, an exported block, online.
transaction_hex(t, dataset, exported) ==
    CASE t.tx_hex # None -> "given"
      [] t.tx_hex = None /\ t.transaction_file # None -> IF Inside \in dataset THEN "file" ELSE None
      [] OTHER -> IF t.txid # None /\ exported /\ dataset # {} THEN "block" ELSE None

analyze_size(t, dataset, exported) ==
    LET source == transaction_hex(t, dataset, exported)
    IN IF source # None THEN source
       ELSE IF t.data_mode = "mainnet" /\ t.allow_network /\ t.txid # None THEN "online" ELSE None

update_coordinators(t, dataset) ==
    IF t.data_mode # "mainnet" \/ ~t.allow_network THEN None
    ELSE IF t.coordinator_file = None THEN "image" ELSE IF Inside \in dataset THEN "file" ELSE None

-----------------------------------------------------------------------------
\* An accepted operation finds the data its command names: every place coinjoin_tools.py:229-272
\* puts on the command line, and every file the research adapters open, is in the input the job
\* assembles (stage_runtime.py:275-306).
OperationFindsItsData(c, t) ==
    LET dataset == coinjoin_tools(t, {"baseline"})
    IN option_errors(c, t) = {} =>
       /\ Range(command_argv(t)) \subseteq dataset
       /\ t.program = "analyze_tx_size" => analyze_size(t, dataset, TRUE) # None
       /\ t.program = "update_txids_with_wabisator" => update_coordinators(t, dataset) # None
=============================================================================
