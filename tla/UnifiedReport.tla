--------------------------- MODULE UnifiedReport ----------------------------
(***************************************************************************)
(* The unified report (exporters/cli.py, normalization.py, comparison.py,  *)
(* report_builder.py, scenario.py, manifest.py): the baseline of           *)
(* coinjoin-analysis, without its confirmed false positives, is compared   *)
(* with the records BlockSci exported.                                     *)
(*                                                                         *)
(* A run is [id, index, blocks, baseline, sidecars, ...]: the BlockSci     *)
(* index, the exported blocks, the baseline as a function of transaction   *)
(* ids, and the false-positive lists, None for a malformed one.            *)
(***************************************************************************)
EXTENDS Heuristics, BlockSciExport

-----------------------------------------------------------------------------
\* The baseline.

\* The union of the lists; None when one of them is malformed.
load_false_positive_txids(sidecars) ==
    IF None \in Range(sidecars) THEN None ELSE UNION Range(sidecars)

filter_coinjoin_analysis_false_positives(baseline, txids) ==
    Restrict(baseline, DOMAIN baseline \ txids)

baseline_filter_summary(sidecars, baseline) ==
    [enabled |-> sidecars # << >>, listed |-> Cardinality(UNION Range(sidecars)),
     filtered |-> DOMAIN baseline \cap UNION Range(sidecars)]

\* A height of zero counts as missing; the record's block index replaces it.
normalize_coinjoin_analysis_record(tx) ==
    [height |-> IF tx.height \in {None, 0} THEN tx.block_index ELSE tx.height,
     inputs |-> tx.inputs, outputs |-> tx.outputs,
     metrics |-> transaction_metrics(tx.inputs, tx.outputs)]

normalize_coinjoin_analysis(baseline) ==
    [t \in DOMAIN baseline |-> normalize_coinjoin_analysis_record(baseline[t])]

\* Blocks with a height; a later block wins when two hold the same id.
load_exported_block_tx_index(blocks) ==
    LET Holds(b, t) == blocks[b].height # None /\ t \in {tx.txid : tx \in Range(blocks[b].txs)}
        ids == UNION {{tx.txid : tx \in Range(blocks[b].txs)} : b \in DOMAIN blocks}
        held == {t \in ids : \E b \in DOMAIN blocks : Holds(b, t)}
    IN [t \in held |-> blocks[Max({b \in DOMAIN blocks : Holds(b, t)})].height]

fill_missing_block_heights(records, txIndex) ==
    [t \in DOMAIN records |->
        IF records[t].height = None /\ t \in DOMAIN txIndex THEN [records[t] EXCEPT !.height = txIndex[t]]
        ELSE records[t]]

\* MUTANT: the window is taken as closed.
MutInScan(height, window) == window.start <= height /\ height <= window.end

InScan(height, window) == window.start <= height /\ height < window.end

\* External mode compares only what BlockSci looked at, at BlockSci's heights.
restrict_baseline_to_window(records, window, heights) ==
    LET Height(t) == IF t \in DOMAIN heights THEN heights[t] ELSE None
        missing == {t \in DOMAIN records : Height(t) = None}
        kept == {t \in DOMAIN records \ missing : InScan(Height(t), window)}
    IN IF window = None THEN [records |-> records, coverage |-> None]
       ELSE IF heights = None
       THEN [records |-> records, coverage |-> [total |-> Cardinality(DOMAIN records), heights |-> FALSE]]
       ELSE [records |-> [t \in kept |-> [records[t] EXCEPT !.height = heights[t]]],
             coverage |-> [total |-> Cardinality(DOMAIN records), heights |-> TRUE,
                           in |-> Cardinality(kept), missing |-> Cardinality(missing),
                           outside |-> Cardinality(DOMAIN records \ (missing \cup kept))]]

\* Address types from the exported blocks fill the ones a record leaves out.
load_exported_block_script_metadata(blocks) ==
    LET all == FlattenSeq([b \in DOMAIN blocks |-> blocks[b].txs])
    IN [types |-> [p \in {<<all[n].txid, i>> : n \in DOMAIN all, i \in 1..4} |->
                      LET tx == CHOOSE x \in Range(all) : x.txid = p[1]
                      IN IF p[2] \in DOMAIN tx.pays THEN tx.pays[p[2]].type ELSE None],
        spends |-> [t \in {all[n].txid : n \in DOMAIN all} |-> (CHOOSE x \in Range(all) : x.txid = t).spends]]

apply_script_metadata(io, type) ==
    IF type = None \/ io.type # None THEN io ELSE [io EXCEPT !.type = type]

enrich_records_with_script_metadata(records, scripts) ==
    LET TypeAt(p) == IF p \in DOMAIN scripts.types THEN scripts.types[p] ELSE None
        InputType(t, i) == IF t \in DOMAIN scripts.spends /\ i \in DOMAIN scripts.spends[t]
                           THEN TypeAt(scripts.spends[t][i]) ELSE None
    IN [t \in DOMAIN records |->
           [records[t] EXCEPT
               !.inputs = [i \in DOMAIN @ |-> apply_script_metadata(@[i], InputType(t, i))],
               !.outputs = [i \in DOMAIN @ |-> apply_script_metadata(@[i], TypeAt(<<t, i>>))]]]

-----------------------------------------------------------------------------
\* Comparison.

\* The indices where the two sides differ in presence, value or address.
compare_io(left, right) ==
    {i \in DOMAIN left \cup DOMAIN right :
        \/ i \notin DOMAIN left \/ i \notin DOMAIN right
        \/ left[i].value # right[i].value \/ left[i].address # right[i].address}

\* The metrics that differ (at index 0) and the inputs and outputs that differ.
compare_records(left, right) ==
    {<<f, 0>> : f \in {g \in DOMAIN left.metrics : left.metrics[g] # right.metrics[g]}}
        \cup {<<"inputs", i>> : i \in compare_io(left.inputs, right.inputs)}
        \cup {<<"outputs", i>> : i \in compare_io(left.outputs, right.outputs)}

compare_transactions(baseline, records) ==
    [t \in DOMAIN baseline \cup DOMAIN records |->
        IF t \in DOMAIN baseline \cap DOMAIN records
        THEN [status |-> "matched_by_both", mismatches |-> compare_records(baseline[t], records[t])]
        ELSE [status |-> IF t \in DOMAIN baseline THEN "missed_by_blocksci" ELSE "blocksci_only",
              mismatches |-> {}]]

record_summary(record) ==
    [height |-> record.height, metrics |-> record.metrics, wallets |-> wallet_names(record)]

build_divergences(transactions, baseline, records) ==
    LET Having(status) == {t \in DOMAIN transactions : transactions[t].status = status}
    IN [missed_by_blocksci |-> [t \in Having("missed_by_blocksci") |-> record_summary(baseline[t])],
        blocksci_only |-> [t \in Having("blocksci_only") |-> record_summary(records[t])],
        shared_tx_mismatches |-> [t \in {u \in Having("matched_by_both") :
                                            transactions[u].mismatches # {}} |-> transactions[t].mismatches]]

\* MUTANT: only neighbours of a group are paired.
MutPairs(labels) ==
    {p \in (DOMAIN labels) \X (DOMAIN labels) :
        /\ p[1] < p[2] /\ labels[p[1]] = labels[p[2]]
        /\ \A a \in DOMAIN labels : p[1] < a /\ a < p[2] => labels[a] # labels[p[1]]}

\* The pairs of items one label holds, smaller item first.
pairs_by_partition(labels) ==
    {p \in (DOMAIN labels) \X (DOMAIN labels) : p[1] < p[2] /\ labels[p[1]] = labels[p[2]]}

evaluate_cluster_assignments(labels, predicted) ==
    LET comparable == DOMAIN labels \cap DOMAIN predicted
        truth == pairs_by_partition(Restrict(labels, comparable))
        guess == pairs_by_partition(Restrict(predicted, comparable))
        tp == Cardinality(truth \cap guess)
        fp == Cardinality(guess \ truth)
        fn == Cardinality(truth \ guess)
        precision == compute_optional_rate(tp, tp + fp)
        recall == compute_optional_rate(tp, tp + fn)
        Mixed(by, of) == {b \in {by[a] : a \in comparable} :
                             Cardinality({of[a] : a \in {c \in comparable : by[c] = b}}) > 1}
    IN IF predicted = None THEN [available |-> FALSE, unclustered |-> Cardinality(DOMAIN labels)]
       ELSE [available |-> TRUE, clustered |-> Cardinality(comparable),
             unclustered |-> Cardinality(DOMAIN labels \ comparable),
             true_positives |-> tp, false_positives |-> fp, false_negatives |-> fn,
             precision |-> precision, recall |-> recall, f1 |-> f1_score(precision, recall),
             overmerged |-> Cardinality(Mixed(predicted, labels)),
             undermerged |-> Cardinality(Mixed(labels, predicted))]

-----------------------------------------------------------------------------
\* The scenario.

\* The named groups of wallet indices; None when a group is empty or out of range.
liquidity_groups(scenario) ==
    IF scenario.groups = None THEN << >>
    ELSE IF \A g \in DOMAIN scenario.groups :
              scenario.groups[g] # {} /\ scenario.groups[g] \subseteq DOMAIN scenario.funds
    THEN scenario.groups ELSE None

\* A delayed fund carries its amount as well; wallets are numbered in order.
normalize_scenario(scenario) ==
    [wallet_count |-> Len(scenario.funds), groups |-> liquidity_groups(scenario),
     total_initial_funds |-> SumFunction([w \in DOMAIN scenario.funds |-> SumFunction(scenario.funds[w])])]

\* The run's own scenario before the fallback.
load_scenario(own, fallback) ==
    IF own # None THEN normalize_scenario(own)
    ELSE IF fallback # None THEN normalize_scenario(fallback) ELSE None

per_wallet_observed_counts(baseline) ==
    LET Owned(t, side, w) == Cardinality({i \in DOMAIN baseline[t][side] : baseline[t][side][i].wallet = w})
        names == UNION {wallet_names(baseline[t]) : t \in DOMAIN baseline}
        Count(side, w) == SumFunction([t \in DOMAIN baseline |-> Owned(t, side, w)])
    IN [w \in names |-> [inputs |-> Count("inputs", w), outputs |-> Count("outputs", w)]]

\* Wasabi registers every wallet; JoinMarket takers choose, so there a subset is enough.
build_scenario_checks(scenario, baseline, coinjoinType) ==
    LET names == UNION {wallet_names(baseline[t]) : t \in DOMAIN baseline}
        largest == Max({0} \cup {TotalValue(baseline[t].inputs) : t \in DOMAIN baseline})
    IN [wallets |-> Cardinality(names),
        wallet_count_matches |->
            IF scenario = None THEN None
            ELSE IF coinjoinType = "joinmarket"
            THEN names # {} /\ Cardinality(names) <= scenario.wallet_count
            ELSE Cardinality(names) = scenario.wallet_count,
        within_funds |-> IF scenario = None THEN None ELSE largest <= scenario.total_initial_funds,
        counts |-> per_wallet_observed_counts(baseline)]

-----------------------------------------------------------------------------
\* The manifest. An image is [reference, repo_digest].

digest_from_reference(reference) == IF reference = None THEN None ELSE reference.digest

\* A recorded producer identity is kept whole; the daemon only answers for an unrecorded one.
resolve_manifest_images(images, provenance, daemon) ==
    [c \in DOMAIN images |->
        IF c \in DOMAIN provenance /\ (provenance[c].reference # None \/ provenance[c].repo_digest # None)
        THEN [reference |-> provenance[c].reference,
              digest |-> IF provenance[c].repo_digest # None THEN provenance[c].repo_digest
                         ELSE digest_from_reference(provenance[c].reference)]
        ELSE [reference |-> images[c],
              digest |-> IF digest_from_reference(images[c]) # None THEN digest_from_reference(images[c])
                         ELSE daemon[c]]]

\* Only the fields the manifests are compared by; inputs and the exporter tree are recorded too.
build_run_manifest(run, args, scenario, provenance, mappings) ==
    [scenario |-> scenario, coinjoin_type |-> args.coinjoin_type,
     detector |-> artifact_parameters(args),
     images |-> resolve_manifest_images(run.references, provenance, run.daemon),
     mapping |-> mappings]

compare_run_manifests(previous, current) ==
    IF previous = None THEN [available |-> FALSE, matches |-> None]
    ELSE [available |-> TRUE,
          matches |-> \A f \in DOMAIN current : previous[f] = current[f]]

-----------------------------------------------------------------------------
\* The report.

\* A "complete" mapping stage with failed or timed-out transactions is partial.
with_effective_mapping_status(mappings) ==
    IF mappings = None THEN None
    ELSE IF mappings.status = "complete" /\ mappings.failed > 0 THEN [mappings EXCEPT !.status = "partial"]
    ELSE mappings

\* The production threshold finds nothing on a short emulated chain.
build_warnings(args, records, emulatorData) ==
    /\ args.mode = "emulator" /\ args.coinjoin_type = "wasabi2" /\ args.min_input_count = None
    /\ DOMAIN records = {}
    /\ emulatorData # None
    /\ DOMAIN emulatorData.transactions # {}
    /\ \A t \in DOMAIN emulatorData.transactions : emulatorData.transactions[t].height < ThresholdChangeBlock

evaluation_scope(mode, independent) ==
    IF mode = "external" THEN "baseline_agreement_only"
    ELSE IF independent THEN "emulator_ground_truth" ELSE "emulator_labels_unavailable"

build_summary(transactions, baseline, records) ==
    LET Count(status) == Cardinality({t \in DOMAIN transactions : transactions[t].status = status})
        Rate(n, d, empty) == IF d = 0 THEN empty ELSE [num |-> n, den |-> d]
        One == [num |-> 1, den |-> 1]
        Zero == [num |-> 0, den |-> 1]
    IN [baseline |-> Cardinality(DOMAIN baseline), detected |-> Cardinality(DOMAIN records),
        matched |-> Count("matched_by_both"), only |-> Count("blocksci_only"),
        missed |-> Count("missed_by_blocksci"),
        agreement_rate |-> Rate(Count("matched_by_both"), Cardinality(DOMAIN records),
                                IF DOMAIN baseline = {} THEN One ELSE Zero),
        coverage |-> Rate(Count("matched_by_both"), Cardinality(DOMAIN baseline), One)]

\* The sections over both sides' enriched records. The liquidity section is Liquidity's
\* build_liquidity of the same labels.
build_report(run, args, left, right, emulatorData, clusters, coverage, skipped, scenario) ==
    LET transactions == compare_transactions(left, right)
        manifest == build_run_manifest(run, args, scenario, run.images, with_effective_mapping_status(run.mappings))
    IN [transactions |-> transactions,
        explanations |-> add_blocksci_heuristic_explanations(left, args),
        divergences |-> build_divergences(transactions, left, right),
        summary |-> build_summary(transactions, left, right),
        checks |-> build_scenario_checks(scenario, left, args.coinjoin_type),
        warning |-> build_warnings(args, right, emulatorData),
        evaluations |-> IF emulatorData = None \/ ~emulatorData.independent THEN None
                        ELSE [blocksci |-> build_detection_confusion_matrix(emulatorData, DOMAIN right),
                              coinjoin_analysis |-> build_detection_confusion_matrix(emulatorData, DOMAIN left)],
        scope |-> evaluation_scope(args.mode, emulatorData # None /\ emulatorData.independent),
        clustering |-> evaluate_cluster_assignments(
                           IF emulatorData = None THEN << >> ELSE wallet_address_labels(emulatorData), clusters),
        manifest |-> manifest,
        comparison |-> compare_run_manifests(run.previous_manifest, manifest),
        baseline_filter |-> baseline_filter_summary(run.sidecars, run.baseline),
        coverage |-> coverage, skipped |-> skipped]

\* The baseline without false positives, its heights filled from the exported blocks.
BaselineRecords(run, listed) ==
    fill_missing_block_heights(
        normalize_coinjoin_analysis(filter_coinjoin_analysis_false_positives(run.baseline, listed)),
        load_exported_block_tx_index(run.blocks))

ScopedBaseline(run, args, listed, analysis) ==
    IF args.mode = "external"
    THEN restrict_baseline_to_window(BaselineRecords(run, listed), analysis.scan_window, analysis.baseline_heights)
    ELSE [records |-> BaselineRecords(run, listed), coverage |-> None]

\* None when an input is missing, malformed, or belongs to another run, mode or detector.
\* The exported blocks label the emulator's transactions; external mode has none.
ReportOf(run, args, listed, analysis, scoped, scripts) ==
    IF run.baseline = None \/ listed = None \/ analysis = None THEN None
    ELSE build_report(run, args,
                      enrich_records_with_script_metadata(scoped.records, scripts),
                      enrich_records_with_script_metadata(analysis.records, scripts),
                      IF args.mode = "emulator" THEN build_emulator_data(run) ELSE None,
                      IF args.skip_clustering THEN None ELSE analysis.clusters,
                      scoped.coverage, analysis.skipped_txids, load_scenario(run.scenario, None))

ReportOn(run, args, listed, analysis) ==
    ReportOf(run, args, listed, analysis, ScopedBaseline(run, args, listed, analysis),
             load_exported_block_script_metadata(run.blocks))

assemble_report(run, args, artifact) ==
    ReportOn(run, args, load_false_positive_txids(run.sidecars),
             load_analysis(artifact, run.id, artifact_parameters(args), args.mode))

\* A worker phase: run does everything, the others one part; each part reads what the part
\* before it left. source is the chain the parser reads, config an earlier parser config.
ReportPhase(run, args, artifact) ==
    [index |-> run.index, artifact |-> artifact,
     report |-> IF args.phase = "report" \/ (args.report /\ artifact # None)
                THEN assemble_report(run, args, artifact) ELSE None]

AnalyzePhase(run, args) ==
    ReportPhase(run, args, IF args.phase \in {"run", "analyze"} THEN write_analysis(run, args)
                           ELSE run.artifact)

ParsedIndex(run, args, source, config) ==
    IF args.phase \in {"run", "parse", "update"} THEN parse_chain(args, run.blocks, config, source)
    ELSE [index |-> run.index]

execute(run, args, source, config) ==
    LET parsed == ParsedIndex(run, args, source, config)
    IN IF parsed = None THEN None ELSE AnalyzePhase([run EXCEPT !.index = parsed.index], args)

-----------------------------------------------------------------------------
\* What BlockSci was asked to judge: the blocks it opened under the pin and scanned.
WasScanned(run, args, t) ==
    /\ t \in DOMAIN run.index.txs
    /\ args.scan_start_height # None => run.index.txs[t].height >= args.scan_start_height
    /\ args.scan_end_height # None => run.index.txs[t].height < args.scan_end_height
    /\ args.pin_height # None => run.index.txs[t].height <= args.pin_height

\* An external report blames BlockSci for exactly the baseline transactions, false positives
\* aside, that it scanned and did not detect, and the coverage accounts for all the others
\* (normalization.py:171-203 and analysis.py:71-98).
MissesWereScanned(run, args, report) ==
    LET genuine == DOMAIN run.baseline \ UNION Range(run.sidecars)
        Detected(t) == run.index.txs[t].verdict = "true"
    IN report # None /\ args.mode = "external" =>
         /\ DOMAIN report.divergences.missed_by_blocksci
               = {t \in genuine : WasScanned(run, args, t) /\ ~Detected(t)}
         /\ report.coverage.in + report.coverage.outside + report.coverage.missing
               = Cardinality(genuine)
         /\ report.coverage.missing = Cardinality({t \in genuine :
               ~(t \in DOMAIN run.index.txs /\ (args.pin_height # None =>
                    run.index.txs[t].height <= args.pin_height))})

\* A report reads an artifact only of its own run, mode and detector; the counts it states are
\* the sizes of the two sides, each transaction once (cli.py:114-211, report_builder.py:53-165).
ReportCountsBothSides(run, args, artifact, report) ==
    report # None =>
        /\ artifact.run_id = run.id /\ artifact.mode = args.mode
        /\ artifact.parameters.coinjoin_type = args.coinjoin_type
        /\ report.summary.matched + report.summary.only = Cardinality(DOMAIN artifact.records)
        /\ report.summary.matched + report.summary.missed = report.summary.baseline
        /\ (report.summary.missed = 0 /\ report.summary.only = 0) <=>
              (report.summary.agreement_rate.num = report.summary.agreement_rate.den
               /\ report.summary.coverage.num = report.summary.coverage.den)

\* The pair counts and the lists of wrongly merged clusters tell the same story: some pair is
\* wrongly joined exactly when a cluster mixes wallets, and wrongly parted exactly when a
\* wallet is split (comparison.py:188-260).
ClusterCountsAgree(labels, predicted) ==
    LET result == evaluate_cluster_assignments(labels, predicted)
    IN result.available =>
         /\ result.false_positives = 0 <=> result.overmerged = 0
         /\ result.false_negatives = 0 <=> result.undermerged = 0

\* One worker run over an emulation parses up to the exported tip, whatever the node mined
\* beyond it: its own diagnostics then find the tip, and a report of the parts run one by one
\* is the report of one run (worker.py:54-105).
WorkerParsesTheExport(run, args) ==
    LET Do(r, phase, report) ==
            execute(r, [args EXCEPT !.phase = phase, !.report = report], run.index, None)
        top == Max({run.blocks[b].height : b \in DOMAIN run.blocks})
    IN args.mode = "emulator" =>
         \A once \in {Do(run, "run", TRUE)}, parsed \in {Do(run, "parse", FALSE)} :
         \A analysed \in {Do([run EXCEPT !.index = parsed.index], "analyze", FALSE)} :
         \A reported \in {Do([run EXCEPT !.index = parsed.index, !.artifact = analysed.artifact], "report", FALSE)} :
            /\ once # None /\ once.artifact # None
            /\ once.artifact.diagnostics.chain = (run.index.blocks > top)
            /\ reported.report = once.report
=============================================================================
