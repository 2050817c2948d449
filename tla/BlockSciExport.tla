--------------------------- MODULE BlockSciExport ---------------------------
(***************************************************************************)
(* The BlockSci side of a report: opening a pinned index, scanning a       *)
(* window of it, the diagnostics against the exported blocks, and the      *)
(* analysis artifact (exporters/blocksci_export, integration_diagnostics,  *)
(* analysis_artifact, verify_chain and worker).                            *)
(*                                                                         *)
(* An index is [blocks, txs]: the number of blocks and a function of the   *)
(* transaction id to [height, inputs, outputs, verdict], the verdict being *)
(* what BlockSci's detector answers: "true", "false" or "timeout". A       *)
(* failure the code raises is None.                                        *)
(***************************************************************************)
EXTENDS Liquidity, ReportLabels

CONSTANT ImageComponents       \* the images whose provenance a report needs

-----------------------------------------------------------------------------
\* The chain and the window.

\* What blocksci.Blockchain opens: blocks [0, maxBlock), every block when it is zero.
ExternalBlockchain(index, maxBlock) ==
    LET blocks == IF maxBlock = 0 THEN index.blocks ELSE Min({maxBlock, index.blocks})
    IN [blocks |-> blocks,
        txs |-> Restrict(index.txs, {t \in DOMAIN index.txs : index.txs[t].height < blocks})]

open_chain(index, maxBlock) == ExternalBlockchain(index, IF maxBlock = None THEN 0 ELSE maxBlock)

\* The half-open window, or None when it does not lie inside the opened chain.
scan_window(chain, startHeight, endHeight) ==
    LET start == IF startHeight = None THEN 0 ELSE startHeight
        end == IF endHeight = None THEN chain.blocks ELSE endHeight
    IN IF 0 <= start /\ start < end /\ end <= chain.blocks THEN [start |-> start, end |-> end] ELSE None

\* The height of every baseline transaction; None for one the index does not hold.
baseline_block_heights(chain, txids) ==
    [t \in txids |-> IF t \in DOMAIN chain.txs THEN chain.txs[t].height ELSE None]

InWindow(chain, window) ==
    {t \in DOMAIN chain.txs : window.start <= chain.txs[t].height /\ chain.txs[t].height < window.end}

\* BlockSci's subset-matching scan also returns the transactions it gave up on.
_scan_coinjoins_by_subset_matching(chain, window) ==
    [found |-> {t \in InWindow(chain, window) : chain.txs[t].verdict = "true"},
     skipped |-> {t \in InWindow(chain, window) : chain.txs[t].verdict = "timeout"}]

_filter_raw_coinjoin_txes(chain, window) ==
    {t \in InWindow(chain, window) : chain.txs[t].verdict = "true"}

normalize_blocksci_tx(tx) ==
    [height |-> tx.height, inputs |-> tx.inputs, outputs |-> tx.outputs,
     metrics |-> transaction_metrics(tx.inputs, tx.outputs)]

_records_by_txid(chain, txids) == [t \in txids |-> normalize_blocksci_tx(chain.txs[t])]

export_blocksci_records(index, coinjoinType, maxBlock, startHeight, endHeight) ==
    LET chain == open_chain(index, maxBlock)
        window == scan_window(chain, startHeight, endHeight)
        scan == IF coinjoinType = "joinmarket" THEN _scan_coinjoins_by_subset_matching(chain, window)
                ELSE [found |-> _filter_raw_coinjoin_txes(chain, window), skipped |-> {}]
    IN IF window = None THEN None
       ELSE [records |-> _records_by_txid(chain, scan.found), skipped |-> scan.skipped]

\* The events of the detected set, on the whole index; None without a detection.
export_blocksci_mix_events(index, txids) ==
    IF txids = {} \/ ~(txids \subseteq DOMAIN index.txs) THEN None ELSE ExternalMixEvents(index.txs, txids)

\* The cluster BlockSci puts an address in; an address of an empty cluster is not comparable.
_cluster_index_for_address(clusters, address) ==
    IF address \in DOMAIN clusters THEN clusters[address] ELSE None

\* Assignments of the requested addresses; None when nothing can be clustered or compared.
export_blocksci_cluster_assignments_for_addresses(clusters, addresses, txids) ==
    LET comparable == {a \in addresses \ {None} : _cluster_index_for_address(clusters, a) # None}
    IN IF txids = {} \/ comparable = {} THEN None ELSE [a \in comparable |-> clusters[a]]

exported_addresses(blocks) ==
    UNION {UNION {{tx.pays[i].address : i \in DOMAIN tx.pays} : tx \in Range(blocks[b].txs)} :
              b \in DOMAIN blocks} \ {None}

-----------------------------------------------------------------------------
\* Diagnostics: does the index hold exactly what was exported?

\* An image is [reference, image_id, repo_digest]. A digest identifies it by itself.
build_image_diagnostics(images) ==
    {c \in ImageComponents : images[c].reference = None \/ images[c].repo_digest = None}

\* The exported transactions that are not coinbases, with their heights, and the export's tip.
exported_block_targets(blocks) ==
    LET heights == {blocks[b].height : b \in DOMAIN blocks}
        Of(b) == {tx \in Range(blocks[b].txs) : ~tx.coinbase}
    IN [targets |-> UNION {{[txid |-> tx.txid, height |-> blocks[b].height] : tx \in Of(b)} :
                              b \in DOMAIN blocks},
        top |-> IF heights = {} THEN None ELSE Max(heights)]

_lookup_target(chain, target) ==
    [present |-> target.txid \in DOMAIN chain.txs,
     height |-> IF target.txid \in DOMAIN chain.txs THEN chain.txs[target.txid].height ELSE None]

\* MUTANT: a transaction found at another height counts as present.
MutTargetDiagnostics(chain, targets, detected, coinjoinType) ==
    LET missing == {t \in targets : ~_lookup_target(chain, t).present}
    IN [missing |-> missing, moved |-> {}, disagreements |-> {}, timeouts |-> {}]

\* Every target is looked up; for JoinMarket the detector runs on it once more and must agree
\* with the bulk scan.
build_target_diagnostics(chain, targets, detected, coinjoinType) ==
    LET missing == {t \in targets : ~_lookup_target(chain, t).present}
        moved == {t \in targets \ missing : t.height # None /\ _lookup_target(chain, t).height # t.height}
        checked == IF coinjoinType = "joinmarket" THEN targets \ missing ELSE {}
        Direct(t) == chain.txs[t.txid].verdict
    IN [missing |-> missing, moved |-> moved,
        disagreements |-> {t \in checked : (Direct(t) = "true") # (t.txid \in detected)},
        timeouts |-> {t \in checked : Direct(t) = "timeout"}]

\* The chain ends at the highest exported block.
build_chain_diagnostics(chain, top) ==
    LET height == IF chain.blocks > 0 THEN chain.blocks - 1 ELSE None
    IN top # None /\ height = top

\* The diagnostics open the whole index, not the pinned one.
build_integration_diagnostics(index, blocks, detected, coinjoinType, images) ==
    LET exported == exported_block_targets(blocks)
        chain == ExternalBlockchain(index, 0)
        found == build_target_diagnostics(chain, exported.targets, detected, coinjoinType)
    IN [images |-> build_image_diagnostics(images), chain |-> build_chain_diagnostics(chain, exported.top),
        targets |-> found,
        ok |-> /\ build_image_diagnostics(images) = {}
               /\ build_chain_diagnostics(chain, exported.top)
               /\ \A problem \in DOMAIN found : found[problem] = {}]

-----------------------------------------------------------------------------
\* The analysis artifact.

\* Only the options a report must request again.
artifact_parameters(args) ==
    [coinjoin_type |-> args.coinjoin_type, min_input_count |-> args.min_input_count,
     joinmarket_detector |-> args.joinmarket_detector]

Pinned(pinHeight) == IF pinHeight = None THEN None ELSE pinHeight + 1

\* None when the window is not inside the index the run may see.
write_analysis(run, args) ==
    LET exported == export_blocksci_records(run.index, args.coinjoin_type, Pinned(args.pin_height),
                                            args.scan_start_height, args.scan_end_height)
        found == DOMAIN exported.records
        chain == open_chain(run.index, Pinned(args.pin_height))
        external == args.mode = "external"
    IN IF exported = None THEN None
       ELSE [mode |-> args.mode, run_id |-> run.id, parameters |-> artifact_parameters(args),
             records |-> exported.records, skipped_txids |-> exported.skipped,
             diagnostics |-> IF external THEN None
                             ELSE build_integration_diagnostics(run.index, run.blocks, found,
                                                                args.coinjoin_type, run.images),
             clusters |-> IF args.skip_clustering THEN None
                          ELSE export_blocksci_cluster_assignments_for_addresses(
                                   run.clusters, exported_addresses(run.blocks), found),
             mix_events |-> IF external THEN None
                            ELSE export_blocksci_mix_events(run.index, found),
             scan_window |-> IF external
                             THEN scan_window(chain, args.scan_start_height, args.scan_end_height) ELSE None,
             baseline_heights |-> IF external /\ run.baseline # None
                                  THEN baseline_block_heights(chain, DOMAIN run.baseline) ELSE None]

\* MUTANT: the mode the artifact was written for is not checked.
MutLoadAnalysis(artifact, runId, parameters, mode) ==
    IF artifact # None /\ artifact.run_id = runId /\ artifact.parameters = parameters THEN artifact ELSE None

\* The artifact is refused when it was made for another run, mode or detector.
load_analysis(artifact, runId, parameters, mode) ==
    IF /\ artifact # None
       /\ artifact.run_id = runId
       /\ artifact.parameters = parameters
       /\ artifact.mode = mode
       /\ mode = "emulator" => artifact.diagnostics # None
    THEN artifact ELSE None

-----------------------------------------------------------------------------
\* Parsing and verifying an index.

\* MUTANT: the limit is taken as the last block instead of the number of blocks.
MutParseLimit(args, blocks) ==
    IF args.max_block # None \/ args.mode = "external" THEN args.max_block
    ELSE IF blocks = << >> THEN None
    ELSE Max({blocks[b].height : b \in DOMAIN blocks})

\* One block past the highest exported one, unless the caller says; None fails the parse.
ParseLimit(args, blocks) ==
    IF args.max_block # None \/ args.mode = "external" THEN args.max_block
    ELSE IF blocks = << >> THEN None
    ELSE Max({blocks[b].height : b \in DOMAIN blocks}) + 1

\* generate-config sets the limit; an update, and an external index with a config, keep theirs.
\* The parser then reads every block of the source below the limit.
parse_chain(args, blocks, config, source) ==
    LET keeps == args.phase = "update" \/ (args.mode = "external" /\ config # None)
        limit == IF keeps THEN config.limit ELSE ParseLimit(args, blocks)
    IN IF ~keeps /\ limit = None /\ args.mode # "external" THEN None
       ELSE [config |-> [limit |-> limit], index |-> ExternalBlockchain(source, IF limit = None THEN 0 ELSE limit)]

\* The parsed chain ends exactly at the height asked for, with the checkpoint's hash, and still
\* holds the block the source index ended at. hashes is a sequence, block n at n + 1.
verify_chain(hashes, maximum, network, expected, source) ==
    IF /\ maximum >= 0
       /\ network = "bitcoin" => expected # None
       /\ Len(hashes) = maximum + 1
       /\ expected # None => hashes[maximum + 1] = expected
       /\ source # None =>
            /\ source.height # None /\ source.height >= 0 /\ source.height < maximum
            /\ hashes[source.height + 1] = source.hash
    THEN [height |-> maximum, hash |-> hashes[maximum + 1]] ELSE None

-----------------------------------------------------------------------------
\* An index has blocks and transactions in them; the exported blocks come lowest height first.
ExportTyped(run) ==
    /\ run.index.blocks \in Nat \ {0} /\ IsFiniteSet(DOMAIN run.index.txs)
    /\ \A t \in DOMAIN run.index.txs :
          run.index.txs[t].height \in Nat /\ run.index.txs[t].height < run.index.blocks
    /\ run.blocks \in Seq(Range(run.blocks))
    /\ \A b \in DOMAIN run.blocks :
          run.blocks[b].height \in Nat /\ run.blocks[b].height <= run.blocks[Len(run.blocks)].height

\* When the diagnostics find nothing, the parsed index is the exported chain: same tip, every
\* exported transaction at its height, and the detector decided each of them as the scan did
\* (integration_diagnostics.py:192-373).
DiagnosticsAreSound(run, args, artifact) ==
    artifact # None /\ args.mode = "emulator" /\ artifact.diagnostics.ok =>
        /\ run.index.blocks = Max({run.blocks[b].height : b \in DOMAIN run.blocks}) + 1
        /\ \A b \in DOMAIN run.blocks : \A tx \in Range(run.blocks[b].txs) :
              ~tx.coinbase =>
                 /\ tx.txid \in DOMAIN run.index.txs
                 /\ run.index.txs[tx.txid].height = run.blocks[b].height
                 /\ args.coinjoin_type = "joinmarket" =>
                      /\ run.index.txs[tx.txid].verdict # "timeout"
                      /\ run.index.txs[tx.txid].verdict = "true" <=> tx.txid \in DOMAIN artifact.records
=============================================================================
