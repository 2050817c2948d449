---------------------------- MODULE ReportLabels ----------------------------
(***************************************************************************)
(* The ground truth of an emulated run (exporters/emulator_data.py): the   *)
(* producer's label manifest is verified, its sources are parsed, the      *)
(* exported blocks become transaction records, and a transaction is        *)
(* labelled only when the whole chain of evidence holds.                   *)
(*                                                                         *)
(* run.manifest is None or a record of what the checks read from it;       *)
(* run.rounds is what the label source says: JoinMarket round events       *)
(* [status, matches] or Wasabi broadcast lines [txid]; run.blocks is the   *)
(* sequence of exported blocks, lowest height first. A transaction is      *)
(* [txid, coinbase, spends, pays]: the outpoints it spends and the         *)
(* sequence of [value, address] it pays.                                   *)
(***************************************************************************)
EXTENDS Records

CONSTANT ParseabilityInputs    \* WASABI_PARSEABILITY_MIN_INPUTS

ASSUME LabelsAssumption == ParseabilityInputs \in Nat

NoLabels == [independent |-> FALSE, sources |-> << >>, positive_count |-> None]

-----------------------------------------------------------------------------
\* Provenance of the producer's labels.

ExpectedEngine(coinjoinType) ==
    CASE coinjoinType = "joinmarket" -> "joinmarket"
      [] coinjoinType = "wasabi2" -> "wasabi"
      [] OTHER -> None

\* MUTANT: a source whose size matches is trusted without its hash.
MutVerifySource(source, engine) ==
    /\ source.path # None /\ source.inside /\ source.name = engine
    /\ source.file /\ source.metadata /\ source.size

\* One source record: inside the data directory, the one file the engine may name, present,
\* with well-formed metadata and the size and hash the manifest states.
_verify_label_source(source, engine) ==
    /\ source.path # None
    /\ source.inside
    /\ source.name = engine
    /\ source.file
    /\ source.metadata
    /\ source.size
    /\ source.hash

\* Complete, hash-verified sources, or no labels at all.
verified_producer_label_sources(manifest, coinjoinType) ==
    LET engine == ExpectedEngine(coinjoinType)
        count == manifest.positive_count
    IN IF /\ engine # None
          /\ manifest # None
          /\ manifest.schema
          /\ manifest.engine = engine
          /\ manifest.complete
          /\ count = None \/ count \in Nat
          /\ manifest.sources # << >>
          /\ \A n \in DOMAIN manifest.sources : _verify_label_source(manifest.sources[n], engine)
          /\ \A m, n \in DOMAIN manifest.sources :
                manifest.sources[m].path = manifest.sources[n].path => m = n
       THEN [independent |-> TRUE, sources |-> manifest.sources, positive_count |-> count]
       ELSE NoLabels

\* MUTANT: any confirmed round counts, whichever of its matches is the transaction.
MutJoinmarketLabels(rounds) ==
    UNION {rounds[n].matches : n \in {m \in DOMAIN rounds : rounds[m].status = "confirmed"}}

\* The transactions of the confirmed rounds with exactly one match; None when a round
\* reports a destination conflict, which makes the file unusable.
load_joinmarket_round_labels(rounds) ==
    IF \E n \in DOMAIN rounds : rounds[n].status \in {"multiple_matches", "duplicate_destination"}
    THEN None
    ELSE UNION {rounds[n].matches : n \in {m \in DOMAIN rounds :
                    rounds[m].status = "confirmed" /\ Cardinality(rounds[m].matches) = 1}}

\* The transactions the coordinator says it broadcast; other lines do not parse.
load_wasabi_round_labels(rounds) ==
    UNION {rounds[n].matches : n \in {m \in DOMAIN rounds : rounds[m].status = "broadcast"}}

\* The positive labels and the provenance they leave: a source that cannot be parsed, or a
\* count other than the manifest's, revokes independence.
load_producer_labels(rounds, coinjoinType, provenance) ==
    LET parsed == IF coinjoinType = "joinmarket" THEN load_joinmarket_round_labels(rounds)
                  ELSE load_wasabi_round_labels(rounds)
        Revoked == [provenance EXCEPT !.independent = FALSE]
    IN IF ~provenance.independent THEN [labels |-> {}, provenance |-> provenance]
       ELSE IF parsed = None THEN [labels |-> {}, provenance |-> Revoked]
       ELSE IF provenance.positive_count # None /\ Cardinality(parsed) # provenance.positive_count
            THEN [labels |-> parsed, provenance |-> Revoked]
            ELSE [labels |-> parsed, provenance |-> provenance]

-----------------------------------------------------------------------------
\* Transactions of the exported blocks.

\* Address to wallet: the analyzer's mapping wins, then the first emulator record of the address.
load_wallet_address_mapping(analyzer, walletRecords) ==
    LET named == {walletRecords[n].address : n \in DOMAIN walletRecords}
        First(a) == walletRecords[SelectInSeq(walletRecords, LAMBDA r : r.address = a)].wallet
    IN [a \in DOMAIN analyzer \cup named |-> IF a \in DOMAIN analyzer THEN analyzer[a] ELSE First(a)]

normalize_emulator_io_record(value, address, mapping) ==
    [value |-> value, address |-> address,
     wallet |-> IF address \in DOMAIN mapping THEN mapping[address] ELSE None]

\* Every exported transaction but the coinbases, inputs resolved against the outputs of this
\* and earlier blocks; an outpoint that was not exported yet leaves its input without a value.
exported_transactions(blocks, mapping) ==
    LET all == FlattenSeq([b \in DOMAIN blocks |->
                   [n \in DOMAIN blocks[b].txs |-> [blocks[b].txs[n] EXCEPT !.height = blocks[b].height]]])
        At(t) == CHOOSE n \in DOMAIN all : all[n].txid = t
        Resolve(n, outpoint) ==
            IF \E m \in 1..n : all[m].txid = outpoint[1] /\ outpoint[2] \in DOMAIN all[m].pays
            THEN all[At(outpoint[1])].pays[outpoint[2]]
            ELSE [value |-> None, address |-> None]
    IN [t \in {all[n].txid : n \in {m \in DOMAIN all : ~all[m].coinbase}} |->
           LET tx == all[At(t)]
           IN [height |-> tx.height,
               inputs |-> [i \in DOMAIN tx.spends |->
                   LET out == Resolve(At(t), tx.spends[i])
                   IN normalize_emulator_io_record(out.value, out.address, mapping)],
               outputs |-> [i \in DOMAIN tx.pays |->
                   normalize_emulator_io_record(tx.pays[i].value, tx.pays[i].address, mapping)]]]

\* The label is None, not FALSE, when there is no independent evidence.
label_transaction(record, labelled, independent) ==
    [height |-> record.height, inputs |-> record.inputs, outputs |-> record.outputs,
     is_coinjoin |-> IF independent THEN labelled ELSE None]

\* Complete Wasabi logs without one broadcast line, while transactions look like coinjoins.
Unparseable(run, labels, provenance, transactions) ==
    /\ run.coinjoin_type = "wasabi2"
    /\ provenance.positive_count = None
    /\ labels = {}
    /\ \E t \in DOMAIN transactions : Len(transactions[t].inputs) >= ParseabilityInputs

build_emulator_data(run) ==
    LET verified == verified_producer_label_sources(run.manifest, run.coinjoin_type)
        loaded == load_producer_labels(run.rounds, run.coinjoin_type, verified)
        exported == exported_transactions(run.blocks,
                        load_wallet_address_mapping(run.analyzer, run.wallet_records))
        revoked == \/ Unparseable(run, loaded.labels, loaded.provenance, exported)
                   \/ ~(loaded.labels \subseteq DOMAIN exported)
        independent == loaded.provenance.independent /\ ~revoked
    IN [independent |-> independent, labels |-> loaded.labels,
        transactions |-> [t \in DOMAIN exported |->
                             label_transaction(exported[t], t \in loaded.labels, independent)]]

\* The wallet of every labelled address.
wallet_address_labels(emulatorData) ==
    LET ios == UNION {Range(emulatorData.transactions[t].inputs) \cup Range(emulatorData.transactions[t].outputs) :
                         t \in DOMAIN emulatorData.transactions}
        owned == {io \in ios : io.address # None /\ io.wallet # None}
    IN [a \in {io.address : io \in owned} |-> (CHOOSE io \in owned : io.address = a).wallet]

-----------------------------------------------------------------------------
\* The matrix of one detector against the labels; None without independent labels.
build_detection_confusion_matrix(emulatorData, detected) ==
    LET scope == DOMAIN emulatorData.transactions
        Label(t) == emulatorData.transactions[t].is_coinjoin
        tp == Cardinality({t \in scope : Label(t) = TRUE /\ t \in detected})
        fn == Cardinality({t \in scope : Label(t) = TRUE /\ t \notin detected})
        fp == Cardinality({t \in scope : Label(t) = FALSE /\ t \in detected})
        tn == Cardinality({t \in scope : Label(t) = FALSE /\ t \notin detected})
        precision == compute_optional_rate(tp, tp + fp)
        recall == compute_optional_rate(tp, tp + fn)
    IN IF ~emulatorData.independent THEN None
       ELSE [true_positives |-> tp, false_negatives |-> fn, false_positives |-> fp, true_negatives |-> tn,
             unknown |-> Cardinality({t \in scope : Label(t) = None}),
             evaluated |-> Cardinality(scope),
             detected_in_scope |-> Cardinality(detected \cap scope),
             out_of_scope |-> Cardinality(detected \ scope),
             precision |-> precision, recall |-> recall, f1 |-> f1_score(precision, recall),
             specificity |-> compute_optional_rate(tn, tn + fp)]

-----------------------------------------------------------------------------
\* The evidence the labels need, stated without the order of the checks: a complete manifest
\* whose every source is genuine, rounds without conflict, the stated number of positives,
\* and every positive among the exported transactions.
Evidence(run, positives) ==
    /\ run.manifest # None /\ run.manifest.schema /\ run.manifest.complete
    /\ run.manifest.engine = ExpectedEngine(run.coinjoin_type)
    /\ run.manifest.sources # << >>
    /\ \A n \in DOMAIN run.manifest.sources :
          LET s == run.manifest.sources[n] IN s.inside /\ s.file /\ s.metadata /\ s.size /\ s.hash
    /\ run.manifest.positive_count # None => run.manifest.positive_count = Cardinality(positives)
    /\ \A n \in DOMAIN run.rounds : run.rounds[n].status \notin {"multiple_matches", "duplicate_destination"}

\* The transactions the producer itself confirmed, by exactly one match.
Positives(run) ==
    {t \in UNION {run.rounds[n].matches : n \in DOMAIN run.rounds} :
        \E n \in DOMAIN run.rounds :
            run.rounds[n].matches = {t} /\ run.rounds[n].status \in {"confirmed", "broadcast"}}

\* What the parsers of the label sources answer, JoinMarket rounds or Wasabi lines of one transaction
\* each, over finite exports and detections.
SourcesTyped(run) ==
    LET matches(n) == run.rounds[n].matches
        status(n) == run.rounds[n].status
    IN /\ \A n \in DOMAIN run.rounds : IsFiniteSet(matches(n))
       /\ \A n \in DOMAIN run.rounds :
              IF run.coinjoin_type = "joinmarket" THEN status(n) # "broadcast"
              ELSE /\ status(n) \notin {"confirmed", "multiple_matches", "duplicate_destination"}
                   /\ \A t, u \in matches(n) : t = u
       /\ IsFiniteSet(run.detected) /\ IsFiniteSet(DOMAIN build_emulator_data(run).transactions)

\* Labels fail closed: a transaction is judged only when the whole evidence holds, and then a
\* transaction is a coinjoin exactly when the producer confirmed it; otherwise every label is
\* None and nothing is evaluated (emulator_data.py:98-179, 268-302, 406-472).
LabelsFailClosed(run) ==
    LET data == build_emulator_data(run)
    IN IF data.independent
       THEN /\ Evidence(run, Positives(run))
            /\ Positives(run) \subseteq DOMAIN data.transactions
            /\ \A t \in DOMAIN data.transactions :
                  data.transactions[t].is_coinjoin = (t \in Positives(run))
       ELSE /\ \A t \in DOMAIN data.transactions : data.transactions[t].is_coinjoin = None
            /\ build_detection_confusion_matrix(data, run.detected) = None

\* A detector's matrix accounts for every producer label and every detection exactly once
\* (comparison.py:130-185).
MatrixCountsEveryLabel(run) ==
    LET matrix == build_detection_confusion_matrix(build_emulator_data(run), run.detected)
    IN matrix # None =>
         /\ matrix.true_positives + matrix.false_negatives = Cardinality(Positives(run))
         /\ matrix.unknown = 0
         /\ matrix.true_positives + matrix.false_negatives + matrix.false_positives
                + matrix.true_negatives = matrix.evaluated
         /\ matrix.true_positives + matrix.false_positives + matrix.out_of_scope
                = Cardinality(run.detected)
=============================================================================
