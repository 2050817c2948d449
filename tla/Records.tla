------------------------------ MODULE Records ------------------------------
(***************************************************************************)
(* The records the report exporters compute on (exporters/common.py).      *)
(* An input or output is a record with an index, a value, an address and   *)
(* the fields its module adds; a field the JSON leaves out is None.        *)
(***************************************************************************)
EXTENDS Integers, Sequences, FiniteSets, FiniteSetsExt, Functions, SequencesExt

CONSTANT None

\* A value that is None counts as zero: sum(item["value"] or 0 ...).
ValueOf(io) == IF io.value = None THEN 0 ELSE io.value

TotalValue(ios) == SumFunction([i \in DOMAIN ios |-> ValueOf(ios[i])])

\* A rate keeps its numerator and denominator; rounding to six digits is left out.
compute_optional_rate(numerator, denominator) ==
    IF denominator = 0 THEN None ELSE [num |-> numerator, den |-> denominator]

f1_score(precision, recall) ==
    IF precision = None \/ recall = None THEN None
    ELSE LET p == precision.num * recall.den
             r == recall.num * precision.den
         IN IF p + r = 0 THEN None
            ELSE [num |-> 2 * precision.num * recall.num, den |-> p + r]

\* The values more than one output carries, with their counts.
repeated_denominations(outputs) ==
    LET Count(v) == Cardinality({i \in DOMAIN outputs : outputs[i].value = v})
    IN [v \in {w \in {outputs[i].value : i \in DOMAIN outputs} \ {None} : Count(w) > 1} |-> Count(v)]

transaction_metrics(inputs, outputs) ==
    [input_count |-> Len(inputs),
     output_count |-> Len(outputs),
     total_input_sats |-> TotalValue(inputs),
     total_output_sats |-> TotalValue(outputs),
     repeated_output_denominations |-> repeated_denominations(outputs)]

\* MUTANT: a wallet that only receives is not listed.
MutWalletNames(record) == {io.wallet : io \in Range(record.inputs)} \ {None}

\* The wallets that own an input or an output of the record.
wallet_names(record) ==
    {io.wallet : io \in Range(record.inputs) \cup Range(record.outputs)} \ {None}
=============================================================================
