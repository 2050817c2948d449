----------------------------- MODULE Heuristics -----------------------------
(***************************************************************************)
(* The Python explanation of BlockSci's CoinJoin detectors                 *)
(* (exporters/heuristics.py): the Wasabi 2 rules, and the JoinMarket       *)
(* "definite" and "possible" rules, which search for a partition of the    *)
(* input values over the participants.                                     *)
(*                                                                         *)
(* A transaction is [inputs, outputs, height]; an input or an output is    *)
(* [value, address, type]. A rule is TRUE, FALSE or None (not evaluated).  *)
(* The sizes the rules compare with are constants, so that a small         *)
(* transaction can pass them.                                              *)
(***************************************************************************)
EXTENDS Records

CONSTANTS
    MinSats, MaxSats,          \* WASABI2_MIN_SATOSHIS, WASABI2_MAX_SATOSHIS
    ThresholdChangeBlock,      \* WASABI2_THRESHOLD_CHANGE_BLOCK
    EarlyThreshold, LateThreshold, \* input counts 50 and 20
    EnoughAddresses,           \* 5 distinct addresses
    AllowedAddressTypes,       \* WASABI2_ALLOWED_ADDRESS_TYPES
    ExcludedValues             \* 546 and 2730 satoshis

ASSUME HeuristicsAssumption ==
    /\ MinSats \in Nat /\ MaxSats \in Nat /\ ThresholdChangeBlock \in Nat
    /\ EarlyThreshold \in Nat /\ LateThreshold \in 0..EarlyThreshold /\ EnoughAddresses \in Nat

-----------------------------------------------------------------------------
\* Wasabi 2.

values_descending(ios) ==
    /\ \A i \in DOMAIN ios : ios[i].value # None
    /\ \A i \in 1..(Len(ios) - 1) : ios[i].value >= ios[i + 1].value

unique_addresses(ios) == {ios[i].address : i \in DOMAIN ios} \ {None}

\* Missing address types make the rule None, which rejects nothing.
address_type_rule(ios) ==
    LET types == {ios[i].type : i \in DOMAIN ios} \ {None}
    IN IF types = {} THEN None ELSE types \subseteq AllowedAddressTypes

\* MUTANT: the thresholds of the two eras are swapped.
MutThreshold(height) ==
    IF height # None /\ height >= ThresholdChangeBlock THEN EarlyThreshold ELSE LateThreshold

wasabi2_default_input_threshold(height) ==
    IF height # None /\ height >= ThresholdChangeBlock THEN LateThreshold ELSE EarlyThreshold

\* The ratio of known denominations, as a fraction.
wasabi2_denomination_ratio(height) ==
    IF height # None /\ height >= ThresholdChangeBlock THEN [num |-> 3, den |-> 4]
    ELSE [num |-> 4, den |-> 5]

\* One series of add_series: the loop multiplies first, so the base itself is not a member.
Series[value, factor, multiplier \in Nat] ==
    LET next == value * factor
        candidate == next * multiplier
    IN IF candidate > MaxSats THEN {}
       ELSE Series[next, factor, multiplier] \cup (IF candidate < MinSats THEN {} ELSE {candidate})

wasabi2_blocksci_denominations ==
    {MinSats, MaxSats} \cup Series[1, 2, 1] \cup Series[3, 3, 1] \cup Series[3, 3, 2]
        \cup Series[10, 10, 1] \cup Series[10, 10, 2] \cup Series[10, 10, 5]

wasabi2_known_denomination_count(outputs) ==
    Cardinality({i \in DOMAIN outputs : outputs[i].value \in wasabi2_blocksci_denominations})

explain_wasabi2_heuristic(record, minInputCount, firstWasabi2Block) ==
    LET threshold == IF minInputCount # None THEN minInputCount
                     ELSE wasabi2_default_input_threshold(record.height)
        ratio == wasabi2_denomination_ratio(record.height)
        known == wasabi2_known_denomination_count(record.outputs)
    IN [first_wasabi2_block |-> record.height # None /\ record.height >= firstWasabi2Block,
        input_address_types |-> address_type_rule(record.inputs),
        output_address_types |-> address_type_rule(record.outputs),
        input_count |-> Len(record.inputs) >= threshold,
        input_values_descending |-> values_descending(record.inputs),
        unique_input_addresses |-> Cardinality(unique_addresses(record.inputs)) >= EnoughAddresses,
        output_values_descending |-> values_descending(record.outputs),
        unique_output_addresses |-> Cardinality(unique_addresses(record.outputs)) >= EnoughAddresses,
        wasabi2_denominations |-> known * ratio.den > Len(record.outputs) * ratio.num]

FailedRules(rules) == {name \in DOMAIN rules : rules[name] = FALSE}

WouldPassWasabi2(record, minInputCount, firstWasabi2Block) ==
    FailedRules(explain_wasabi2_heuristic(record, minInputCount, firstWasabi2Block)) = {}

-----------------------------------------------------------------------------
\* JoinMarket: grouping and the partition search.

\* Inputs of one address are one contribution; the result is a function of the address.
grouped_input_values_by_address(inputs) ==
    LET full == {i \in DOMAIN inputs : inputs[i].address # None /\ inputs[i].value # None}
    IN [a \in {inputs[i].address : i \in full} |->
           SumFunction([i \in {j \in full : inputs[j].address = a} |-> inputs[i].value])]

\* The distinct addresses each output value is paid to.
output_addresses_by_value(outputs) ==
    LET full == {i \in DOMAIN outputs : outputs[i].address # None /\ outputs[i].value # None}
    IN [v \in {outputs[i].value : i \in full} |->
           {outputs[i].address : i \in {j \in full : outputs[j].value = v}}]

\* How often each value occurs among some of the outputs.
output_value_counts(outputs, among) ==
    [v \in {outputs[i].value : i \in among} \ {None} |-> Cardinality({i \in among : outputs[i].value = v})]

\* The value with the highest count, the first output's on a tie.
_most_frequent_value(outputs, among, counts) ==
    IF DOMAIN counts = {} THEN [value |-> None, count |-> 0]
    ELSE LET best == Max(Range(counts))
             first == Min({i \in among :
                              outputs[i].value \in DOMAIN counts /\ counts[outputs[i].value] = best})
         IN [value |-> outputs[first].value, count |-> best]

\* MUTANT: the depth limit answers "no partition" instead of "timeout".
MutCutOff(depth) == [result |-> FALSE, depth |-> depth]

CutOff(depth) == [result |-> None, depth |-> depth]

Decided(answer, depth) == [result |-> answer, depth |-> depth]

Largest(values, left) == CHOOSE i \in left : \A j \in left : values[j] <= values[i]
Fullest(missing, buckets) == CHOOSE b \in buckets : \A c \in buckets : missing[b] <= missing[c]

\* What the buckets miss of their goals once one of them takes the value.
Fill(missing, bucket, value) ==
    [missing EXCEPT ![bucket] = IF missing[bucket] > value THEN missing[bucket] - value ELSE 0]

\* The value goes to one unfilled bucket after the other, the emptiest first, until the rest of the
\* search answers anything but FALSE. Which of two equally empty buckets comes first is the same.
Tries(rest, missing, value, start) ==
    LET tried[buckets \in SUBSET DOMAIN missing] ==
            IF buckets = {} THEN Decided(FALSE, start)
            ELSE LET last == Fullest(missing, buckets)
                     answer == tried[buckets \ {last}]
                 IN IF answer.result # FALSE THEN answer
                    ELSE rest[<<Fill(missing, last, value), answer.depth>>]
    IN tried[{b \in DOMAIN missing : missing[b] > 0}]

\* One call with some values left: rest is the search without the largest of them. depth counts the
\* calls of the whole search, not the level.
Call(rest, values, left, missing, depth, maxDepth) ==
    IF SumFunction(missing) > SumFunction([i \in left |-> values[i]]) THEN Decided(FALSE, depth)
    ELSE IF \A b \in DOMAIN missing : missing[b] = 0 THEN Decided(TRUE, depth)
    ELSE IF left = {} THEN Decided(FALSE, depth)
    ELSE IF maxDepth # 0 /\ depth + 1 > maxDepth THEN CutOff(depth + 1)
    ELSE Tries(rest, missing, values[Largest(values, left)], depth + 1)

\* The backtracking search, a function of what the buckets miss and of the depth.
Search(values, goals, maxDepth) ==
    LET search[left \in SUBSET DOMAIN values] ==
            [at \in [DOMAIN goals -> Nat] \X Nat |->
                Call(search[left \ {Largest(values, left)}], values, left, at[1], at[2], maxDepth)]
    IN search[DOMAIN values]

\* values are a sequence, or a function of the address.
joinmarket_subset_result(values, goals, maxDepth) == Search(values, goals, maxDepth)[<<goals, 0>>]

\* max(min_base_fee, int(value * percentage_fee)); the percentage is a fraction.
MaxFee(value, fees) == Max({fees.base, (value * fees.num) \div fees.den})

AfterFee(goal, fee) == IF fee > goal THEN 0 ELSE goal - fee

-----------------------------------------------------------------------------
\* JoinMarket: the two heuristics.

\* MUTANT: half the outputs rounded down.
MutParticipants(outputs) == Len(outputs) \div 2

ParticipantCount(outputs) == (Len(outputs) + 1) \div 2

Changes(outputs, dominant) == {i \in DOMAIN outputs : outputs[i].value \notin {None, dominant}}

\* One bucket per participant, with the mixed value; the change outputs go to them one by one.
BucketGoals(outputs, dominant) ==
    LET goals[n \in 0..Len(outputs)] ==
            [b \in 1..ParticipantCount(outputs) |->
                IF n = 0 THEN dominant
                ELSE IF n \in Changes(outputs, dominant) /\ b = Cardinality(Changes(outputs, dominant) \cap 1..n)
                THEN goals[n - 1][b] + outputs[n].value ELSE goals[n - 1][b]]
    IN goals[Len(outputs)]

\* The value paid to the most addresses, with their number.
MixedValue(outputs) ==
    LET addresses == output_addresses_by_value(outputs)
    IN _most_frequent_value(outputs, {i \in DOMAIN outputs : outputs[i].address # None},
                            [v \in DOMAIN addresses |-> Cardinality(addresses[v])])

explain_joinmarket_definite_heuristic(record, fees, maxDepth) ==
    LET grouped == grouped_input_values_by_address(record.inputs)
        participants == ParticipantCount(record.outputs)
        dominant == MixedValue(record.outputs)
        goals == BucketGoals(record.outputs, dominant.value)
        fee == MaxFee(dominant.value, fees)
    IN [basic_size |-> Len(record.inputs) >= 2 /\ Len(record.outputs) >= 3,
        participant_count_vs_inputs |-> participants <= Len(record.inputs),
        participant_count_vs_unique_input_addresses |-> participants <= Cardinality(DOMAIN grouped),
        dominant_output_address_count |-> dominant.count = participants,
        dominant_output_value_not_dust_exclusion |->
            dominant.value # None /\ dominant.value \notin ExcludedValues,
        subset_partition |->
            IF dominant.value = None THEN None
            ELSE joinmarket_subset_result(grouped, [b \in DOMAIN goals |-> AfterFee(goals[b], fee)], maxDepth).result]

explain_joinmarket_possible_heuristic(record, fees, maxDepth) ==
    LET grouped == grouped_input_values_by_address(record.inputs)
        outputs == record.outputs
        unknown == {i \in DOMAIN outputs : outputs[i].address # None /\ outputs[i].address \notin DOMAIN grouped}
        dominant == _most_frequent_value(outputs, DOMAIN outputs, output_value_counts(outputs, DOMAIN outputs))
        candidate == _most_frequent_value(outputs, unknown, output_value_counts(outputs, unknown))
        goal == AfterFee(candidate.value, MaxFee(candidate.value, fees))
    IN [not_single_input_or_output |-> Len(record.inputs) # 1 /\ Len(outputs) # 1,
        has_repeated_output_value |-> dominant.count > 1,
        multiple_input_addresses |-> Cardinality(DOMAIN grouped) # 1,
        multiple_unknown_outputs |-> Cardinality(unknown) > 1,
        has_repeated_unknown_output_value |-> candidate.count > 1,
        subset_partition |->
            IF candidate.value = None THEN None
            ELSE joinmarket_subset_result(grouped, <<goal, goal>>, maxDepth).result]

\* MUTANT: a search that was cut off counts as passed.
MutExplanation(rules) == FailedRules(rules) = {}

\* A JoinMarket transaction passes only when the search answered yes.
_joinmarket_explanation(rules) == FailedRules(rules) = {} /\ rules.subset_partition = TRUE

\* The heuristic the detector selects; an unknown detector explains nothing.
add_blocksci_heuristic_explanations(records, detector) ==
    LET definite(t) == explain_joinmarket_definite_heuristic(records[t], detector.fees, detector.max_depth)
        possible(t) == explain_joinmarket_possible_heuristic(records[t], detector.fees, detector.max_depth)
    IN [t \in DOMAIN records |->
           IF detector.coinjoin_type = "wasabi2"
           THEN WouldPassWasabi2(records[t], detector.min_input_count, detector.first_wasabi2_block)
           ELSE IF detector.coinjoin_type # "joinmarket" THEN None
           ELSE IF detector.joinmarket_detector = "definite" THEN _joinmarket_explanation(definite(t))
           ELSE IF detector.joinmarket_detector = "possible" THEN _joinmarket_explanation(possible(t))
           ELSE None]

-----------------------------------------------------------------------------
\* What the search is meant to compute: some distribution of the values over the buckets
\* gives every bucket at least its goal.
CanFill(values, goals) ==
    \E to \in [DOMAIN values -> DOMAIN goals] :
        \A b \in DOMAIN goals :
            SumFunction([n \in {m \in DOMAIN values : to[m] = b} |-> values[n]]) >= goals[b]

\* The search decides exactly whether the grouped inputs can fill the buckets; with a depth
\* limit it may give up, but the answers it gives are still right (heuristics.py:201-256).
SubsetSearchIsExact(values, goals, maxDepth) ==
    LET answer == joinmarket_subset_result(values, goals, maxDepth).result
    IN /\ answer = None => maxDepth # 0
       /\ answer # None => answer = (goals = << >> \/ CanFill(values, goals))

\* The detector of one CoinJoin type with these fees and this depth limit.
JoinMarket(kind, fees, depth) ==
    [coinjoin_type |-> "joinmarket", joinmarket_detector |-> kind, fees |-> fees, max_depth |-> depth]

Accepts(record, detector) == add_blocksci_heuristic_explanations([t \in {1} |-> record], detector)[1]

\* A transaction that pays no address it also spends from and is a definite CoinJoin is a possible
\* one as well, and cutting the search short can only lose acceptances (heuristics.py:293-486).
DefiniteIsPossible(record, fees) ==
    LET fresh == unique_addresses(record.inputs) \cap unique_addresses(record.outputs) = {}
        definite == Accepts(record, JoinMarket("definite", fees, 0))
    IN /\ definite /\ fresh => Accepts(record, JoinMarket("possible", fees, 0))
       /\ Accepts(record, JoinMarket("definite", fees, 1)) => definite

\* When the outputs have one mixed output per participant, no change output is left without
\* a bucket: the goals add up to the mixed outputs and all of the change (heuristics.py:318-326).
ChangeAllCounted(record, fees) ==
    LET rules == explain_joinmarket_definite_heuristic(record, fees, 1)
        outputs == record.outputs
        mixed == MixedValue(outputs).value
    IN rules.dominant_output_address_count /\ mixed # None =>
         SumFunction(BucketGoals(outputs, mixed))
            = ParticipantCount(outputs) * mixed + SumFunction([i \in Changes(outputs, mixed) |-> outputs[i].value])

\* The Wasabi rules only become more permissive with height: a transaction accepted in one block
\* is accepted in every later one (heuristics.py:60-63, 102-105).
WasabiRulesRelax(record, later) ==
    record.height # None /\ record.height <= later /\ WouldPassWasabi2(record, None, 0)
        => WouldPassWasabi2([record EXCEPT !.height = later], None, 0)
=============================================================================
