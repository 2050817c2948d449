----------------------------- MODULE Detectors -----------------------------
(***************************************************************************)
(* What the Python explanation of the detectors (Heuristics) promises.     *)
(*                                                                         *)
(* The input is one of                                                     *)
(*   [kind |-> "search", values, goals, depth]   a partition search;       *)
(*   [kind |-> "joinmarket", record, fees]       a JoinMarket transaction; *)
(*   [kind |-> "wasabi", record, later]          a Wasabi transaction and  *)
(*                                               a later height.           *)
(***************************************************************************)
EXTENDS Reports

\* A JSON record may leave out any field.
Coin == [address : STRING \cup {None}, value : Nat \cup {None}, type : STRING \cup {None}]

Transaction(record) ==
    /\ record.inputs \in Seq(Coin) /\ record.outputs \in Seq(Coin)
    /\ "height" \in DOMAIN record /\ record.height \in HeightOption

FeeRule == [base : Nat, num : Nat, den : Nat \ {0}]

\* The inputs the facts below are about.
DetectorTyped ==
    /\ input.kind = "search" => input.values \in Seq(Nat) /\ input.goals \in Seq(Nat) /\ input.depth \in Nat
    /\ input.kind = "joinmarket" => Transaction(input.record) /\ input.fees \in FeeRule
    /\ input.kind = "wasabi" => Transaction(input.record) /\ input.later \in Nat

\* The search of heuristics.py:201-256 is exact on every input of its kind.
SubsetSearch == input.kind = "search" => SubsetSearchIsExact(input.values, input.goals, input.depth)

\* The definite JoinMarket rules imply the possible ones (heuristics.py:293-486).
DefinitePossible == input.kind = "joinmarket" => DefiniteIsPossible(input.record, input.fees)

\* The definite rules give every change output a bucket (heuristics.py:318-326).
ChangeCounted == input.kind = "joinmarket" => ChangeAllCounted(input.record, input.fees)

\* The Wasabi rules relax with height (heuristics.py:60-63, 102-105).
WasabiRelaxes == input.kind = "wasabi" => WasabiRulesRelax(input.record, input.later)

\* The detectors do what their rules say: an exact search, definite matches among the possible
\* ones, all change counted, thresholds that relax with height.
DetectorsAgree == DetectorTyped /\ SubsetSearch /\ DefinitePossible /\ ChangeCounted /\ WasabiRelaxes
=============================================================================
