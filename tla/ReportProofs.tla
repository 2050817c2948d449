---------------------------- MODULE ReportProofs ----------------------------
(***************************************************************************)
(* Proofs about the reports and the detectors, for every input of their    *)
(* types: any producer manifest and rounds, any two partitions, any        *)
(* exported blocks, artifact arguments, baseline and false positives; any  *)
(* values and goals of a search, any transaction, fee rule and height.     *)
(*                                                                         *)
(* ReportHolds and DetectorsHold are of one value of input, for which TLC  *)
(* evaluates the types on every input it picks. The lemmas at the top and  *)
(* the ones on induction also serve HostProofs.                            *)
(***************************************************************************)
EXTENDS Reports, Pools, Detectors, FiniteSetTheorems, SequenceTheorems, WellFoundedInduction, TLAPS

-----------------------------------------------------------------------------
(***************************************************************************)
(* A missing value is no function: no record, no sequence, no heights of   *)
(* transactions. Where the code tests "is None" on one of these, the       *)
(* theorems say of None that it is none.                                   *)
(***************************************************************************)
NoFunction(x) == \A S, T : x \notin [S -> T]

\* What is no function is none of them.
LEMMA FunctionIsNot ==
  ASSUME NEW x, NoFunction(x), NEW S, NEW T, NEW f \in [S -> T]
  PROVE  f # x
  BY DEF NoFunction

\* No missing value is a sequence.
LEMMA NoneIsNoSequence ==
  ASSUME NoFunction(None), NEW T
  PROVE  None \notin Seq(T)
  <1> SUFFICES ASSUME None \in Seq(T)
               PROVE  FALSE
    OBVIOUS
  <1>1. None \in [1..Len(None) -> T]
    OBVIOUS
  <1> QED
    BY <1>1 DEF NoFunction
-----------------------------------------------------------------------------
(***************************************************************************)
(* Numbers.                                                                *)
(***************************************************************************)
\* The smaller of two numbers.
LEMMA LeastOfTwo ==
  ASSUME NEW m \in Int, NEW n \in Int
  PROVE  Min({m, n}) = IF m <= n THEN m ELSE n
  <1>1. \A x \in {m, n} : (\A y \in {m, n} : x <= y) <=> x = IF m <= n THEN m ELSE n
    OBVIOUS
  <1> QED
    BY <1>1 DEF Min
-----------------------------------------------------------------------------
(***************************************************************************)
(* Induction and recursion over the numbers up to a bound.                 *)
(***************************************************************************)
LEMMA Least ==
  ASSUME NEW S \in SUBSET Nat, S # {}
  PROVE  Min(S) \in S /\ \A x \in S : Min(S) <= x
  <1>1. PICK k \in S : \A j \in S : ~(<<j, k>> \in OpToRel(<, Nat))
    BY NatLessThanWellFounded, WFMin
  <1>2. \A j \in S : k <= j
    <2> SUFFICES ASSUME NEW j \in S, ~(k <= j)
                 PROVE  FALSE
      OBVIOUS
    <2>1. j \in Nat /\ k \in Nat /\ j < k
      OBVIOUS
    <2>2. <<j, k>> \in OpToRel(<, Nat)
      BY <2>1 DEF OpToRel
    <2> QED
      BY <1>1, <2>2
  <1> QED
    BY <1>2 DEF Min

\* What holds of 0 and passes from each number to the next holds up to a bound.
LEMMA UpTo ==
  ASSUME NEW bound \in Nat, NEW S, 0 \in S, \A n \in 0..(bound - 1) : n \in S => n + 1 \in S
  PROVE  \A n \in 0..bound : n \in S
  <1> DEFINE missing == {n \in 0..bound : n \notin S}
  <1> SUFFICES ASSUME missing # {}
               PROVE  FALSE
    OBVIOUS
  <1>1. Min(missing) \in missing /\ \A x \in missing : Min(missing) <= x
    BY Least
  <1>2. Min(missing) # 0 /\ Min(missing) - 1 \in 0..(bound - 1)
    BY <1>1
  <1>3. Min(missing) - 1 \in S
    BY <1>1, <1>2
  <1> QED
    BY <1>1, <1>2, <1>3

\* f begins with `first` and takes each value from the one before.
Recurs(f, bound, Values, first, step) ==
    f \in [0..bound -> Values] /\ f[0] = first /\ \A n \in 1..bound : f[n] = step[<<n, f[n - 1]>>]

\* A recursive definition over the numbers up to a bound has a function.
LEMMA Recursion ==
  ASSUME NEW bound \in Nat, NEW Values, NEW first \in Values, NEW step \in [(1..bound) \X Values -> Values]
  PROVE  \E f : Recurs(f, bound, Values, first, step)
  <1> DEFINE Is(f, k) == f[0] = first /\ \A n \in 1..k : f[n] = step[<<n, f[n - 1]>>]
             S == {k \in 0..bound : \E f \in [0..k -> Values] : Is(f, k)}
  <1>1. 0 \in S
    <2> DEFINE g == [n \in 0..0 |-> first]
    <2>1. g \in [0..0 -> Values] /\ Is(g, 0)
      OBVIOUS
    <2> HIDE DEF g, Is
    <2> QED
      BY <2>1
  <1>2. ASSUME NEW k \in 0..(bound - 1), k \in S
        PROVE  k + 1 \in S
    <2>1. PICK f \in [0..k -> Values] : Is(f, k)
      BY <1>2
    <2> DEFINE g == [n \in 0..(k + 1) |-> IF n = k + 1 THEN step[<<k + 1, f[k]>>] ELSE f[n]]
    <2>2. k + 1 \in 1..bound /\ f[k] \in Values /\ step[<<k + 1, f[k]>>] \in Values
      <3>1. k + 1 \in 1..bound /\ f[k] \in Values
        OBVIOUS
      <3> QED
        BY <3>1
    <2>3. g \in [0..(k + 1) -> Values]
      BY <2>2
    <2>4. g[0] = first
      BY <2>1
    <2>5. ASSUME NEW n \in 1..(k + 1)
          PROVE  g[n] = step[<<n, g[n - 1]>>]
      <3>1. CASE n = k + 1
        <4>1. k \in 0..k /\ k \in 0..(k + 1) /\ k # k + 1 /\ k + 1 \in 0..(k + 1) /\ (k + 1) - 1 = k
          OBVIOUS
        <4>2. g[k] = f[k] /\ g[k + 1] = step[<<k + 1, f[k]>>]
          BY <4>1
        <4> HIDE DEF g
        <4> QED
          BY <3>1, <4>1, <4>2
      <3>2. CASE n # k + 1
        BY <2>1, <3>2
      <3> QED
        BY <3>1, <3>2
    <2>6. Is(g, k + 1)
      BY <2>4, <2>5
    <2>7. k + 1 \in 0..bound
      OBVIOUS
    <2> HIDE DEF g, Is
    <2> QED
      BY <2>3, <2>6, <2>7
  <1> HIDE DEF S
  <1>3. bound \in S
    BY <1>1, <1>2, UpTo
  <1> QED
    BY <1>3 DEF S, Recurs
-----------------------------------------------------------------------------
(***************************************************************************)
(* Labels and the confusion matrix.                                        *)
(***************************************************************************)
\* Independence left by the loader comes from verified sources whose count fits.
LEMMA LabelsLoaded ==
  ASSUME NEW rounds, NEW type, NEW provenance, DOMAIN provenance = {"independent", "sources", "positive_count"},
         NEW loaded, loaded = load_producer_labels(rounds, type, provenance),
         NEW parsed, parsed = IF type = "joinmarket" THEN load_joinmarket_round_labels(rounds)
                              ELSE load_wasabi_round_labels(rounds),
         loaded.provenance.independent
  PROVE  /\ provenance.independent /\ parsed # None
         /\ loaded = [labels |-> parsed, provenance |-> provenance]
         /\ provenance.positive_count # None => Cardinality(parsed) = provenance.positive_count
  <1> DEFINE Revoked == [provenance EXCEPT !.independent = FALSE]
  <1>1. ~Revoked.independent
    OBVIOUS
  <1>2. loaded = IF ~provenance.independent THEN [labels |-> {}, provenance |-> provenance]
                 ELSE IF parsed = None THEN [labels |-> {}, provenance |-> Revoked]
                 ELSE IF provenance.positive_count # None /\ Cardinality(parsed) # provenance.positive_count
                      THEN [labels |-> parsed, provenance |-> Revoked]
                      ELSE [labels |-> parsed, provenance |-> provenance]
    BY DEF load_producer_labels
  <1> HIDE DEF Revoked
  <1>3. provenance.independent
    BY <1>2
  <1>4. parsed # None
    BY <1>1, <1>2, <1>3
  <1>5. provenance.positive_count # None => Cardinality(parsed) = provenance.positive_count
    BY <1>1, <1>2, <1>3, <1>4
  <1> QED
    BY <1>2, <1>3, <1>4, <1>5

\* What a verified manifest is.
LEMMA Verified ==
  ASSUME NEW manifest, NEW type
  PROVE  LET v == verified_producer_label_sources(manifest, type)
         IN /\ v.independent \in BOOLEAN
            /\ DOMAIN v = {"independent", "sources", "positive_count"}
            /\ v.independent =>
                 /\ ExpectedEngine(type) # None /\ manifest # None /\ manifest.schema /\ manifest.complete
                 /\ manifest.engine = ExpectedEngine(type) /\ manifest.sources # << >>
                 /\ \A n \in DOMAIN manifest.sources :
                       _verify_label_source(manifest.sources[n], ExpectedEngine(type))
                 /\ v.positive_count = manifest.positive_count
  BY DEF verified_producer_label_sources, NoLabels

\* What the parsers of the label sources answer, without a conflict, are the positives.
LEMMA ParsedArePositives ==
  ASSUME NEW run, SourcesTyped(run), run.coinjoin_type \in {"joinmarket", "wasabi2"},
         NEW parsed, parsed # None,
         parsed = IF run.coinjoin_type = "joinmarket" THEN load_joinmarket_round_labels(run.rounds)
                  ELSE load_wasabi_round_labels(run.rounds)
  PROVE  /\ parsed = Positives(run)
         /\ \A n \in DOMAIN run.rounds : run.rounds[n].status \notin {"multiple_matches", "duplicate_destination"}
  <1>1. CASE run.coinjoin_type = "joinmarket"
    <2>1. \A n \in DOMAIN run.rounds : run.rounds[n].status \notin {"multiple_matches", "duplicate_destination"}
      BY <1>1 DEF load_joinmarket_round_labels
    <2>2. parsed = UNION {run.rounds[n].matches : n \in {m \in DOMAIN run.rounds :
                    run.rounds[m].status = "confirmed" /\ Cardinality(run.rounds[m].matches) = 1}}
      BY <1>1, <2>1 DEF load_joinmarket_round_labels
    <2>3. \A n \in DOMAIN run.rounds : IsFiniteSet(run.rounds[n].matches) /\ run.rounds[n].status # "broadcast"
      BY <1>1 DEF SourcesTyped
    <2>4. \A n \in DOMAIN run.rounds :
            Cardinality(run.rounds[n].matches) = 1 <=> \E t : run.rounds[n].matches = {t}
      BY <2>3, FS_Singleton
    <2>5. ASSUME NEW t, t \in parsed
          PROVE  t \in Positives(run)
      <3>1. PICK n \in DOMAIN run.rounds : /\ t \in run.rounds[n].matches /\ run.rounds[n].status = "confirmed"
                                           /\ Cardinality(run.rounds[n].matches) = 1
        BY <2>2, <2>5
      <3>2. run.rounds[n].matches = {t}
        BY <2>4, <3>1
      <3> QED
        BY <3>1, <3>2 DEF Positives
    <2>6. ASSUME NEW t, t \in Positives(run)
          PROVE  t \in parsed
      <3>1. PICK n \in DOMAIN run.rounds : /\ run.rounds[n].matches = {t}
                                           /\ run.rounds[n].status \in {"confirmed", "broadcast"}
        BY <2>6 DEF Positives
      <3>2. Cardinality(run.rounds[n].matches) = 1 /\ run.rounds[n].status = "confirmed"
        BY <2>3, <2>4, <3>1
      <3> QED
        BY <2>2, <3>1, <3>2
    <2>7. \A t \in Positives(run) : t \in parsed
      BY <2>6
    <2>8. Positives(run) \subseteq parsed /\ parsed \subseteq Positives(run)
      BY <2>5, <2>7
    <2> QED
      BY <2>1, <2>8
  <1>2. CASE run.coinjoin_type = "wasabi2"
    <2>1. parsed = UNION {run.rounds[n].matches : n \in {m \in DOMAIN run.rounds : run.rounds[m].status = "broadcast"}}
      BY <1>2 DEF load_wasabi_round_labels
    <2>2. \A n \in DOMAIN run.rounds :
            /\ run.rounds[n].status \notin {"confirmed", "multiple_matches", "duplicate_destination"}
            /\ \A t, u \in run.rounds[n].matches : t = u
      BY <1>2 DEF SourcesTyped
    <2>3. \A n \in DOMAIN run.rounds : \A t \in run.rounds[n].matches : run.rounds[n].matches = {t}
      BY <2>2
    <2>4. \A t : t \in parsed <=> t \in Positives(run)
      BY <2>1, <2>2, <2>3 DEF Positives
    <2> QED
      BY <2>1, <2>2, <2>4 DEF Positives
  <1> QED
    BY <1>1, <1>2

\* Labels fail closed for every run: any manifest, any rounds, any exported blocks
\* (emulator_data.py:98-179, 268-302, 406-472).
THEOREM LabelsHold ==
  ASSUME NEW run, SourcesTyped(run)
  PROVE  LabelsFailClosed(run)
  <1> DEFINE verified == verified_producer_label_sources(run.manifest, run.coinjoin_type)
             loaded == load_producer_labels(run.rounds, run.coinjoin_type, verified)
             exported == exported_transactions(run.blocks,
                        load_wallet_address_mapping(run.analyzer, run.wallet_records))
             revoked == \/ Unparseable(run, loaded.labels, loaded.provenance, exported)
                        \/ ~(loaded.labels \subseteq DOMAIN exported)
             independent == loaded.provenance.independent /\ ~revoked
             transactions == [t \in DOMAIN exported |->
                             label_transaction(exported[t], t \in loaded.labels, independent)]
             data == build_emulator_data(run)
             parsed == IF run.coinjoin_type = "joinmarket" THEN load_joinmarket_round_labels(run.rounds)
                       ELSE load_wasabi_round_labels(run.rounds)
  <1>1. data = [independent |-> independent, labels |-> loaded.labels, transactions |-> transactions]
    BY DEF build_emulator_data
  <1>6. data.transactions = transactions
    BY <1>1
  <1>7. data.independent <=> independent
    <2> HIDE DEF verified, loaded, exported, revoked, transactions, data
    <2> QED
      BY <1>1
  <1>2. DOMAIN transactions = DOMAIN exported
    OBVIOUS
  <1>3. \A t \in DOMAIN exported :
          transactions[t].is_coinjoin = IF independent THEN t \in loaded.labels ELSE None
    BY DEF label_transaction
  <1>4. CASE independent
    <2>1. loaded.provenance.independent /\ loaded.labels \subseteq DOMAIN exported
      BY <1>4
    <2>2. /\ verified.independent /\ parsed # None
          /\ loaded = [labels |-> parsed, provenance |-> verified]
          /\ verified.positive_count # None => Cardinality(parsed) = verified.positive_count
      <3> HIDE DEF verified
      <3>1. DOMAIN verified = {"independent", "sources", "positive_count"}
        BY Verified DEF verified
      <3> QED
        BY <3>1, <2>1, LabelsLoaded
    <2>3. ExpectedEngine(run.coinjoin_type) # None
      BY <2>2, Verified
    <2>4. run.coinjoin_type \in {"joinmarket", "wasabi2"}
      BY <2>3 DEF ExpectedEngine
    <2>5. /\ parsed = Positives(run)
          /\ \A n \in DOMAIN run.rounds : run.rounds[n].status \notin {"multiple_matches", "duplicate_destination"}
      BY <2>2, <2>4, ParsedArePositives
    <2>6. Evidence(run, Positives(run))
      BY <2>2, <2>5, Verified DEF Evidence, _verify_label_source
    <2>7. loaded.labels = Positives(run)
      <3> HIDE DEF verified, parsed
      <3> QED
        BY <2>2, <2>5
    <2> HIDE DEF verified, loaded, exported, revoked, transactions, parsed
    <2>8. data.independent /\ data.transactions = transactions
      BY <1>6, <1>7, <1>4
    <2> HIDE DEF data, independent
    <2>9. \A t \in DOMAIN exported : transactions[t].is_coinjoin = (t \in Positives(run))
      BY <1>3, <1>4, <2>7
    <2> QED
      BY <1>2, <2>1, <2>6, <2>7, <2>8, <2>9 DEF LabelsFailClosed, data
  <1>5. CASE ~independent
    <2> HIDE DEF verified, loaded, exported, revoked, transactions, parsed
    <2>1. ~data.independent /\ data.transactions = transactions
      BY <1>6, <1>7, <1>5
    <2>2. build_detection_confusion_matrix(data, run.detected) = None
      <3> HIDE DEF data
      <3> QED
        BY <2>1 DEF build_detection_confusion_matrix
    <2> HIDE DEF data, independent
    <2> QED
      BY <1>2, <1>3, <1>5, <2>1, <2>2 DEF LabelsFailClosed, data
  <1> QED
    BY <1>4, <1>5

\* The four parts two sets cut of a third, and what is left of each.
LEMMA FourParts ==
  ASSUME NEW S, IsFiniteSet(S), NEW D, IsFiniteSet(D), NEW P \in SUBSET S
  PROVE  /\ Cardinality(P \cap D) + Cardinality(P \ D) = Cardinality(P)
         /\ Cardinality(P \cap D) + Cardinality(P \ D) + Cardinality((S \ P) \cap D) + Cardinality((S \ P) \ D)
              = Cardinality(S)
         /\ Cardinality(P \cap D) + Cardinality((S \ P) \cap D) + Cardinality(D \ S) = Cardinality(D)
  <1>1. IsFiniteSet(P) /\ IsFiniteSet(S \ P)
    BY FS_Subset, FS_Difference
  <1>2. Cardinality(P \ D) = Cardinality(P) - Cardinality(P \cap D)
    BY <1>1, FS_Difference
  <1>3. Cardinality((S \ P) \ D) = Cardinality(S \ P) - Cardinality((S \ P) \cap D)
    BY <1>1, FS_Difference
  <1>4. Cardinality(S \ P) = Cardinality(S) - Cardinality(P)
    <2>1. S \cap P = P
      OBVIOUS
    <2> QED
      BY <2>1, FS_Difference
  <1>5. Cardinality(D \ S) = Cardinality(D) - Cardinality(D \cap S)
    BY FS_Difference
  <1>6. Cardinality((S \ P) \cap D) = Cardinality(D \cap S) - Cardinality(P \cap D)
    <2>1. (D \cap S) \ P = (S \ P) \cap D /\ (D \cap S) \cap P = P \cap D
      OBVIOUS
    <2>2. Cardinality((D \cap S) \ P) = Cardinality(D \cap S) - Cardinality((D \cap S) \cap P)
      BY FS_Difference, FS_Intersection
    <2> QED
      BY <2>1, <2>2
  <1>7. /\ Cardinality(P) \in Nat /\ Cardinality(S) \in Nat /\ Cardinality(D) \in Nat
        /\ Cardinality(P \cap D) \in Nat /\ Cardinality((S \ P) \cap D) \in Nat /\ Cardinality(D \cap S) \in Nat
    BY <1>1, FS_CardinalityType, FS_Intersection
  <1> DEFINE p == Cardinality(P)
             s == Cardinality(S)
             d == Cardinality(D)
             pd == Cardinality(P \cap D)
             sd == Cardinality((S \ P) \cap D)
             ds == Cardinality(D \cap S)
             rest == Cardinality(S \ P)
             pRest == Cardinality(P \ D)
             sRest == Cardinality((S \ P) \ D)
             dRest == Cardinality(D \ S)
  <1>8. /\ {p, s, d, pd, sd, ds} \subseteq Nat
        /\ pRest = p - pd /\ sRest = rest - sd /\ rest = s - p /\ dRest = d - ds /\ sd = ds - pd
    BY <1>2, <1>3, <1>4, <1>5, <1>6, <1>7
  <1> HIDE DEF p, s, d, pd, sd, ds, rest, pRest, sRest, dRest
  <1>9. pd + pRest = p /\ pd + pRest + sd + sRest = s /\ pd + sd + dRest = d
    BY <1>8
  <1> QED
    BY <1>9 DEF p, s, d, pd, sd, pRest, sRest, dRest

\* The confusion matrix of every run accounts for every label and every detection exactly once
\* (comparison.py:130-185).
THEOREM MatrixHolds ==
  ASSUME NEW run, SourcesTyped(run)
  PROVE  MatrixCountsEveryLabel(run)
  <1> DEFINE data == build_emulator_data(run)
             matrix == build_detection_confusion_matrix(data, run.detected)
             S == DOMAIN data.transactions
             P == Positives(run)
             D == run.detected
             Label(t) == data.transactions[t].is_coinjoin
             tp == {t \in S : Label(t) = TRUE /\ t \in D}
             fn == {t \in S : Label(t) = TRUE /\ t \notin D}
             fp == {t \in S : Label(t) = FALSE /\ t \in D}
             tn == {t \in S : Label(t) = FALSE /\ t \notin D}
             none == {t \in S : Label(t) = None}
  <1>1. SUFFICES ASSUME matrix # None
                 PROVE  /\ matrix.true_positives + matrix.false_negatives = Cardinality(P)
                        /\ matrix.unknown = 0
                        /\ matrix.true_positives + matrix.false_negatives + matrix.false_positives
                               + matrix.true_negatives = matrix.evaluated
                        /\ matrix.true_positives + matrix.false_positives + matrix.out_of_scope = Cardinality(D)
    BY DEF MatrixCountsEveryLabel
  <1>2. /\ matrix.true_positives = Cardinality(tp) /\ matrix.false_negatives = Cardinality(fn)
        /\ matrix.false_positives = Cardinality(fp) /\ matrix.true_negatives = Cardinality(tn)
        /\ matrix.unknown = Cardinality(none) /\ matrix.evaluated = Cardinality(S)
        /\ matrix.out_of_scope = Cardinality(D \ S)
    <2> HIDE DEF data
    <2> QED
      BY <1>1 DEF build_detection_confusion_matrix
  <1>3. data.independent
    <2> HIDE DEF data
    <2> QED
      BY <1>1 DEF build_detection_confusion_matrix
  <1>4. P \in SUBSET S /\ \A t \in S : Label(t) = (t \in P)
    BY <1>3, LabelsHold DEF LabelsFailClosed
  <1>5. IsFiniteSet(S) /\ IsFiniteSet(D)
    BY DEF SourcesTyped
  <1> HIDE DEF P
  <1>6. \A t \in S : /\ Label(t) = TRUE <=> t \in P
                     /\ Label(t) = FALSE <=> t \notin P
                     /\ Label(t) # None
    <2> SUFFICES ASSUME NEW t \in S
                 PROVE  /\ Label(t) = TRUE <=> t \in P
                        /\ Label(t) = FALSE <=> t \notin P
                        /\ Label(t) # None
      OBVIOUS
    <2>1. Label(t) = (t \in P)
      BY <1>4
    <2> HIDE DEF Label, S, data
    <2>2. CASE t \in P
      <3>1. Label(t) = TRUE
        BY <2>1, <2>2
      <3> QED
        BY <2>2, <3>1, NoneAssumption
    <2>3. CASE t \notin P
      <3>1. Label(t) \in BOOLEAN
        BY <2>1
      <3>2. Label(t) = FALSE
        BY <2>1, <2>3, <3>1
      <3> QED
        BY <2>3, <3>2, NoneAssumption
    <2> QED
      BY <2>2, <2>3
  <1> HIDE DEF data, matrix, Label
  <1>7. tp = P \cap D /\ fn = P \ D /\ fp = (S \ P) \cap D /\ tn = (S \ P) \ D /\ none = {}
    BY <1>4, <1>6
  <1>8. Cardinality(none) = 0
    BY <1>7, FS_EmptySet
  <1> HIDE DEF tp, fn, fp, tn, none, S, D
  <1>9. /\ matrix.true_positives = Cardinality(P \cap D) /\ matrix.false_negatives = Cardinality(P \ D)
        /\ matrix.false_positives = Cardinality((S \ P) \cap D)
        /\ matrix.true_negatives = Cardinality((S \ P) \ D)
        /\ matrix.unknown = 0 /\ matrix.evaluated = Cardinality(S) /\ matrix.out_of_scope = Cardinality(D \ S)
    BY <1>2, <1>7, <1>8
  <1>10. P \in SUBSET S
    BY <1>4
  <1>11. /\ Cardinality(P \cap D) + Cardinality(P \ D) = Cardinality(P)
         /\ Cardinality(P \cap D) + Cardinality(P \ D) + Cardinality((S \ P) \cap D) + Cardinality((S \ P) \ D)
              = Cardinality(S)
         /\ Cardinality(P \cap D) + Cardinality((S \ P) \cap D) + Cardinality(D \ S) = Cardinality(D)
    BY <1>5, <1>10, FourParts
  <1> QED
    BY <1>9, <1>11
-----------------------------------------------------------------------------
(***************************************************************************)
(* Clusters.                                                               *)
(***************************************************************************)
\* A set with two members.
LEMMA MoreThanOne ==
  ASSUME NEW S, IsFiniteSet(S)
  PROVE  Cardinality(S) > 1 <=> \E x, y \in S : x # y
  <1>1. Cardinality(S) \in Nat
    BY FS_CardinalityType
  <1>2. Cardinality(S) = 0 <=> S = {}
    BY FS_EmptySet
  <1>3. Cardinality(S) = 1 <=> \E x : S = {x}
    BY FS_Singleton
  <1>4. (\E x, y \in S : x # y) <=> ~(S = {} \/ \E x : S = {x})
    OBVIOUS
  <1> QED
    BY <1>1, <1>2, <1>3, <1>4

\* The image of a finite set.
LEMMA ImageFinite ==
  ASSUME NEW S, IsFiniteSet(S), NEW f
  PROVE  IsFiniteSet({f[a] : a \in S})
  <1> DEFINE T == {f[a] : a \in S}
             onto == [a \in S |-> f[a]]
  <1>1. onto \in Surjection(S, T)
    BY DEF Surjection
  <1> HIDE DEF T, onto
  <1> QED
    BY <1>1, FS_Surjection DEF T

\* The parts of one partition that another cuts.
Cut(comparable, by, of) == {b \in {by[a] : a \in comparable} :
                               Cardinality({of[a] : a \in {c \in comparable : by[c] = b}}) > 1}

\* No pair of one partition is missing from another when its parts are unmixed in the other.
LEMMA PairsJoined ==
  ASSUME NEW comparable, IsFiniteSet(comparable), comparable \subseteq Int, NEW by, NEW of
  PROVE  Cardinality(pairs_by_partition(Restrict(by, comparable)) \ pairs_by_partition(Restrict(of, comparable))) = 0
           <=> Cardinality(Cut(comparable, by, of)) = 0
  <1> DEFINE joined == pairs_by_partition(Restrict(by, comparable)) \ pairs_by_partition(Restrict(of, comparable))
             mixed == Cut(comparable, by, of)
             part(b) == {of[a] : a \in {c \in comparable : by[c] = b}}
             parts == {by[a] : a \in comparable}
             unmixed == \A a, c \in comparable : by[a] = by[c] => of[a] = of[c]
  <1>1. /\ IsFiniteSet(joined) /\ IsFiniteSet(parts) /\ IsFiniteSet(mixed)
        /\ \A b : IsFiniteSet(part(b))
    <2>1. joined \in SUBSET (comparable \X comparable)
      BY DEF pairs_by_partition, Restrict
    <2>2. IsFiniteSet(comparable \X comparable)
      BY FS_Product
    <2>3. IsFiniteSet(joined)
      BY <2>1, <2>2, FS_Subset
    <2>4. IsFiniteSet(parts)
      BY ImageFinite
    <2>5. mixed \in SUBSET parts
      BY DEF Cut
    <2>6. IsFiniteSet(mixed)
      BY <2>4, <2>5, FS_Subset
    <2>7. ASSUME NEW b
          PROVE  IsFiniteSet(part(b))
      <3> DEFINE within == {c \in comparable : by[c] = b}
      <3>1. IsFiniteSet(within)
        <4>1. within \in SUBSET comparable
          OBVIOUS
        <4> QED
          BY <4>1, FS_Subset
      <3> HIDE DEF within
      <3>2. IsFiniteSet({of[a] : a \in within})
        BY <3>1, ImageFinite
      <3> QED
        BY <3>2 DEF within
    <2> QED
      BY <2>3, <2>4, <2>6, <2>7
  <1>2. joined = {} <=> unmixed
    <2>1. joined = {p \in comparable \X comparable : p[1] < p[2] /\ by[p[1]] = by[p[2]] /\ of[p[1]] # of[p[2]]}
      BY DEF pairs_by_partition, Restrict
    <2>2. ASSUME unmixed
          PROVE  joined = {}
      BY <2>1, <2>2
    <2>3. ASSUME joined = {}
          PROVE  unmixed
      <3> SUFFICES ASSUME NEW a \in comparable, NEW c \in comparable, by[a] = by[c], of[a] # of[c]
                   PROVE  FALSE
        OBVIOUS
      <3>1. a < c \/ c < a
        <4>1. a \in Int /\ c \in Int /\ a # c
          OBVIOUS
        <4> QED
          BY <4>1
      <3>2. <<a, c>> \in comparable \X comparable /\ <<c, a>> \in comparable \X comparable
        OBVIOUS
      <3>3. CASE a < c
        <4>1. <<a, c>> \in joined
          BY <2>1, <3>2, <3>3
        <4> QED
          BY <2>3, <4>1
      <3>4. CASE c < a
        <4>1. <<c, a>> \in joined
          BY <2>1, <3>2, <3>4
        <4> QED
          BY <2>3, <4>1
      <3> QED
        BY <3>1, <3>3, <3>4
    <2> QED
      BY <2>2, <2>3
  <1>3. mixed = {} <=> unmixed
    <2> DEFINE split(b) == \E a, c \in comparable : by[a] = b /\ by[c] = b /\ of[a] # of[c]
    <2>1. ASSUME NEW b
          PROVE  Cardinality(part(b)) > 1 <=> split(b)
      <3>1. IsFiniteSet(part(b))
        BY <1>1
      <3>2. (\E x, y \in part(b) : x # y) <=> split(b)
        OBVIOUS
      <3> HIDE DEF part, split
      <3> QED
        BY <3>1, <3>2, MoreThanOne
    <2>2. mixed = {b \in parts : Cardinality(part(b)) > 1}
      BY DEF Cut
    <2> HIDE DEF part, parts, split, mixed
    <2>3. mixed = {b \in parts : split(b)}
      BY <2>1, <2>2
    <2>4. mixed = {} <=> \A b \in parts : ~split(b)
      BY <2>3
    <2> QED
      BY <2>4 DEF parts, split
  <1> QED
    BY <1>1, <1>2, <1>3, FS_EmptySet

\* For every two partitions, some pair is wrongly joined exactly when a cluster mixes wallets, and
\* wrongly parted exactly when a wallet is split (comparison.py:188-260).
THEOREM ClustersHold ==
  ASSUME NEW labels, DOMAIN labels \subseteq Int, IsFiniteSet(DOMAIN labels), NEW predicted
  PROVE  ClusterCountsAgree(labels, predicted)
  <1> DEFINE comparable == DOMAIN labels \cap DOMAIN predicted
             result == evaluate_cluster_assignments(labels, predicted)
             fp == Cardinality(pairs_by_partition(Restrict(predicted, comparable))
                               \ pairs_by_partition(Restrict(labels, comparable)))
             fn == Cardinality(pairs_by_partition(Restrict(labels, comparable))
                               \ pairs_by_partition(Restrict(predicted, comparable)))
             over == Cardinality(Cut(comparable, predicted, labels))
             under == Cardinality(Cut(comparable, labels, predicted))
  <1>1. IsFiniteSet(comparable) /\ comparable \subseteq Int
    BY FS_Intersection
  <1>2. (fp = 0 <=> over = 0) /\ (fn = 0 <=> under = 0)
    <2> HIDE DEF comparable
    <2>1. fp = 0 <=> over = 0
      BY <1>1, PairsJoined
    <2>2. fn = 0 <=> under = 0
      BY <1>1, PairsJoined
    <2> QED
      BY <2>1, <2>2
  <1>3. ASSUME result.available
        PROVE  /\ result.false_positives = fp /\ result.overmerged = over
               /\ result.false_negatives = fn /\ result.undermerged = under
    BY <1>3 DEF evaluate_cluster_assignments, Cut
  <1> HIDE DEF result, fp, fn, over, under
  <1> QED
    BY <1>2, <1>3 DEF ClusterCountsAgree, result
-----------------------------------------------------------------------------
(***************************************************************************)
(* Diagnostics.                                                            *)
(***************************************************************************)
\* Diagnostics that find nothing say that the index ends at the export's tip and holds every exported
\* transaction at its height (integration_diagnostics.py:192-373).
THEOREM DiagnosticsHold ==
  ASSUME NEW run, ExportTyped(run), NEW args
  PROVE  DiagnosticsAreSound(run, args, write_analysis(run, args))
  <1> DEFINE artifact == write_analysis(run, args)
             found == DOMAIN artifact.records
             exported == exported_block_targets(run.blocks)
             chain == ExternalBlockchain(run.index, 0)
             looked == build_target_diagnostics(chain, exported.targets, found, args.coinjoin_type)
             heights == {run.blocks[b].height : b \in DOMAIN run.blocks}
  <1> SUFFICES ASSUME artifact # None, args.mode = "emulator", artifact.diagnostics.ok
               PROVE  /\ run.index.blocks = Max(heights) + 1
                      /\ \A b \in DOMAIN run.blocks : \A tx \in Range(run.blocks[b].txs) :
                            ~tx.coinbase =>
                               /\ tx.txid \in DOMAIN run.index.txs
                               /\ run.index.txs[tx.txid].height = run.blocks[b].height
                               /\ args.coinjoin_type = "joinmarket" =>
                                    /\ run.index.txs[tx.txid].verdict # "timeout"
                                    /\ run.index.txs[tx.txid].verdict = "true" <=> tx.txid \in found
    BY DEF DiagnosticsAreSound
  <1>1. artifact.diagnostics
          = build_integration_diagnostics(run.index, run.blocks, found, args.coinjoin_type, run.images)
    BY DEF write_analysis
  <1> HIDE DEF artifact, found
  <1>2. /\ build_chain_diagnostics(chain, exported.top)
        /\ \A problem \in DOMAIN looked : looked[problem] = {}
    BY <1>1 DEF build_integration_diagnostics
  <1>3. /\ chain.blocks = run.index.blocks
        /\ chain.txs = Restrict(run.index.txs, {t \in DOMAIN run.index.txs : run.index.txs[t].height < run.index.blocks})
    BY DEF ExternalBlockchain
  <1>4. run.index.blocks = Max(heights) + 1
    <2>1. exported.top = IF heights = {} THEN None ELSE Max(heights)
      BY DEF exported_block_targets
    <2>2. run.index.blocks \in Nat
      BY DEF ExportTyped
    <2> HIDE DEF heights, exported, chain
    <2> QED
      BY <1>2, <1>3, <2>1, <2>2 DEF build_chain_diagnostics
  <1>5. ASSUME NEW b \in DOMAIN run.blocks, NEW tx \in Range(run.blocks[b].txs), ~tx.coinbase
        PROVE  [txid |-> tx.txid, height |-> run.blocks[b].height] \in exported.targets
    BY <1>5 DEF exported_block_targets
  <1> HIDE DEF exported, chain
  <1>6. \A t \in exported.targets :
          /\ t.txid \in DOMAIN chain.txs
          /\ t.height = None \/ chain.txs[t.txid].height = t.height
          /\ args.coinjoin_type = "joinmarket" =>
               /\ (chain.txs[t.txid].verdict = "true") = (t.txid \in found)
               /\ chain.txs[t.txid].verdict # "timeout"
    <2>1. /\ looked.missing = {} /\ looked.moved = {} /\ looked.disagreements = {} /\ looked.timeouts = {}
      <3>1. DOMAIN looked = {"missing", "moved", "disagreements", "timeouts"}
        BY DEF build_target_diagnostics
      <3> QED
        BY <1>2, <3>1
    <2>2. \A t \in exported.targets : t.txid \in DOMAIN chain.txs
      BY <2>1 DEF build_target_diagnostics, _lookup_target
    <2>3. looked.missing = {}
      BY <2>1
    <2> DEFINE missing == {t \in exported.targets : ~_lookup_target(chain, t).present}
               moved == {t \in exported.targets \ missing :
                            t.height # None /\ _lookup_target(chain, t).height # t.height}
               checked == IF args.coinjoin_type = "joinmarket" THEN exported.targets \ missing ELSE {}
    <2>4. /\ looked.missing = missing /\ looked.moved = moved
          /\ looked.disagreements = {t \in checked : (chain.txs[t.txid].verdict = "true") # (t.txid \in found)}
          /\ looked.timeouts = {t \in checked : chain.txs[t.txid].verdict = "timeout"}
      BY DEF build_target_diagnostics
    <2>5. missing = {} /\ moved = {}
      BY <2>1, <2>4
    <2> HIDE DEF looked
    <2>6. ASSUME NEW t \in exported.targets
          PROVE  t.height = None \/ chain.txs[t.txid].height = t.height
      BY <2>2, <2>5 DEF _lookup_target
    <2>7. ASSUME NEW t \in exported.targets, args.coinjoin_type = "joinmarket"
          PROVE  /\ (chain.txs[t.txid].verdict = "true") = (t.txid \in found)
                 /\ chain.txs[t.txid].verdict # "timeout"
      <3>1. t \in checked
        BY <2>5, <2>7
      <3> QED
        BY <2>1, <2>4, <3>1
    <2> QED
      BY <2>2, <2>6, <2>7
  <1>7. ASSUME NEW b \in DOMAIN run.blocks, NEW tx \in Range(run.blocks[b].txs), ~tx.coinbase
        PROVE  /\ tx.txid \in DOMAIN run.index.txs
               /\ run.index.txs[tx.txid].height = run.blocks[b].height
               /\ args.coinjoin_type = "joinmarket" =>
                    /\ run.index.txs[tx.txid].verdict # "timeout"
                    /\ run.index.txs[tx.txid].verdict = "true" <=> tx.txid \in found
    <2> DEFINE t == [txid |-> tx.txid, height |-> run.blocks[b].height]
    <2>1. t \in exported.targets
      BY <1>5, <1>7
    <2>2. t.txid = tx.txid /\ t.height = run.blocks[b].height /\ t.height # None
      BY NoneAssumption DEF ExportTyped
    <2> HIDE DEF t
    <2>3. /\ tx.txid \in DOMAIN chain.txs
          /\ chain.txs[tx.txid].height = run.blocks[b].height
          /\ args.coinjoin_type = "joinmarket" =>
               /\ (chain.txs[tx.txid].verdict = "true") = (tx.txid \in found)
               /\ chain.txs[tx.txid].verdict # "timeout"
      BY <1>6, <2>1, <2>2
    <2>4. tx.txid \in DOMAIN run.index.txs /\ chain.txs[tx.txid] = run.index.txs[tx.txid]
      BY <1>3, <2>3 DEF Restrict
    <2> QED
      BY <2>3, <2>4
  <1> QED
    BY <1>4, <1>7
-----------------------------------------------------------------------------
(***************************************************************************)
(* The report and what it counts.                                          *)
(***************************************************************************)
\* Script metadata adds no record and drops none.
LEMMA EnrichedDomain ==
  ASSUME NEW records, NEW scripts
  PROVE  DOMAIN enrich_records_with_script_metadata(records, scripts) = DOMAIN records
  BY DEF enrich_records_with_script_metadata

\* What a report that was made was made of.
LEMMA ReportOfArtifact ==
  ASSUME NEW run, NEW args, NEW artifact, NEW report, report = assemble_report(run, args, artifact), report # None
  PROVE  LET listed == load_false_positive_txids(run.sidecars)
             scoped == ScopedBaseline(run, args, listed, artifact)
         IN /\ artifact # None /\ artifact.run_id = run.id /\ artifact.mode = args.mode
            /\ artifact.parameters = artifact_parameters(args)
            /\ run.baseline # None /\ listed # None
            /\ report.coverage = scoped.coverage
            /\ \E left, right : /\ DOMAIN left = DOMAIN scoped.records /\ DOMAIN right = DOMAIN artifact.records
                                /\ report.summary = build_summary(compare_transactions(left, right), left, right)
                                /\ report.divergences = build_divergences(compare_transactions(left, right), left, right)
  <1> DEFINE listed == load_false_positive_txids(run.sidecars)
             analysis == load_analysis(artifact, run.id, artifact_parameters(args), args.mode)
             scoped == ScopedBaseline(run, args, listed, artifact)
             scripts == load_exported_block_script_metadata(run.blocks)
             left == enrich_records_with_script_metadata(scoped.records, scripts)
             right == enrich_records_with_script_metadata(artifact.records, scripts)
  <1>1. report = ReportOf(run, args, listed, analysis, ScopedBaseline(run, args, listed, analysis), scripts)
    BY DEF assemble_report, ReportOn
  <1>2. run.baseline # None /\ listed # None /\ analysis # None
    BY <1>1 DEF ReportOf
  <1>3. /\ analysis = artifact /\ artifact # None /\ artifact.run_id = run.id /\ artifact.mode = args.mode
        /\ artifact.parameters = artifact_parameters(args)
    BY <1>2 DEF load_analysis
  <1>4. \E emulatorData, clusters, scenario :
          report = build_report(run, args, left, right, emulatorData, clusters, scoped.coverage,
                                artifact.skipped_txids, scenario)
    <2> HIDE DEF listed, analysis, scoped, scripts, left, right
    <2>1. report = build_report(run, args, left, right,
                                IF args.mode = "emulator" THEN build_emulator_data(run) ELSE None,
                                IF args.skip_clustering THEN None ELSE artifact.clusters,
                                scoped.coverage, artifact.skipped_txids, load_scenario(run.scenario, None))
      BY <1>1, <1>2, <1>3 DEF ReportOf, left, right, scoped
    <2> QED
      BY <2>1
  <1>5. /\ report.coverage = scoped.coverage
        /\ report.summary = build_summary(compare_transactions(left, right), left, right)
        /\ report.divergences = build_divergences(compare_transactions(left, right), left, right)
    <2> HIDE DEF scoped, left, right
    <2> QED
      BY <1>4 DEF build_report
  <1>6. DOMAIN left = DOMAIN scoped.records /\ DOMAIN right = DOMAIN artifact.records
    BY EnrichedDomain
  <1> HIDE DEF listed, scoped, left, right
  <1>7. \E l, r : /\ DOMAIN l = DOMAIN scoped.records /\ DOMAIN r = DOMAIN artifact.records
                  /\ report.summary = build_summary(compare_transactions(l, r), l, r)
                  /\ report.divergences = build_divergences(compare_transactions(l, r), l, r)
    BY <1>5, <1>6
  <1> QED
    BY <1>2, <1>3, <1>5, <1>7 DEF listed, scoped

\* How the two sides' transactions are sorted.
LEMMA ThreeStatuses ==
  ASSUME NEW left, NEW right
  PROVE  LET transactions == compare_transactions(left, right)
             Having(status) == {t \in DOMAIN transactions : transactions[t].status = status}
         IN /\ Having("matched_by_both") = DOMAIN left \cap DOMAIN right
            /\ Having("blocksci_only") = DOMAIN right \ DOMAIN left
            /\ Having("missed_by_blocksci") = DOMAIN left \ DOMAIN right
  <1> DEFINE transactions == compare_transactions(left, right)
  <1>1. DOMAIN transactions = DOMAIN left \cup DOMAIN right
    BY DEF compare_transactions
  <1>2. ASSUME NEW t \in DOMAIN left \cup DOMAIN right
        PROVE  transactions[t].status = IF t \in DOMAIN left \cap DOMAIN right THEN "matched_by_both"
                                        ELSE IF t \in DOMAIN left THEN "missed_by_blocksci" ELSE "blocksci_only"
    BY DEF compare_transactions
  <1> HIDE DEF transactions
  <1> QED
    BY <1>1, <1>2 DEF transactions

\* A report, of whatever artifact, is of its own run, mode and detector, and counts each transaction
\* of either side once (cli.py:114-211, report_builder.py:53-165).
THEOREM CountsHold ==
  ASSUME NEW run, NEW args, NEW artifact, IsFiniteSet(DOMAIN artifact.records),
         IsFiniteSet(DOMAIN ScopedBaseline(run, args, load_false_positive_txids(run.sidecars), artifact).records)
  PROVE  ReportCountsBothSides(run, args, artifact, assemble_report(run, args, artifact))
  <1> DEFINE report == assemble_report(run, args, artifact)
             listed == load_false_positive_txids(run.sidecars)
             scoped == ScopedBaseline(run, args, listed, artifact)
  <1> SUFFICES ASSUME report # None
               PROVE  ReportCountsBothSides(run, args, artifact, report)
    BY DEF ReportCountsBothSides
  <1> HIDE DEF report
  <1>1. /\ artifact.run_id = run.id /\ artifact.mode = args.mode /\ artifact.parameters = artifact_parameters(args)
        /\ \E left, right : /\ DOMAIN left = DOMAIN scoped.records /\ DOMAIN right = DOMAIN artifact.records
                            /\ report.summary = build_summary(compare_transactions(left, right), left, right)
    BY ReportOfArtifact DEF report
  <1>2. PICK left, right : /\ DOMAIN left = DOMAIN scoped.records /\ DOMAIN right = DOMAIN artifact.records
                           /\ report.summary = build_summary(compare_transactions(left, right), left, right)
    BY <1>1
  <1> DEFINE L == DOMAIN left
             R == DOMAIN right
             both == Cardinality(L \cap R)
             only == Cardinality(R \ L)
             missed == Cardinality(L \ R)
             sizeL == Cardinality(L)
             sizeR == Cardinality(R)
             Rate(n, d, empty) == IF d = 0 THEN empty ELSE [num |-> n, den |-> d]
             agreement == Rate(both, sizeR, IF L = {} THEN [num |-> 1, den |-> 1] ELSE [num |-> 0, den |-> 1])
             covered == Rate(both, sizeL, [num |-> 1, den |-> 1])
  <1>3. /\ report.summary.matched = both /\ report.summary.only = only /\ report.summary.missed = missed
        /\ report.summary.baseline = sizeL
        /\ report.summary.agreement_rate = agreement /\ report.summary.coverage = covered
    <2> DEFINE transactions == compare_transactions(left, right)
               matched == {t \in DOMAIN transactions : transactions[t].status = "matched_by_both"}
               alone == {t \in DOMAIN transactions : transactions[t].status = "blocksci_only"}
               absent == {t \in DOMAIN transactions : transactions[t].status = "missed_by_blocksci"}
    <2>1. matched = L \cap R /\ alone = R \ L /\ absent = L \ R
      BY ThreeStatuses
    <2>2. /\ report.summary.matched = Cardinality(matched) /\ report.summary.only = Cardinality(alone)
          /\ report.summary.missed = Cardinality(absent) /\ report.summary.baseline = sizeL
          /\ report.summary.agreement_rate
               = Rate(Cardinality(matched), sizeR, IF L = {} THEN [num |-> 1, den |-> 1] ELSE [num |-> 0, den |-> 1])
          /\ report.summary.coverage = Rate(Cardinality(matched), sizeL, [num |-> 1, den |-> 1])
      <3> HIDE DEF transactions
      <3> QED
        BY <1>2 DEF build_summary, transactions
    <2> HIDE DEF matched, alone, absent
    <2> QED
      BY <2>1, <2>2
  <1>4. IsFiniteSet(L) /\ IsFiniteSet(R)
    BY <1>2
  <1> HIDE DEF L, R
  <1>5. /\ both \in Nat /\ only \in Nat /\ missed \in Nat /\ sizeL \in Nat /\ sizeR \in Nat
        /\ both + only = sizeR /\ both + missed = sizeL
    <2>1. only = sizeR - Cardinality(R \cap L) /\ missed = sizeL - both
      BY <1>4, FS_Difference
    <2>2. R \cap L = L \cap R
      OBVIOUS
    <2>3. /\ both \in Nat /\ sizeL \in Nat /\ sizeR \in Nat /\ only \in Nat /\ missed \in Nat
      BY <1>4, FS_CardinalityType, FS_Intersection, FS_Difference
    <2> QED
      BY <2>1, <2>2, <2>3
  <1>6. sizeL = 0 <=> L = {}
    BY <1>4, FS_EmptySet
  <1> HIDE DEF both, only, missed, sizeL, sizeR
  <1>7. (missed = 0 /\ only = 0) <=> (agreement.num = agreement.den /\ covered.num = covered.den)
    <2>1. covered.num = covered.den <=> missed = 0
      <3>1. covered.num = IF sizeL = 0 THEN 1 ELSE both
        OBVIOUS
      <3>2. covered.den = IF sizeL = 0 THEN 1 ELSE sizeL
        OBVIOUS
      <3> HIDE DEF covered
      <3> QED
        BY <1>5, <3>1, <3>2
    <2>2. agreement.num = agreement.den <=> IF sizeR = 0 THEN L = {} ELSE only = 0
      <3>1. agreement.num = IF sizeR # 0 THEN both ELSE IF L = {} THEN 1 ELSE 0
        OBVIOUS
      <3>2. agreement.den = IF sizeR # 0 THEN sizeR ELSE 1
        OBVIOUS
      <3> HIDE DEF agreement
      <3> QED
        BY <1>5, <3>1, <3>2
    <2> HIDE DEF covered, agreement
    <2> QED
      BY <1>5, <1>6, <2>1, <2>2
  <1>8. artifact.parameters.coinjoin_type = args.coinjoin_type
    BY <1>1 DEF artifact_parameters
  <1>9. only + both = sizeR /\ missed + both = sizeL
    BY <1>5
  <1> HIDE DEF agreement, covered
  <1> QED
    BY <1>1, <1>2, <1>3, <1>5, <1>7, <1>8 DEF ReportCountsBothSides, L, R, sizeL, sizeR

\* The index under a pin.
LEMMA UnderThePin ==
  ASSUME NEW run, ExportTyped(run), NEW pin \in HeightOption,
         NEW chain, chain = open_chain(run.index, Pinned(pin))
  PROVE  /\ chain.blocks \in Nat \ {0}
         /\ \A t : t \in DOMAIN chain.txs <=> t \in DOMAIN run.index.txs /\ (pin # None => run.index.txs[t].height <= pin)
         /\ \A t \in DOMAIN chain.txs : /\ chain.txs[t] = run.index.txs[t]
                                        /\ chain.txs[t].height \in Nat /\ chain.txs[t].height < chain.blocks
  <1> DEFINE index == run.index
             limit == IF Pinned(pin) = None THEN 0 ELSE Pinned(pin)
             blocks == IF limit = 0 THEN index.blocks ELSE Min({limit, index.blocks})
  <1>1. index.blocks \in Nat \ {0} /\ \A t \in DOMAIN index.txs :
            index.txs[t].height \in Nat /\ index.txs[t].height < index.blocks
    BY DEF ExportTyped
  <1>2. chain.blocks = blocks /\ chain.txs = Restrict(index.txs, {t \in DOMAIN index.txs : index.txs[t].height < blocks})
    BY DEF open_chain, ExternalBlockchain
  <1>3. pin = None \/ pin \in Nat
    BY DEF HeightOption
  <1>6. /\ \A t : t \in DOMAIN chain.txs <=> t \in DOMAIN index.txs /\ index.txs[t].height < blocks
        /\ \A t \in DOMAIN chain.txs : chain.txs[t] = index.txs[t]
    <2> HIDE DEF blocks
    <2> QED
      BY <1>2 DEF Restrict
  <1>4. CASE pin = None
    <2>1. blocks = index.blocks
      BY <1>4 DEF Pinned
    <2> HIDE DEF blocks
    <2> QED
      BY <1>1, <1>2, <1>4, <1>6, <2>1
  <1>5. CASE pin \in Nat
    <2>1. limit = pin + 1 /\ pin # None
      <3>1. pin # None /\ pin + 1 # None
        BY <1>5, NoneAssumption
      <3> QED
        BY <3>1 DEF Pinned
    <2>2. Min({limit, index.blocks}) = IF limit <= index.blocks THEN limit ELSE index.blocks
      BY <1>1, <1>5, <2>1, LeastOfTwo
    <2>3. blocks = IF limit <= index.blocks THEN limit ELSE index.blocks
      BY <1>5, <2>1, <2>2
    <2> HIDE DEF blocks, limit
    <2> QED
      BY <1>1, <1>2, <1>5, <1>6, <2>1, <2>3
  <1> QED
    BY <1>3, <1>4, <1>5

\* What an artifact holds.
LEMMA ArtifactFields ==
  ASSUME NEW run, NEW args, NEW artifact, artifact = write_analysis(run, args), artifact # None
  PROVE  LET chain == open_chain(run.index, Pinned(args.pin_height))
             window == scan_window(chain, args.scan_start_height, args.scan_end_height)
         IN /\ window # None
            /\ artifact.mode = args.mode
            /\ DOMAIN artifact.records = {t \in InWindow(chain, window) : chain.txs[t].verdict = "true"}
            /\ args.mode = "external" =>
                 /\ artifact.scan_window = window
                 /\ run.baseline # None =>
                       artifact.baseline_heights = baseline_block_heights(chain, DOMAIN run.baseline)
  <1> DEFINE chain == open_chain(run.index, Pinned(args.pin_height))
             window == scan_window(chain, args.scan_start_height, args.scan_end_height)
             exported == export_blocksci_records(run.index, args.coinjoin_type, Pinned(args.pin_height),
                                            args.scan_start_height, args.scan_end_height)
             found == {t \in InWindow(chain, window) : chain.txs[t].verdict = "true"}
  <1>1. exported # None
    BY DEF write_analysis
  <1>2. exported = IF window = None THEN None
                   ELSE [records |-> _records_by_txid(chain, found),
                         skipped |-> IF args.coinjoin_type = "joinmarket"
                                     THEN _scan_coinjoins_by_subset_matching(chain, window).skipped ELSE {}]
    <2> HIDE DEF chain, window
    <2> QED
      BY DEF export_blocksci_records, _scan_coinjoins_by_subset_matching, _filter_raw_coinjoin_txes, chain, window
  <1>3. window # None /\ exported.records = _records_by_txid(chain, found)
    <2> HIDE DEF window, chain, found, exported
    <2> QED
      BY <1>1, <1>2
  <1>4. DOMAIN exported.records = found
    BY <1>3 DEF _records_by_txid
  <1>5. /\ artifact.records = exported.records /\ artifact.mode = args.mode
        /\ artifact.scan_window = IF args.mode = "external" THEN window ELSE None
        /\ artifact.baseline_heights = IF args.mode = "external" /\ run.baseline # None
                                       THEN baseline_block_heights(chain, DOMAIN run.baseline) ELSE None
    BY <1>1 DEF write_analysis
  <1> HIDE DEF window, chain, found, exported
  <1> QED
    BY <1>3, <1>4, <1>5 DEF window, chain, found

\* Heights that were looked up are not missing.
LEMMA FunctionIsNotNone ==
  ASSUME NoFunction(None), NEW chain, NEW txids
  PROVE  baseline_block_heights(chain, txids) # None
  <1> DEFINE heights == baseline_block_heights(chain, txids)
  <1>1. heights \in [txids -> {heights[t] : t \in txids}]
    BY DEF baseline_block_heights
  <1> HIDE DEF heights
  <1> QED
    BY <1>1, FunctionIsNot DEF heights

\* The baseline of a report is what no false-positive list names.
LEMMA GenuineRecords ==
  ASSUME NEW run, load_false_positive_txids(run.sidecars) # None
  PROVE  DOMAIN BaselineRecords(run, load_false_positive_txids(run.sidecars))
            = DOMAIN run.baseline \ UNION Range(run.sidecars)
  <1>1. load_false_positive_txids(run.sidecars) = UNION Range(run.sidecars)
    BY DEF load_false_positive_txids
  <1>2. \A records, index : DOMAIN fill_missing_block_heights(records, index) = DOMAIN records
    BY DEF fill_missing_block_heights
  <1>3. \A baseline : DOMAIN normalize_coinjoin_analysis(baseline) = DOMAIN baseline
    BY DEF normalize_coinjoin_analysis
  <1>4. \A baseline, txids : DOMAIN filter_coinjoin_analysis_false_positives(baseline, txids) = DOMAIN baseline \ txids
    BY DEF filter_coinjoin_analysis_false_positives, Restrict
  <1> DEFINE txids == load_false_positive_txids(run.sidecars)
             filtered == filter_coinjoin_analysis_false_positives(run.baseline, txids)
             records == normalize_coinjoin_analysis(filtered)
  <1>5. DOMAIN filtered = DOMAIN run.baseline \ txids
    BY <1>4
  <1>6. DOMAIN records = DOMAIN filtered
    BY <1>3
  <1>7. DOMAIN BaselineRecords(run, txids) = DOMAIN records
    BY <1>2 DEF BaselineRecords
  <1> QED
    BY <1>1, <1>5, <1>6, <1>7

\* A miss a report blames on BlockSci is a genuine baseline transaction of the scanned blocks, and
\* the coverage accounts for all the others, whatever index, bounds and lists (normalization.py:171-203).
THEOREM MissesHold ==
  ASSUME NoFunction(None), NEW run, ExportTyped(run), NEW wrote, WorkerTyped(run, wrote), NEW args,
         run.baseline # None => IsFiniteSet(DOMAIN run.baseline)
  PROVE  MissesWereScanned(run, wrote, assemble_report(run, args, write_analysis(run, wrote)))
  <1> DEFINE artifact == write_analysis(run, wrote)
             report == assemble_report(run, args, artifact)
             listed == load_false_positive_txids(run.sidecars)
             index == run.index
             chain == open_chain(index, Pinned(wrote.pin_height))
             window == scan_window(chain, wrote.scan_start_height, wrote.scan_end_height)
             genuine == DOMAIN run.baseline \ UNION Range(run.sidecars)
             baseline == BaselineRecords(run, listed)
             heights == baseline_block_heights(chain, DOMAIN run.baseline)
             scoped == restrict_baseline_to_window(baseline, window, heights)
             missed == report.divergences.missed_by_blocksci
  <1> SUFFICES ASSUME report # None, wrote.mode = "external"
               PROVE  /\ DOMAIN missed
                            = {t \in genuine : WasScanned(run, wrote, t) /\ ~(index.txs[t].verdict = "true")}
                      /\ report.coverage.in + report.coverage.outside + report.coverage.missing = Cardinality(genuine)
                      /\ report.coverage.missing = Cardinality({t \in genuine :
                            ~(t \in DOMAIN index.txs /\ (wrote.pin_height # None =>
                                index.txs[t].height <= wrote.pin_height))})
    BY DEF MissesWereScanned
  <1>1. /\ artifact # None /\ artifact.mode = args.mode /\ run.baseline # None /\ listed # None
        /\ report.coverage = ScopedBaseline(run, args, listed, artifact).coverage
        /\ \E left, right : /\ DOMAIN left = DOMAIN ScopedBaseline(run, args, listed, artifact).records
                            /\ DOMAIN right = DOMAIN artifact.records
                            /\ report.divergences = build_divergences(compare_transactions(left, right), left, right)
    <2> HIDE DEF artifact
    <2> QED
      BY ReportOfArtifact
  <1>2. /\ window # None /\ artifact.mode = wrote.mode
        /\ DOMAIN artifact.records = {t \in InWindow(chain, window) : chain.txs[t].verdict = "true"}
        /\ artifact.scan_window = window /\ artifact.baseline_heights = heights
    <2> HIDE DEF artifact
    <2> QED
      BY <1>1, ArtifactFields DEF artifact
  <1>3. ScopedBaseline(run, args, listed, artifact) = scoped
    <2> HIDE DEF artifact, listed, heights, window
    <2> QED
      BY <1>1, <1>2 DEF ScopedBaseline
  <1>4. DOMAIN baseline = genuine
    BY <1>1, GenuineRecords
  <1>5. IsFiniteSet(genuine)
    BY <1>1, FS_Difference
  <1>6. heights # None
    BY FunctionIsNotNone
  <1> DEFINE under(t) == /\ t \in DOMAIN index.txs
                         /\ wrote.pin_height # None => index.txs[t].height <= wrote.pin_height
             after(t) == wrote.scan_start_height # None => index.txs[t].height >= wrote.scan_start_height
             before(t) == wrote.scan_end_height # None => index.txs[t].height < wrote.scan_end_height
  <1>7. /\ chain.blocks \in Nat \ {0}
        /\ \A t : t \in DOMAIN chain.txs <=> under(t)
        /\ \A t \in DOMAIN chain.txs : /\ chain.txs[t] = index.txs[t]
                                       /\ chain.txs[t].height \in Nat /\ chain.txs[t].height < chain.blocks
    <2>1. wrote.pin_height \in HeightOption
      BY DEF WorkerTyped
    <2>2. chain = open_chain(index, Pinned(wrote.pin_height))
      OBVIOUS
    <2> HIDE DEF chain
    <2>3. chain.blocks \in Nat \ {0}
      BY <2>1, <2>2, UnderThePin
    <2>4. \A t : t \in DOMAIN chain.txs <=> under(t)
      BY <2>1, <2>2, UnderThePin
    <2>5. \A t \in DOMAIN chain.txs : /\ chain.txs[t] = index.txs[t]
                                    /\ chain.txs[t].height \in Nat /\ chain.txs[t].height < chain.blocks
      BY <2>1, <2>2, UnderThePin
    <2> QED
      BY <2>3, <2>4, <2>5
  <1> HIDE DEF under
  <1>8. \A t \in DOMAIN run.baseline :
          heights[t] = IF t \in DOMAIN chain.txs THEN chain.txs[t].height ELSE None
    BY DEF baseline_block_heights
  <1>9. DOMAIN heights = DOMAIN run.baseline
    BY DEF baseline_block_heights
  <1> DEFINE absent == {t \in genuine : t \notin DOMAIN chain.txs}
             kept == {t \in genuine \ absent : InScan(chain.txs[t].height, window)}
  <1>10. /\ DOMAIN scoped.records = kept
         /\ scoped.coverage.in = Cardinality(kept) /\ scoped.coverage.missing = Cardinality(absent)
         /\ scoped.coverage.outside = Cardinality(genuine \ (absent \cup kept))
    <2> DEFINE Height(t) == IF t \in DOMAIN heights THEN heights[t] ELSE None
               none == {t \in DOMAIN baseline : Height(t) = None}
               inside == {t \in DOMAIN baseline \ none : InScan(Height(t), window)}
    <2> HIDE DEF heights, window, baseline, chain, genuine
    <2>1. /\ DOMAIN scoped.records = inside
          /\ scoped.coverage.in = Cardinality(inside) /\ scoped.coverage.missing = Cardinality(none)
          /\ scoped.coverage.outside = Cardinality(DOMAIN baseline \ (none \cup inside))
      BY <1>2, <1>6 DEF restrict_baseline_to_window
    <2>2. genuine \subseteq DOMAIN run.baseline
      BY DEF genuine
    <2>3. \A t \in genuine : Height(t) = IF t \in DOMAIN chain.txs THEN chain.txs[t].height ELSE None
      BY <1>8, <1>9, <2>2
    <2> HIDE DEF Height
    <2>4. \A t \in genuine : Height(t) = None <=> t \notin DOMAIN chain.txs
      BY <1>7, <2>3, NoneAssumption
    <2>5. none = absent
      BY <1>4, <2>4
    <2>6. inside = kept
      BY <1>4, <2>3, <2>5
    <2> HIDE DEF none, inside, absent, kept
    <2> QED
      BY <1>4, <2>1, <2>5, <2>6
  <1>11. \A t \in DOMAIN chain.txs :
            InScan(chain.txs[t].height, window) <=> t \in InWindow(chain, window)
    BY DEF InScan, InWindow
  <1>12. \A t \in DOMAIN chain.txs : InScan(chain.txs[t].height, window) <=>
            after(t) /\ before(t)
    <2>1. window = [start |-> IF wrote.scan_start_height = None THEN 0 ELSE wrote.scan_start_height,
                    end |-> IF wrote.scan_end_height = None THEN chain.blocks ELSE wrote.scan_end_height]
      <3> HIDE DEF chain
      <3> QED
        BY <1>2 DEF scan_window
    <2>2. /\ wrote.scan_start_height = None \/ wrote.scan_start_height \in Nat
          /\ wrote.scan_end_height = None \/ wrote.scan_end_height \in Nat
      BY DEF WorkerTyped, HeightOption
    <2> HIDE DEF chain, window
    <2> QED
      BY <1>7, <2>1, <2>2 DEF InScan
  <1>13. DOMAIN missed = DOMAIN scoped.records \ DOMAIN artifact.records
    <2>1. PICK left, right : /\ DOMAIN left = DOMAIN scoped.records /\ DOMAIN right = DOMAIN artifact.records
                             /\ report.divergences = build_divergences(compare_transactions(left, right), left, right)
      BY <1>1, <1>3
    <2> DEFINE transactions == compare_transactions(left, right)
               lost == {t \in DOMAIN transactions : transactions[t].status = "missed_by_blocksci"}
    <2>2. lost = DOMAIN left \ DOMAIN right
      BY ThreeStatuses
    <2>3. DOMAIN missed = lost
      <3> HIDE DEF transactions
      <3> QED
        BY <2>1 DEF build_divergences, transactions
    <2> QED
      BY <2>1, <2>2, <2>3
  <1> HIDE DEF artifact, report, listed, chain, window, baseline, heights, scoped, missed, genuine
  <1>14. DOMAIN missed = {t \in genuine : WasScanned(run, wrote, t) /\ ~(index.txs[t].verdict = "true")}
    <2>1. \A t \in genuine : t \in kept <=> WasScanned(run, wrote, t)
      <3> SUFFICES ASSUME NEW t \in genuine
                   PROVE  t \in kept <=> WasScanned(run, wrote, t)
        OBVIOUS
      <3>1. t \in kept <=> t \in DOMAIN chain.txs /\ InScan(chain.txs[t].height, window)
        OBVIOUS
      <3> HIDE DEF kept
      <3>2. WasScanned(run, wrote, t) <=> under(t) /\ after(t) /\ before(t)
        BY DEF WasScanned, under
      <3> HIDE DEF after, before
      <3> QED
        BY <1>7, <1>12, <3>1, <3>2
    <2>2. \A t \in kept : t \in DOMAIN artifact.records <=> index.txs[t].verdict = "true"
      BY <1>2, <1>7, <1>11
    <2>3. kept \subseteq genuine
      OBVIOUS
    <2> HIDE DEF kept
    <2> QED
      BY <1>10, <1>13, <2>1, <2>2, <2>3
  <1>15. absent = {t \in genuine : ~(t \in DOMAIN index.txs /\ (wrote.pin_height # None =>
                                index.txs[t].height <= wrote.pin_height))}
    <2>2. absent = {t \in genuine : ~under(t)}
      BY <1>7
    <2> QED
      BY <2>2 DEF under
  <1>16. Cardinality(kept) + Cardinality(genuine \ (absent \cup kept)) + Cardinality(absent) = Cardinality(genuine)
    <2>1. /\ kept \subseteq genuine /\ absent \subseteq genuine /\ kept \cap absent = {}
      OBVIOUS
    <2> HIDE DEF kept, absent
    <2>2. IsFiniteSet(kept) /\ IsFiniteSet(absent)
      BY <1>5, <2>1, FS_Subset
    <2>3. Cardinality(absent \cup kept) = Cardinality(absent) + Cardinality(kept)
      <3>1. absent \cap kept = {}
        BY <2>1
      <3>2. Cardinality(absent) \in Nat /\ Cardinality(kept) \in Nat
        BY <2>2, FS_CardinalityType
      <3>3. Cardinality(absent \cup kept) = Cardinality(absent) + Cardinality(kept) - Cardinality(absent \cap kept)
        BY <2>2, FS_Union
      <3>4. Cardinality(absent \cap kept) = 0
        BY <3>1, FS_EmptySet
      <3> QED
        BY <3>2, <3>3, <3>4
    <2>4. Cardinality(genuine \ (absent \cup kept)) = Cardinality(genuine) - Cardinality(absent \cup kept)
      <3>1. genuine \cap (absent \cup kept) = absent \cup kept
        BY <2>1
      <3>2. Cardinality(genuine \ (absent \cup kept))
              = Cardinality(genuine) - Cardinality(genuine \cap (absent \cup kept))
        BY <1>5, FS_Difference
      <3> QED
        BY <3>1, <3>2
    <2>5. Cardinality(genuine) \in Nat /\ Cardinality(absent) \in Nat /\ Cardinality(kept) \in Nat
      BY <1>5, <2>2, FS_CardinalityType
    <2> QED
      BY <2>3, <2>4, <2>5
  <1> HIDE DEF kept
  <1>17. report.coverage.in + report.coverage.outside + report.coverage.missing = Cardinality(genuine)
    <2> HIDE DEF absent
    <2>1. IsFiniteSet(kept) /\ IsFiniteSet(absent) /\ IsFiniteSet(genuine \ (absent \cup kept))
      BY <1>5, FS_Subset, FS_Difference DEF kept, absent
    <2>2. Cardinality(kept) \in Nat /\ Cardinality(absent) \in Nat /\ Cardinality(genuine \ (absent \cup kept)) \in Nat
      BY <2>1, FS_CardinalityType
    <2> QED
      BY <1>1, <1>3, <1>10, <1>16, <2>2
  <1>18. report.coverage.missing = Cardinality(absent)
    <2> HIDE DEF absent
    <2> QED
      BY <1>1, <1>3, <1>10
  <1> HIDE DEF absent
  <1> QED
    BY <1>14, <1>15, <1>17, <1>18

\* The records of an artifact are transactions of the index.
LEMMA ArtifactIsFinite ==
  ASSUME NEW run, ExportTyped(run), NEW wrote, WorkerTyped(run, wrote),
         NEW artifact, artifact = write_analysis(run, wrote), artifact # None
  PROVE  IsFiniteSet(DOMAIN artifact.records)
  <1> DEFINE chain == open_chain(run.index, Pinned(wrote.pin_height))
             window == scan_window(chain, wrote.scan_start_height, wrote.scan_end_height)
  <1>1. DOMAIN artifact.records = {t \in InWindow(chain, window) : chain.txs[t].verdict = "true"}
    BY ArtifactFields
  <1>2. \A t \in DOMAIN chain.txs : t \in DOMAIN run.index.txs
    <2>1. wrote.pin_height \in HeightOption
      BY DEF WorkerTyped
    <2> QED
      BY <2>1, UnderThePin
  <1> HIDE DEF chain, window
  <1>3. DOMAIN artifact.records \subseteq DOMAIN run.index.txs
    BY <1>1, <1>2 DEF InWindow
  <1>4. IsFiniteSet(DOMAIN run.index.txs)
    BY DEF ExportTyped
  <1> QED
    BY <1>3, <1>4, FS_Subset

\* The compared baseline is a part of the baseline.
LEMMA BaselineIsFinite ==
  ASSUME NEW run, IsFiniteSet(DOMAIN run.baseline), load_false_positive_txids(run.sidecars) # None,
         NEW args, NEW artifact
  PROVE  IsFiniteSet(DOMAIN ScopedBaseline(run, args, load_false_positive_txids(run.sidecars), artifact).records)
  <1> DEFINE listed == load_false_positive_txids(run.sidecars)
             records == BaselineRecords(run, listed)
             scoped == ScopedBaseline(run, args, listed, artifact)
  <1>1. DOMAIN records \subseteq DOMAIN run.baseline
    BY GenuineRecords
  <1>2. \A window, heights : DOMAIN restrict_baseline_to_window(records, window, heights).records \subseteq DOMAIN records
    <2> HIDE DEF records
    <2> QED
      BY DEF restrict_baseline_to_window
  <1> HIDE DEF records, listed
  <1>3. DOMAIN scoped.records \subseteq DOMAIN records
    BY <1>2 DEF ScopedBaseline, records
  <1> QED
    BY <1>1, <1>3, FS_Subset DEF listed, records
-----------------------------------------------------------------------------
(***************************************************************************)
(* The worker.                                                             *)
(***************************************************************************)
\* Runs that differ in what a phase replaces.
SameRun(q, r) ==
  /\ q.id = r.id /\ q.index = r.index /\ q.blocks = r.blocks /\ q.baseline = r.baseline /\ q.images = r.images
  /\ q.clusters = r.clusters /\ q.sidecars = r.sidecars /\ q.references = r.references /\ q.daemon = r.daemon
  /\ q.mappings = r.mappings /\ q.previous_manifest = r.previous_manifest /\ q.scenario = r.scenario
  /\ q.manifest = r.manifest /\ q.coinjoin_type = r.coinjoin_type /\ q.rounds = r.rounds
  /\ q.analyzer = r.analyzer /\ q.wallet_records = r.wallet_records

\* Arguments that differ in the phase.
SameArgs(a, b) ==
  /\ a.mode = b.mode /\ a.coinjoin_type = b.coinjoin_type /\ a.min_input_count = b.min_input_count
  /\ a.joinmarket_detector = b.joinmarket_detector /\ a.fees = b.fees /\ a.max_depth = b.max_depth
  /\ a.first_wasabi2_block = b.first_wasabi2_block /\ a.pin_height = b.pin_height
  /\ a.scan_start_height = b.scan_start_height /\ a.scan_end_height = b.scan_end_height
  /\ a.skip_clustering = b.skip_clustering /\ a.max_block = b.max_block

\* Opening the index a part left replaces only the index and the artifact.
LEMMA OnlyIndex ==
  ASSUME NEW run, NEW index
  PROVE  /\ SameRun([[run EXCEPT !.index = index] EXCEPT !.index = index], [run EXCEPT !.index = index])
         /\ \A artifact : SameRun([[run EXCEPT !.index = index, !.artifact = artifact] EXCEPT !.index = index],
                                  [run EXCEPT !.index = index])
  BY DEF SameRun

\* The same index and the same options leave the same artifact, ...
LEMMA SameArtifact ==
  ASSUME NEW q, NEW r, SameRun(q, r), NEW a, NEW b, SameArgs(a, b)
  PROVE  write_analysis(q, a) = write_analysis(r, b)
  <1>1. artifact_parameters(a) = artifact_parameters(b)
    BY DEF artifact_parameters, SameArgs
  <1> QED
    BY <1>1 DEF write_analysis, SameRun, SameArgs

\* ... the same labels, ...
LEMMA SameLabels ==
  ASSUME NEW q, NEW r, SameRun(q, r)
  PROVE  build_emulator_data(q) = build_emulator_data(r)
  <1>1. \A labels, provenance, transactions :
          Unparseable(q, labels, provenance, transactions) <=> Unparseable(r, labels, provenance, transactions)
    BY DEF SameRun, Unparseable
  <1> QED
    BY <1>1 DEF build_emulator_data, SameRun

\* ... the same baseline, ...
LEMMA SameBaseline ==
  ASSUME NEW q, NEW r, SameRun(q, r), NEW a, NEW b, SameArgs(a, b), NEW listed, NEW analysis
  PROVE  ScopedBaseline(q, a, listed, analysis) = ScopedBaseline(r, b, listed, analysis)
  <1>1. BaselineRecords(q, listed) = BaselineRecords(r, listed)
    BY DEF BaselineRecords, SameRun
  <1> QED
    BY <1>1 DEF ScopedBaseline, SameArgs

\* ... the same explanations, ...
LEMMA SameExplanations ==
  ASSUME NEW a, NEW b, SameArgs(a, b), NEW records
  PROVE  add_blocksci_heuristic_explanations(records, a) = add_blocksci_heuristic_explanations(records, b)
  BY DEF add_blocksci_heuristic_explanations, SameArgs

\* ... the same sections, ...
LEMMA SameSections ==
  ASSUME NEW q, NEW r, SameRun(q, r), NEW a, NEW b, SameArgs(a, b), NEW left, NEW right, NEW emulatorData,
         NEW clusters, NEW coverage, NEW skipped, NEW scenario
  PROVE  build_report(q, a, left, right, emulatorData, clusters, coverage, skipped, scenario)
           = build_report(r, b, left, right, emulatorData, clusters, coverage, skipped, scenario)
  <1>1. artifact_parameters(a) = artifact_parameters(b)
    BY DEF artifact_parameters, SameArgs
  <1>2. \A images, mappings :
          build_run_manifest(q, a, scenario, images, mappings) = build_run_manifest(r, b, scenario, images, mappings)
    BY <1>1 DEF build_run_manifest, SameRun, SameArgs
  <1>3. add_blocksci_heuristic_explanations(left, a) = add_blocksci_heuristic_explanations(left, b)
    BY SameExplanations
  <1>4. build_warnings(a, right, emulatorData) = build_warnings(b, right, emulatorData)
    BY DEF build_warnings, SameArgs
  <1> QED
    BY <1>2, <1>3, <1>4 DEF build_report, SameRun, SameArgs

\* ... and the same report.
LEMMA SameReport ==
  ASSUME NEW q, NEW r, SameRun(q, r), NEW a, NEW b, SameArgs(a, b), NEW artifact
  PROVE  assemble_report(q, a, artifact) = assemble_report(r, b, artifact)
  <1>1. artifact_parameters(a) = artifact_parameters(b)
    BY DEF artifact_parameters, SameArgs
  <1>2. build_emulator_data(q) = build_emulator_data(r)
    BY SameLabels
  <1>3. \A listed, analysis : ScopedBaseline(q, a, listed, analysis) = ScopedBaseline(r, b, listed, analysis)
    BY SameBaseline
  <1>4. \A left, right, data, clusters, coverage, skipped, scenario :
          build_report(q, a, left, right, data, clusters, coverage, skipped, scenario)
           = build_report(r, b, left, right, data, clusters, coverage, skipped, scenario)
    BY SameSections
  <1>5. \A listed, analysis, scoped, scripts :
          ReportOf(q, a, listed, analysis, scoped, scripts) = ReportOf(r, b, listed, analysis, scoped, scripts)
    BY <1>2, <1>4 DEF ReportOf, SameRun, SameArgs
  <1>6. \A listed, analysis : ReportOn(q, a, listed, analysis) = ReportOn(r, b, listed, analysis)
    BY <1>3, <1>5 DEF ReportOn, SameRun
  <1> QED
    BY <1>1, <1>6 DEF assemble_report, SameRun, SameArgs

\* The heights of the exported blocks.
HeightsOf(blocks) == {blocks[b].height : b \in DOMAIN blocks}

\* The highest exported block is the last one.
LEMMA TopBlock ==
  ASSUME NEW run, ExportTyped(run), run.blocks # << >>
  PROVE  Max(HeightsOf(run.blocks)) \in Nat /\ HeightsOf(run.blocks) # {}
  <1> DEFINE heights == HeightsOf(run.blocks)
             last == run.blocks[Len(run.blocks)].height
  <1>1. Len(run.blocks) \in DOMAIN run.blocks
    <2>1. run.blocks \in Seq(Range(run.blocks))
      BY DEF ExportTyped
    <2>2. Len(run.blocks) \in Nat /\ Len(run.blocks) # 0 /\ DOMAIN run.blocks = 1 .. Len(run.blocks)
      BY <2>1, EmptySeq
    <2> QED
      BY <2>2
  <1>2. last \in heights /\ last \in Nat /\ \A h \in heights : h \in Nat /\ last >= h
    BY <1>1 DEF ExportTyped, HeightsOf
  <1> HIDE DEF heights, last
  <1>3. Max(heights) \in heights
    BY <1>2 DEF Max
  <1> QED
    BY <1>2, <1>3 DEF heights

\* A record is not None.
LEMMA NoneHasNoFields ==
  ASSUME NoFunction(None)
  PROVE  /\ \A i : [index |-> i] # None
         /\ \A c, i : [config |-> c, index |-> i] # None
         /\ \A r, s : [records |-> r, skipped |-> s] # None
         /\ \A i, a, r : [index |-> i, artifact |-> a, report |-> r] # None
  <1>1. ASSUME NEW i PROVE [index |-> i] # None
    <2>1. [index |-> i] \in [{"index"} -> {i}]
      OBVIOUS
    <2> QED
      BY <2>1, FunctionIsNot
  <1>2. ASSUME NEW c, NEW i PROVE [config |-> c, index |-> i] # None
    <2>1. [config |-> c, index |-> i] \in [{"config", "index"} -> {c, i}]
      OBVIOUS
    <2> QED
      BY <2>1, FunctionIsNot
  <1>3. ASSUME NEW r, NEW s PROVE [records |-> r, skipped |-> s] # None
    <2>1. [records |-> r, skipped |-> s] \in [{"records", "skipped"} -> {r, s}]
      OBVIOUS
    <2> QED
      BY <2>1, FunctionIsNot
  <1>4. ASSUME NEW i, NEW a, NEW r PROVE [index |-> i, artifact |-> a, report |-> r] # None
    <2>1. [index |-> i, artifact |-> a, report |-> r] \in [{"index", "artifact", "report"} -> {i, a, r}]
      OBVIOUS
    <2> QED
      BY <2>1, FunctionIsNot
  <1> QED
    BY <1>1, <1>2, <1>3, <1>4

\* An artifact is not None.
LEMMA ArtifactIsNotNone ==
  ASSUME NoFunction(None), NEW m, NEW i, NEW p, NEW r, NEW k, NEW d, NEW c, NEW e, NEW w, NEW h
  PROVE  [mode |-> m, run_id |-> i, parameters |-> p, records |-> r, skipped_txids |-> k, diagnostics |-> d,
          clusters |-> c, mix_events |-> e, scan_window |-> w, baseline_heights |-> h] # None
  <1>1. [mode |-> m, run_id |-> i, parameters |-> p, records |-> r, skipped_txids |-> k, diagnostics |-> d,
         clusters |-> c, mix_events |-> e, scan_window |-> w, baseline_heights |-> h]
          \in [{"mode", "run_id", "parameters", "records", "skipped_txids", "diagnostics",
                "clusters", "mix_events", "scan_window", "baseline_heights"} -> {m, i, p, r, k, d, c, e, w, h}]
    OBVIOUS
  <1> QED
    BY <1>1, FunctionIsNot

\* What an emulation's parser leaves, and what the analysis of it finds.
LEMMA EmulationParsed ==
  ASSUME NoFunction(None), NEW run, ExportTyped(run), run.blocks # << >>,
         NEW args, args.mode = "emulator", args.max_block = None, args.phase \in {"run", "parse"},
         NEW top, top = Max(HeightsOf(run.blocks))
  PROVE  /\ top + 1 \in Nat \ {0}
         /\ parse_chain(args, run.blocks, None, run.index)
              = [config |-> [limit |-> top + 1], index |-> ExternalBlockchain(run.index, top + 1)]
         /\ ExternalBlockchain(run.index, top + 1).blocks
              = IF top + 1 <= run.index.blocks THEN top + 1 ELSE run.index.blocks
  <1>1. top \in Nat
    BY TopBlock
  <1>2. top + 1 \in Nat \ {0} /\ top + 1 # None /\ top + 1 # 0
    BY <1>1, NoneAssumption
  <1>3. ParseLimit(args, run.blocks) = top + 1
    BY DEF ParseLimit, HeightsOf
  <1>4. run.index.blocks \in Int
    BY DEF ExportTyped
  <1>5. ExternalBlockchain(run.index, top + 1).blocks = Min({top + 1, run.index.blocks})
    BY <1>2 DEF ExternalBlockchain
  <1>6. Min({top + 1, run.index.blocks}) = IF top + 1 <= run.index.blocks THEN top + 1 ELSE run.index.blocks
    BY <1>2, <1>4, LeastOfTwo
  <1>7. parse_chain(args, run.blocks, None, run.index)
              = [config |-> [limit |-> top + 1], index |-> ExternalBlockchain(run.index, top + 1)]
    <2>1. ~(args.phase = "update" \/ (args.mode = "external" /\ None # None))
      OBVIOUS
    <2> QED
      BY <1>2, <1>3, <2>1 DEF parse_chain
  <1> QED
    BY <1>2, <1>5, <1>6, <1>7

\* An emulation has an artifact, whose chain check is whether the index ends at the export's tip.
LEMMA EmulationAnalysed ==
  ASSUME NoFunction(None), NEW run, run.index.blocks \in Nat \ {0}, run.blocks # << >>,
         NEW args, args.mode = "emulator", {args.pin_height, args.scan_start_height, args.scan_end_height} = {None},
         NEW top, top \in Nat, top = Max(HeightsOf(run.blocks)), HeightsOf(run.blocks) # {}
  PROVE  /\ write_analysis(run, args) # None
         /\ write_analysis(run, args).diagnostics.chain = (run.index.blocks - 1 = top)
  <1> DEFINE chain == open_chain(run.index, Pinned(args.pin_height))
             window == scan_window(chain, args.scan_start_height, args.scan_end_height)
             exported == export_blocksci_records(run.index, args.coinjoin_type, Pinned(args.pin_height),
                                            args.scan_start_height, args.scan_end_height)
             artifact == write_analysis(run, args)
  <1>1. args.pin_height = None /\ args.scan_start_height = None /\ args.scan_end_height = None
    OBVIOUS
  <1>2. chain.blocks = run.index.blocks
    BY <1>1 DEF open_chain, ExternalBlockchain, Pinned
  <1> HIDE DEF chain
  <1>3. window = [start |-> 0, end |-> chain.blocks]
    BY <1>1, <1>2 DEF scan_window
  <1>4. [start |-> 0, end |-> chain.blocks] # None
    BY <1>2, NoneAssumption
  <1>5. exported # None
    <2> HIDE DEF window
    <2>1. \E found, skipped : exported = [records |-> _records_by_txid(chain, found), skipped |-> skipped]
      BY <1>3, <1>4 DEF export_blocksci_records, chain, window
    <2> HIDE DEF exported
    <2> QED
      BY <2>1, NoneHasNoFields
  <1>6. \E found : /\ artifact # None
                   /\ artifact.diagnostics = build_integration_diagnostics(run.index, run.blocks, found,
                                                                args.coinjoin_type, run.images)
    <2>1. artifact # None
      <3> HIDE DEF exported
      <3>1. \A m, i, p, r, k, d, c, e, w, h :
               [mode |-> m, run_id |-> i, parameters |-> p, records |-> r, skipped_txids |-> k, diagnostics |-> d,
                clusters |-> c, mix_events |-> e, scan_window |-> w, baseline_heights |-> h] # None
        BY ArtifactIsNotNone
      <3> QED
        BY <1>5, <3>1 DEF write_analysis, exported
    <2>2. artifact.diagnostics = build_integration_diagnostics(run.index, run.blocks, DOMAIN exported.records,
                                                                args.coinjoin_type, run.images)
      <3> HIDE DEF exported
      <3> QED
        BY <1>5 DEF write_analysis, exported
    <2> QED
      BY <2>1, <2>2
  <1> HIDE DEF artifact
  <1>7. artifact.diagnostics.chain = build_chain_diagnostics(ExternalBlockchain(run.index, 0),
                                                             exported_block_targets(run.blocks).top)
    BY <1>6 DEF build_integration_diagnostics
  <1>8. exported_block_targets(run.blocks).top = top
    BY DEF exported_block_targets, HeightsOf
  <1>9. ExternalBlockchain(run.index, 0).blocks = run.index.blocks
    BY DEF ExternalBlockchain
  <1>10. top # None
    BY NoneAssumption
  <1>11. artifact.diagnostics.chain = (run.index.blocks - 1 = top)
    BY <1>7, <1>8, <1>9, <1>10 DEF build_chain_diagnostics
  <1> QED
    BY <1>6, <1>11 DEF artifact

\* Two phases of the same arguments.
LEMMA SameAsOne ==
  ASSUME NEW a, NEW b, NEW c, SameArgs(a, c), SameArgs(b, c)
  PROVE  SameArgs(a, b)
  BY DEF SameArgs

\* A phase that parses an emulation.
LEMMA ParsingPhase ==
  ASSUME NoFunction(None), NEW run, ExportTyped(run), run.blocks # << >>, "index" \in DOMAIN run,
         NEW args, args.mode = "emulator", args.max_block = None, args.phase \in {"run", "parse"},
         NEW top, top = Max(HeightsOf(run.blocks)),
         NEW index, index = ExternalBlockchain(run.index, top + 1)
  PROVE  /\ index.blocks = IF top + 1 <= run.index.blocks THEN top + 1 ELSE run.index.blocks
         /\ execute(run, args, run.index, None) = AnalyzePhase([run EXCEPT !.index = index], args)
  <1> DEFINE p == parse_chain(args, run.blocks, None, run.index)
  <1>1. ParsedIndex(run, args, run.index, None) = p
    BY DEF ParsedIndex
  <1>2. /\ index.blocks = IF top + 1 <= run.index.blocks THEN top + 1 ELSE run.index.blocks
        /\ p = [config |-> [limit |-> top + 1], index |-> index]
    BY EmulationParsed
  <1> HIDE DEF p
  <1>3. p # None /\ p.index = index
    BY <1>2, NoneHasNoFields
  <1> QED
    BY <1>1, <1>2, <1>3 DEF execute

\* A phase that reads what the parser left.
LEMMA ReadingPhase ==
  ASSUME NoFunction(None), NEW run, NEW args, args.phase \in {"analyze", "report"}, NEW source
  PROVE  execute(run, args, source, None) = AnalyzePhase([run EXCEPT !.index = run.index], args)
  <1>1. ParsedIndex(run, args, source, None) = [index |-> run.index]
    BY DEF ParsedIndex
  <1> QED
    BY <1>1, NoneHasNoFields DEF execute

\* A phase that analyses, and reports on it when asked to.
LEMMA AnalyzingPhase ==
  ASSUME NEW run, NEW args, args.phase \in {"run", "analyze"}
  PROVE  /\ AnalyzePhase(run, args).artifact = write_analysis(run, args)
         /\ write_analysis(run, args) # None /\ args.report =>
               AnalyzePhase(run, args).report = assemble_report(run, args, write_analysis(run, args))
  BY DEF AnalyzePhase, ReportPhase

\* A phase that only reports.
LEMMA ReportingPhase ==
  ASSUME NEW run, NEW args, args.phase = "report"
  PROVE  AnalyzePhase(run, args).report = assemble_report(run, args, run.artifact)
  BY DEF AnalyzePhase, ReportPhase

\* A worker over any emulation parses up to the exported tip, so that its own diagnostics find it,
\* and a report of the parts run one by one is the report of one run (worker.py:54-105).
THEOREM WorkerHolds ==
  ASSUME NoFunction(None), NEW run, ExportTyped(run), NEW args, WorkerTyped(run, args)
  PROVE  WorkerParsesTheExport(run, args)
  <1> DEFINE ar == [args EXCEPT !.phase = "run", !.report = TRUE]
             ap == [args EXCEPT !.phase = "parse", !.report = FALSE]
             aa == [args EXCEPT !.phase = "analyze", !.report = FALSE]
             at == [args EXCEPT !.phase = "report", !.report = FALSE]
             top == Max(HeightsOf(run.blocks))
             index == ExternalBlockchain(run.index, top + 1)
             r0 == [run EXCEPT !.index = index]
             once == execute(run, ar, run.index, None)
             parsed == execute(run, ap, run.index, None)
             r1 == [run EXCEPT !.index = parsed.index]
             analysed == execute(r1, aa, run.index, None)
             r2 == [run EXCEPT !.index = parsed.index, !.artifact = analysed.artifact]
             reported == execute(r2, at, run.index, None)
  <1> SUFFICES ASSUME args.mode = "emulator"
               PROVE  /\ once # None /\ once.artifact # None
                      /\ once.artifact.diagnostics.chain = (run.index.blocks > top)
                      /\ reported.report = once.report
    BY DEF WorkerParsesTheExport, HeightsOf
  <1>1. /\ {"index", "artifact"} \subseteq DOMAIN run /\ {"phase", "report"} \subseteq DOMAIN args
        /\ {args.pin_height, args.scan_start_height, args.scan_end_height, args.max_block} = {None}
        /\ run.blocks # << >> /\ run.index.blocks \in Nat \ {0}
    BY DEF WorkerTyped, ExportTyped
  <1>2. /\ ar.phase = "run" /\ ar.report = TRUE /\ SameArgs(ar, args)
        /\ ap.phase = "parse" /\ SameArgs(ap, args)
        /\ aa.phase = "analyze" /\ SameArgs(aa, args)
        /\ at.phase = "report" /\ SameArgs(at, args)
    <2>1. ar.phase = "run" /\ ar.report = TRUE /\ SameArgs(ar, args)
      BY <1>1 DEF SameArgs
    <2>2. ap.phase = "parse" /\ SameArgs(ap, args)
      BY <1>1 DEF SameArgs
    <2>3. aa.phase = "analyze" /\ SameArgs(aa, args)
      BY <1>1 DEF SameArgs
    <2>4. at.phase = "report" /\ SameArgs(at, args)
      BY <1>1 DEF SameArgs
    <2> QED
      BY <2>1, <2>2, <2>3, <2>4
  <1>3. top \in Nat /\ HeightsOf(run.blocks) # {}
    BY <1>1, TopBlock
  <1> HIDE DEF ar, ap, aa, at
  <1>4. SameArgs(aa, ar) /\ SameArgs(at, ar)
    BY <1>2, SameAsOne
  <1>5. /\ ar.mode = "emulator" /\ ar.max_block = None /\ ap.mode = "emulator" /\ ap.max_block = None
        /\ {ar.pin_height, ar.scan_start_height, ar.scan_end_height} = {None}
    <2>1. args.pin_height = None /\ args.scan_start_height = None /\ args.scan_end_height = None /\ args.max_block = None
      BY <1>1
    <2>2. /\ ar.mode = args.mode /\ ar.max_block = args.max_block /\ ap.mode = args.mode
          /\ ap.max_block = args.max_block /\ ar.pin_height = args.pin_height
          /\ ar.scan_start_height = args.scan_start_height /\ ar.scan_end_height = args.scan_end_height
      BY <1>2 DEF SameArgs
    <2> QED
      BY <2>1, <2>2
  <1>6. /\ index.blocks = IF top + 1 <= run.index.blocks THEN top + 1 ELSE run.index.blocks
        /\ once = AnalyzePhase(r0, ar) /\ parsed = AnalyzePhase(r0, ap)
    <2>0. /\ "index" \in DOMAIN run /\ ar.phase \in {"run", "parse"} /\ ap.phase \in {"run", "parse"}
          /\ top = Max(HeightsOf(run.blocks)) /\ index = ExternalBlockchain(run.index, top + 1)
      BY <1>1, <1>2
    <2> HIDE DEF top, index
    <2>1. /\ index.blocks = IF top + 1 <= run.index.blocks THEN top + 1 ELSE run.index.blocks
          /\ once = AnalyzePhase(r0, ar)
      BY <2>0, <1>1, <1>5, ParsingPhase
    <2>2. parsed = AnalyzePhase(r0, ap)
      BY <2>0, <1>1, <1>5, ParsingPhase
    <2> QED
      BY <2>1, <2>2
  <1> HIDE DEF index
  <1>7. r0.index = index /\ r0.blocks = run.blocks
    BY <1>1
  <1>8. /\ write_analysis(r0, ar) # None
        /\ write_analysis(r0, ar).diagnostics.chain = (index.blocks - 1 = top)
    <2> HIDE DEF r0
    <2>1. r0.index.blocks \in Nat \ {0} /\ r0.blocks # << >>
      <3> HIDE DEF top
      <3> QED
        BY <1>1, <1>3, <1>6, <1>7
    <2>2. top = Max(HeightsOf(r0.blocks)) /\ HeightsOf(r0.blocks) # {}
      BY <1>3, <1>7
    <2> HIDE DEF top
    <2>3. /\ write_analysis(r0, ar) # None
          /\ write_analysis(r0, ar).diagnostics.chain = (r0.index.blocks - 1 = top)
      BY ZenonT(60), <1>3, <1>5, <2>1, <2>2, EmulationAnalysed
    <2> QED
      BY <1>7, <2>3
  <1> HIDE DEF top
  <1>9. (index.blocks - 1 = top) = (run.index.blocks > top)
    BY <1>1, <1>3, <1>6
  <1> HIDE DEF once, parsed
  <1>10. once.artifact = write_analysis(r0, ar) /\ once.report = assemble_report(r0, ar, once.artifact)
    <2> HIDE DEF r0
    <2> QED
      BY <1>2, <1>6, <1>8, AnalyzingPhase
  <1>11. parsed.index = index
    BY <1>6, <1>7 DEF AnalyzePhase, ReportPhase
  <1>12. r1 = r0
    BY <1>11
  <1>13. analysed.artifact = write_analysis([r0 EXCEPT !.index = r0.index], aa)
    <2> HIDE DEF r0, r1
    <2> QED
      BY <1>2, <1>12, ReadingPhase, AnalyzingPhase
  <1> HIDE DEF analysed, r1
  <1>14. SameRun([r0 EXCEPT !.index = r0.index], r0) /\ SameRun([r2 EXCEPT !.index = r2.index], r0)
    <2>1. SameRun([r0 EXCEPT !.index = r0.index], r0)
      BY <1>11, OnlyIndex
    <2>2. SameRun([r2 EXCEPT !.index = r2.index], r0)
      BY <1>11, OnlyIndex
    <2> QED
      BY <2>1, <2>2
  <1>15. [r2 EXCEPT !.index = r2.index].artifact = analysed.artifact
    BY <1>1
  <1> HIDE DEF r2, r0
  <1>16. reported.report = assemble_report([r2 EXCEPT !.index = r2.index], at, analysed.artifact)
    <2>1. at.phase \in {"analyze", "report"}
      BY <1>2
    <2>2. reported = AnalyzePhase([r2 EXCEPT !.index = r2.index], at)
      BY <2>1, ReadingPhase
    <2> QED
      BY <1>2, <1>15, <2>2, ReportingPhase
  <1>17. analysed.artifact = once.artifact
    BY <1>4, <1>10, <1>13, <1>14, SameArtifact
  <1> HIDE DEF reported
  <1>18. reported.report = once.report
    BY <1>4, <1>10, <1>14, <1>16, <1>17, SameReport
  <1>19. once # None
    <2>1. \E i, a, r : once = [index |-> i, artifact |-> a, report |-> r]
      BY <1>6 DEF AnalyzePhase, ReportPhase
    <2> QED
      BY <2>1, NoneHasNoFields
  <1> QED
    BY <1>8, <1>9, <1>10, <1>18, <1>19
-----------------------------------------------------------------------------
\* Every report of its types is sound: labels fail closed, matrices and clusters count what they
\* say, a report is of its own artifact, blames BlockSci only for what it scanned, clean diagnostics
\* mean the export, and the worker parses it (exporters/). None is no
\* function: it is no record and no heights.
THEOREM ReportHolds == ASSUME NoFunction(None) PROVE SectionTyped => ReportIsSound
  <1> SUFFICES ASSUME SectionTyped
               PROVE  ReportIsSound
    OBVIOUS
  <1>1. LabelsClosed /\ MatrixCounts
    BY LabelsHold, MatrixHolds DEF SectionTyped, LabelsClosed, MatrixCounts
  <1>2. ClustersAgree
    BY ClustersHold DEF SectionTyped, ClustersAgree
  <1>3. CASE input.kind = "report"
    <2>1. /\ ExportTyped(input.run) /\ WorkerTyped(input.run, input.wrote)
          /\ input.run.baseline # None => IsFiniteSet(DOMAIN input.run.baseline)
      BY <1>3 DEF SectionTyped
    <2>2. ReportCounts
      <3> SUFFICES ASSUME Report(input) # None
                   PROVE  ReportCountsBothSides(input.run, input.args, Artifact(input), Report(input))
        BY DEF ReportCounts, ReportCountsBothSides
      <3>1. Artifact(input) # None /\ input.run.baseline # None /\ load_false_positive_txids(input.run.sidecars) # None
        BY ReportOfArtifact DEF Report
      <3>2. IsFiniteSet(DOMAIN Artifact(input).records)
        BY <2>1, <3>1, ArtifactIsFinite DEF Artifact
      <3> QED
        BY <2>1, <3>1, <3>2, BaselineIsFinite, CountsHold DEF Report
    <2>3. ScannedMisses
      BY <2>1, MissesHold DEF ScannedMisses, Report, Artifact
    <2>4. SoundDiagnostics
      BY <2>1, DiagnosticsHold DEF SoundDiagnostics, Artifact
    <2>5. WorkerParses
      BY <2>1, WorkerHolds DEF WorkerParses
    <2> QED
      BY <1>1, <1>2, <2>2, <2>3, <2>4, <2>5 DEF ReportIsSound
  <1>4. CASE input.kind # "report"
    BY <1>1, <1>2, <1>4 DEF ReportIsSound, ReportCounts, ScannedMisses, SoundDiagnostics, WorkerParses
  <1> QED
    BY <1>3, <1>4
-----------------------------------------------------------------------------
(***************************************************************************)
(* The detector rules over the heights.                                    *)
(***************************************************************************)
\* What a record's outputs may cost the rules when the height rises.
LEMMA KnownIsANumber ==
  ASSUME NEW outputs, IsFiniteSet(DOMAIN outputs)
  PROVE  wasabi2_known_denomination_count(outputs) \in Nat
  <1> DEFINE known == {i \in DOMAIN outputs : outputs[i].value \in wasabi2_blocksci_denominations}
  <1>1. IsFiniteSet(known)
    BY FS_Subset
  <1> HIDE DEF known
  <1>2. Cardinality(known) \in Nat
    BY <1>1, FS_CardinalityType
  <1> QED
    BY <1>2 DEF wasabi2_known_denomination_count, known

\* The Wasabi rules relax with height for every transaction and every size of the thresholds: who
\* passes them in one block passes them in every later one (heuristics.py:60-63, 102-105).
THEOREM WasabiHolds ==
  ASSUME NEW record, "height" \in DOMAIN record, record.height \in HeightOption, NEW later \in Nat,
         NEW T, record.inputs \in Seq(T), record.outputs \in Seq(T)
  PROVE  WasabiRulesRelax(record, later)
  <1> DEFINE raised == [record EXCEPT !.height = later]
             before == explain_wasabi2_heuristic(record, None, 0)
             after == explain_wasabi2_heuristic(raised, None, 0)
             known == wasabi2_known_denomination_count(record.outputs)
             count == Len(record.outputs)
             inputs == Len(record.inputs)
             low == wasabi2_denomination_ratio(later)
             high == wasabi2_denomination_ratio(record.height)
  <1> SUFFICES ASSUME record.height \in Nat, record.height <= later, FailedRules(before) = {}
               PROVE  FailedRules(after) = {}
    BY DEF WasabiRulesRelax, WouldPassWasabi2, HeightOption
  <1>1. raised.height = later /\ raised.inputs = record.inputs /\ raised.outputs = record.outputs
    OBVIOUS
  <1>2. later # None /\ record.height # None
    BY NoneAssumption
  <1> HIDE DEF raised
  <1>3. known \in Nat /\ count \in Nat /\ inputs \in Nat
    <2>1. IsFiniteSet(DOMAIN record.outputs) /\ count \in Nat /\ inputs \in Nat
      <3>1. DOMAIN record.outputs = 1 .. count /\ count \in Nat /\ inputs \in Nat
        BY LenProperties
      <3>2. \A n \in Nat : IsFiniteSet(1 .. n)
        BY FS_Interval
      <3> QED
        BY <3>1, <3>2
    <2> QED
      BY <2>1, KnownIsANumber
  <1>4. wasabi2_default_input_threshold(later) <= wasabi2_default_input_threshold(record.height)
    BY <1>2, HeuristicsAssumption DEF wasabi2_default_input_threshold
  <1>5. wasabi2_default_input_threshold(later) \in Int /\ wasabi2_default_input_threshold(record.height) \in Int
    BY HeuristicsAssumption DEF wasabi2_default_input_threshold
  <1>6. \/ low = high
        \/ low = [num |-> 3, den |-> 4] /\ high = [num |-> 4, den |-> 5]
    BY <1>2, HeuristicsAssumption DEF wasabi2_denomination_ratio
  <1>7. ~(known * high.den > count * high.num) \/ known * low.den > count * low.num
    <2> HIDE DEF known, count, low, high
    <2>1. CASE low = high
      BY <2>1
    <2>2. CASE low = [num |-> 3, den |-> 4] /\ high = [num |-> 4, den |-> 5]
      <3>1. low.num = 3 /\ low.den = 4 /\ high.num = 4 /\ high.den = 5
        BY <2>2
      <3>2. known * 5 > count * 4 => known * 4 > count * 3
        BY <1>3
      <3> QED
        BY <3>1, <3>2
    <2> QED
      BY <1>6, <2>1, <2>2
  <1>8. DOMAIN before = DOMAIN after
    BY DEF explain_wasabi2_heuristic
  <1>9. /\ after.input_address_types = before.input_address_types
        /\ after.output_address_types = before.output_address_types
        /\ after.input_values_descending = before.input_values_descending
        /\ after.output_values_descending = before.output_values_descending
        /\ after.unique_input_addresses = before.unique_input_addresses
        /\ after.unique_output_addresses = before.unique_output_addresses
    BY <1>1 DEF explain_wasabi2_heuristic
  <1>10. /\ ~(inputs >= wasabi2_default_input_threshold(record.height)) => before.input_count = FALSE
         /\ inputs >= wasabi2_default_input_threshold(later) => after.input_count = TRUE
    <2>1. /\ before.input_count = (inputs >= wasabi2_default_input_threshold(record.height))
          /\ after.input_count = (inputs >= wasabi2_default_input_threshold(later))
      BY <1>1 DEF explain_wasabi2_heuristic
    <2> DEFINE passed == inputs >= wasabi2_default_input_threshold(record.height)
               passes == inputs >= wasabi2_default_input_threshold(later)
               was == before.input_count
               is == after.input_count
    <2>2. was = passed /\ is = passes
      BY <2>1
    <2>3. passed \in BOOLEAN /\ passes \in BOOLEAN
      OBVIOUS
    <2> HIDE DEF passed, passes, was, is
    <2>4. (~passed => was = FALSE) /\ (passes => is = TRUE)
      BY <2>2, <2>3
    <2> QED
      BY <2>4, Zenon DEF passed, passes, was, is
  <1>11. /\ ~(known * high.den > count * high.num) => before.wasabi2_denominations = FALSE
         /\ known * low.den > count * low.num => after.wasabi2_denominations = TRUE
    <2>1. /\ before.wasabi2_denominations = (known * high.den > count * high.num)
          /\ after.wasabi2_denominations = (known * low.den > count * low.num)
      <3> HIDE DEF low, high, known, count
      <3> QED
        BY <1>1 DEF explain_wasabi2_heuristic, low, high, known, count
    <2> DEFINE passed == known * high.den > count * high.num
               passes == known * low.den > count * low.num
               was == before.wasabi2_denominations
               is == after.wasabi2_denominations
    <2>2. was = passed /\ is = passes
      BY <2>1
    <2>3. passed \in BOOLEAN /\ passes \in BOOLEAN
      <3> HIDE DEF known, count, low, high
      <3> QED
        OBVIOUS
    <2> HIDE DEF passed, passes, was, is
    <2>4. (~passed => was = FALSE) /\ (passes => is = TRUE)
      BY <2>2, <2>3
    <2> QED
      BY <2>4, Zenon DEF passed, passes, was, is
  <1>12. after.first_wasabi2_block = TRUE
    <2>1. after.first_wasabi2_block = (later # None /\ later >= 0)
      BY <1>1 DEF explain_wasabi2_heuristic
    <2>2. later >= 0
      OBVIOUS
    <2> QED
      BY <1>2, <2>1, <2>2, Zenon
  <1>13. DOMAIN after = {"first_wasabi2_block", "input_address_types", "output_address_types", "input_count",
                         "input_values_descending", "unique_input_addresses", "output_values_descending",
                         "unique_output_addresses", "wasabi2_denominations"}
    BY DEF explain_wasabi2_heuristic
  <1> HIDE DEF before, after, known, count, inputs, low, high
  <1>14. \A name \in DOMAIN after : before[name] # FALSE
    BY <1>8 DEF FailedRules
  <1>15. after.input_count # FALSE
    <2>1. before.input_count # FALSE
      BY <1>13, <1>14
    <2>2. inputs >= wasabi2_default_input_threshold(record.height)
      BY <1>10, <2>1
    <2>3. inputs >= wasabi2_default_input_threshold(later)
      BY <1>3, <1>4, <1>5, <2>2
    <2> QED
      BY <1>10, <2>3
  <1>16. after.wasabi2_denominations # FALSE
    <2>1. before.wasabi2_denominations # FALSE
      BY <1>13, <1>14
    <2>2. known * high.den > count * high.num
      BY <1>11, <2>1
    <2> QED
      BY <1>7, <1>11, <2>2
  <1>17. \A name \in DOMAIN after : after[name] # FALSE
    BY <1>9, <1>12, <1>13, <1>14, <1>15, <1>16
  <1> QED
    BY <1>17 DEF FailedRules
-----------------------------------------------------------------------------
(***************************************************************************)
(* Induction and recursion over the subsets of a finite set.               *)
(***************************************************************************)
\* What holds of the empty set, and of a set when it holds of the set without any one element.
LEMMA SetInduction ==
  ASSUME NEW D, IsFiniteSet(D), NEW P, {} \in P,
         \A T \in SUBSET D : T # {} /\ (\A x \in T : T \ {x} \in P) => T \in P
  PROVE  \A T \in SUBSET D : T \in P
  <1> DEFINE S == {n \in Nat : \A T \in SUBSET D : Cardinality(T) <= n => T \in P}
  <1>1. Cardinality(D) \in Nat
    BY FS_CardinalityType
  <1>2. \A T \in SUBSET D : IsFiniteSet(T) /\ Cardinality(T) \in Nat /\ Cardinality(T) <= Cardinality(D)
    BY FS_Subset, FS_CardinalityType
  <1>3. 0 \in S
    <2> SUFFICES \A T \in SUBSET D : Cardinality(T) <= 0 => T \in P
      OBVIOUS
    <2> SUFFICES ASSUME NEW T \in SUBSET D, Cardinality(T) <= 0
                 PROVE  T \in P
      OBVIOUS
    <2>1. Cardinality(T) = 0
      BY <1>2
    <2> QED
      BY <1>2, <2>1, FS_EmptySet
  <1>4. ASSUME NEW n \in 0..(Cardinality(D) - 1), n \in S
        PROVE  n + 1 \in S
    <2> SUFFICES \A T \in SUBSET D : Cardinality(T) <= n + 1 => T \in P
      BY <1>1
    <2> SUFFICES ASSUME NEW T \in SUBSET D, Cardinality(T) <= n + 1, T # {}
                 PROVE  T \in P
      BY <1>3
    <2>1. ASSUME NEW x \in T
          PROVE  T \ {x} \in P
      <3>1. Cardinality(T \ {x}) = Cardinality(T) - 1
        BY <1>2, FS_RemoveElement
      <3>2. T \ {x} \in SUBSET D /\ Cardinality(T \ {x}) <= n
        BY <1>1, <1>2, <3>1
      <3> QED
        BY <1>4, <3>2
    <2> QED
      BY <2>1
  <1> HIDE DEF S
  <1>5. Cardinality(D) \in S
    BY <1>1, <1>3, <1>4, UpTo
  <1> QED
    BY <1>2, <1>5 DEF S

\* f begins with `first` and takes the value of a set from the set without its pick.
Picks(f, D, Values, first, pick, step) ==
    /\ f \in [SUBSET D -> Values] /\ f[{}] = first
    /\ \A s \in (SUBSET D) \ {{}} : f[s] = step[<<s, f[s \ {pick[s]}]>>]

\* A recursive definition over the subsets of a finite set has a function.
LEMMA SetRecursion ==
  ASSUME NEW D, IsFiniteSet(D), NEW Values, NEW first \in Values,
         NEW pick, \A s \in (SUBSET D) \ {{}} : pick[s] \in s,
         NEW step \in [(SUBSET D) \X Values -> Values]
  PROVE  \E f : Picks(f, D, Values, first, pick, step)
  <1> DEFINE N == Cardinality(D)
             Fs == [SUBSET D -> Values]
             Next1(g) == [s \in SUBSET D |-> IF s = {} THEN first ELSE step[<<s, g[s \ {pick[s]}]>>]]
             next == [x \in (1..N) \X Fs |-> Next1(x[2])]
             zero == [s \in SUBSET D |-> first]
  <1>1. N \in Nat
    BY FS_CardinalityType
  <1>2. \A T \in SUBSET D : IsFiniteSet(T) /\ Cardinality(T) \in Nat /\ Cardinality(T) <= N
    BY FS_Subset, FS_CardinalityType
  <1>3. ASSUME NEW g \in Fs
        PROVE  Next1(g) \in Fs
    <2>1. ASSUME NEW s \in SUBSET D, s # {}
          PROVE  step[<<s, g[s \ {pick[s]}]>>] \in Values
      <3>1. s \ {pick[s]} \in SUBSET D
        OBVIOUS
      <3>2. g[s \ {pick[s]}] \in Values
        BY <3>1
      <3> QED
        BY <3>2
    <2> QED
      BY <2>1
  <1>4. next \in [(1..N) \X Fs -> Fs] /\ zero \in Fs
    <2> HIDE DEF Next1
    <2> QED
      BY <1>3
  <1>5. PICK h : Recurs(h, N, Fs, zero, next)
    <2> HIDE DEF next, zero, Fs, N
    <2> QED
      BY <1>1, <1>4, Recursion
  <1>6. h \in [0..N -> Fs] /\ h[0] = zero /\ \A n \in 1..N : h[n] = Next1(h[n - 1])
    <2>1. h \in [0..N -> Fs] /\ h[0] = zero /\ \A n \in 1..N : h[n] = next[<<n, h[n - 1]>>]
      BY <1>5 DEF Recurs
    <2>2. ASSUME NEW n \in 1..N
          PROVE  next[<<n, h[n - 1]>>] = Next1(h[n - 1])
      <3>1. n - 1 \in 0..N /\ h[n - 1] \in Fs
        BY <1>1, <2>1
      <3> HIDE DEF Next1, Fs
      <3> QED
        BY <3>1
    <2> QED
      BY <2>1, <2>2
  <1> DEFINE Same == {n \in 0..N : \A k \in n..N : \A s \in SUBSET D : Cardinality(s) <= n => h[k][s] = h[n][s]}
  <1>7. \A n \in 0..N : h[n] \in Fs /\ h[n][{}] = first
    <2> SUFFICES ASSUME NEW n \in 0..N
                 PROVE  h[n] \in Fs /\ h[n][{}] = first
      OBVIOUS
    <2>1. CASE n = 0
      BY <1>6, <2>1
    <2>2. CASE n \in 1..N
      <3>1. n - 1 \in 0..N /\ h[n] = Next1(h[n - 1]) /\ h[n - 1] \in Fs
        <4> HIDE DEF Fs, N, Next1
        <4> QED
          BY <1>1, <1>6, <2>2
      <3>2. Next1(h[n - 1]) \in Fs
        BY <1>3, <3>1
      <3>3. Next1(h[n - 1])[{}] = first
        OBVIOUS
      <3> QED
        BY <3>1, <3>2, <3>3
    <2> QED
      BY <1>1, <2>1, <2>2
  <1>8. 0 \in Same
    <2> SUFFICES ASSUME NEW k \in 0..N, NEW s \in SUBSET D, Cardinality(s) <= 0
                 PROVE  h[k][s] = h[0][s]
      BY <1>1
    <2>1. s = {}
      BY <1>2, FS_EmptySet
    <2> QED
      BY <1>1, <1>7, <2>1
  <1>9. ASSUME NEW n \in 0..(N - 1), n \in Same
        PROVE  n + 1 \in Same
    <2> SUFFICES ASSUME NEW k \in (n + 1)..N, NEW s \in SUBSET D, Cardinality(s) <= n + 1
                 PROVE  h[k][s] = h[n + 1][s]
      BY <1>1
    <2>1. CASE s = {}
      BY <1>1, <1>7, <2>1
    <2>2. CASE s # {}
      <3> DEFINE r == s \ {pick[s]}
      <3>1. r \in SUBSET D /\ Cardinality(r) <= n
        <4>1. pick[s] \in s
          BY <2>2
        <4>2. Cardinality(r) = Cardinality(s) - 1
          BY <1>2, <4>1, FS_RemoveElement
        <4> QED
          BY <1>1, <1>2, <4>2
      <3>2. k - 1 \in n..N
        BY <1>1
      <3>3. h[k - 1][r] = h[n][r]
        BY <1>9, <3>1, <3>2
      <3>4. h[k] = Next1(h[k - 1]) /\ h[n + 1] = Next1(h[n])
        <4>1. k \in 1..N /\ n + 1 \in 1..N /\ (n + 1) - 1 = n
          BY <1>1
        <4> HIDE DEF Next1, N
        <4> QED
          BY <1>6, <4>1
      <3> QED
        BY <2>2, <3>3, <3>4
    <2> QED
      BY <2>1, <2>2
  <1>10. \A n \in 0..N : n \in Same
    <2> HIDE DEF Same, N
    <2> QED
      BY <1>1, <1>8, <1>9, UpTo
  <1>11. ASSUME NEW s \in (SUBSET D) \ {{}}
         PROVE  h[N][s] = step[<<s, h[N][s \ {pick[s]}]>>]
    <2> DEFINE r == s \ {pick[s]}
    <2>1. r \in SUBSET D /\ Cardinality(r) = Cardinality(s) - 1 /\ Cardinality(s) # 0
      <3>1. pick[s] \in s /\ s # {}
        OBVIOUS
      <3>2. IsFiniteSet(s) /\ Cardinality(s) \in Nat
        BY <1>2
      <3> QED
        BY <3>1, <3>2, FS_RemoveElement, FS_EmptySet
    <2>2. N \in 1..N /\ Cardinality(r) <= N - 1 /\ N - 1 \in 0..N
      BY <1>1, <1>2, <2>1
    <2>3. h[N][r] = h[N - 1][r]
      <3>1. N - 1 \in Same
        BY <1>10, <2>2
      <3>2. N \in (N - 1)..N
        BY <1>1
      <3> QED
        BY <2>1, <2>2, <3>1, <3>2
    <2>4. h[N] = Next1(h[N - 1])
      BY <1>6, <2>2
    <2>5. h[N][s] = step[<<s, h[N - 1][r]>>]
      BY <2>4
    <2> QED
      BY <2>3, <2>5
  <1>12. h[N] \in Fs /\ h[N][{}] = first
    <2>1. N \in 0..N
      BY <1>1
    <2> HIDE DEF N, Fs
    <2> QED
      BY <1>7, <2>1
  <1>13. Picks(h[N], D, Values, first, pick, step)
    <2> HIDE DEF N
    <2> QED
      BY <1>11, <1>12 DEF Picks
  <1> QED
    BY <1>13
-----------------------------------------------------------------------------
(***************************************************************************)
(* Sums.                                                                   *)
(***************************************************************************)
\* The sum of f over S.
SumOf(f, S) == SumFunction([i \in S |-> f[i]])

\* The fold of a sum is a recursive function of the subsets.
SumIs(iter, f, S) ==
    iter = [s \in SUBSET S |-> IF s = {} THEN 0 ELSE LET x == CHOOSE x \in s : TRUE IN f[x] + iter[s \ {x}]]

\* The function of a sum exists, and what a sum is is its value.
LEMMA SumFold ==
  ASSUME NEW S, IsFiniteSet(S), NEW f, \A x \in S : f[x] \in Int
  PROVE  \E iter \in [SUBSET S -> Int] : SumIs(iter, f, S) /\ SumFunctionOnSet(f, S) = iter[S]
  <1> DEFINE iter == CHOOSE g : SumIs(g, f, S)
             pick == [s \in (SUBSET S) \ {{}} |-> CHOOSE x \in s : TRUE]
             step == [y \in (SUBSET S) \X Int |-> IF y[1] = {} THEN 0 ELSE f[pick[y[1]]] + y[2]]
  <1>1. \A s \in (SUBSET S) \ {{}} : pick[s] \in s
    OBVIOUS
  <1>2. step \in [(SUBSET S) \X Int -> Int]
    <2> HIDE DEF pick
    <2> QED
      BY <1>1
  <1>3. PICK g : Picks(g, S, Int, 0, pick, step)
    <2> HIDE DEF pick, step
    <2>1. 0 \in Int
      OBVIOUS
    <2> QED
      BY <1>1, <1>2, <2>1, SetRecursion
  <1>4. g \in [SUBSET S -> Int] /\ SumIs(g, f, S)
    <2>1. g \in [SUBSET S -> Int] /\ g[{}] = 0 /\ \A s \in (SUBSET S) \ {{}} : g[s] = step[<<s, g[s \ {pick[s]}]>>]
      <3> HIDE DEF pick, step
      <3> QED
        BY <1>3 DEF Picks
    <2>2. ASSUME NEW s \in (SUBSET S) \ {{}}
          PROVE  g[s] = LET x == CHOOSE x \in s : TRUE IN f[x] + g[s \ {x}]
      <3>1. s \ {pick[s]} \in SUBSET S /\ pick[s] = CHOOSE x \in s : TRUE
        OBVIOUS
      <3>2. step[<<s, g[s \ {pick[s]}]>>] = f[pick[s]] + g[s \ {pick[s]}]
        <4> HIDE DEF pick
        <4>1. g[s \ {pick[s]}] \in Int
          BY <2>1, <3>1
        <4> QED
          BY <4>1
      <3> QED
        BY <2>1, <3>1, <3>2
    <2>3. ASSUME NEW s \in SUBSET S
          PROVE  g[s] = IF s = {} THEN 0 ELSE LET x == CHOOSE x \in s : TRUE IN f[x] + g[s \ {x}]
      <3>1. CASE s = {}
        BY <2>1, <3>1
      <3>2. CASE s # {}
        BY <2>2, <3>2
      <3> QED
        BY <3>1, <3>2
    <2>4. g \in [SUBSET S -> Int]
      BY <2>1
    <2> HIDE DEF pick, step
    <2> QED
      BY <2>3, <2>4 DEF SumIs
  <1>5. SumIs(iter, f, S)
    BY <1>4
  <1>6. SumFunctionOnSet(f, S) = iter[S]
    BY DEF SumFunctionOnSet, FoldFunctionOnSet, MapThenFoldSet, SumIs
  <1>7. iter = g
    <2> HIDE DEF iter
    <2> DEFINE P == {s \in SUBSET S : iter[s] = g[s]}
    <2>1. {} \in P
      BY <1>4, <1>5 DEF SumIs
    <2>2. ASSUME NEW T \in SUBSET S, T # {}, \A x \in T : T \ {x} \in P
          PROVE  T \in P
      <3> DEFINE x == CHOOSE x \in T : TRUE
      <3>1. x \in T
        BY <2>2
      <3>2. iter[T \ {x}] = g[T \ {x}]
        BY <2>2, <3>1
      <3>3. iter[T] = f[x] + iter[T \ {x}] /\ g[T] = f[x] + g[T \ {x}]
        BY <1>4, <1>5, <2>2 DEF SumIs
      <3> QED
        BY <3>2, <3>3
    <2>3. \A T \in SUBSET S : T \in P
      <3> HIDE DEF P
      <3> QED
        BY <2>1, <2>2, SetInduction
    <2> QED
      BY <1>4, <1>5, <2>3 DEF SumIs
  <1> QED
    BY <1>4, <1>6, <1>7

\* The sum of the part of a function on a set is a fold over that set.
LEMMA SumStep ==
  ASSUME NEW S, IsFiniteSet(S), NEW f, \A x \in S : f[x] \in Int
  PROVE  /\ SumFunctionOnSet(f, S) \in Int
         /\ S = {} => SumFunctionOnSet(f, S) = 0
         /\ S # {} => \E x \in S : x = (CHOOSE y \in S : TRUE)
                                  /\ SumFunctionOnSet(f, S) = f[x] + SumFunctionOnSet(f, S \ {x})
  <1>1. PICK a \in [SUBSET S -> Int] : SumIs(a, f, S) /\ SumFunctionOnSet(f, S) = a[S]
    BY SumFold
  <1>2. SumFunctionOnSet(f, S) \in Int
    BY <1>1
  <1>3. S = {} => SumFunctionOnSet(f, S) = 0
    BY <1>1 DEF SumIs
  <1>4. ASSUME S # {}
        PROVE  \E x \in S : x = (CHOOSE y \in S : TRUE)
                            /\ SumFunctionOnSet(f, S) = f[x] + SumFunctionOnSet(f, S \ {x})
    <2> DEFINE x == CHOOSE y \in S : TRUE
               R == S \ {x}
    <2>1. x \in S
      BY <1>4
    <2>2. IsFiniteSet(R) /\ \A y \in R : f[y] \in Int
      BY FS_Subset
    <2>3. PICK b \in [SUBSET R -> Int] : SumIs(b, f, R) /\ SumFunctionOnSet(f, R) = b[R]
      <3> HIDE DEF R
      <3> QED
        BY <2>2, SumFold
    <2>4. a[S] = f[x] + a[R]
      BY <1>1, <1>4 DEF SumIs
    <2>5. a[R] = b[R]
      <3> DEFINE P == {s \in SUBSET R : a[s] = b[s]}
      <3>1. {} \in P
        BY <1>1, <2>3 DEF SumIs
      <3>2. ASSUME NEW T \in SUBSET R, T # {}, \A y \in T : T \ {y} \in P
            PROVE  T \in P
        <4> DEFINE y == CHOOSE y \in T : TRUE
        <4>1. y \in T /\ T \in SUBSET S
          BY <3>2
        <4>2. a[T \ {y}] = b[T \ {y}]
          BY <3>2, <4>1
        <4>3. a[T] = f[y] + a[T \ {y}] /\ b[T] = f[y] + b[T \ {y}]
          BY <1>1, <2>3, <3>2, <4>1 DEF SumIs
        <4> QED
          BY <4>2, <4>3
      <3>3. \A T \in SUBSET R : T \in P
        <4> HIDE DEF P, R
        <4> QED
          BY <2>2, <3>1, <3>2, SetInduction
      <3> QED
        BY <3>3
    <2> HIDE DEF R
    <2>6. SumFunctionOnSet(f, S) = f[x] + SumFunctionOnSet(f, R)
      BY <1>1, <2>3, <2>4, <2>5
    <2> QED
      BY <2>1, <2>6 DEF R
  <1> QED
    BY <1>2, <1>3, <1>4

\* Functions that agree on a set have one sum over it.
LEMMA SumSame ==
  ASSUME NEW S, IsFiniteSet(S), NEW f, NEW g, \A x \in S : f[x] \in Int /\ f[x] = g[x]
  PROVE  SumFunctionOnSet(f, S) = SumFunctionOnSet(g, S)
  <1> DEFINE P == {s \in SUBSET S : SumFunctionOnSet(f, s) = SumFunctionOnSet(g, s)}
  <1>1. \A s \in SUBSET S : IsFiniteSet(s) /\ \A x \in s : f[x] \in Int /\ g[x] \in Int
    BY FS_Subset
  <1>2. {} \in P
    <2>1. IsFiniteSet({}) /\ (\A x \in {} : f[x] \in Int) /\ (\A x \in {} : g[x] \in Int)
      BY FS_EmptySet
    <2>2. SumFunctionOnSet(f, {}) = 0 /\ SumFunctionOnSet(g, {}) = 0
      BY <2>1, SumStep
    <2> QED
      BY <2>2
  <1>3. ASSUME NEW T \in SUBSET S, T # {}, \A x \in T : T \ {x} \in P
        PROVE  T \in P
    <2>1. IsFiniteSet(T) /\ (\A x \in T : f[x] \in Int) /\ (\A x \in T : g[x] \in Int)
      BY <1>1
    <2>2. PICK x \in T : x = (CHOOSE y \in T : TRUE)
                         /\ SumFunctionOnSet(f, T) = f[x] + SumFunctionOnSet(f, T \ {x})
      BY <1>3, <2>1, SumStep
    <2>3. PICK z \in T : z = (CHOOSE y \in T : TRUE)
                         /\ SumFunctionOnSet(g, T) = g[z] + SumFunctionOnSet(g, T \ {z})
      BY <1>3, <2>1, SumStep
    <2>4. SumFunctionOnSet(f, T \ {x}) = SumFunctionOnSet(g, T \ {x}) /\ f[x] = g[x]
      BY <1>3
    <2> QED
      BY <2>2, <2>3, <2>4
  <1>4. \A T \in SUBSET S : T \in P
    <2> HIDE DEF P
    <2> QED
      BY <1>2, <1>3, SetInduction
  <1> QED
    BY <1>4

\* A sum is any element's value and the sum of the rest.
LEMMA SumRest ==
  ASSUME NEW S, IsFiniteSet(S), NEW f, \A x \in S : f[x] \in Int, NEW e \in S
  PROVE  SumFunctionOnSet(f, S) = f[e] + SumFunctionOnSet(f, S \ {e})
  <1> DEFINE Total(s) == SumFunctionOnSet(f, s)
             P == {s \in SUBSET S : \A x \in s : Total(s) = f[x] + Total(s \ {x})}
  <1>1. \A s \in SUBSET S : IsFiniteSet(s) /\ \A x \in s : f[x] \in Int
    BY FS_Subset
  <1>2. {} \in P
    OBVIOUS
  <1>3. ASSUME NEW T \in SUBSET S, T # {}, \A x \in T : T \ {x} \in P
        PROVE  T \in P
    <2>1. PICK c \in T : Total(T) = f[c] + Total(T \ {c})
      BY <1>1, <1>3, SumStep
    <2>2. \A s \in SUBSET S : Total(s) \in Int
      BY <1>1, SumStep
    <2> HIDE DEF Total
    <2>3. ASSUME NEW x \in T
          PROVE  Total(T) = f[x] + Total(T \ {x})
      <3>1. CASE x = c
        BY <2>1, <3>1
      <3>2. CASE x # c
        <4>1. Total(T \ {c}) = f[x] + Total((T \ {c}) \ {x})
          BY <1>3, <3>2
        <4>2. Total(T \ {x}) = f[c] + Total((T \ {x}) \ {c})
          BY <1>3, <3>2
        <4>3. (T \ {c}) \ {x} = (T \ {x}) \ {c}
          OBVIOUS
        <4> DEFINE rest == Total((T \ {x}) \ {c})
        <4>4. rest \in Int /\ f[x] \in Int /\ f[c] \in Int
          BY <1>1, <2>2
        <4>5. Total(T) = f[c] + (f[x] + rest) /\ Total(T \ {x}) = f[c] + rest
          BY <2>1, <4>1, <4>2, <4>3
        <4> HIDE DEF rest
        <4> QED
          BY <4>4, <4>5
      <3> QED
        BY <3>1, <3>2
    <2> QED
      BY <2>3
  <1>4. \A T \in SUBSET S : T \in P
    <2> HIDE DEF P
    <2> QED
      BY <1>2, <1>3, SetInduction
  <1> QED
    BY <1>4

\* The sum of f over S, when it is written as the sum of the part of f on S.
LEMMA SumOfIs ==
  ASSUME NEW S, IsFiniteSet(S), NEW f, \A x \in S : f[x] \in Int
  PROVE  SumOf(f, S) = SumFunctionOnSet(f, S)
  <1> DEFINE g == [i \in S |-> f[i]]
  <1>1. DOMAIN g = S /\ \A x \in S : g[x] \in Int /\ g[x] = f[x]
    OBVIOUS
  <1>2. SumFunctionOnSet(g, S) = SumFunctionOnSet(f, S)
    <2> HIDE DEF g
    <2> QED
      BY <1>1, SumSame
  <1> QED
    BY <1>1, <1>2 DEF SumOf, SumFunction

\* A sum over a finite set: its type, its value without elements, and by any element.
LEMMA IntSums ==
  ASSUME NEW S, IsFiniteSet(S), NEW f, \A x \in S : f[x] \in Int
  PROVE  /\ SumOf(f, S) \in Int
         /\ S = {} => SumOf(f, S) = 0
         /\ \A e \in S : SumOf(f, S) = f[e] + SumOf(f, S \ {e})
  <1>1. \A T \in SUBSET S : IsFiniteSet(T) /\ \A x \in T : f[x] \in Int
    BY FS_Subset
  <1>2. \A T \in SUBSET S : SumOf(f, T) = SumFunctionOnSet(f, T)
    BY <1>1, SumOfIs
  <1>3. SumFunctionOnSet(f, S) \in Int /\ (S = {} => SumFunctionOnSet(f, S) = 0)
    BY SumStep
  <1>4. \A e \in S : SumFunctionOnSet(f, S) = f[e] + SumFunctionOnSet(f, S \ {e})
    BY SumRest
  <1>5. \A e \in S : S \ {e} \in SUBSET S
    OBVIOUS
  <1>6. SumOf(f, S) = SumFunctionOnSet(f, S)
    BY <1>2
  <1>7. \A e \in S : SumOf(f, S \ {e}) = SumFunctionOnSet(f, S \ {e})
    BY <1>2, <1>5
  <1> QED
    BY <1>3, <1>4, <1>6, <1>7

\* What a sum of naturals over a finite set is.
LEMMA Sums ==
  ASSUME NEW S, IsFiniteSet(S), NEW f, \A x \in S : f[x] \in Nat
  PROVE  /\ SumOf(f, S) \in Nat
         /\ S = {} => SumOf(f, S) = 0
         /\ \A e \in S : SumOf(f, S) = f[e] + SumOf(f, S \ {e})
  <1> DEFINE P == {s \in SUBSET S : SumOf(f, s) \in Nat}
  <1>1. \A s \in SUBSET S : IsFiniteSet(s) /\ \A x \in s : f[x] \in Int
    BY FS_Subset
  <1>2. {} \in P
    <2>1. SumOf(f, {}) = 0
      BY FS_EmptySet, IntSums
    <2> QED
      BY <2>1
  <1>3. ASSUME NEW T \in SUBSET S, T # {}, \A x \in T : T \ {x} \in P
        PROVE  T \in P
    <2> PICK x \in T : TRUE
      BY <1>3
    <2>1. SumOf(f, T) = f[x] + SumOf(f, T \ {x})
      BY <1>1, IntSums
    <2>2. f[x] \in Nat /\ SumOf(f, T \ {x}) \in Nat
      BY <1>3
    <2> QED
      BY <2>1, <2>2
  <1>4. \A T \in SUBSET S : T \in P
    <2> HIDE DEF P
    <2> QED
      BY <1>2, <1>3, SetInduction
  <1>5. (S = {} => SumOf(f, S) = 0) /\ \A e \in S : SumOf(f, S) = f[e] + SumOf(f, S \ {e})
    BY IntSums
  <1> QED
    BY <1>4, <1>5

\* Sums of equal values.
LEMMA SumsSame ==
  ASSUME NEW S, IsFiniteSet(S), NEW f, NEW g, \A x \in S : f[x] \in Int /\ f[x] = g[x]
  PROVE  SumOf(f, S) = SumOf(g, S)
  BY SumSame, SumOfIs

\* Sums of larger values, or over a larger set, are larger.
LEMMA SumsLarger ==
  ASSUME NEW S, IsFiniteSet(S), NEW T \in SUBSET S, NEW f, NEW g,
         \A x \in T : f[x] \in Nat, \A x \in S : g[x] \in Nat, \A x \in T : f[x] <= g[x]
  PROVE  SumOf(f, T) <= SumOf(g, S)
  <1> DEFINE P == {s \in SUBSET S : SumOf(f, s \cap T) <= SumOf(g, s)}
  <1>1. \A s \in SUBSET S : IsFiniteSet(s) /\ (\A x \in s : g[x] \in Nat) /\ IsFiniteSet(s \cap T)
    BY FS_Subset
  <1>2. {} \in P
    <2>1. SumOf(f, {}) = 0 /\ SumOf(g, {}) = 0
      BY FS_EmptySet, Sums
    <2>2. {} \cap T = {} /\ {} \in SUBSET S
      OBVIOUS
    <2> QED
      BY <2>1, <2>2
  <1>3. ASSUME NEW s \in SUBSET S, s # {}, \A x \in s : s \ {x} \in P
        PROVE  s \in P
    <2> PICK x \in s : TRUE
      BY <1>3
    <2> DEFINE r == s \ {x}
    <2>1. SumOf(g, s) = g[x] + SumOf(g, r) /\ SumOf(g, s) \in Nat
      BY <1>1, Sums
    <2>2. r \in SUBSET S /\ IsFiniteSet(r) /\ IsFiniteSet(r \cap T)
      BY <1>1
    <2>3. SumOf(g, r) \in Nat
      BY <2>2, Sums
    <2>4. SumOf(f, r \cap T) \in Nat
      BY <2>2, Sums
    <2>5. SumOf(f, r \cap T) <= SumOf(g, r)
      BY <1>3
    <2>6. CASE x \in T
      <3>1. SumOf(f, s \cap T) = f[x] + SumOf(f, (s \cap T) \ {x})
        <4>1. IsFiniteSet(s \cap T) /\ x \in s \cap T /\ \A y \in s \cap T : f[y] \in Nat
          BY <1>1, <2>6
        <4> QED
          BY <4>1, Sums
      <3>2. (s \cap T) \ {x} = r \cap T
        OBVIOUS
      <3> HIDE DEF r
      <3>3. SumOf(f, s \cap T) <= SumOf(g, s)
        BY <2>1, <2>3, <2>4, <2>5, <2>6, <3>1, <3>2
      <3> QED
        BY <3>3
    <2>7. CASE x \notin T
      <3>1. s \cap T = r \cap T
        BY <2>7
      <3> HIDE DEF r
      <3>2. g[x] \in Nat
        OBVIOUS
      <3>3. SumOf(f, s \cap T) <= SumOf(g, s)
        BY <2>1, <2>3, <2>4, <2>5, <3>1, <3>2
      <3> QED
        BY <3>3
    <2> QED
      BY <2>6, <2>7
  <1>4. \A s \in SUBSET S : s \in P
    <2> HIDE DEF P
    <2> QED
      BY <1>2, <1>3, SetInduction
  <1>5. S \cap T = T
    OBVIOUS
  <1> QED
    BY <1>4, <1>5

\* A sum is the sum over a part and the sum over the rest.
LEMMA SumsSplit ==
  ASSUME NEW S, IsFiniteSet(S), NEW T \in SUBSET S, NEW f, \A x \in S : f[x] \in Int
  PROVE  SumOf(f, S) = SumOf(f, T) + SumOf(f, S \ T)
  <1> DEFINE rest(s) == S \ (T \ s)
             P == {s \in SUBSET T : SumOf(f, rest(s)) = SumOf(f, s) + SumOf(f, S \ T)}
  <1>1. \A s \in SUBSET S : IsFiniteSet(s) /\ (\A x \in s : f[x] \in Int) /\ SumOf(f, s) \in Int
    BY FS_Subset, IntSums
  <1>2. {} \in P
    <2>1. SumOf(f, {}) = 0
      BY FS_EmptySet, IntSums
    <2>2. rest({}) = S \ T /\ SumOf(f, S \ T) \in Int
      BY <1>1
    <2> QED
      BY <2>1, <2>2
  <1>3. ASSUME NEW s \in SUBSET T, s # {}, \A x \in s : s \ {x} \in P
        PROVE  s \in P
    <2> PICK x \in s : TRUE
      BY <1>3
    <2>1. SumOf(f, s) = f[x] + SumOf(f, s \ {x})
      BY <1>1, IntSums
    <2>2. rest(s) \in SUBSET S /\ x \in rest(s) /\ rest(s) \ {x} = rest(s \ {x})
      OBVIOUS
    <2>3. SumOf(f, rest(s)) = f[x] + SumOf(f, rest(s) \ {x})
      <3> HIDE DEF rest
      <3> QED
        BY <1>1, <2>2, IntSums
    <2>4. SumOf(f, rest(s \ {x})) = SumOf(f, s \ {x}) + SumOf(f, S \ T)
      BY <1>3
    <2>5. SumOf(f, s \ {x}) \in Int /\ SumOf(f, S \ T) \in Int /\ f[x] \in Int
      <3>1. s \ {x} \in SUBSET S /\ S \ T \in SUBSET S
        OBVIOUS
      <3> QED
        BY <1>1, <3>1
    <2>6. SumOf(f, rest(s)) = f[x] + (SumOf(f, s \ {x}) + SumOf(f, S \ T))
      BY <2>2, <2>3, <2>4
    <2> HIDE DEF rest
    <2>7. SumOf(f, rest(s)) = SumOf(f, s) + SumOf(f, S \ T)
      BY <2>1, <2>5, <2>6
    <2> QED
      BY <2>7
  <1>4. \A s \in SUBSET T : s \in P
    <2> HIDE DEF P
    <2> QED
      BY <1>2, <1>3, SetInduction, FS_Subset
  <1>5. rest(T) = S
    OBVIOUS
  <1> QED
    BY <1>4, <1>5

\* A finite set has elements with the least and with the largest value.
LEMMA Extremes ==
  ASSUME NEW S, IsFiniteSet(S), S # {}, NEW f, \A x \in S : f[x] \in Nat
  PROVE  (\E x \in S : \A y \in S : f[x] <= f[y]) /\ (\E x \in S : \A y \in S : f[y] <= f[x])
  <1>1. \E x \in S : \A y \in S : f[x] <= f[y]
    <2> DEFINE V == {f[x] : x \in S}
    <2>1. V \in SUBSET Nat /\ V # {}
      OBVIOUS
    <2>2. Min(V) \in V /\ \A v \in V : Min(V) <= v
      <3> HIDE DEF V
      <3> QED
        BY <2>1, Least
    <2> QED
      BY <2>2
  <1>2. \E x \in S : \A y \in S : f[y] <= f[x]
    <2> DEFINE total == SumOf(f, S)
               V == {total - f[x] : x \in S}
    <2>1. total \in Nat
      BY Sums
    <2>2. ASSUME NEW x \in S
          PROVE  total - f[x] \in Nat
      <3>1. total = f[x] + SumOf(f, S \ {x})
        BY Sums
      <3>2. SumOf(f, S \ {x}) \in Nat
        <4>1. IsFiniteSet(S \ {x})
          BY FS_Subset
        <4> QED
          BY <4>1, Sums
      <3>3. f[x] \in Nat
        OBVIOUS
      <3> HIDE DEF total
      <3> QED
        BY <2>1, <3>1, <3>2, <3>3
    <2> HIDE DEF total
    <2>3. V \in SUBSET Nat /\ V # {}
      BY <2>2
    <2>4. Min(V) \in V /\ \A v \in V : Min(V) <= v
      <3> HIDE DEF V
      <3> QED
        BY <2>3, Least
    <2>5. PICK x \in S : Min(V) = total - f[x]
      BY <2>4
    <2>6. ASSUME NEW y \in S
          PROVE  f[y] <= f[x]
      <3>1. total - f[x] <= total - f[y]
        BY <2>4, <2>5
      <3> QED
        BY <2>1, <3>1
    <2> QED
      BY <2>6
  <1> QED
    BY <1>1, <1>2
-----------------------------------------------------------------------------
(***************************************************************************)
(* Filling the buckets.                                                    *)
(***************************************************************************)
\* The values of left can be distributed so that no bucket misses anything.
Fillable(values, left, missing) ==
    \E to \in [left -> DOMAIN missing] :
        \A b \in DOMAIN missing : SumOf(values, {n \in left : to[n] = b}) >= missing[b]

\* Buckets that miss less are filled by the same distribution.
LEMMA FillLess ==
  ASSUME NEW D, IsFiniteSet(D), NEW values \in [D -> Nat], NEW left \in SUBSET D, NEW B,
         NEW more \in [B -> Nat], NEW less \in [B -> Nat], \A b \in B : less[b] <= more[b],
         Fillable(values, left, more)
  PROVE  Fillable(values, left, less)
  <1>1. PICK to \in [left -> B] : \A b \in B : SumOf(values, {n \in left : to[n] = b}) >= more[b]
    BY DEF Fillable
  <1>2. ASSUME NEW b \in B
        PROVE  SumOf(values, {n \in left : to[n] = b}) >= less[b]
    <2> DEFINE part == {n \in left : to[n] = b}
    <2>1. IsFiniteSet(part) /\ \A n \in part : values[n] \in Nat
      BY FS_Subset
    <2>2. SumOf(values, part) \in Nat
      BY <2>1, Sums
    <2>3. SumOf(values, part) >= more[b]
      BY <1>1
    <2>4. less[b] <= more[b] /\ less[b] \in Nat /\ more[b] \in Nat
      OBVIOUS
    <2> HIDE DEF part
    <2>5. SumOf(values, part) >= less[b]
      BY <2>2, <2>3, <2>4
    <2> QED
      BY <2>5 DEF part
  <1> QED
    BY <1>1, <1>2 DEF Fillable

\* Buckets that miss nothing are filled.
LEMMA FillNothing ==
  ASSUME NEW D, IsFiniteSet(D), NEW values \in [D -> Nat], NEW left \in SUBSET D, NEW B, B # {},
         NEW missing \in [B -> Nat], \A b \in B : missing[b] = 0
  PROVE  Fillable(values, left, missing)
  <1> PICK any \in B : TRUE
    OBVIOUS
  <1> DEFINE to == [n \in left |-> any]
  <1>1. to \in [left -> B]
    OBVIOUS
  <1>2. ASSUME NEW b \in B
        PROVE  SumOf(values, {n \in left : to[n] = b}) >= missing[b]
    <2> DEFINE part == {n \in left : to[n] = b}
    <2>1. IsFiniteSet(part) /\ \A n \in part : values[n] \in Nat
      BY FS_Subset
    <2> HIDE DEF part
    <2>2. SumOf(values, part) \in Nat
      BY <2>1, Sums
    <2>3. SumOf(values, part) >= missing[b]
      BY <2>2
    <2> QED
      BY <2>3 DEF part
  <1> HIDE DEF to
  <1> QED
    BY <1>1, <1>2 DEF Fillable

\* Buckets that can be filled miss no more than there is.
LEMMA FillTotal ==
  ASSUME NEW D, IsFiniteSet(D), NEW values \in [D -> Nat], NEW left \in SUBSET D, NEW B, IsFiniteSet(B),
         NEW missing \in [B -> Nat], Fillable(values, left, missing)
  PROVE  SumOf(missing, B) <= SumOf(values, left)
  <1>1. PICK to \in [left -> B] : \A b \in B : SumOf(values, {n \in left : to[n] = b}) >= missing[b]
    BY DEF Fillable
  <1> DEFINE into(C) == {n \in left : to[n] \in C}
             P == {C \in SUBSET B : SumOf(missing, C) <= SumOf(values, into(C))}
  <1>2. \A s \in SUBSET left : IsFiniteSet(s) /\ (\A n \in s : values[n] \in Nat) /\ SumOf(values, s) \in Nat
    BY FS_Subset, Sums
  <1>3. \A C \in SUBSET B : IsFiniteSet(C) /\ (\A b \in C : missing[b] \in Nat) /\ SumOf(missing, C) \in Nat
    BY FS_Subset, Sums
  <1>4. {} \in P
    <2>1. SumOf(missing, {}) = 0 /\ SumOf(values, into({})) \in Nat
      BY <1>2, FS_EmptySet, Sums
    <2> QED
      BY <2>1
  <1>5. ASSUME NEW C \in SUBSET B, C # {}, \A b \in C : C \ {b} \in P
        PROVE  C \in P
    <2> PICK b \in C : TRUE
      BY <1>5
    <2> DEFINE one == {n \in left : to[n] = b}
    <2>1. into(C) \in SUBSET left /\ one \in SUBSET into(C) /\ into(C) \ one = into(C \ {b})
      OBVIOUS
    <2>2. SumOf(values, into(C)) = SumOf(values, one) + SumOf(values, into(C \ {b}))
      <3>1. IsFiniteSet(into(C)) /\ \A n \in into(C) : values[n] \in Nat
        BY <1>2, <2>1
      <3>2. SumOf(values, into(C)) = SumOf(values, one) + SumOf(values, into(C) \ one)
        <4> HIDE DEF one, into
        <4> QED
          BY <2>1, <3>1, SumsSplit
      <3> QED
        BY <2>1, <3>2
    <2>3. SumOf(missing, C) = missing[b] + SumOf(missing, C \ {b})
      BY <1>3, Sums
    <2>4. SumOf(missing, C \ {b}) <= SumOf(values, into(C \ {b}))
      BY <1>5
    <2>5. SumOf(values, one) >= missing[b]
      BY <1>1
    <2>6. missing[b] \in Nat /\ SumOf(missing, C \ {b}) \in Nat
      BY <1>3
    <2>7. SumOf(values, one) \in Nat /\ SumOf(values, into(C \ {b})) \in Nat
      <3>1. one \in SUBSET left /\ into(C \ {b}) \in SUBSET left
        OBVIOUS
      <3> QED
        BY <1>2, <3>1
    <2> HIDE DEF one, into
    <2>8. SumOf(missing, C) <= SumOf(values, into(C))
      BY <2>2, <2>3, <2>4, <2>5, <2>6, <2>7
    <2> QED
      BY <2>8
  <1>6. \A C \in SUBSET B : C \in P
    <2> HIDE DEF P
    <2> QED
      BY <1>4, <1>5, SetInduction
  <1>7. into(B) = left
    OBVIOUS
  <1> QED
    BY <1>6, <1>7

\* A value of left goes to some bucket that misses some: the search tries them all.
LEMMA FillOne ==
  ASSUME NEW D, IsFiniteSet(D), NEW values \in [D -> Nat], NEW left \in SUBSET D, NEW B,
         NEW missing \in [B -> Nat], NEW lacking \in B, missing[lacking] > 0, NEW x \in left
  PROVE  Fillable(values, left, missing)
             <=> \E b \in B : missing[b] > 0 /\ Fillable(values, left \ {x}, Fill(missing, b, values[x]))
  <1> DEFINE rest == left \ {x}
             v == values[x]
  <1>1. \A s \in SUBSET left : IsFiniteSet(s) /\ (\A n \in s : values[n] \in Nat) /\ SumOf(values, s) \in Nat
    BY FS_Subset, Sums
  <1>2. v \in Nat /\ rest \in SUBSET D /\ \A b \in B : missing[b] \in Nat
    OBVIOUS
  <1>3. ASSUME NEW b \in B
        PROVE  /\ Fill(missing, b, v) \in [B -> Nat]
               /\ Fill(missing, b, v)[b] = IF missing[b] > v THEN missing[b] - v ELSE 0
               /\ \A c \in B \ {b} : Fill(missing, b, v)[c] = missing[c]
    <2> HIDE DEF v
    <2> QED
      BY <1>2 DEF Fill
  <1>4. ASSUME Fillable(values, left, missing)
        PROVE  \E b \in B : missing[b] > 0 /\ Fillable(values, rest, Fill(missing, b, v))
    <2>1. PICK to \in [left -> B] : \A b \in B : SumOf(values, {n \in left : to[n] = b}) >= missing[b]
      BY <1>4 DEF Fillable
    <2> DEFINE b == IF missing[to[x]] > 0 THEN to[x] ELSE lacking
               less == Fill(missing, b, v)
               short == [n \in rest |-> to[n]]
    <2>2. b \in B /\ missing[b] > 0
      OBVIOUS
    <2>3. short \in [rest -> B]
      OBVIOUS
    <2>4. ASSUME NEW c \in B
          PROVE  SumOf(values, {n \in rest : short[n] = c}) >= less[c]
      <3> DEFINE all == {n \in left : to[n] = c}
                 part == {n \in rest : short[n] = c}
      <3>1. SumOf(values, all) >= missing[c] /\ missing[c] \in Nat
        BY <2>1
      <3>2. all \in SUBSET left /\ part \in SUBSET left
        OBVIOUS
      <3>3. SumOf(values, all) \in Nat /\ SumOf(values, part) \in Nat
        <4> HIDE DEF all, part
        <4> QED
          BY <1>1, <3>2
      <3>4. CASE c = to[x]
        <4>1. x \in all /\ all \ {x} = part
          BY <3>4
        <4>2. SumOf(values, all) = v + SumOf(values, part)
          <5>1. IsFiniteSet(all) /\ \A n \in all : values[n] \in Nat
            BY <1>1, <3>2
          <5> HIDE DEF all, part
          <5> QED
            BY <4>1, <5>1, Sums
        <4>3. SumOf(values, part) + v >= missing[c]
          <5> HIDE DEF all, part, v
          <5> QED
            BY <1>2, <3>1, <3>3, <4>2
        <4>4. CASE b = c
          <5>1. less[c] = IF missing[c] > v THEN missing[c] - v ELSE 0
            BY <1>3, <4>4
          <5> HIDE DEF part, v, less, b
          <5>2. SumOf(values, part) >= less[c]
            BY <1>2, <3>1, <3>3, <4>3, <5>1
          <5> QED
            BY <5>2 DEF part
        <4>5. CASE b # c
          <5>1. missing[c] = 0
            BY <3>1, <3>4, <4>5
          <5>2. less[c] = missing[c]
            <6>1. c \in B \ {b}
              BY <4>5
            <6> HIDE DEF b
            <6> QED
              BY <1>3, <2>2, <6>1
          <5> HIDE DEF part, v, less, b
          <5>3. SumOf(values, part) >= less[c]
            BY <3>3, <5>1, <5>2
          <5> QED
            BY <5>3 DEF part
        <4> QED
          BY <4>4, <4>5
      <3>5. CASE c # to[x]
        <4>1. all = part
          BY <3>5
        <4>2. less[c] <= missing[c]
          <5>1. missing[c] \in Nat /\ v \in Nat /\ b \in B
            BY <1>2, <3>1
          <5> HIDE DEF b, v
          <5>2. CASE c = b
            <6>1. less[c] = IF missing[c] > v THEN missing[c] - v ELSE 0
              BY <1>3, <5>2
            <6> HIDE DEF less
            <6> QED
              BY <5>1, <6>1
          <5>3. CASE c # b
            <6>1. less[c] = missing[c]
              BY <1>3, <2>2, <3>1, <5>3
            <6> QED
              BY <5>1, <6>1
          <5> QED
            BY <5>2, <5>3
        <4>3. less[c] \in Nat
          <5> HIDE DEF b, v
          <5> QED
            BY <1>3, <2>2
        <4> HIDE DEF part, all, less
        <4>4. SumOf(values, part) >= less[c]
          BY <3>1, <3>3, <4>1, <4>2, <4>3
        <4> QED
          BY <4>4 DEF part
      <3> QED
        BY <3>4, <3>5
    <2>5. DOMAIN less = B
      <3> HIDE DEF b, v
      <3> QED
        BY <1>3, <2>2
    <2> HIDE DEF less, short, rest
    <2>6. Fillable(values, rest, less)
      BY <2>3, <2>4, <2>5 DEF Fillable
    <2> QED
      BY <2>2, <2>6 DEF less
  <1>5. ASSUME NEW b \in B, Fillable(values, rest, Fill(missing, b, v))
        PROVE  Fillable(values, left, missing)
    <2> DEFINE less == Fill(missing, b, v)
    <2>1. PICK short \in [rest -> B] : \A c \in B : SumOf(values, {n \in rest : short[n] = c}) >= less[c]
      <3>1. DOMAIN less = B
        BY <1>3
      <3> HIDE DEF less, rest
      <3> QED
        BY <1>5, <3>1 DEF Fillable, less
    <2> DEFINE to == [n \in left |-> IF n = x THEN b ELSE short[n]]
    <2>2. to \in [left -> B]
      OBVIOUS
    <2>3. ASSUME NEW c \in B
          PROVE  SumOf(values, {n \in left : to[n] = c}) >= missing[c]
      <3> DEFINE all == {n \in left : to[n] = c}
                 part == {n \in rest : short[n] = c}
      <3>1. SumOf(values, part) >= less[c] /\ missing[c] \in Nat /\ less[c] \in Nat
        BY <1>3, <2>1
      <3>2. all \in SUBSET left /\ part \in SUBSET left
        OBVIOUS
      <3>3. SumOf(values, all) \in Nat /\ SumOf(values, part) \in Nat
        <4> HIDE DEF all, part
        <4> QED
          BY <1>1, <3>2
      <3>4. CASE c = b
        <4>1. x \in all /\ all \ {x} = part
          BY <3>4
        <4>2. SumOf(values, all) = v + SumOf(values, part)
          <5>1. IsFiniteSet(all) /\ \A n \in all : values[n] \in Nat
            BY <1>1, <3>2
          <5> HIDE DEF all, part
          <5> QED
            BY <4>1, <5>1, Sums
        <4>3. less[c] = IF missing[c] > v THEN missing[c] - v ELSE 0
          BY <1>3, <3>4
        <4> HIDE DEF all, part, less, v
        <4>4. SumOf(values, all) >= missing[c]
          BY <1>2, <3>1, <3>3, <4>2, <4>3
        <4> QED
          BY <4>4 DEF all
      <3>5. CASE c # b
        <4>1. all = part /\ less[c] = missing[c]
          BY <1>3, <3>5
        <4> HIDE DEF all, part, less
        <4>2. SumOf(values, all) >= missing[c]
          BY <3>1, <4>1
        <4> QED
          BY <4>2 DEF all
      <3> QED
        BY <3>4, <3>5
    <2> HIDE DEF to
    <2> QED
      BY <2>2, <2>3 DEF Fillable
  <1> QED
    BY <1>4, <1>5
-----------------------------------------------------------------------------
(***************************************************************************)
(* The search.                                                             *)
(***************************************************************************)
\* What a call answers.
Answers == [result : BOOLEAN \cup {None}, depth : Nat]

\* Some call of the rest, with the value in bucket b, answers so.
Ends(rest, missing, value, b, result) ==
    \E depth \in Nat : rest[<<Fill(missing, b, value), depth>>].result = result

\* f is the recursive function of the buckets tried.
TriesAre(f, rest, missing, value, start) ==
    f = [buckets \in SUBSET DOMAIN missing |->
            IF buckets = {} THEN Decided(FALSE, start)
            ELSE LET last == Fullest(missing, buckets)
                     answer == f[buckets \ {last}]
                 IN IF answer.result # FALSE THEN answer
                    ELSE rest[<<Fill(missing, last, value), answer.depth>>]]

\* f computes the answer of the tries, and the last bucket tried is one of them.
TriesBy(f, B, rest, missing, value, start) ==
    /\ f \in [SUBSET B -> Answers]
    /\ TriesAre(f, rest, missing, value, start)
    /\ Tries(rest, missing, value, start) = f[{b \in B : missing[b] > 0}]
    /\ \A s \in (SUBSET B) \ {{}} : Fullest(missing, s) \in s

\* The recursive function of the tries exists.
LEMMA TriesFunction ==
  ASSUME NEW B, IsFiniteSet(B), NEW missing \in [B -> Nat],
         NEW rest \in [[B -> Nat] \X Nat -> Answers], NEW value \in Nat, NEW start \in Nat
  PROVE  \E f : TriesBy(f, B, rest, missing, value, start)
  <1> DEFINE Is(g) == TriesAre(g, rest, missing, value, start)
             f == CHOOSE g : Is(g)
             pick == [s \in (SUBSET B) \ {{}} |-> Fullest(missing, s)]
             step == [x \in (SUBSET B) \X Answers |->
                         IF x[1] = {} \/ x[2].result # FALSE THEN x[2]
                         ELSE rest[<<Fill(missing, pick[x[1]], value), x[2].depth>>]]
             first == Decided(FALSE, start)
  <1>1. ASSUME NEW s \in (SUBSET B) \ {{}}
        PROVE  Fullest(missing, s) \in s
    <2>1. IsFiniteSet(s) /\ s # {} /\ \A b \in s : missing[b] \in Nat
      BY FS_Subset
    <2>2. \E b \in s : \A c \in s : missing[b] <= missing[c]
      BY <2>1, Extremes
    <2> QED
      BY <2>2 DEF Fullest
  <1>2. \A s \in (SUBSET B) \ {{}} : pick[s] \in s
    BY <1>1
  <1>3. ASSUME NEW b \in B
        PROVE  Fill(missing, b, value) \in [B -> Nat]
    BY DEF Fill
  <1>4. step \in [(SUBSET B) \X Answers -> Answers]
    <2>1. ASSUME NEW s \in SUBSET B, NEW answer \in Answers, s # {}
          PROVE  rest[<<Fill(missing, pick[s], value), answer.depth>>] \in Answers
      <3>1. pick[s] \in B /\ answer.depth \in Nat
        <4> HIDE DEF pick
        <4> QED
          BY <1>2, <2>1 DEF Answers
      <3> HIDE DEF pick
      <3> QED
        BY <1>3, <3>1
    <2>2. ASSUME NEW x \in (SUBSET B) \X Answers
          PROVE  step[x] \in Answers
      <3>1. x[1] \in SUBSET B /\ x[2] \in Answers
        OBVIOUS
      <3> HIDE DEF pick
      <3> QED
        BY <2>1, <3>1
    <2> HIDE DEF Answers
    <2> QED
      BY <2>2
  <1>5. first \in Answers
    BY DEF Decided, Answers
  <1>6. PICK g : Picks(g, B, Answers, first, pick, step)
    <2> HIDE DEF pick, step, first
    <2> QED
      BY <1>2, <1>4, <1>5, SetRecursion
  <1>7. g \in [SUBSET B -> Answers] /\ g[{}] = first /\ \A s \in (SUBSET B) \ {{}} : g[s] = step[<<s, g[s \ {pick[s]}]>>]
    <2> HIDE DEF pick, step, first
    <2> QED
      BY <1>6 DEF Picks
  <1>8. Is(g)
    <2> DEFINE body(s) == IF s = {} THEN Decided(FALSE, start)
                          ELSE LET last == Fullest(missing, s)
                                   answer == g[s \ {last}]
                               IN IF answer.result # FALSE THEN answer
                                  ELSE rest[<<Fill(missing, last, value), answer.depth>>]
    <2>1. ASSUME NEW s \in SUBSET B
          PROVE  g[s] = body(s)
      <3>1. CASE s = {}
        BY <1>7, <3>1
      <3>2. CASE s # {}
        <4> DEFINE last == Fullest(missing, s)
                   answer == g[s \ {last}]
        <4>1. s \ {last} \in SUBSET B /\ pick[s] = last
          BY <3>2
        <4>2. answer \in Answers
          BY <1>7, <4>1
        <4>3. g[s] = step[<<s, answer>>]
          BY <1>7, <3>2, <4>1
        <4>4. step[<<s, answer>>] = IF answer.result # FALSE THEN answer
                                    ELSE rest[<<Fill(missing, last, value), answer.depth>>]
          <5> HIDE DEF answer, last, pick
          <5> QED
            BY <3>2, <4>1, <4>2
        <4> QED
          BY <3>2, <4>3, <4>4
      <3> QED
        BY <3>1, <3>2
    <2>2. g = [s \in SUBSET B |-> body(s)]
      <3> HIDE DEF body
      <3> QED
        BY <1>7, <2>1
    <2> QED
      BY <2>2 DEF TriesAre
  <1>9. Is(f)
    <2> HIDE DEF Is
    <2> QED
      BY <1>8
  <1>10. Tries(rest, missing, value, start) = f[{b \in B : missing[b] > 0}]
    BY DEF Tries, TriesAre
  <1>11. f = g
    <2> HIDE DEF f
    <2> DEFINE P == {s \in SUBSET B : f[s] = g[s]}
    <2>1. {} \in P
      BY <1>8, <1>9 DEF TriesAre
    <2>2. ASSUME NEW T \in SUBSET B, T # {}, \A x \in T : T \ {x} \in P
          PROVE  T \in P
      <3> DEFINE last == Fullest(missing, T)
      <3>1. last \in T
        BY <1>1, <2>2
      <3>2. f[T \ {last}] = g[T \ {last}]
        BY <2>2, <3>1
      <3>3. f[T] = IF f[T \ {last}].result # FALSE THEN f[T \ {last}]
                   ELSE rest[<<Fill(missing, last, value), f[T \ {last}].depth>>]
        BY <1>9, <2>2 DEF TriesAre
      <3>4. g[T] = IF g[T \ {last}].result # FALSE THEN g[T \ {last}]
                   ELSE rest[<<Fill(missing, last, value), g[T \ {last}].depth>>]
        BY <1>8, <2>2 DEF TriesAre
      <3> HIDE DEF last
      <3> QED
        BY <3>2, <3>3, <3>4
    <2>3. \A T \in SUBSET B : T \in P
      <3> HIDE DEF P
      <3> QED
        BY <2>1, <2>2, SetInduction
    <2> QED
      BY <1>8, <1>9, <2>3 DEF TriesAre
  <1> QED
    <2> HIDE DEF f, pick
    <2>1. TriesBy(f, B, rest, missing, value, start)
      BY <1>1, <1>7, <1>9, <1>10, <1>11 DEF TriesBy
    <2> QED
      BY <2>1

\* What the tries answer is what one of the calls answers; no means that each of them says no.
LEMMA TriesAnswer ==
  ASSUME NEW B, IsFiniteSet(B), NEW missing \in [B -> Nat],
         NEW rest \in [[B -> Nat] \X Nat -> Answers], NEW value \in Nat, NEW start \in Nat,
         NEW answer, answer = Tries(rest, missing, value, start)
  PROVE  /\ answer \in Answers
         /\ answer.result # FALSE =>
                \E b \in B : missing[b] > 0 /\ Ends(rest, missing, value, b, answer.result)
         /\ answer.result = FALSE =>
                \A b \in B : missing[b] > 0 => Ends(rest, missing, value, b, FALSE)
  <1> DEFINE U == {b \in B : missing[b] > 0}
             Said(s, r) == /\ r.result # FALSE => \E b \in s : Ends(rest, missing, value, b, r.result)
                           /\ r.result = FALSE => \A b \in s : Ends(rest, missing, value, b, FALSE)
  <1>1. PICK f \in [SUBSET B -> Answers] :
            /\ TriesAre(f, rest, missing, value, start)
            /\ answer = f[U]
            /\ \A s \in (SUBSET B) \ {{}} : Fullest(missing, s) \in s
    <2>1. \E f : TriesBy(f, B, rest, missing, value, start)
      BY TriesFunction
    <2> QED
      BY <2>1 DEF TriesBy
  <1> DEFINE P == {s \in SUBSET B : Said(s, f[s])}
  <1>2. {} \in P
    <2>1. f[{}] = Decided(FALSE, start)
      BY <1>1 DEF TriesAre
    <2>2. f[{}].result = FALSE
      BY <2>1 DEF Decided
    <2> QED
      BY <2>2
  <1>3. ASSUME NEW T \in SUBSET B, T # {}, \A x \in T : T \ {x} \in P
        PROVE  T \in P
    <2> DEFINE last == Fullest(missing, T)
               before == f[T \ {last}]
    <2>1. last \in T
      BY <1>1, <1>3
    <2>2. before \in Answers /\ Said(T \ {last}, before)
      BY <1>1, <1>3, <2>1
    <2>3. f[T] = IF before.result # FALSE THEN before ELSE rest[<<Fill(missing, last, value), before.depth>>]
      BY <1>1, <1>3 DEF TriesAre
    <2>4. before.depth \in Nat
      <3> HIDE DEF before
      <3> QED
        BY <2>2 DEF Answers
    <2>5. CASE before.result # FALSE
      <3>1. f[T] = before
        BY <2>3, <2>5
      <3>2. \E b \in T : Ends(rest, missing, value, b, before.result)
        <4> HIDE DEF before, last
        <4> QED
          BY <2>2, <2>5
      <3> HIDE DEF before, last
      <3>3. Said(T, f[T])
        BY <2>5, <3>1, <3>2
      <3> QED
        BY <3>3
    <2>6. CASE before.result = FALSE
      <3>1. f[T] = rest[<<Fill(missing, last, value), before.depth>>]
        BY <2>3, <2>6
      <3>2. Ends(rest, missing, value, last, f[T].result)
        <4> HIDE DEF before, last
        <4> QED
          BY <2>4, <3>1 DEF Ends
      <3>3. \A b \in T \ {last} : Ends(rest, missing, value, b, FALSE)
        <4> HIDE DEF before, last
        <4> QED
          BY <2>2, <2>6
      <3> HIDE DEF before, last
      <3>4. Said(T, f[T])
        <4>1. CASE f[T].result = FALSE
          BY <3>2, <3>3, <4>1
        <4>2. CASE f[T].result # FALSE
          BY <2>1, <3>2, <4>2
        <4> QED
          BY <4>1, <4>2
      <3> QED
        BY <3>4
    <2> QED
      BY <2>5, <2>6
  <1>4. \A T \in SUBSET B : T \in P
    <2> HIDE DEF P
    <2> QED
      BY <1>2, <1>3, SetInduction
  <1>5. U \in SUBSET B
    OBVIOUS
  <1>6. Said(U, answer) /\ answer \in Answers
    <2> HIDE DEF U, Said
    <2> QED
      BY <1>1, <1>4, <1>5
  <1>7. \A b \in U : b \in B /\ missing[b] > 0
    OBVIOUS
  <1> QED
    BY <1>6, <1>7

\* What a call should answer: None only with a limit, otherwise whether the values fill the buckets.
Right(answer, values, left, missing, maxDepth) ==
    /\ answer \in Answers
    /\ answer.result = None => maxDepth # 0
    /\ answer.result # None => (answer.result = TRUE <=> Fillable(values, left, missing))

\* The calls with some values left answer right.
RightAt(rest, values, left, B, maxDepth) ==
    /\ rest \in [[B -> Nat] \X Nat -> Answers]
    /\ \A missing \in [B -> Nat] : \A depth \in Nat :
           Right(rest[<<missing, depth>>], values, left, missing, maxDepth)

\* A call answers right when the calls of the rest do.
LEMMA CallRight ==
  ASSUME NEW D, IsFiniteSet(D), NEW values \in [D -> Nat], NEW B, IsFiniteSet(B), B # {}, NEW maxDepth \in Nat,
         NEW left \in SUBSET D, NEW rest,
         left # {} => RightAt(rest, values, left \ {Largest(values, left)}, B, maxDepth),
         NEW missing \in [B -> Nat], NEW depth \in Nat
  PROVE  Right(Call(rest, values, left, missing, depth, maxDepth), values, left, missing, maxDepth)
  <1> DEFINE answer == Call(rest, values, left, missing, depth, maxDepth)
             zero == \A b \in B : missing[b] = 0
  <1>1. SumFunction(missing) = SumOf(missing, B) /\ SumFunction([i \in left |-> values[i]]) = SumOf(values, left)
    <2>1. missing = [i \in B |-> missing[i]]
      OBVIOUS
    <2> QED
      BY <2>1 DEF SumOf
  <1>2. \A r \in BOOLEAN \cup {None} : \A d \in Nat : [result |-> r, depth |-> d] \in Answers
    BY DEF Answers
  <1>3. TRUE # None /\ FALSE # None
    BY NoneAssumption
  <1>4. SumOf(missing, B) \in Nat /\ SumOf(values, left) \in Nat
    <2>1. IsFiniteSet(left) /\ (\A n \in left : values[n] \in Nat) /\ (\A b \in B : missing[b] \in Nat)
      BY FS_Subset
    <2> QED
      BY <2>1, Sums
  <1>5. CASE SumOf(missing, B) > SumOf(values, left)
    <2>1. answer = [result |-> FALSE, depth |-> depth]
      BY <1>1, <1>5 DEF Call, Decided
    <2>2. ~Fillable(values, left, missing)
      <3> SUFFICES ASSUME Fillable(values, left, missing)
                   PROVE  FALSE
        OBVIOUS
      <3>1. SumOf(missing, B) <= SumOf(values, left)
        BY FillTotal
      <3> QED
        BY <1>4, <1>5, <3>1
    <2> HIDE DEF answer
    <2>3. answer \in Answers /\ answer.result = FALSE
      BY <1>2, <2>1
    <2> QED
      BY <1>3, <2>2, <2>3 DEF Right, answer
  <1>6. CASE ~(SumOf(missing, B) > SumOf(values, left)) /\ zero
    <2>1. answer = [result |-> TRUE, depth |-> depth]
      BY <1>1, <1>6 DEF Call, Decided
    <2>2. Fillable(values, left, missing)
      BY <1>6, FillNothing
    <2> HIDE DEF answer
    <2>3. answer \in Answers /\ answer.result = TRUE
      BY <1>2, <2>1
    <2> QED
      BY <1>3, <2>2, <2>3 DEF Right, answer
  <1>7. CASE ~(SumOf(missing, B) > SumOf(values, left)) /\ ~zero
    <2>1. PICK lacking \in B : missing[lacking] > 0
      BY <1>7
    <2>2. left # {}
      <3> SUFFICES ASSUME left = {}
                   PROVE  FALSE
        OBVIOUS
      <3>1. SumOf(values, left) = 0
        BY FS_EmptySet, Sums
      <3>2. SumOf(missing, B) = missing[lacking] + SumOf(missing, B \ {lacking})
        BY Sums
      <3>3. SumOf(missing, B \ {lacking}) \in Nat
        <4>1. IsFiniteSet(B \ {lacking}) /\ \A b \in B \ {lacking} : missing[b] \in Nat
          BY FS_Subset
        <4> QED
          BY <4>1, Sums
      <3>4. missing[lacking] \in Nat
        OBVIOUS
      <3> QED
        BY <1>4, <1>7, <2>1, <3>1, <3>2, <3>3, <3>4
    <2> DEFINE x == Largest(values, left)
    <2>3. x \in left
      <3>1. IsFiniteSet(left) /\ \A i \in left : values[i] \in Nat
        BY FS_Subset
      <3>2. \E i \in left : \A j \in left : values[j] <= values[i]
        BY <2>2, <3>1, Extremes
      <3> QED
        BY <3>2 DEF Largest
    <2>4. CASE maxDepth # 0 /\ depth + 1 > maxDepth
      <3>1. answer = [result |-> None, depth |-> depth + 1]
        BY <1>1, <1>7, <2>2, <2>4 DEF Call, CutOff
      <3>2. depth + 1 \in Nat
        OBVIOUS
      <3> HIDE DEF answer
      <3>3. answer \in Answers /\ answer.result = None
        BY <1>2, <3>1, <3>2
      <3> QED
        BY <2>4, <3>3 DEF Right, answer
    <2>5. CASE ~(maxDepth # 0 /\ depth + 1 > maxDepth)
      <3> DEFINE v == values[x]
                 less == left \ {x}
      <3>1. answer = Tries(rest, missing, v, depth + 1)
        BY <1>1, <1>7, <2>2, <2>5 DEF Call
      <3>2. v \in Nat /\ depth + 1 \in Nat
        BY <2>3
      <3>3. RightAt(rest, values, less, B, maxDepth)
        BY <2>2
      <3>4. rest \in [[B -> Nat] \X Nat -> Answers]
        BY <3>3 DEF RightAt
      <3>5. /\ answer \in Answers
            /\ answer.result # FALSE =>
                   \E b \in B : missing[b] > 0 /\ Ends(rest, missing, v, b, answer.result)
            /\ answer.result = FALSE =>
                   \A b \in B : missing[b] > 0 => Ends(rest, missing, v, b, FALSE)
        <4> HIDE DEF answer, v
        <4> QED
          BY <3>1, <3>2, <3>4, TriesAnswer
      <3>6. ASSUME NEW b \in B, NEW result, Ends(rest, missing, v, b, result)
            PROVE  /\ result = None => maxDepth # 0
                   /\ result # None => (result = TRUE <=> Fillable(values, less, Fill(missing, b, v)))
        <4>1. PICK d \in Nat : rest[<<Fill(missing, b, v), d>>].result = result
          BY <3>6 DEF Ends
        <4>2. Fill(missing, b, v) \in [B -> Nat]
          <5> HIDE DEF v
          <5> QED
            BY <3>2 DEF Fill
        <4>3. Right(rest[<<Fill(missing, b, v), d>>], values, less, Fill(missing, b, v), maxDepth)
          <5> HIDE DEF v, less
          <5> QED
            BY <3>3, <4>2 DEF RightAt
        <4> HIDE DEF v, less
        <4> QED
          BY <4>1, <4>3 DEF Right
      <3>7. Fillable(values, left, missing)
                <=> \E b \in B : missing[b] > 0 /\ Fillable(values, less, Fill(missing, b, v))
        BY <2>1, <2>3, FillOne
      <3>8. answer.result \in BOOLEAN \cup {None}
        <4> HIDE DEF answer
        <4> QED
          BY <3>5 DEF Answers
      <3> HIDE DEF answer, v, less
      <3>9. CASE answer.result = TRUE
        <4>1. PICK b \in B : missing[b] > 0 /\ Ends(rest, missing, v, b, TRUE)
          BY <3>5, <3>9
        <4>2. Fillable(values, left, missing)
          BY <1>3, <3>6, <3>7, <4>1
        <4> QED
          BY <1>3, <3>5, <3>9, <4>2 DEF Right, answer
      <3>10. CASE answer.result = FALSE
        <4>1. ASSUME NEW b \in B, missing[b] > 0
              PROVE  ~Fillable(values, less, Fill(missing, b, v))
          <5>1. Ends(rest, missing, v, b, FALSE)
            BY <3>5, <3>10, <4>1
          <5> QED
            BY <1>3, <3>6, <5>1
        <4>2. ~Fillable(values, left, missing)
          BY <3>7, <4>1
        <4> QED
          BY <1>3, <3>5, <3>10, <4>2 DEF Right, answer
      <3>11. CASE answer.result = None
        <4>1. answer.result # FALSE
          BY <1>3, <3>11
        <4>2. PICK b \in B : missing[b] > 0 /\ Ends(rest, missing, v, b, None)
          BY <3>5, <3>11, <4>1
        <4>3. maxDepth # 0
          BY <3>6, <4>2
        <4> QED
          BY <3>5, <3>11, <4>3 DEF Right, answer
      <3> QED
        BY <3>8, <3>9, <3>10, <3>11
    <2> QED
      BY <2>4, <2>5
  <1> QED
    BY <1>5, <1>6, <1>7

\* A call answers when the calls of the rest do.
LEMMA CallAnswers ==
  ASSUME NEW D, IsFiniteSet(D), NEW values \in [D -> Nat], NEW B, IsFiniteSet(B), NEW maxDepth \in Nat,
         NEW left \in SUBSET D, NEW rest, left # {} => rest \in [[B -> Nat] \X Nat -> Answers],
         left # {} => Largest(values, left) \in left, NEW missing \in [B -> Nat], NEW depth \in Nat
  PROVE  Call(rest, values, left, missing, depth, maxDepth) \in Answers
  <1> DEFINE answer == Call(rest, values, left, missing, depth, maxDepth)
  <1>1. \A r \in BOOLEAN \cup {None} : \A d \in Nat : [result |-> r, depth |-> d] \in Answers
    BY DEF Answers
  <1>2. \/ answer = [result |-> FALSE, depth |-> depth]
        \/ answer = [result |-> TRUE, depth |-> depth]
        \/ answer = [result |-> None, depth |-> depth + 1]
        \/ left # {} /\ answer = Tries(rest, missing, values[Largest(values, left)], depth + 1)
    BY DEF Call, Decided, CutOff
  <1>3. ASSUME left # {}
        PROVE  Tries(rest, missing, values[Largest(values, left)], depth + 1) \in Answers
    <2> DEFINE v == values[Largest(values, left)]
    <2>1. v \in Nat /\ depth + 1 \in Nat /\ rest \in [[B -> Nat] \X Nat -> Answers]
      BY <1>3
    <2> HIDE DEF v
    <2>2. Tries(rest, missing, v, depth + 1) \in Answers
      BY <2>1, TriesAnswer
    <2> QED
      BY <2>2 DEF v
  <1>4. depth + 1 \in Nat
    OBVIOUS
  <1> HIDE DEF answer
  <1>5. answer \in Answers
    BY <1>1, <1>2, <1>3, <1>4
  <1> QED
    BY <1>5 DEF answer

\* f is the recursive function of the values left.
SearchesAre(f, values, B, maxDepth) ==
    f = [left \in SUBSET DOMAIN values |->
            [at \in [B -> Nat] \X Nat |->
                Call(f[left \ {Largest(values, left)}], values, left, at[1], at[2], maxDepth)]]

\* f computes the search, and the largest value left is one of them.
SearchBy(f, D, values, B, goals, maxDepth) ==
    /\ f \in [SUBSET D -> [[B -> Nat] \X Nat -> Answers]]
    /\ SearchesAre(f, values, B, maxDepth)
    /\ Search(values, goals, maxDepth) = f[D]
    /\ \A s \in (SUBSET D) \ {{}} : Largest(values, s) \in s

\* The recursive function of the search exists.
LEMMA SearchFunction ==
  ASSUME NEW D, IsFiniteSet(D), NEW values \in [D -> Nat], NEW B, IsFiniteSet(B), NEW maxDepth \in Nat,
         NEW goals \in [B -> Nat]
  PROVE  \E f : SearchBy(f, D, values, B, goals, maxDepth)
  <1> DEFINE M == [B -> Nat] \X Nat
             V == [M -> Answers]
             At(rest, s) == [at \in M |-> Call(rest, values, s, at[1], at[2], maxDepth)]
             Is(g) == SearchesAre(g, values, B, maxDepth)
             f == CHOOSE g : Is(g)
             pick == [s \in (SUBSET D) \ {{}} |-> Largest(values, s)]
             step == [x \in (SUBSET D) \X V |-> IF x[1] = {} THEN x[2] ELSE At(x[2], x[1])]
             first == At(0, {})
  <1>1. ASSUME NEW s \in (SUBSET D) \ {{}}
        PROVE  Largest(values, s) \in s
    <2>1. IsFiniteSet(s) /\ s # {} /\ \A i \in s : values[i] \in Nat
      BY FS_Subset
    <2>2. \E i \in s : \A j \in s : values[j] <= values[i]
      BY <2>1, Extremes
    <2> QED
      BY <2>2 DEF Largest
  <1>2. \A s \in (SUBSET D) \ {{}} : pick[s] \in s
    BY <1>1
  <1>3. ASSUME NEW s \in SUBSET D, NEW rest, s # {} => rest \in V
        PROVE  At(rest, s) \in V
    <2>1. ASSUME NEW at \in M
          PROVE  Call(rest, values, s, at[1], at[2], maxDepth) \in Answers
      <3>1. at[1] \in [B -> Nat] /\ at[2] \in Nat
        OBVIOUS
      <3>2. s # {} => Largest(values, s) \in s
        BY <1>1
      <3> QED
        BY <1>3, <3>1, <3>2, CallAnswers
    <2> HIDE DEF M
    <2> QED
      BY <2>1
  <1>4. step \in [(SUBSET D) \X V -> V] /\ first \in V
    <2>1. ASSUME NEW x \in (SUBSET D) \X V
          PROVE  step[x] \in V
      <3>1. x[1] \in SUBSET D /\ x[2] \in V
        OBVIOUS
      <3>2. At(x[2], x[1]) \in V
        <4> HIDE DEF V, At
        <4> QED
          BY <1>3, <3>1
      <3> HIDE DEF V, At
      <3> QED
        BY <3>1, <3>2
    <2>2. first \in V
      <3> HIDE DEF V, At
      <3> QED
        BY <1>3
    <2> HIDE DEF V, At
    <2> QED
      BY <2>1, <2>2
  <1>5. PICK g : Picks(g, D, V, first, pick, step)
    <2> HIDE DEF pick, step, first, V
    <2> QED
      BY <1>2, <1>4, SetRecursion
  <1>6. g \in [SUBSET D -> V] /\ g[{}] = first /\ \A s \in (SUBSET D) \ {{}} : g[s] = step[<<s, g[s \ {pick[s]}]>>]
    <2> HIDE DEF pick, step, first, V
    <2> QED
      BY <1>5 DEF Picks
  <1>7. ASSUME NEW s \in SUBSET D
        PROVE  g[s] = At(g[s \ {Largest(values, s)}], s)
    <2>1. CASE s = {}
      <3>1. At(g[s \ {Largest(values, s)}], s) = At(0, {})
        BY <2>1 DEF Call
      <3> HIDE DEF At
      <3> QED
        BY <1>6, <2>1, <3>1
    <2>2. CASE s # {}
      <3>1. s \ {pick[s]} \in SUBSET D /\ pick[s] = Largest(values, s)
        BY <2>2
      <3>2. g[s \ {pick[s]}] \in V
        <4> HIDE DEF V, pick
        <4> QED
          BY <1>6, <3>1
      <3>3. step[<<s, g[s \ {pick[s]}]>>] = At(g[s \ {pick[s]}], s)
        <4> HIDE DEF V, pick, At
        <4> QED
          BY <2>2, <3>2
      <3> HIDE DEF V, At, pick, step, first
      <3> QED
        BY <1>6, <2>2, <3>1, <3>3
    <2> QED
      BY <2>1, <2>2
  <1>8. Is(g)
    <2>1. g = [s \in SUBSET D |-> At(g[s \ {Largest(values, s)}], s)]
      <3> HIDE DEF At, V
      <3> QED
        BY <1>6, <1>7
    <2> QED
      BY <2>1 DEF SearchesAre
  <1>9. Is(f)
    <2> HIDE DEF Is
    <2> QED
      BY <1>8
  <1>10. Search(values, goals, maxDepth) = f[D]
    BY DEF Search, SearchesAre
  <1>11. f = g
    <2> HIDE DEF f
    <2> DEFINE P == {s \in SUBSET D : f[s] = g[s]}
    <2>1. \A s \in SUBSET D : f[s] = At(f[s \ {Largest(values, s)}], s)
      BY <1>9 DEF SearchesAre
    <2>2. {} \in P
      <3>1. At(f[{} \ {Largest(values, {})}], {}) = At(g[{} \ {Largest(values, {})}], {})
        BY DEF Call
      <3> HIDE DEF At
      <3> QED
        BY <1>7, <2>1, <3>1
    <2>3. ASSUME NEW T \in SUBSET D, T # {}, \A x \in T : T \ {x} \in P
          PROVE  T \in P
      <3>1. Largest(values, T) \in T
        BY <1>1, <2>3
      <3>2. f[T \ {Largest(values, T)}] = g[T \ {Largest(values, T)}]
        BY <2>3, <3>1
      <3> HIDE DEF At
      <3> QED
        BY <1>7, <2>1, <3>2
    <2>4. \A T \in SUBSET D : T \in P
      <3> HIDE DEF P
      <3> QED
        BY <2>2, <2>3, SetInduction
    <2>5. f = [s \in SUBSET D |-> f[s]] /\ g = [s \in SUBSET D |-> g[s]]
      BY <1>6, <1>9 DEF SearchesAre
    <2>6. \A s \in SUBSET D : f[s] = g[s]
      BY <2>4
    <2> QED
      BY <2>5, <2>6
  <1> QED
    <2> HIDE DEF f, pick, step, first
    <2>1. SearchBy(f, D, values, B, goals, maxDepth)
      BY <1>1, <1>6, <1>9, <1>10, <1>11 DEF SearchBy
    <2> QED
      BY <2>1

\* The search answers right.
LEMMA SearchRight ==
  ASSUME NEW D, IsFiniteSet(D), NEW values \in [D -> Nat], NEW B, IsFiniteSet(B), B # {}, NEW maxDepth \in Nat,
         NEW goals \in [B -> Nat]
  PROVE  Right(Search(values, goals, maxDepth)[<<goals, 0>>], values, D, goals, maxDepth)
  <1>1. PICK f \in [SUBSET D -> [[B -> Nat] \X Nat -> Answers]] :
            /\ SearchesAre(f, values, B, maxDepth)
            /\ Search(values, goals, maxDepth) = f[D]
            /\ \A s \in (SUBSET D) \ {{}} : Largest(values, s) \in s
    <2>1. \E f : SearchBy(f, D, values, B, goals, maxDepth)
      BY SearchFunction
    <2> QED
      BY <2>1 DEF SearchBy
  <1> DEFINE P == {s \in SUBSET D : RightAt(f[s], values, s, B, maxDepth)}
  <1>2. ASSUME NEW s \in SUBSET D, s # {} => s \ {Largest(values, s)} \in P
        PROVE  s \in P
    <2> DEFINE rest == f[s \ {Largest(values, s)}]
    <2>1. s # {} => RightAt(rest, values, s \ {Largest(values, s)}, B, maxDepth)
      BY <1>2
    <2>2. f[s] = [at \in [B -> Nat] \X Nat |-> Call(rest, values, s, at[1], at[2], maxDepth)]
      BY <1>1 DEF SearchesAre
    <2>3. f[s] \in [[B -> Nat] \X Nat -> Answers]
      BY <1>1
    <2>4. ASSUME NEW missing \in [B -> Nat], NEW depth \in Nat
          PROVE  Right(f[s][<<missing, depth>>], values, s, missing, maxDepth)
      <3>1. f[s][<<missing, depth>>] = Call(rest, values, s, missing, depth, maxDepth)
        <4>1. <<missing, depth>> \in [B -> Nat] \X Nat
          OBVIOUS
        <4> HIDE DEF rest
        <4> QED
          BY <2>2, <4>1
      <3>2. Right(Call(rest, values, s, missing, depth, maxDepth), values, s, missing, maxDepth)
        <4> HIDE DEF rest
        <4> QED
          BY <2>1, CallRight
      <3> QED
        BY <3>1, <3>2
    <2> QED
      BY <2>3, <2>4 DEF RightAt
  <1>3. \A s \in SUBSET D : s \in P
    <2>1. {} \in P
      <3> HIDE DEF P
      <3> QED
        BY <1>2
    <2>2. ASSUME NEW T \in SUBSET D, T # {}, \A x \in T : T \ {x} \in P
          PROVE  T \in P
      <3>1. Largest(values, T) \in T
        BY <1>1, <2>2
      <3> HIDE DEF P
      <3> QED
        BY <1>2, <2>2, <3>1
    <2> HIDE DEF P
    <2> QED
      BY <2>1, <2>2, SetInduction
  <1>4. RightAt(f[D], values, D, B, maxDepth)
    BY <1>3
  <1> QED
    BY <1>1, <1>4 DEF RightAt

\* What the search should answer.
Exact(answer, values, D, goals, maxDepth) ==
    /\ answer \in BOOLEAN \cup {None}
    /\ answer = None => maxDepth # 0
    /\ answer # None => (answer = TRUE <=> Fillable(values, D, goals))

\* The search is exact: without a limit it answers, and an answer is whether the values fill the goals.
LEMMA SearchExact ==
  ASSUME NEW D, IsFiniteSet(D), NEW values \in [D -> Nat], NEW B, IsFiniteSet(B), B # {}, NEW maxDepth \in Nat,
         NEW goals \in [B -> Nat], NEW answer, answer = joinmarket_subset_result(values, goals, maxDepth).result
  PROVE  Exact(answer, values, D, goals, maxDepth)
  <1>1. Right(Search(values, goals, maxDepth)[<<goals, 0>>], values, D, goals, maxDepth)
    BY SearchRight
  <1> QED
    BY <1>1 DEF Right, Answers, joinmarket_subset_result, Exact

\* Of sequences too, and without a goal the answer is yes.
LEMMA SearchHolds ==
  ASSUME NEW values \in Seq(Nat), NEW goals \in Seq(Nat), NEW maxDepth \in Nat
  PROVE  SubsetSearchIsExact(values, goals, maxDepth)
  <1> DEFINE D == DOMAIN values
             B == DOMAIN goals
             answer == joinmarket_subset_result(values, goals, maxDepth).result
  <1>1. IsFiniteSet(D) /\ IsFiniteSet(B) /\ values \in [D -> Nat] /\ goals \in [B -> Nat]
    <2>1. /\ Len(values) \in Nat /\ D = 1..Len(values) /\ values \in [D -> Nat]
          /\ Len(goals) \in Nat /\ B = 1..Len(goals) /\ goals \in [B -> Nat]
      BY LenProperties
    <2>2. \A n \in Nat : IsFiniteSet(1..n)
      BY FS_Interval
    <2> QED
      BY <2>1, <2>2
  <1>2. Fillable(values, D, goals) <=> CanFill(values, goals)
    BY DEF Fillable, CanFill, SumOf
  <1>3. TRUE # None /\ FALSE # None
    BY NoneAssumption
  <1>4. CASE goals # << >>
    <2>1. B # {}
      <3>1. Len(goals) \in Nat /\ B = 1..Len(goals) /\ Len(goals) # 0
        BY <1>4, LenProperties, EmptySeq
      <3>2. 1 \in B
        BY <3>1
      <3> QED
        BY <3>2
    <2>2. /\ answer \in BOOLEAN \cup {None}
          /\ answer = None => maxDepth # 0
          /\ answer # None => (answer = TRUE <=> Fillable(values, D, goals))
      <3>1. answer = joinmarket_subset_result(values, goals, maxDepth).result
        OBVIOUS
      <3>2. Exact(answer, values, D, goals, maxDepth)
        <4> HIDE DEF D, B, answer
        <4> QED
          BY <1>1, <2>1, <3>1, SearchExact
      <3> QED
        BY <3>2 DEF Exact
    <2> DEFINE can == goals = << >> \/ CanFill(values, goals)
    <2>3. can \in BOOLEAN /\ (can <=> CanFill(values, goals))
      BY <1>4
    <2> HIDE DEF answer, can, D
    <2>4. answer # None => answer = can
      BY <1>2, <2>2, <2>3
    <2> QED
      BY <2>2, <2>4, Zenon DEF SubsetSearchIsExact, answer, can
  <1>5. CASE goals = << >>
    <2>1. PICK f : SearchBy(f, D, values, B, goals, maxDepth)
      <3> HIDE DEF D, B
      <3> QED
        BY <1>1, SearchFunction
    <2> DEFINE rest == f[D \ {Largest(values, D)}]
    <2>2. f[D][<<goals, 0>>] = Call(rest, values, D, goals, 0, maxDepth)
      <3>1. f[D] = [at \in [B -> Nat] \X Nat |-> Call(rest, values, D, at[1], at[2], maxDepth)]
        BY <2>1 DEF SearchBy, SearchesAre
      <3>2. <<goals, 0>> \in [B -> Nat] \X Nat
        BY <1>1
      <3> HIDE DEF rest, D, B
      <3> QED
        BY <3>1, <3>2
    <2>3. SumFunction(goals) = 0 /\ B = {}
      <3>1. B = {} /\ goals = [b \in {} |-> goals[b]]
        BY <1>5
      <3>2. SumOf(goals, {}) = 0
        BY FS_EmptySet, Sums
      <3> QED
        BY <3>1, <3>2 DEF SumOf
    <2>4. SumOf(values, D) \in Nat
      <3> HIDE DEF D
      <3> QED
        BY <1>1, Sums
    <2>5. Call(rest, values, D, goals, 0, maxDepth) = [result |-> TRUE, depth |-> 0]
      <3>1. ~(SumFunction(goals) > SumFunction([i \in D |-> values[i]]))
        BY <2>3, <2>4 DEF SumOf
      <3> QED
        BY <2>3, <3>1 DEF Call, Decided
    <2>6. answer = TRUE
      BY <2>1, <2>2, <2>5 DEF SearchBy, joinmarket_subset_result
    <2> HIDE DEF answer
    <2>7. answer = (goals = << >> \/ CanFill(values, goals))
      BY <1>5, <2>6
    <2> QED
      BY <1>3, <2>6, <2>7 DEF SubsetSearchIsExact, answer
  <1> QED
    BY <1>4, <1>5
-----------------------------------------------------------------------------
(***************************************************************************)
(* Counting values.                                                        *)
(***************************************************************************)
\* The values of a function on a finite set are finitely many, no more than the set has elements.
LEMMA Image ==
  ASSUME NEW S, IsFiniteSet(S), NEW f
  PROVE  LET image == {f[x] : x \in S}
         IN IsFiniteSet(image) /\ Cardinality(image) \in Nat /\ Cardinality(image) <= Cardinality(S)
  <1> DEFINE image == {f[x] : x \in S}
             g == [x \in S |-> f[x]]
  <1>1. g \in Surjection(S, image)
    BY DEF Surjection
  <1> HIDE DEF image, g
  <1>2. IsFiniteSet(image) /\ Cardinality(image) <= Cardinality(S)
    BY <1>1, FS_Surjection
  <1>3. Cardinality(image) \in Nat
    BY <1>2, FS_CardinalityType
  <1> QED
    BY <1>2, <1>3 DEF image

\* The largest element of a finite set of numbers.
LEMMA Largest1 ==
  ASSUME NEW S \in SUBSET Nat, IsFiniteSet(S), S # {}
  PROVE  Max(S) \in S /\ \A x \in S : x <= Max(S)
  <1> DEFINE f == [x \in S |-> x]
  <1>1. \A x \in S : f[x] \in Nat
    OBVIOUS
  <1>2. \E x \in S : \A y \in S : f[y] <= f[x]
    <2> HIDE DEF f
    <2> QED
      BY <1>1, Extremes
  <1>3. \E x \in S : \A y \in S : x >= y
    BY <1>2
  <1>4. Max(S) \in S /\ \A y \in S : Max(S) >= y
    BY <1>3 DEF Max
  <1> QED
    BY <1>4

\* The most frequent value has the largest count; it is None without a count.
Frequent(found, V, counts) ==
    /\ V = {} => found.value = None /\ found.count = 0
    /\ V # {} => /\ found.value \in V /\ found.count = counts[found.value]
                 /\ \A v \in V : counts[v] <= found.count

\* The code finds it.
LEMMA MostFrequent ==
  ASSUME NEW outputs, NEW among \in SUBSET Nat, NEW V, IsFiniteSet(V), NEW counts \in [V -> Nat],
         \A v \in V : \E i \in among : outputs[i].value = v,
         NEW found, found = _most_frequent_value(outputs, among, counts)
  PROVE  Frequent(found, V, counts)
  <1>1. CASE V = {}
    BY <1>1 DEF _most_frequent_value, Frequent
  <1>2. CASE V # {}
    <2> DEFINE best == Max(Range(counts))
               ties == {i \in among : outputs[i].value \in DOMAIN counts /\ counts[outputs[i].value] = best}
    <2>1. Range(counts) = {counts[v] : v \in V}
      BY DEF Range
    <2>2. IsFiniteSet(Range(counts)) /\ Range(counts) \in SUBSET Nat /\ Range(counts) # {}
      <3>1. IsFiniteSet({counts[v] : v \in V})
        BY Image
      <3>2. {counts[v] : v \in V} \in SUBSET Nat /\ {counts[v] : v \in V} # {}
        BY <1>2
      <3> QED
        BY <2>1, <3>1, <3>2
    <2>3. best \in Range(counts) /\ \A x \in Range(counts) : x <= best
      BY <2>2, Largest1
    <2> HIDE DEF best
    <2>4. PICK v \in V : counts[v] = best
      BY <2>1, <2>3
    <2>5. PICK i \in among : outputs[i].value = v
      OBVIOUS
    <2>6. i \in ties
      BY <2>4, <2>5
    <2>7. Min(ties) \in ties
      <3>1. ties \in SUBSET Nat /\ ties # {}
        BY <2>6
      <3> HIDE DEF ties
      <3> QED
        BY <3>1, Least
    <2>8. found = [value |-> outputs[Min(ties)].value, count |-> best]
      BY <1>2 DEF _most_frequent_value, best
    <2>9. found.value \in V /\ found.count = counts[found.value]
      <3> HIDE DEF ties
      <3>1. found.value = outputs[Min(ties)].value /\ found.count = best
        BY <2>8
      <3>2. outputs[Min(ties)].value \in V /\ counts[outputs[Min(ties)].value] = best
        BY <2>7 DEF ties
      <3> QED
        BY <3>1, <3>2
    <2>10. found.count = best
      BY <2>8
    <2>11. \A w \in V : counts[w] <= best
      BY <2>1, <2>3
    <2> QED
      BY <1>2, <2>9, <2>10, <2>11 DEF Frequent
  <1> QED
    BY <1>1, <1>2
-----------------------------------------------------------------------------
(***************************************************************************)
(* The outputs of a JoinMarket transaction.                                *)
(***************************************************************************)
\* The places of a list of coins are finitely many numbers, and so are the ones of any part.
LEMMA CoinPlaces ==
  ASSUME NEW coins \in Seq(Coin)
  PROVE  /\ Len(coins) \in Nat /\ DOMAIN coins = 1..Len(coins)
         /\ IsFiniteSet(DOMAIN coins) /\ Cardinality(DOMAIN coins) = Len(coins)
         /\ \A i \in DOMAIN coins : coins[i].value \in Nat \cup {None}
         /\ \A S \in SUBSET DOMAIN coins :
               IsFiniteSet(S) /\ Cardinality(S) \in Nat /\ Cardinality(S) <= Len(coins) /\ S \in SUBSET Nat
  <1>1. Len(coins) \in Nat /\ DOMAIN coins = 1..Len(coins) /\ coins \in [1..Len(coins) -> Coin]
    BY LenProperties
  <1>2. IsFiniteSet(1..Len(coins)) /\ Cardinality(1..Len(coins)) = Len(coins)
    <2> DEFINE n == Len(coins)
    <2>1. n \in Nat
      BY <1>1
    <2> HIDE DEF n
    <2>2. IsFiniteSet(1..n) /\ Cardinality(1..n) = IF 1 > n THEN 0 ELSE n - 1 + 1
      BY <2>1, FS_Interval
    <2> QED
      BY <2>1, <2>2 DEF n
  <1>3. \A i \in DOMAIN coins : coins[i].value \in Nat \cup {None}
    BY <1>1 DEF Coin
  <1>4. \A S \in SUBSET DOMAIN coins : IsFiniteSet(S) /\ Cardinality(S) <= Len(coins)
    BY <1>1, <1>2, FS_Subset
  <1>5. \A S \in SUBSET DOMAIN coins : Cardinality(S) \in Nat
    BY <1>4, FS_CardinalityType
  <1> QED
    BY <1>1, <1>2, <1>3, <1>4, <1>5

\* The places that pay a value to an address.
PaidPlaces(outputs, value) ==
    {i \in DOMAIN outputs : outputs[i].address # None /\ outputs[i].value = value}

\* The mixed value is paid at least as often as its count says.
LEMMA MixedIsPaid ==
  ASSUME NEW outputs \in Seq(Coin), NEW mixed, mixed = MixedValue(outputs)
  PROVE  /\ mixed.count \in Nat /\ mixed.value \in Nat \cup {None}
         /\ mixed.value # None => mixed.count <= Cardinality(PaidPlaces(outputs, mixed.value))
  <1> DEFINE full == {i \in DOMAIN outputs : outputs[i].address # None /\ outputs[i].value # None}
             V == {outputs[i].value : i \in full}
             addresses == output_addresses_by_value(outputs)
             counts == [v \in DOMAIN addresses |-> Cardinality(addresses[v])]
             among == {i \in DOMAIN outputs : outputs[i].address # None}
             at(v) == {j \in full : outputs[j].value = v}
  <1>1. \A S \in SUBSET DOMAIN outputs : IsFiniteSet(S) /\ Cardinality(S) \in Nat /\ S \in SUBSET Nat
    BY CoinPlaces
  <1>2. \A i \in DOMAIN outputs : outputs[i].value \in Nat \cup {None}
    BY CoinPlaces
  <1>3. addresses = [v \in V |-> {outputs[i].address : i \in at(v)}]
    BY DEF output_addresses_by_value
  <1>4. IsFiniteSet(V)
    <2> DEFINE f == [i \in full |-> outputs[i].value]
    <2>1. V = {f[i] : i \in full}
      OBVIOUS
    <2>2. IsFiniteSet(full)
      BY <1>1
    <2>3. IsFiniteSet({f[i] : i \in full})
      <3> HIDE DEF f, full
      <3> QED
        BY <2>2, Image
    <2> HIDE DEF V, f, full
    <2> QED
      BY <2>1, <2>3
  <1>5. ASSUME NEW v \in V
        PROVE  Cardinality(addresses[v]) \in Nat /\ Cardinality(addresses[v]) <= Cardinality(at(v))
    <2> DEFINE f == [i \in at(v) |-> outputs[i].address]
    <2>1. addresses[v] = {f[i] : i \in at(v)}
      <3>1. addresses[v] = {outputs[i].address : i \in at(v)}
        <4> HIDE DEF at, V, addresses
        <4> QED
          BY <1>3
      <3>2. {outputs[i].address : i \in at(v)} = {f[i] : i \in at(v)}
        <4> HIDE DEF at
        <4> QED
          OBVIOUS
      <3> HIDE DEF at, f, addresses
      <3> QED
        BY <3>1, <3>2
    <2>2. IsFiniteSet(at(v))
      BY <1>1
    <2> HIDE DEF at, addresses, f
    <2> QED
      BY <2>1, <2>2, Image
  <1>6. counts \in [V -> Nat] /\ DOMAIN addresses = V
    <2>1. DOMAIN addresses = V
      BY <1>3
    <2> HIDE DEF addresses, V
    <2> QED
      BY <1>5, <2>1
  <1>7. among \in SUBSET Nat /\ \A v \in V : \E i \in among : outputs[i].value = v
    <2>1. among \in SUBSET Nat
      BY <1>1
    <2>2. full \in SUBSET among
      OBVIOUS
    <2> QED
      BY <2>1, <2>2
  <1>8. mixed = _most_frequent_value(outputs, among, counts)
    BY DEF MixedValue
  <1> HIDE DEF among, counts
  <1>9. /\ V = {} => mixed.value = None /\ mixed.count = 0
        /\ V # {} => mixed.value \in V /\ mixed.count = counts[mixed.value]
    <2> HIDE DEF V, addresses
    <2>1. Frequent(mixed, V, counts)
      BY <1>4, <1>6, <1>7, <1>8, MostFrequent
    <2> QED
      BY <2>1 DEF Frequent
  <1>10. CASE V = {}
    <2>1. mixed.value = None /\ mixed.count = 0
      <3> HIDE DEF V, addresses
      <3> QED
        BY <1>9, <1>10
    <2> QED
      BY <2>1
  <1>11. CASE V # {}
    <2> DEFINE v == mixed.value
    <2>1. v \in V /\ mixed.count = Cardinality(addresses[v])
      <3>1. v \in V /\ mixed.count = counts[v]
        BY <1>9, <1>11
      <3> HIDE DEF V, addresses, v
      <3> QED
        BY <1>6, <3>1 DEF counts
    <2>2. at(v) \in SUBSET PaidPlaces(outputs, v) /\ PaidPlaces(outputs, v) \in SUBSET DOMAIN outputs
      BY DEF PaidPlaces
    <2>3. Cardinality(at(v)) <= Cardinality(PaidPlaces(outputs, v))
      <3> HIDE DEF at, v
      <3> QED
        BY <1>1, <2>2, FS_Subset
    <2>4. at(v) \in SUBSET DOMAIN outputs
      OBVIOUS
    <2>5. Cardinality(at(v)) \in Nat /\ Cardinality(PaidPlaces(outputs, v)) \in Nat
      <3> HIDE DEF at, v
      <3> QED
        BY <1>1, <2>2, <2>4
    <2>6. Cardinality(addresses[v]) \in Nat /\ Cardinality(addresses[v]) <= Cardinality(at(v))
      BY <1>5, <2>1
    <2>7. v \in Nat
      BY <1>2, <2>1
    <2>8. mixed.count <= Cardinality(PaidPlaces(outputs, v))
      <3> HIDE DEF at, v, addresses, V
      <3> QED
        BY <2>1, <2>3, <2>5, <2>6
    <2> QED
      BY <2>1, <2>6, <2>7, <2>8
  <1> QED
    BY <1>10, <1>11

\* The number of participants is half the outputs, rounded up.
LEMMA HalfTheOutputs ==
  ASSUME NEW outputs \in Seq(Coin)
  PROVE  /\ ParticipantCount(outputs) \in Nat
         /\ Len(outputs) <= 2 * ParticipantCount(outputs) /\ 2 * ParticipantCount(outputs) <= Len(outputs) + 1
  <1>1. Len(outputs) \in Nat
    BY CoinPlaces
  <1> QED
    BY <1>1 DEF ParticipantCount

\* With a mixed output per participant there is change for at most as many.
LEMMA FewChanges ==
  ASSUME NEW outputs \in Seq(Coin), NEW d \in Nat,
         Cardinality(PaidPlaces(outputs, d)) >= ParticipantCount(outputs)
  PROVE  /\ Changes(outputs, d) \in SUBSET DOMAIN outputs
         /\ Cardinality(Changes(outputs, d)) + ParticipantCount(outputs) <= Len(outputs)
  <1> DEFINE I == DOMAIN outputs
             paid == PaidPlaces(outputs, d)
             changes == Changes(outputs, d)
  <1>1. paid \in SUBSET I /\ changes \in SUBSET (I \ paid) /\ I \ paid \in SUBSET I /\ I \cap paid = paid
    BY DEF PaidPlaces, Changes
  <1>2. IsFiniteSet(I) /\ Cardinality(I) = Len(outputs) /\ Len(outputs) \in Nat
    BY CoinPlaces
  <1>3. \A S \in SUBSET I : IsFiniteSet(S) /\ Cardinality(S) \in Nat
    BY CoinPlaces
  <1> HIDE DEF I, paid, changes
  <1>4. Cardinality(I \ paid) = Cardinality(I) - Cardinality(paid)
    BY <1>1, <1>2, FS_Difference
  <1>5. Cardinality(changes) <= Cardinality(I \ paid)
    BY <1>1, <1>3, FS_Subset
  <1>6. changes \in SUBSET I
    BY <1>1
  <1>7. Cardinality(changes) \in Nat /\ Cardinality(paid) \in Nat /\ Cardinality(paid) >= ParticipantCount(outputs)
    BY <1>1, <1>3, <1>6 DEF paid
  <1>8. Cardinality(changes) + ParticipantCount(outputs) <= Len(outputs)
    BY <1>2, <1>4, <1>5, <1>7, HalfTheOutputs
  <1> QED
    BY <1>6, <1>8 DEF changes, I

\* How many changes the first n outputs hold.
Rank(outputs, d, n) == Cardinality(Changes(outputs, d) \cap 1..n)

\* g computes the goals, one output after the other.
GoalsBy(g, outputs, d) ==
    /\ g \in [0..Len(outputs) -> [1..ParticipantCount(outputs) -> Nat]]
    /\ \A b \in 1..ParticipantCount(outputs) : g[0][b] = d
    /\ \A n \in 1..Len(outputs) : \A b \in 1..ParticipantCount(outputs) :
           g[n][b] = IF n \in Changes(outputs, d) /\ b = Rank(outputs, d, n)
                     THEN g[n - 1][b] + outputs[n].value ELSE g[n - 1][b]
    /\ BucketGoals(outputs, d) = g[Len(outputs)]

\* The recursive function of the goals exists.
LEMMA GoalsFunction ==
  ASSUME NEW outputs \in Seq(Coin), NEW d \in Nat
  PROVE  \E g : GoalsBy(g, outputs, d)
  <1> DEFINE L == Len(outputs)
             P == ParticipantCount(outputs)
             V == [1..P -> Nat]
             Body(n, before) == [b \in 1..P |->
                                    IF n = 0 THEN d
                                    ELSE IF n \in Changes(outputs, d) /\ b = Cardinality(Changes(outputs, d) \cap 1..n)
                                    THEN before[b] + outputs[n].value ELSE before[b]]
             Is(f) == f = [n \in 0..L |-> Body(n, f[n - 1])]
             f == CHOOSE g : Is(g)
             first == Body(0, 0)
             step == [x \in (1..L) \X V |-> Body(x[1], x[2])]
  <1>1. L \in Nat /\ P \in Nat /\ DOMAIN outputs = 1..L
    BY CoinPlaces, HalfTheOutputs
  <1>2. \A n \in Changes(outputs, d) : outputs[n].value \in Nat
    BY CoinPlaces DEF Changes
  <1>3. first \in V
    OBVIOUS
  <1>4. ASSUME NEW n \in 1..L, NEW before \in V
        PROVE  Body(n, before) \in V
    <2>1. ASSUME NEW b \in 1..P
          PROVE  Body(n, before)[b] \in Nat
      <3>1. before[b] \in Nat
        OBVIOUS
      <3> QED
        BY <1>1, <1>2, <3>1
    <2> QED
      BY <2>1
  <1>5. step \in [(1..L) \X V -> V]
    <2>1. ASSUME NEW x \in (1..L) \X V
          PROVE  Body(x[1], x[2]) \in V
      <3>1. x[1] \in 1..L /\ x[2] \in V
        OBVIOUS
      <3> HIDE DEF V, Body, L
      <3> QED
        BY <1>4, <3>1
    <2> HIDE DEF V, Body, L
    <2> QED
      BY <2>1
  <1>6. PICK g : Recurs(g, L, V, first, step)
    <2> HIDE DEF L, V, first, step
    <2> QED
      BY <1>1, <1>3, <1>5, Recursion
  <1>7. g \in [0..L -> V] /\ g[0] = first /\ \A n \in 1..L : g[n] = Body(n, g[n - 1])
    <2>1. g \in [0..L -> V] /\ g[0] = first /\ \A n \in 1..L : g[n] = step[<<n, g[n - 1]>>]
      <3> HIDE DEF L, V, first, step
      <3> QED
        BY <1>6 DEF Recurs
    <2>2. ASSUME NEW n \in 1..L
          PROVE  step[<<n, g[n - 1]>>] = Body(n, g[n - 1])
      <3>1. n - 1 \in 0..L
        BY <1>1
      <3>2. g[n - 1] \in V
        <4> HIDE DEF V, L
        <4> QED
          BY <2>1, <3>1
      <3> HIDE DEF V, Body, L
      <3> QED
        BY <3>2
    <2> HIDE DEF step, Body
    <2> QED
      BY <2>1, <2>2
  <1>8. \A x : first = Body(0, x)
    OBVIOUS
  <1>9. Is(g)
    <2>1. ASSUME NEW n \in 0..L
          PROVE  g[n] = Body(n, g[n - 1])
      <3>1. CASE n = 0
        <4>1. g[n] = first /\ first = Body(0, g[n - 1])
          <5> HIDE DEF first, Body
          <5> QED
            BY <1>7, <1>8, <3>1
        <4> HIDE DEF first, Body
        <4> QED
          BY <3>1, <4>1
      <3>2. CASE n # 0
        <4>1. n \in 1..L
          BY <1>1, <3>2
        <4> HIDE DEF Body
        <4> QED
          BY <1>7, <4>1
      <3> QED
        BY <3>1, <3>2
    <2> HIDE DEF Body, V
    <2> QED
      BY <1>7, <2>1
  <1>10. Is(f)
    <2> HIDE DEF Is
    <2> QED
      BY <1>9
  <1>11. BucketGoals(outputs, d) = f[L]
    BY DEF BucketGoals
  <1>12. f[L] = g[L]
    <2> DEFINE Same == {n \in 0..L : f[n] = g[n]}
    <2> HIDE DEF f
    <2>1. f = [n \in 0..L |-> Body(n, f[n - 1])]
      BY <1>10
    <2>2. 0 \in Same
      <3>1. 0 \in 0..L
        BY <1>1
      <3>2. f[0] = Body(0, f[0 - 1])
        <4> HIDE DEF Body
        <4> QED
          BY <2>1, <3>1
      <3> HIDE DEF Body, first
      <3> QED
        BY <1>7, <1>8, <3>1, <3>2
    <2>3. ASSUME NEW n \in 0..(L - 1), n \in Same
          PROVE  n + 1 \in Same
      <3>1. n + 1 \in 1..L /\ n + 1 \in 0..L /\ (n + 1) - 1 = n
        BY <1>1
      <3>2. f[n + 1] = Body(n + 1, f[(n + 1) - 1]) /\ g[n + 1] = Body(n + 1, g[(n + 1) - 1])
        <4> HIDE DEF Body
        <4> QED
          BY <1>7, <2>1, <3>1
      <3> HIDE DEF Body
      <3> QED
        BY <2>3, <3>1, <3>2
    <2>4. L \in Same
      <3>1. \A n \in 0..L : n \in Same
        <4> HIDE DEF Same, L
        <4> QED
          BY <1>1, <2>2, <2>3, UpTo
      <3>2. L \in 0..L
        BY <1>1
      <3> QED
        BY <3>1, <3>2
    <2> QED
      BY <2>4
  <1>13. GoalsBy(g, outputs, d)
    <2>1. \A b \in 1..P : g[0][b] = d
      BY <1>7
    <2>2. ASSUME NEW n \in 1..L, NEW b \in 1..P
          PROVE  g[n][b] = IF n \in Changes(outputs, d) /\ b = Rank(outputs, d, n)
                           THEN g[n - 1][b] + outputs[n].value ELSE g[n - 1][b]
      <3>1. g[n] = Body(n, g[n - 1]) /\ n # 0
        <4> HIDE DEF Body
        <4> QED
          BY <1>1, <1>7
      <3> QED
        BY <3>1 DEF Rank
    <2> HIDE DEF f
    <2> QED
      BY <1>7, <1>11, <1>12, <2>1, <2>2 DEF GoalsBy
  <1> QED
    BY <1>13

\* The sum of one value everywhere.
LEMMA SumConstant ==
  ASSUME NEW S, IsFiniteSet(S), NEW d \in Nat, NEW f, \A x \in S : f[x] = d
  PROVE  SumOf(f, S) = Cardinality(S) * d
  <1> DEFINE P == {s \in SUBSET S : SumOf(f, s) = Cardinality(s) * d}
  <1>1. \A s \in SUBSET S : IsFiniteSet(s) /\ Cardinality(s) \in Nat /\ (\A x \in s : f[x] \in Nat) /\ SumOf(f, s) \in Nat
    BY FS_Subset, FS_CardinalityType, Sums
  <1>2. {} \in P
    <2>1. SumOf(f, {}) = 0 /\ Cardinality({}) = 0
      BY FS_EmptySet, Sums
    <2> QED
      BY <2>1
  <1>3. ASSUME NEW s \in SUBSET S, s # {}, \A x \in s : s \ {x} \in P
        PROVE  s \in P
    <2> PICK x \in s : TRUE
      BY <1>3
    <2>1. SumOf(f, s) = d + SumOf(f, s \ {x})
      BY <1>1, Sums
    <2>2. SumOf(f, s \ {x}) = Cardinality(s \ {x}) * d
      BY <1>3
    <2>3. Cardinality(s \ {x}) = Cardinality(s) - 1
      BY <1>1, FS_RemoveElement
    <2>4. Cardinality(s) \in Nat
      BY <1>1
    <2> DEFINE n == Cardinality(s)
    <2>5. SumOf(f, s) = d + (n - 1) * d
      BY <2>1, <2>2, <2>3
    <2> HIDE DEF n
    <2>6. d + (n - 1) * d = n * d
      BY <2>4 DEF n
    <2> QED
      BY <2>5, <2>6 DEF n
  <1>4. \A s \in SUBSET S : s \in P
    <2> HIDE DEF P
    <2> QED
      BY <1>2, <1>3, SetInduction
  <1> QED
    BY <1>4

\* A sum of which one value grows.
LEMMA SumBump ==
  ASSUME NEW S, IsFiniteSet(S), NEW f \in [S -> Nat], NEW g \in [S -> Nat], NEW e \in S, NEW more \in Nat,
         g[e] = f[e] + more, \A x \in S \ {e} : g[x] = f[x]
  PROVE  SumOf(g, S) = SumOf(f, S) + more
  <1>1. IsFiniteSet(S \ {e}) /\ \A x \in S \ {e} : f[x] \in Nat /\ g[x] \in Nat
    BY FS_Subset
  <1>2. SumOf(g, S) = g[e] + SumOf(g, S \ {e}) /\ SumOf(f, S) = f[e] + SumOf(f, S \ {e})
    BY Sums
  <1>3. SumOf(f, S \ {e}) = SumOf(g, S \ {e}) /\ SumOf(f, S \ {e}) \in Nat
    BY <1>1, SumsSame, Sums
  <1>4. f[e] \in Nat
    OBVIOUS
  <1> QED
    BY <1>2, <1>3, <1>4

\* The rank counts the changes.
LEMMA Ranks ==
  ASSUME NEW outputs \in Seq(Coin), NEW d \in Nat
  PROVE  /\ Changes(outputs, d) \in SUBSET DOMAIN outputs
         /\ Rank(outputs, d, 0) = 0 /\ Changes(outputs, d) \cap 1..0 = {}
         /\ Rank(outputs, d, Len(outputs)) = Cardinality(Changes(outputs, d))
         /\ Changes(outputs, d) \cap 1..Len(outputs) = Changes(outputs, d)
         /\ \A n \in 1..Len(outputs) :
               /\ Rank(outputs, d, n) \in Nat /\ Rank(outputs, d, n - 1) \in Nat
               /\ Rank(outputs, d, n) <= Cardinality(Changes(outputs, d))
               /\ Rank(outputs, d, n) = IF n \in Changes(outputs, d) THEN Rank(outputs, d, n - 1) + 1
                                        ELSE Rank(outputs, d, n - 1)
  <1> DEFINE L == Len(outputs)
             C == Changes(outputs, d)
  <1>1. L \in Nat /\ DOMAIN outputs = 1..L /\ C \in SUBSET (1..L)
    BY CoinPlaces DEF Changes
  <1>2. \A S \in SUBSET C : IsFiniteSet(S) /\ Cardinality(S) \in Nat
    BY <1>1, CoinPlaces
  <1> HIDE DEF C, L
  <1>3. C \cap 1..0 = {} /\ C \cap 1..L = C
    <2>1. C \cap 1..L = C
      BY <1>1
    <2>2. \A i \in 1..0 : FALSE
      OBVIOUS
    <2>3. C \cap 1..0 = {}
      BY <2>2
    <2> QED
      BY <2>1, <2>3
  <1>4. Cardinality({}) = 0
    BY FS_EmptySet
  <1>5. ASSUME NEW n \in 1..L
        PROVE  /\ Cardinality(C \cap 1..n) \in Nat /\ Cardinality(C \cap 1..(n - 1)) \in Nat
               /\ Cardinality(C \cap 1..n) <= Cardinality(C)
               /\ Cardinality(C \cap 1..n) = IF n \in C THEN Cardinality(C \cap 1..(n - 1)) + 1
                                             ELSE Cardinality(C \cap 1..(n - 1))
    <2>1. Cardinality(C \cap 1..n) \in Nat /\ Cardinality(C \cap 1..(n - 1)) \in Nat /\ IsFiniteSet(C \cap 1..(n - 1))
      BY <1>2
    <2>2. Cardinality(C \cap 1..n) <= Cardinality(C)
      <3>1. C \cap 1..n \in SUBSET C /\ IsFiniteSet(C)
        BY <1>2
      <3> QED
        BY <3>1, FS_Subset
    <2>3. CASE n \in C
      <3>1. C \cap 1..n = (C \cap 1..(n - 1)) \cup {n} /\ n \notin C \cap 1..(n - 1)
        BY <1>1, <2>3
      <3>2. Cardinality((C \cap 1..(n - 1)) \cup {n}) = Cardinality(C \cap 1..(n - 1)) + 1
        BY <2>1, <3>1, FS_AddElement
      <3> QED
        BY <2>1, <2>2, <2>3, <3>1, <3>2
    <2>4. CASE n \notin C
      <3>1. C \cap 1..n = C \cap 1..(n - 1)
        BY <1>1, <2>4
      <3> QED
        BY <2>1, <2>2, <2>4, <3>1
    <2> QED
      BY <2>3, <2>4
  <1> QED
    BY <1>1, <1>3, <1>4, <1>5 DEF Rank, C, L

\* With a bucket for every change the goals hold all of it.
LEMMA GoalsSum ==
  ASSUME NEW outputs \in Seq(Coin), NEW d \in Nat, Cardinality(Changes(outputs, d)) <= ParticipantCount(outputs)
  PROVE  SumFunction(BucketGoals(outputs, d))
            = ParticipantCount(outputs) * d + SumFunction([i \in Changes(outputs, d) |-> outputs[i].value])
  <1> DEFINE L == Len(outputs)
             P == ParticipantCount(outputs)
             C == Changes(outputs, d)
             c == [i \in C |-> outputs[i].value]
  <1>1. L \in Nat /\ P \in Nat /\ IsFiniteSet(1..P) /\ Cardinality(1..P) = P
    <2>1. L \in Nat /\ P \in Nat
      BY CoinPlaces, HalfTheOutputs
    <2> HIDE DEF P, L
    <2>2. IsFiniteSet(1..P) /\ Cardinality(1..P) = IF 1 > P THEN 0 ELSE P - 1 + 1
      BY <2>1, FS_Interval
    <2> QED
      BY <2>1, <2>2
  <1>2. PICK g : GoalsBy(g, outputs, d)
    BY GoalsFunction
  <1>3. /\ g \in [0..L -> [1..P -> Nat]]
        /\ \A b \in 1..P : g[0][b] = d
        /\ \A n \in 1..L : \A b \in 1..P :
               g[n][b] = IF n \in C /\ b = Rank(outputs, d, n) THEN g[n - 1][b] + outputs[n].value ELSE g[n - 1][b]
        /\ BucketGoals(outputs, d) = g[L]
    BY <1>2 DEF GoalsBy
  <1>4. \A i \in C : c[i] \in Nat /\ outputs[i].value = c[i]
    BY CoinPlaces DEF Changes
  <1>5. \A S \in SUBSET C : IsFiniteSet(S) /\ (\A i \in S : c[i] \in Nat) /\ SumOf(c, S) \in Nat
    <2>1. \A S \in SUBSET C : IsFiniteSet(S)
      BY CoinPlaces, Ranks
    <2> HIDE DEF c, C
    <2> QED
      BY <1>4, <2>1, Sums
  <1> HIDE DEF L, P, C, c
  <1> DEFINE Held == {n \in 0..L : SumOf(g[n], 1..P) = P * d + SumOf(c, C \cap 1..n)}
  <1>6. 0 \in Held
    <2>1. SumOf(g[0], 1..P) = P * d
      BY <1>1, <1>3, SumConstant
    <2>2. C \cap 1..0 = {}
      BY Ranks DEF C
    <2>3. SumOf(c, {}) = 0
      BY FS_EmptySet, Sums
    <2>4. P * d \in Nat
      BY <1>1
    <2> QED
      BY <1>1, <2>1, <2>2, <2>3, <2>4
  <1>7. ASSUME NEW k \in 0..(L - 1), k \in Held
        PROVE  k + 1 \in Held
    <2> DEFINE n == k + 1
    <2>1. n \in 1..L /\ n \in 0..L /\ n - 1 = k /\ k \in 0..L
      BY <1>1
    <2>2. g[n] \in [1..P -> Nat] /\ g[k] \in [1..P -> Nat]
      BY <1>3, <2>1
    <2>3. \A b \in 1..P : g[n][b] = IF n \in C /\ b = Rank(outputs, d, n) THEN g[k][b] + outputs[n].value ELSE g[k][b]
      BY <1>3, <2>1
    <2>4. SumOf(g[k], 1..P) = P * d + SumOf(c, C \cap 1..k)
      BY <1>7
    <2>5. SumOf(c, C \cap 1..k) \in Nat /\ P * d \in Nat
      BY <1>1, <1>5
    <2>6. C \in SUBSET (1..L)
      BY Ranks, CoinPlaces DEF C, L
    <2>7. CASE n \in C
      <3> DEFINE b == Rank(outputs, d, n)
      <3>1. b \in 1..P
        <4>1. b \in Nat /\ b <= Cardinality(C) /\ b = Rank(outputs, d, k) + 1 /\ Rank(outputs, d, k) \in Nat
          BY <2>1, <2>7, Ranks DEF C, L
        <4>2. Cardinality(C) <= P /\ Cardinality(C) \in Nat
          BY <1>5, FS_CardinalityType DEF C, P
        <4> HIDE DEF b
        <4> QED
          BY <1>1, <4>1, <4>2
      <3>2. outputs[n].value \in Nat /\ outputs[n].value = c[n]
        BY <1>4, <2>7
      <3>3. g[n][b] = g[k][b] + c[n] /\ \A x \in (1..P) \ {b} : g[n][x] = g[k][x]
        <4> HIDE DEF n
        <4> QED
          BY <2>3, <2>7, <3>1, <3>2
      <3>4. SumOf(g[n], 1..P) = SumOf(g[k], 1..P) + c[n]
        <4>1. c[n] \in Nat
          BY <3>2
        <4> DEFINE was == g[k]
                   is == g[n]
                   S == 1..P
                   more == c[n]
        <4>2. /\ IsFiniteSet(S) /\ was \in [S -> Nat] /\ is \in [S -> Nat] /\ b \in S /\ more \in Nat
              /\ is[b] = was[b] + more /\ \A x \in S \ {b} : is[x] = was[x]
          BY <1>1, <2>2, <3>1, <3>3, <4>1
        <4> HIDE DEF b, n, was, is, S, more
        <4>3. SumOf(is, S) = SumOf(was, S) + more
          BY <4>2, SumBump
        <4> QED
          BY <4>3 DEF was, is, S, more
      <3>5. SumOf(c, C \cap 1..n) = c[n] + SumOf(c, C \cap 1..k)
        <4>1. n \in C \cap 1..n /\ (C \cap 1..n) \ {n} = C \cap 1..k
          BY <1>1, <2>1, <2>6, <2>7
        <4>2. IsFiniteSet(C \cap 1..n) /\ \A i \in C \cap 1..n : c[i] \in Nat
          BY <1>5
        <4> HIDE DEF n
        <4>3. SumOf(c, C \cap 1..n) = c[n] + SumOf(c, (C \cap 1..n) \ {n})
          BY <4>1, <4>2, Sums
        <4> QED
          BY <4>1, <4>3
      <3> HIDE DEF n
      <3>6. SumOf(g[n], 1..P) = P * d + SumOf(c, C \cap 1..n)
        BY <2>4, <2>5, <3>2, <3>4, <3>5
      <3> QED
        BY <2>1, <3>6 DEF n
    <2>8. CASE n \notin C
      <3>1. g[n] = g[k]
        <4> HIDE DEF n
        <4>1. \A b \in 1..P : g[n][b] = g[k][b]
          BY <2>3, <2>8
        <4> DEFINE was == g[k]
                   is == g[n]
                   S == 1..P
        <4>2. was \in [S -> Nat] /\ is \in [S -> Nat]
          BY <2>2
        <4>3. \A b \in S : is[b] = was[b]
          BY <4>1
        <4> HIDE DEF was, is, S
        <4>4. was = [b \in S |-> was[b]] /\ is = [b \in S |-> is[b]]
          BY <4>2
        <4>5. [b \in S |-> was[b]] = [b \in S |-> is[b]]
          BY <4>3, Zenon
        <4>6. is = was
          BY <4>4, <4>5
        <4> QED
          BY <4>6 DEF was, is
      <3>2. C \cap 1..n = C \cap 1..k
        BY <1>1, <2>1, <2>6, <2>8
      <3> HIDE DEF n
      <3> QED
        BY <2>1, <2>4, <3>1, <3>2 DEF n
    <2> QED
      BY <2>7, <2>8
  <1>8. L \in Held
    <2>1. \A n \in 0..L : n \in Held
      <3> HIDE DEF Held
      <3> QED
        BY <1>1, <1>6, <1>7, UpTo
    <2>2. L \in 0..L
      BY <1>1
    <2> QED
      BY <2>1, <2>2
  <1>9. SumFunction(BucketGoals(outputs, d)) = SumOf(g[L], 1..P)
    <2>1. g[L] \in [1..P -> Nat]
      BY <1>1, <1>3
    <2>2. g[L] = [b \in 1..P |-> g[L][b]]
      BY <2>1
    <2> QED
      BY <1>3, <2>2 DEF SumOf
  <1>10. SumFunction([i \in C |-> outputs[i].value]) = SumOf(c, C \cap 1..L)
    <2>1. C \cap 1..L = C
      BY Ranks DEF C, L
    <2>2. c = [i \in C |-> c[i]] /\ c = [i \in C |-> outputs[i].value]
      BY DEF c
    <2> QED
      BY <2>1, <2>2 DEF SumOf
  <1> QED
    BY <1>8, <1>9, <1>10 DEF C, P

\* Every bucket holds the mixed value, and when all changes are alike one of them as well.
LEMMA GoalsLeast ==
  ASSUME NEW outputs \in Seq(Coin), NEW d \in Nat
  PROVE  LET goals == BucketGoals(outputs, d) IN
         /\ goals \in [1..ParticipantCount(outputs) -> Nat]
         /\ \A b \in 1..ParticipantCount(outputs) : goals[b] >= d
         /\ \A x \in Nat : (\A i \in Changes(outputs, d) : outputs[i].value = x) =>
                \A b \in 1..ParticipantCount(outputs) :
                    b <= Cardinality(Changes(outputs, d)) => goals[b] >= d + x
  <1> DEFINE L == Len(outputs)
             P == ParticipantCount(outputs)
             C == Changes(outputs, d)
             R(n) == Rank(outputs, d, n)
  <1>1. L \in Nat /\ P \in Nat
    BY CoinPlaces, HalfTheOutputs
  <1>2. PICK g : GoalsBy(g, outputs, d)
    BY GoalsFunction
  <1>3. /\ g \in [0..L -> [1..P -> Nat]]
        /\ \A b \in 1..P : g[0][b] = d
        /\ \A n \in 1..L : \A b \in 1..P :
               g[n][b] = IF n \in C /\ b = R(n) THEN g[n - 1][b] + outputs[n].value ELSE g[n - 1][b]
        /\ BucketGoals(outputs, d) = g[L]
    BY <1>2 DEF GoalsBy
  <1>4. \A i \in C : outputs[i].value \in Nat
    BY CoinPlaces DEF Changes
  <1>5. /\ R(0) = 0 /\ R(L) = Cardinality(C)
        /\ \A n \in 1..L : R(n) \in Nat /\ R(n - 1) \in Nat /\ R(n) = IF n \in C THEN R(n - 1) + 1 ELSE R(n - 1)
    BY Ranks
  <1>6. ASSUME NEW x \in Nat, \A i \in C : outputs[i].value >= x
        PROVE  \A b \in 1..P : g[L][b] >= d /\ (b <= Cardinality(C) => g[L][b] >= d + x)
    <2> HIDE DEF L, P, C, R
    <2> DEFINE Held == {n \in 0..L : \A b \in 1..P : g[n][b] >= d /\ (b <= R(n) => g[n][b] >= d + x)}
    <2>1. 0 \in Held
      <3>1. \A b \in 1..P : g[0][b] >= d /\ ~(b <= R(0))
        BY <1>1, <1>3, <1>5
      <3> QED
        BY <1>1, <3>1
    <2>2. ASSUME NEW k \in 0..(L - 1), k \in Held
          PROVE  k + 1 \in Held
      <3> DEFINE n == k + 1
      <3>1. n \in 1..L /\ n \in 0..L /\ n - 1 = k /\ k \in 0..L
        BY <1>1
      <3>2. R(n) \in Nat /\ R(k) \in Nat /\ R(n) = IF n \in C THEN R(k) + 1 ELSE R(k)
        BY <1>5, <3>1
      <3>3. ASSUME NEW b \in 1..P
            PROVE  g[n][b] >= d /\ (b <= R(n) => g[n][b] >= d + x)
        <4>1. g[n][b] = IF n \in C /\ b = R(n) THEN g[k][b] + outputs[n].value ELSE g[k][b]
          BY <1>3, <3>1
        <4>2. g[k][b] >= d /\ (b <= R(k) => g[k][b] >= d + x)
          BY <2>2
        <4>3. g[k][b] \in Nat /\ b \in Nat
          BY <1>1, <1>3, <3>1
        <4>4. n \in C => outputs[n].value \in Nat /\ outputs[n].value >= x
          BY <1>4, <1>6
        <4> HIDE DEF n
        <4> QED
          BY <3>2, <4>1, <4>2, <4>3, <4>4
      <3> QED
        BY <3>1, <3>3
    <2>3. \A n \in 0..L : n \in Held
      <3> HIDE DEF Held
      <3> QED
        BY <1>1, <2>1, <2>2, UpTo
    <2>4. L \in 0..L
      BY <1>1
    <2> QED
      BY <1>5, <2>3, <2>4
  <1>7. g[L] \in [1..P -> Nat]
    BY <1>1, <1>3
  <1>8. \A b \in 1..P : g[L][b] >= d
    <2>1. \A i \in C : outputs[i].value >= 0
      BY <1>4
    <2> QED
      BY <1>6, <2>1
  <1>9. ASSUME NEW x \in Nat, \A i \in C : outputs[i].value = x
        PROVE  \A b \in 1..P : b <= Cardinality(C) => g[L][b] >= d + x
    <2>1. \A i \in C : outputs[i].value >= x
      BY <1>9
    <2> HIDE DEF L, P, C
    <2> QED
      BY <1>6, <2>1
  <1> QED
    BY <1>3, <1>7, <1>8, <1>9

\* With a mixed output per participant the changes are no more than the participants.
LEMMA ChangesFit ==
  ASSUME NEW outputs \in Seq(Coin), NEW mixed, mixed = MixedValue(outputs),
         mixed.count = ParticipantCount(outputs), mixed.value # None
  PROVE  /\ mixed.value \in Nat
         /\ Cardinality(PaidPlaces(outputs, mixed.value)) >= ParticipantCount(outputs)
         /\ Changes(outputs, mixed.value) \in SUBSET DOMAIN outputs
         /\ Cardinality(Changes(outputs, mixed.value)) \in Nat
         /\ Cardinality(Changes(outputs, mixed.value)) + ParticipantCount(outputs) <= Len(outputs)
         /\ Cardinality(Changes(outputs, mixed.value)) <= ParticipantCount(outputs)
  <1>1. mixed.value \in Nat
    BY MixedIsPaid
  <1>2. mixed.count <= Cardinality(PaidPlaces(outputs, mixed.value))
    BY MixedIsPaid
  <1>3. PaidPlaces(outputs, mixed.value) \in SUBSET DOMAIN outputs
    BY DEF PaidPlaces
  <1>4. Cardinality(PaidPlaces(outputs, mixed.value)) \in Nat
    BY <1>3, CoinPlaces
  <1>5. ParticipantCount(outputs) \in Nat /\ Len(outputs) <= 2 * ParticipantCount(outputs) /\ Len(outputs) \in Nat
    BY HalfTheOutputs, CoinPlaces
  <1>6. Cardinality(PaidPlaces(outputs, mixed.value)) >= ParticipantCount(outputs)
    BY <1>2, <1>4, <1>5
  <1>7. /\ Changes(outputs, mixed.value) \in SUBSET DOMAIN outputs
        /\ Cardinality(Changes(outputs, mixed.value)) + ParticipantCount(outputs) <= Len(outputs)
    BY <1>1, <1>6, FewChanges
  <1>8. Cardinality(Changes(outputs, mixed.value)) \in Nat
    BY <1>7, CoinPlaces
  <1>9. Cardinality(Changes(outputs, mixed.value)) <= ParticipantCount(outputs)
    BY <1>5, <1>7, <1>8
  <1> QED
    BY <1>1, <1>6, <1>7, <1>8, <1>9

\* The definite rules give every change output a bucket (ChangeAllCounted).
LEMMA ChangeHolds ==
  ASSUME NEW record, record.outputs \in Seq(Coin), NEW fees
  PROVE  ChangeAllCounted(record, fees)
  <1> DEFINE outputs == record.outputs
             mixed == MixedValue(outputs)
             rules == explain_joinmarket_definite_heuristic(record, fees, 1)
  <1>1. rules.dominant_output_address_count = (mixed.count = ParticipantCount(outputs))
    BY DEF explain_joinmarket_definite_heuristic
  <1>2. ASSUME mixed.count = ParticipantCount(outputs), mixed.value # None
        PROVE  SumFunction(BucketGoals(outputs, mixed.value))
                  = ParticipantCount(outputs) * mixed.value
                      + SumFunction([i \in Changes(outputs, mixed.value) |-> outputs[i].value])
    <2> DEFINE d == mixed.value
    <2>1. d \in Nat /\ Cardinality(Changes(outputs, d)) <= ParticipantCount(outputs)
      <3> HIDE DEF outputs
      <3>1. outputs \in Seq(Coin)
        BY DEF outputs
      <3> QED
        BY <1>2, <3>1, ChangesFit
    <2> HIDE DEF mixed
    <2> QED
      BY <2>1, GoalsSum
  <1> HIDE DEF mixed, rules
  <1> QED
    BY <1>1, <1>2 DEF ChangeAllCounted, mixed, rules

-----------------------------------------------------------------------------
(***************************************************************************)
(* The rules of the two JoinMarket heuristics.                             *)
(***************************************************************************)
\* An explanation accepts when each of its rules holds and the search answered yes.
Passes(rules, a, b, c, d, e, s) == _joinmarket_explanation(rules) <=> (a /\ b /\ c /\ d /\ e /\ s = TRUE)

\* A definite explanation does.
LEMMA DefiniteRules ==
  ASSUME NEW a \in BOOLEAN, NEW b \in BOOLEAN, NEW c \in BOOLEAN, NEW d \in BOOLEAN, NEW e \in BOOLEAN, NEW s,
         NEW rules,
         rules = [basic_size |-> a, participant_count_vs_inputs |-> b,
                  participant_count_vs_unique_input_addresses |-> c, dominant_output_address_count |-> d,
                  dominant_output_value_not_dust_exclusion |-> e, subset_partition |-> s]
  PROVE  Passes(rules, a, b, c, d, e, s)
  <1>1. DOMAIN rules = {"basic_size", "participant_count_vs_inputs", "participant_count_vs_unique_input_addresses",
                        "dominant_output_address_count", "dominant_output_value_not_dust_exclusion",
                        "subset_partition"}
    OBVIOUS
  <1>2. /\ rules.basic_size = a /\ rules.participant_count_vs_inputs = b
        /\ rules.participant_count_vs_unique_input_addresses = c /\ rules.dominant_output_address_count = d
        /\ rules.dominant_output_value_not_dust_exclusion = e /\ rules.subset_partition = s
    OBVIOUS
  <1>3. FailedRules(rules) = {} <=> (a # FALSE /\ b # FALSE /\ c # FALSE /\ d # FALSE /\ e # FALSE /\ s # FALSE)
    BY <1>1, <1>2 DEF FailedRules
  <1>4. (a # FALSE <=> a) /\ (b # FALSE <=> b) /\ (c # FALSE <=> c) /\ (d # FALSE <=> d) /\ (e # FALSE <=> e)
    OBVIOUS
  <1>5. s = TRUE => s # FALSE
    OBVIOUS
  <1> QED
    BY <1>2, <1>3, <1>4, <1>5 DEF _joinmarket_explanation, Passes

\* A possible explanation too.
LEMMA PossibleRules ==
  ASSUME NEW a \in BOOLEAN, NEW b \in BOOLEAN, NEW c \in BOOLEAN, NEW d \in BOOLEAN, NEW e \in BOOLEAN, NEW s,
         NEW rules,
         rules = [not_single_input_or_output |-> a, has_repeated_output_value |-> b,
                  multiple_input_addresses |-> c, multiple_unknown_outputs |-> d,
                  has_repeated_unknown_output_value |-> e, subset_partition |-> s]
  PROVE  Passes(rules, a, b, c, d, e, s)
  <1>1. DOMAIN rules = {"not_single_input_or_output", "has_repeated_output_value", "multiple_input_addresses",
                        "multiple_unknown_outputs", "has_repeated_unknown_output_value", "subset_partition"}
    OBVIOUS
  <1>2. /\ rules.not_single_input_or_output = a /\ rules.has_repeated_output_value = b
        /\ rules.multiple_input_addresses = c /\ rules.multiple_unknown_outputs = d
        /\ rules.has_repeated_unknown_output_value = e /\ rules.subset_partition = s
    OBVIOUS
  <1>3. FailedRules(rules) = {} <=> (a # FALSE /\ b # FALSE /\ c # FALSE /\ d # FALSE /\ e # FALSE /\ s # FALSE)
    BY <1>1, <1>2 DEF FailedRules
  <1>4. (a # FALSE <=> a) /\ (b # FALSE <=> b) /\ (c # FALSE <=> c) /\ (d # FALSE <=> d) /\ (e # FALSE <=> e)
    OBVIOUS
  <1>5. s = TRUE => s # FALSE
    OBVIOUS
  <1> QED
    BY <1>2, <1>3, <1>4, <1>5 DEF _joinmarket_explanation, Passes

\* What the definite rules compare and search, by name.
Contributions(record) == grouped_input_values_by_address(record.inputs)

DefiniteGoals(record, fees) ==
    LET goals == BucketGoals(record.outputs, MixedValue(record.outputs).value)
    IN [b \in DOMAIN goals |-> AfterFee(goals[b], MaxFee(MixedValue(record.outputs).value, fees))]

DefiniteAnswer(record, fees, depth) ==
    joinmarket_subset_result(Contributions(record), DefiniteGoals(record, fees), depth).result

DefiniteFacts(record) ==
    /\ Len(record.inputs) >= 2 /\ Len(record.outputs) >= 3
    /\ ParticipantCount(record.outputs) <= Len(record.inputs)
    /\ ParticipantCount(record.outputs) <= Cardinality(DOMAIN Contributions(record))
    /\ MixedValue(record.outputs).count = ParticipantCount(record.outputs)
    /\ MixedValue(record.outputs).value # None

\* The detector accepts only such transactions; the depth limit matters for the answer alone.
LEMMA DefiniteAccepts ==
  ASSUME NEW record, NEW fees
  PROVE  /\ \A depth : Accepts(record, JoinMarket("definite", fees, depth)) =>
                DefiniteFacts(record) /\ DefiniteAnswer(record, fees, depth) = TRUE
         /\ \A depth, other : 
                /\ Accepts(record, JoinMarket("definite", fees, depth))
                /\ DefiniteAnswer(record, fees, other) = TRUE
                => Accepts(record, JoinMarket("definite", fees, other))
  <1> DEFINE dominant == MixedValue(record.outputs)
             participants == ParticipantCount(record.outputs)
             a == Len(record.inputs) >= 2 /\ Len(record.outputs) >= 3
             b == participants <= Len(record.inputs)
             c == participants <= Cardinality(DOMAIN Contributions(record))
             d == dominant.count = participants
             e == dominant.value # None /\ dominant.value \notin ExcludedValues
             s(depth) == IF dominant.value = None THEN None ELSE DefiniteAnswer(record, fees, depth)
             rules(depth) == explain_joinmarket_definite_heuristic(record, fees, depth)
  <1>1. ASSUME NEW depth
        PROVE  rules(depth) =
                 [basic_size |-> a, participant_count_vs_inputs |-> b,
                  participant_count_vs_unique_input_addresses |-> c, dominant_output_address_count |-> d,
                  dominant_output_value_not_dust_exclusion |-> e, subset_partition |-> s(depth)]
    BY DEF explain_joinmarket_definite_heuristic, DefiniteAnswer, DefiniteGoals, Contributions
  <1>2. ASSUME NEW depth
        PROVE  Accepts(record, JoinMarket("definite", fees, depth)) = _joinmarket_explanation(rules(depth))
    BY DEF Accepts, add_blocksci_heuristic_explanations, JoinMarket
  <1>3. a \in BOOLEAN /\ b \in BOOLEAN /\ c \in BOOLEAN /\ d \in BOOLEAN /\ e \in BOOLEAN
    OBVIOUS
  <1> HIDE DEF a, b, c, d, e, s, rules
  <1>4. ASSUME NEW depth
        PROVE  _joinmarket_explanation(rules(depth)) <=> (a /\ b /\ c /\ d /\ e /\ s(depth) = TRUE)
    <2> DEFINE r == rules(depth)
               t == s(depth)
    <2>1. r = [basic_size |-> a, participant_count_vs_inputs |-> b,
               participant_count_vs_unique_input_addresses |-> c, dominant_output_address_count |-> d,
               dominant_output_value_not_dust_exclusion |-> e, subset_partition |-> t]
      BY <1>1
    <2> HIDE DEF r, t
    <2>2. Passes(r, a, b, c, d, e, t)
      BY <1>3, <2>1, DefiniteRules
    <2> QED
      BY <2>2 DEF r, t, Passes
  <1>5. a /\ b /\ c /\ d /\ e => DefiniteFacts(record)
    BY DEF a, b, c, d, e, DefiniteFacts
  <1>6. e => dominant.value # None
    BY DEF e
  <1>7. \A depth : dominant.value # None => s(depth) = DefiniteAnswer(record, fees, depth)
    BY DEF s
  <1> HIDE DEF dominant
  <1> QED
    BY <1>2, <1>4, <1>5, <1>6, <1>7

\* What the possible rules count and search, by name.
Unknown(record) ==
    {i \in DOMAIN record.outputs :
        record.outputs[i].address # None /\ record.outputs[i].address \notin DOMAIN Contributions(record)}

MostPaid(outputs, among) == _most_frequent_value(outputs, among, output_value_counts(outputs, among))

Candidate(record) == MostPaid(record.outputs, Unknown(record))

PossibleGoal(record, fees) == AfterFee(Candidate(record).value, MaxFee(Candidate(record).value, fees))

\* The detector accepts a transaction of which this holds.
LEMMA PossibleAccepts ==
  ASSUME NEW record, NEW fees, NEW depth,
         Len(record.inputs) # 1, Len(record.outputs) # 1,
         MostPaid(record.outputs, DOMAIN record.outputs).count > 1,
         Cardinality(DOMAIN Contributions(record)) # 1, Cardinality(Unknown(record)) > 1,
         Candidate(record).count > 1, Candidate(record).value # None,
         joinmarket_subset_result(Contributions(record),
             <<PossibleGoal(record, fees), PossibleGoal(record, fees)>>, depth).result = TRUE
  PROVE  Accepts(record, JoinMarket("possible", fees, depth))
  <1> DEFINE a == Len(record.inputs) # 1 /\ Len(record.outputs) # 1
             b == MostPaid(record.outputs, DOMAIN record.outputs).count > 1
             c == Cardinality(DOMAIN Contributions(record)) # 1
             d == Cardinality(Unknown(record)) > 1
             e == Candidate(record).count > 1
             s == IF Candidate(record).value = None THEN None
                  ELSE joinmarket_subset_result(Contributions(record),
                           <<PossibleGoal(record, fees), PossibleGoal(record, fees)>>, depth).result
             rules == explain_joinmarket_possible_heuristic(record, fees, depth)
  <1>1. rules = [not_single_input_or_output |-> a, has_repeated_output_value |-> b,
                 multiple_input_addresses |-> c, multiple_unknown_outputs |-> d,
                 has_repeated_unknown_output_value |-> e, subset_partition |-> s]
    BY DEF explain_joinmarket_possible_heuristic, PossibleGoal, Candidate, MostPaid, Unknown, Contributions
  <1>2. Accepts(record, JoinMarket("possible", fees, depth)) = _joinmarket_explanation(rules)
    BY DEF Accepts, add_blocksci_heuristic_explanations, JoinMarket
  <1>3. a \in BOOLEAN /\ b \in BOOLEAN /\ c \in BOOLEAN /\ d \in BOOLEAN /\ e \in BOOLEAN
    OBVIOUS
  <1>4. a /\ b /\ c /\ d /\ e /\ s = TRUE
    OBVIOUS
  <1> HIDE DEF a, b, c, d, e, s, rules
  <1>5. Passes(rules, a, b, c, d, e, s)
    BY <1>1, <1>3, PossibleRules
  <1> QED
    BY <1>2, <1>4, <1>5 DEF Passes

\* The inputs of an address are one contribution of a natural number.
LEMMA Grouped ==
  ASSUME NEW record, record.inputs \in Seq(Coin)
  PROVE  /\ IsFiniteSet(DOMAIN Contributions(record))
         /\ Contributions(record) \in [DOMAIN Contributions(record) -> Nat]
         /\ DOMAIN Contributions(record) \in SUBSET unique_addresses(record.inputs)
  <1> DEFINE inputs == record.inputs
             full == {i \in DOMAIN inputs : inputs[i].address # None /\ inputs[i].value # None}
             A == {inputs[i].address : i \in full}
             of(a) == {j \in full : inputs[j].address = a}
             f == [i \in full |-> inputs[i].value]
             g == [i \in full |-> inputs[i].address]
  <1>1. Contributions(record) = [a \in A |-> SumFunction([i \in of(a) |-> inputs[i].value])]
    BY DEF Contributions, grouped_input_values_by_address
  <1>2. IsFiniteSet(full) /\ \A S \in SUBSET full : IsFiniteSet(S)
    <2>1. \A S \in SUBSET DOMAIN inputs : IsFiniteSet(S)
      BY CoinPlaces
    <2>2. full \in SUBSET DOMAIN inputs
      OBVIOUS
    <2> HIDE DEF full
    <2> QED
      BY <2>1, <2>2
  <1>3. \A i \in full : f[i] \in Nat
    BY CoinPlaces
  <1>4. A = {g[i] : i \in full}
    OBVIOUS
  <1>5. A \in SUBSET unique_addresses(inputs)
    BY DEF unique_addresses
  <1>6. IsFiniteSet(A)
    <2> HIDE DEF A, g, full
    <2> QED
      BY <1>2, <1>4, Image
  <1>7. ASSUME NEW a \in A
        PROVE  SumFunction([i \in of(a) |-> inputs[i].value]) \in Nat
    <2>1. of(a) \in SUBSET full
      OBVIOUS
    <2>2. [i \in of(a) |-> inputs[i].value] = [i \in of(a) |-> f[i]]
      OBVIOUS
    <2>3. SumOf(f, of(a)) \in Nat
      <3> HIDE DEF of, f, full, A
      <3>1. IsFiniteSet(of(a)) /\ \A x \in of(a) : f[x] \in Nat
        BY <1>2, <1>3, <2>1
      <3> QED
        BY <3>1, Sums
    <2> HIDE DEF of, f, full, A
    <2> QED
      BY <2>2, <2>3 DEF SumOf
  <1> HIDE DEF A, of, full
  <1> QED
    BY <1>1, <1>5, <1>6, <1>7

\* The fee is a natural number, and at least both of its parts; so is what is left of a goal.
LEMMA FeeIs ==
  ASSUME NEW value \in Nat, NEW fees \in FeeRule
  PROVE  /\ MaxFee(value, fees) \in Nat
         /\ MaxFee(value, fees) = fees.base \/ MaxFee(value, fees) = (value * fees.num) \div fees.den
         /\ MaxFee(value, fees) >= fees.base /\ MaxFee(value, fees) >= (value * fees.num) \div fees.den
         /\ \A goal \in Nat : AfterFee(goal, MaxFee(value, fees)) \in Nat
  <1> DEFINE share == (value * fees.num) \div fees.den
  <1>1. fees.base \in Nat /\ fees.num \in Nat /\ fees.den \in Nat /\ fees.den > 0
    BY DEF FeeRule
  <1>2. value * fees.num \in Nat
    BY <1>1
  <1>3. share \in Nat
    <2> DEFINE whole == value * fees.num
    <2> HIDE DEF whole
    <2>1. whole \in Nat
      BY <1>2 DEF whole
    <2>2. whole \div fees.den \in Nat
      BY <1>1, <2>1
    <2> QED
      BY <2>2 DEF whole
  <1> HIDE DEF share
  <1>4. IsFiniteSet({fees.base, share}) /\ {fees.base, share} # {} /\ {fees.base, share} \in SUBSET Nat
    <2>1. IsFiniteSet({fees.base} \cup {share})
      BY FS_Singleton, FS_Union
    <2>2. {fees.base} \cup {share} = {fees.base, share}
      OBVIOUS
    <2> QED
      BY <1>1, <1>3, <2>1, <2>2
  <1>5. Max({fees.base, share}) \in {fees.base, share} /\ \A x \in {fees.base, share} : x <= Max({fees.base, share})
    BY <1>4, Largest1
  <1>6. MaxFee(value, fees) = Max({fees.base, share})
    BY DEF MaxFee, share
  <1> DEFINE fee == MaxFee(value, fees)
  <1> HIDE DEF fee
  <1>7. fee \in Nat /\ (fee = fees.base \/ fee = share) /\ fee >= fees.base /\ fee >= share
    BY <1>1, <1>3, <1>5, <1>6 DEF fee
  <1>8. \A goal \in Nat : AfterFee(goal, fee) \in Nat
    BY <1>7 DEF AfterFee
  <1> QED
    BY <1>7, <1>8 DEF fee, share

\* A transaction of which the definite facts hold has a goal per participant, and at least two.
LEMMA DefiniteGoalsAre ==
  ASSUME NEW record, record.outputs \in Seq(Coin), NEW fees \in FeeRule, DefiniteFacts(record)
  PROVE  /\ MixedValue(record.outputs).value \in Nat
         /\ ParticipantCount(record.outputs) \in Nat /\ ParticipantCount(record.outputs) >= 2
         /\ DefiniteGoals(record, fees) \in [1..ParticipantCount(record.outputs) -> Nat]
         /\ \A b \in 1..ParticipantCount(record.outputs) :
               DefiniteGoals(record, fees)[b] =
                  AfterFee(BucketGoals(record.outputs, MixedValue(record.outputs).value)[b],
                           MaxFee(MixedValue(record.outputs).value, fees))
  <1> DEFINE outputs == record.outputs
             d == MixedValue(outputs).value
             P == ParticipantCount(outputs)
             goals == BucketGoals(outputs, d)
             fee == MaxFee(d, fees)
  <1>1. d \in Nat
    <2>1. d # None
      BY DEF DefiniteFacts
    <2> QED
      BY <2>1, MixedIsPaid
  <1>2. P \in Nat /\ P >= 2
    <2>1. Len(outputs) >= 3
      BY DEF DefiniteFacts
    <2>2. Len(outputs) \in Nat
      BY CoinPlaces
    <2>3. P \in Nat /\ Len(outputs) <= 2 * P
      BY HalfTheOutputs
    <2> HIDE DEF P, outputs
    <2> QED
      BY <2>1, <2>2, <2>3
  <1>3. goals \in [1..P -> Nat]
    <2> HIDE DEF d
    <2> QED
      BY <1>1, GoalsLeast
  <1>4. DefiniteGoals(record, fees) = [b \in DOMAIN goals |-> AfterFee(goals[b], fee)]
    BY DEF DefiniteGoals
  <1>5. \A goal \in Nat : AfterFee(goal, fee) \in Nat
    <2> HIDE DEF d
    <2> QED
      BY <1>1, FeeIs
  <1> HIDE DEF fee, goals, P, d
  <1>6. /\ DefiniteGoals(record, fees) \in [1..P -> Nat]
        /\ \A b \in 1..P : DefiniteGoals(record, fees)[b] = AfterFee(goals[b], fee)
    BY <1>3, <1>4, <1>5
  <1> QED
    BY <1>1, <1>2, <1>6 DEF fee, goals, P, d

\* Its search is exact.
LEMMA DefiniteSearch ==
  ASSUME NEW record, Transaction(record), NEW fees \in FeeRule, DefiniteFacts(record), NEW depth \in Nat
  PROVE  Exact(DefiniteAnswer(record, fees, depth), Contributions(record), DOMAIN Contributions(record),
               DefiniteGoals(record, fees), depth)
  <1> DEFINE values == Contributions(record)
             D == DOMAIN values
             goals == DefiniteGoals(record, fees)
             P == ParticipantCount(record.outputs)
             B == 1..P
             answer == DefiniteAnswer(record, fees, depth)
  <1>1. IsFiniteSet(D) /\ values \in [D -> Nat]
    BY Grouped DEF Transaction
  <1>2. P \in Nat /\ P >= 2 /\ goals \in [B -> Nat]
    BY DefiniteGoalsAre DEF Transaction
  <1>3. IsFiniteSet(B) /\ B # {}
    <2>1. 1 \in B
      BY <1>2
    <2>2. \A n \in Nat : IsFiniteSet(1..n)
      BY FS_Interval
    <2> QED
      BY <1>2, <2>1, <2>2
  <1>4. answer = joinmarket_subset_result(values, goals, depth).result
    BY DEF DefiniteAnswer
  <1> HIDE DEF values, D, goals, B, answer
  <1>5. Exact(answer, values, D, goals, depth)
    BY <1>1, <1>2, <1>3, <1>4, SearchExact
  <1> QED
    BY <1>5 DEF values, D, goals, answer

\* Cutting the search short can only lose acceptances.
LEMMA CutShort ==
  ASSUME NEW record, Transaction(record), NEW fees \in FeeRule,
         Accepts(record, JoinMarket("definite", fees, 1))
  PROVE  Accepts(record, JoinMarket("definite", fees, 0))
  <1>1. DefiniteFacts(record) /\ DefiniteAnswer(record, fees, 1) = TRUE
    BY DefiniteAccepts
  <1> DEFINE values == Contributions(record)
             goals == DefiniteGoals(record, fees)
             short == DefiniteAnswer(record, fees, 1)
             full == DefiniteAnswer(record, fees, 0)
  <1>2. Exact(short, values, DOMAIN values, goals, 1) /\ Exact(full, values, DOMAIN values, goals, 0)
    BY <1>1, DefiniteSearch
  <1>3. TRUE # None
    BY NoneAssumption
  <1>4. short = TRUE
    BY <1>1
  <1> HIDE DEF values, goals, short, full
  <1>5. Fillable(values, DOMAIN values, goals)
    BY <1>2, <1>3, <1>4 DEF Exact
  <1>6. full = TRUE
    BY <1>2, <1>5 DEF Exact
  <1> QED
    BY <1>6, DefiniteAccepts DEF full

\* A distribution over all participants fills two buckets that miss no more than the first two.
LEMMA FillTwo ==
  ASSUME NEW D, IsFiniteSet(D), NEW values \in [D -> Nat], NEW P \in Nat, P >= 2, NEW goals \in [1..P -> Nat],
         Fillable(values, D, goals), NEW goal \in Nat, goal <= goals[1], goal <= goals[2]
  PROVE  Fillable(values, D, <<goal, goal>>)
  <1> DEFINE two == <<goal, goal>>
  <1>1. DOMAIN two = {1, 2} /\ two[1] = goal /\ two[2] = goal
    OBVIOUS
  <1>2. DOMAIN goals = 1..P /\ 1 \in 1..P /\ 2 \in 1..P
    OBVIOUS
  <1>3. PICK to \in [D -> 1..P] : \A b \in 1..P : SumOf(values, {n \in D : to[n] = b}) >= goals[b]
    BY <1>2 DEF Fillable
  <1> DEFINE half == [n \in D |-> IF to[n] = 2 THEN 2 ELSE 1]
  <1>4. half \in [D -> {1, 2}]
    OBVIOUS
  <1>5. {n \in D : half[n] = 2} = {n \in D : to[n] = 2} /\ {n \in D : to[n] = 1} \in SUBSET {n \in D : half[n] = 1}
    OBVIOUS
  <1>6. SumOf(values, {n \in D : half[n] = 2}) >= goal
    <2>1. SumOf(values, {n \in D : to[n] = 2}) >= goals[2]
      BY <1>2, <1>3
    <2>2. SumOf(values, {n \in D : to[n] = 2}) \in Nat
      <3> DEFINE S == {n \in D : to[n] = 2}
      <3>1. IsFiniteSet(S) /\ \A n \in S : values[n] \in Nat
        BY FS_Subset
      <3> HIDE DEF S
      <3>2. SumOf(values, S) \in Nat
        BY <3>1, Sums
      <3> QED
        BY <3>2 DEF S
    <2>3. goals[2] \in Nat
      BY <1>2
    <2> DEFINE S == {n \in D : half[n] = 2}
               T == {n \in D : to[n] = 2}
    <2>4. S = T /\ SumOf(values, T) \in Nat /\ SumOf(values, T) >= goals[2]
      BY <1>5, <2>1, <2>2
    <2> HIDE DEF S, T
    <2>5. SumOf(values, S) >= goal
      BY <2>3, <2>4
    <2> QED
      BY <2>5 DEF S
  <1>7. SumOf(values, {n \in D : half[n] = 1}) >= goal
    <2> DEFINE S == {n \in D : half[n] = 1}
               T == {n \in D : to[n] = 1}
    <2>1. IsFiniteSet(S) /\ IsFiniteSet(T) /\ T \in SUBSET S
      BY <1>5, FS_Subset
    <2>2. (\A n \in S : values[n] \in Nat) /\ (\A n \in T : values[n] \in Nat) /\ \A n \in T : values[n] <= values[n]
      OBVIOUS
    <2>3. SumOf(values, T) >= goals[1] /\ goals[1] \in Nat
      BY <1>2, <1>3
    <2> HIDE DEF S, T
    <2>4. SumOf(values, T) <= SumOf(values, S)
      BY <2>1, <2>2, SumsLarger
    <2>5. SumOf(values, S) \in Nat /\ SumOf(values, T) \in Nat
      BY <2>1, <2>2, Sums
    <2>6. SumOf(values, S) >= goal
      BY <2>3, <2>4, <2>5
    <2> QED
      BY <2>6 DEF S
  <1> HIDE DEF two, half
  <1>8. \A b \in DOMAIN two : SumOf(values, {n \in D : half[n] = b}) >= two[b]
    BY <1>1, <1>6, <1>7
  <1>9. half \in [D -> DOMAIN two]
    BY <1>1, <1>4
  <1>10. Fillable(values, D, two)
    BY <1>8, <1>9 DEF Fillable
  <1> QED
    BY <1>10 DEF two

\* What is left of a goal grows with it.
LEMMA LargerGoal ==
  ASSUME NEW low \in Nat, NEW high \in Nat, low <= high, NEW fee \in Nat
  PROVE  AfterFee(low, fee) <= AfterFee(high, fee)
  BY DEF AfterFee

\* A quotient is at most a number whose product with the divisor is no smaller than the dividend.
LEMMA Quotient ==
  ASSUME NEW x \in Nat, NEW y \in Nat, NEW den \in Nat, den > 0
  PROVE  /\ x <= y * den => x \div den <= y
         /\ y * den <= x => y <= x \div den
  <1> DEFINE q == x \div den
  <1>1. q \in Nat
    OBVIOUS
  <1>2. q * den <= x /\ x < (q + 1) * den
    OBVIOUS
  <1> HIDE DEF q
  <1>3. ASSUME x <= y * den
        PROVE  q <= y
    <2>1. SUFFICES ASSUME q >= y + 1
                   PROVE  FALSE
      BY <1>1
    <2>2. q * den >= (y + 1) * den
      BY <1>1, <2>1
    <2> QED
      BY <1>1, <1>2, <1>3, <2>2
  <1>4. ASSUME y * den <= x
        PROVE  y <= q
    <2>1. SUFFICES ASSUME y >= q + 1
                   PROVE  FALSE
      BY <1>1
    <2>2. y * den >= (q + 1) * den
      BY <1>1, <2>1
    <2> QED
      BY <1>1, <1>2, <1>4, <2>2
  <1> QED
    BY <1>3, <1>4 DEF q

\* The mixed value and a change value together leave, after the fee of the first, what the second
\* leaves after its own.
LEMMA FeesCompare ==
  ASSUME NEW d \in Nat, NEW c \in Nat, NEW goal \in Nat, goal >= d + c, NEW fees \in FeeRule
  PROVE  AfterFee(c, MaxFee(c, fees)) <= AfterFee(goal, MaxFee(d, fees))
  <1> DEFINE own == MaxFee(c, fees)
             fee == MaxFee(d, fees)
             num == fees.num
             den == fees.den
  <1>1. num \in Nat /\ den \in Nat /\ den > 0 /\ fees.base \in Nat
    BY DEF FeeRule
  <1>2. own \in Nat /\ own >= fees.base /\ own >= (c * num) \div den
    BY FeeIs
  <1>3. fee \in Nat /\ (fee = fees.base \/ fee = (d * num) \div den) /\ AfterFee(goal, fee) \in Nat
    BY FeeIs
  <1> HIDE DEF own, fee, num, den
  <1>4. CASE own >= c
    <2>1. AfterFee(c, own) = 0
      BY <1>2, <1>4 DEF AfterFee
    <2> QED
      BY <1>3, <2>1 DEF own, fee
  <1>5. CASE own < c
    <2>1. num < den
      <3>1. SUFFICES ASSUME num >= den
                     PROVE  FALSE
        BY <1>1
      <3>2. c * den <= c * num /\ c * num \in Nat
        BY <1>1, <3>1
      <3>3. c <= (c * num) \div den
        <4> DEFINE x == c * num
        <4> HIDE DEF x
        <4>1. x \in Nat /\ c * den <= x
          BY <3>2 DEF x
        <4>2. c <= x \div den
          BY <1>1, <4>1, Quotient
        <4> QED
          BY <4>2 DEF x
      <3> DEFINE share == (c * num) \div den
      <3>4. share \in Int
        BY <1>1, <3>2
      <3>5. own >= share /\ c <= share
        BY <1>2, <3>3
      <3> HIDE DEF share
      <3> QED
        BY <1>2, <1>5, <3>4, <3>5
    <2>2. (d * num) \div den <= d /\ (d * num) \div den \in Nat
      <3>1. d * num <= d * den /\ d * num \in Nat
        BY <1>1, <2>1
      <3> DEFINE x == d * num
      <3>2. x \in Nat /\ x <= d * den
        BY <3>1
      <3> HIDE DEF x
      <3>3. x \div den <= d /\ x \div den \in Nat
        BY <1>1, <3>2, Quotient
      <3> QED
        BY <3>3 DEF x
    <2> DEFINE share == (d * num) \div den
    <2>3. share <= d /\ share \in Nat /\ (fee = fees.base \/ fee = share)
      BY <1>3, <2>2
    <2> HIDE DEF share
    <2>4. AfterFee(c, own) = c - own
      BY <1>2, <1>5 DEF AfterFee
    <2>5. fee <= goal /\ c - own <= goal - fee
      BY <1>1, <1>2, <1>3, <1>5, <2>3
    <2>6. AfterFee(goal, fee) = goal - fee
      BY <1>3, <2>5 DEF AfterFee
    <2> QED
      BY <2>4, <2>5, <2>6 DEF own, fee
  <1> QED
    BY <1>2, <1>4, <1>5

\* The places among some outputs that carry a value.
Places(outputs, among, v) == {i \in among : outputs[i].value = v}

\* The most paid value of some outputs has the largest count, and its count is its number of outputs.
LEMMA MostPaidIs ==
  ASSUME NEW outputs \in Seq(Coin), NEW among \in SUBSET DOMAIN outputs, NEW found, found = MostPaid(outputs, among)
  PROVE  /\ found.count \in Nat
         /\ \A v \in Nat : Cardinality(Places(outputs, among, v)) <= found.count
         /\ found.count # 0 => found.value \in Nat /\ found.value # None
                               /\ found.count = Cardinality(Places(outputs, among, found.value))
  <1> DEFINE W == {outputs[i].value : i \in among}
             V == W \ {None}
             at(v) == Places(outputs, among, v)
             counts == output_value_counts(outputs, among)
             f == [i \in among |-> outputs[i].value]
  <1>1. IsFiniteSet(among) /\ among \in SUBSET Nat /\ \A i \in among : outputs[i].value \in Nat \cup {None}
    BY CoinPlaces
  <1>2. ASSUME NEW v
        PROVE  Cardinality(at(v)) \in Nat /\ (at(v) = {} => Cardinality(at(v)) = 0)
    <2>1. at(v) \in SUBSET DOMAIN outputs
      BY DEF Places
    <2>2. Cardinality(at(v)) \in Nat
      <3> HIDE DEF at
      <3> QED
        BY <2>1, CoinPlaces
    <2> QED
      BY <2>2, FS_EmptySet
  <1>3. IsFiniteSet(V)
    <2>1. W = {f[i] : i \in among}
      OBVIOUS
    <2>2. IsFiniteSet({f[i] : i \in among})
      <3> HIDE DEF f
      <3> QED
        BY <1>1, Image
    <2>3. V \in SUBSET W
      OBVIOUS
    <2> HIDE DEF f, V, W
    <2>4. IsFiniteSet(W)
      BY <2>1, <2>2
    <2> QED
      BY <2>3, <2>4, FS_Subset
  <1>4. counts = [v \in V |-> Cardinality(at(v))]
    BY DEF output_value_counts, Places
  <1>5. V \in SUBSET Nat /\ \A v \in V : \E i \in among : outputs[i].value = v
    BY <1>1
  <1>6. \A v \in Nat : v \notin V => at(v) = {}
    <2>1. \A v \in Nat : v # None
      BY NoneAssumption
    <2> QED
      BY <2>1 DEF Places
  <1>7. found = _most_frequent_value(outputs, among, counts)
    BY DEF MostPaid
  <1> HIDE DEF V, W, at, counts, f
  <1>8. counts \in [V -> Nat] /\ \A v \in V : counts[v] = Cardinality(at(v))
    BY <1>2, <1>4
  <1>9. Frequent(found, V, counts)
    BY <1>1, <1>3, <1>5, <1>7, <1>8, MostFrequent
  <1>10. CASE V = {}
    <2>1. found.count = 0
      BY <1>9, <1>10 DEF Frequent
    <2>2. \A v \in Nat : Cardinality(at(v)) <= found.count
      BY <1>2, <1>6, <1>10, <2>1
    <2> QED
      BY <2>1, <2>2 DEF at
  <1>11. CASE V # {}
    <2>1. found.value \in V /\ found.count = counts[found.value] /\ \A v \in V : counts[v] <= found.count
      BY <1>9, <1>11 DEF Frequent
    <2>2. found.count \in Nat /\ found.count = Cardinality(at(found.value))
      BY <1>8, <2>1
    <2>3. \A v \in Nat : Cardinality(at(v)) <= found.count
      BY <1>2, <1>6, <1>8, <2>1, <2>2
    <2>4. found.value \in Nat
      BY <1>5, <2>1
    <2>5. \A v \in Nat : v # None
      BY NoneAssumption
    <2> QED
      BY <2>2, <2>3, <2>4, <2>5 DEF at
  <1> QED
    BY <1>10, <1>11

\* In a fresh definite transaction the mixed outputs pay unknown addresses, and the candidate is
\* the mixed value, or every change output has the candidate's value and every participant change.
LEMMA CandidateIs ==
  ASSUME NEW record, Transaction(record), DefiniteFacts(record),
         unique_addresses(record.inputs) \cap unique_addresses(record.outputs) = {},
         NEW d, d = MixedValue(record.outputs).value, NEW P, P = ParticipantCount(record.outputs),
         NEW C, C = Changes(record.outputs, d), NEW found, found = Candidate(record)
  PROVE  /\ d \in Nat /\ P \in Nat /\ P >= 2
         /\ Cardinality(Unknown(record)) > 1
         /\ MostPaid(record.outputs, DOMAIN record.outputs).count > 1
         /\ found.count > 1 /\ found.value \in Nat /\ found.value # None
         /\ found.value # d => Cardinality(C) = P /\ \A i \in C : record.outputs[i].value = found.value
  <1> DEFINE outputs == record.outputs
             I == DOMAIN outputs
             U == Unknown(record)
             paid == PaidPlaces(outputs, d)
             c == found.value
             own == Places(outputs, U, c)
  <1>1. outputs \in Seq(Coin) /\ record.inputs \in Seq(Coin)
    BY DEF Transaction
  <1>2. d # None /\ MixedValue(outputs).count = P /\ Len(outputs) >= 3
    BY DEF DefiniteFacts
  <1>3. /\ d \in Nat /\ Cardinality(paid) >= P /\ C \in SUBSET I /\ Cardinality(C) \in Nat
        /\ Cardinality(C) <= P
    <2> HIDE DEF outputs
    <2>1. MixedValue(outputs).count = ParticipantCount(outputs) /\ MixedValue(outputs).value # None
      BY <1>2 DEF outputs
    <2> QED
      BY <1>1, <2>1, ChangesFit DEF outputs
  <1>4. P \in Nat /\ P >= 2
    <2>1. Len(outputs) \in Nat /\ P \in Nat /\ Len(outputs) <= 2 * P
      BY <1>1, CoinPlaces, HalfTheOutputs
    <2> HIDE DEF outputs
    <2> QED
      BY <1>2, <2>1
  <1>5. paid \in SUBSET U /\ U \in SUBSET I
    <2>1. DOMAIN Contributions(record) \in SUBSET unique_addresses(record.inputs)
      BY <1>1, Grouped
    <2>2. \A i \in I : outputs[i].address # None => outputs[i].address \in unique_addresses(outputs)
      BY DEF unique_addresses
    <2>3. \A i \in I : outputs[i].address # None => outputs[i].address \notin DOMAIN Contributions(record)
      BY <2>1, <2>2
    <2> QED
      BY <2>3 DEF Unknown, PaidPlaces
  <1>6. \A S \in SUBSET I : IsFiniteSet(S) /\ Cardinality(S) \in Nat
    BY <1>1, CoinPlaces
  <1>7. paid \in SUBSET Places(outputs, U, d) /\ Places(outputs, U, d) \in SUBSET Places(outputs, I, d)
    BY <1>5 DEF Places, PaidPlaces
  <1>8. Places(outputs, I, d) \in SUBSET I /\ Places(outputs, U, d) \in SUBSET I /\ own \in SUBSET I
    BY <1>5 DEF Places
  <1>9. c \in Nat /\ c # d => own \in SUBSET C
    <2>1. \A v \in Nat : v # None
      BY NoneAssumption
    <2> QED
      BY <1>5, <2>1 DEF Places, Changes
  <1>10. \A i \in own : outputs[i].value = c
    BY DEF Places
  <1> HIDE DEF I, U, paid, own
  <1>11. Cardinality(U) > 1
    <2>1. Cardinality(paid) <= Cardinality(U)
      BY <1>5, <1>6, FS_Subset
    <2>2. Cardinality(paid) \in Nat /\ Cardinality(U) \in Nat
      BY <1>5, <1>6
    <2> QED
      BY <1>3, <1>4, <2>1, <2>2
  <1>12. Cardinality(Places(outputs, U, d)) >= P /\ Cardinality(Places(outputs, I, d)) >= P
    <2>1. Cardinality(paid) <= Cardinality(Places(outputs, U, d))
      BY <1>6, <1>7, <1>8, FS_Subset
    <2>2. Cardinality(Places(outputs, U, d)) <= Cardinality(Places(outputs, I, d))
      BY <1>6, <1>7, <1>8, FS_Subset
    <2>3. Cardinality(Places(outputs, U, d)) \in Nat /\ Cardinality(Places(outputs, I, d)) \in Nat
      BY <1>6, <1>8
    <2>4. Cardinality(paid) \in Nat
      <3>1. paid \in SUBSET I
        BY <1>5
      <3> QED
        BY <1>6, <3>1
    <2> QED
      BY <1>3, <1>4, <2>1, <2>2, <2>3, <2>4
  <1>13. MostPaid(outputs, I).count > 1
    <2> DEFINE all == MostPaid(outputs, I)
    <2>1. all.count \in Nat /\ Cardinality(Places(outputs, I, d)) <= all.count
      <3>1. I \in SUBSET DOMAIN outputs
        BY DEF I
      <3> HIDE DEF outputs, all
      <3>2. all = MostPaid(outputs, I)
        BY DEF all
      <3> QED
        BY <1>1, <1>3, <3>1, <3>2, MostPaidIs
    <2>2. Cardinality(Places(outputs, I, d)) \in Nat
      BY <1>6, <1>8
    <2> HIDE DEF all
    <2>3. all.count > 1
      BY <1>4, <1>12, <2>1, <2>2
    <2> QED
      BY <2>3 DEF all
  <1>14. found.count >= P /\ found.count \in Nat /\ c \in Nat /\ c # None /\ found.count = Cardinality(own)
    <2>1. U \in SUBSET DOMAIN outputs
      BY <1>5 DEF I
    <2>2. found = MostPaid(outputs, U)
      BY DEF Candidate, U
    <2>3. Cardinality(Places(outputs, U, d)) \in Nat
      BY <1>6, <1>8
    <2> HIDE DEF outputs
    <2>4. found.count \in Nat /\ Cardinality(Places(outputs, U, d)) <= found.count
      BY <1>1, <1>3, <2>1, <2>2, MostPaidIs
    <2>5. found.count >= P /\ found.count # 0
      BY <1>4, <1>12, <2>3, <2>4
    <2>6. found.value \in Nat /\ found.value # None /\ found.count = Cardinality(Places(outputs, U, found.value))
      BY <1>1, <2>1, <2>2, <2>5, MostPaidIs
    <2> QED
      BY <2>4, <2>5, <2>6 DEF own
  <1>15. ASSUME c # d
         PROVE  Cardinality(C) = P /\ \A i \in C : outputs[i].value = c
    <2>1. own \in SUBSET C /\ IsFiniteSet(C)
      BY <1>3, <1>6, <1>9, <1>14, <1>15
    <2>2. Cardinality(own) <= Cardinality(C)
      BY <2>1, FS_Subset
    <2>3. Cardinality(own) = Cardinality(C) /\ Cardinality(C) = P
      BY <1>3, <1>4, <1>14, <2>2
    <2>4. own = C
      BY <2>1, <2>3, FS_Subset
    <2> QED
      BY <1>10, <2>3, <2>4
  <1>16. found.count > 1
    BY <1>4, <1>14
  <1> QED
    BY <1>3, <1>4, <1>11, <1>13, <1>14, <1>15, <1>16 DEF I, U

\* A fresh transaction the definite rules accept is accepted by the possible ones.
LEMMA FreshIsPossible ==
  ASSUME NEW record, Transaction(record), NEW fees \in FeeRule,
         unique_addresses(record.inputs) \cap unique_addresses(record.outputs) = {},
         Accepts(record, JoinMarket("definite", fees, 0))
  PROVE  Accepts(record, JoinMarket("possible", fees, 0))
  <1> DEFINE outputs == record.outputs
             d == MixedValue(outputs).value
             P == ParticipantCount(outputs)
             C == Changes(outputs, d)
             found == Candidate(record)
             c == found.value
             values == Contributions(record)
             D == DOMAIN values
             buckets == BucketGoals(outputs, d)
             goals == DefiniteGoals(record, fees)
             goal == PossibleGoal(record, fees)
             answer == joinmarket_subset_result(values, <<goal, goal>>, 0).result
  <1>1. DefiniteFacts(record) /\ DefiniteAnswer(record, fees, 0) = TRUE
    BY DefiniteAccepts
  <1>2. outputs \in Seq(Coin) /\ record.inputs \in Seq(Coin)
    BY DEF Transaction
  <1>3. /\ d \in Nat /\ P \in Nat /\ P >= 2
        /\ Cardinality(Unknown(record)) > 1
        /\ MostPaid(outputs, DOMAIN outputs).count > 1
        /\ found.count > 1 /\ c \in Nat /\ c # None
        /\ c # d => Cardinality(C) = P /\ \A i \in C : outputs[i].value = c
    BY <1>1, CandidateIs
  <1>4. IsFiniteSet(D) /\ values \in [D -> Nat] /\ Cardinality(D) \in Nat
    BY <1>2, Grouped, FS_CardinalityType
  <1>5. Cardinality(D) # 1 /\ Len(record.inputs) # 1 /\ Len(outputs) # 1
    <2>1. P <= Cardinality(D) /\ Len(record.inputs) >= 2 /\ Len(outputs) >= 3
      BY <1>1 DEF DefiniteFacts
    <2>2. Len(record.inputs) \in Nat /\ Len(outputs) \in Nat
      BY <1>2, CoinPlaces
    <2>3. P \in Nat /\ P >= 2 /\ Cardinality(D) \in Nat
      BY <1>3, <1>4
    <2> DEFINE in == Len(record.inputs)
               out == Len(outputs)
               size == Cardinality(D)
    <2>4. in \in Nat /\ out \in Nat /\ size \in Nat /\ P <= size /\ in >= 2 /\ out >= 3
      BY <2>1, <2>2, <2>3
    <2> HIDE DEF in, out, size, P
    <2>5. size # 1 /\ in # 1 /\ out # 1
      BY <2>3, <2>4
    <2> QED
      BY <2>5 DEF in, out, size
  <1>6. goals \in [1..P -> Nat] /\ \A b \in 1..P : goals[b] = AfterFee(buckets[b], MaxFee(d, fees))
    BY <1>1, <1>2, DefiniteGoalsAre
  <1>7. Fillable(values, D, goals)
    <2>1. Exact(DefiniteAnswer(record, fees, 0), values, D, goals, 0)
      BY <1>1, DefiniteSearch
    <2>2. TRUE # None
      BY NoneAssumption
    <2> HIDE DEF values, goals, D
    <2> QED
      BY <1>1, <2>1, <2>2 DEF Exact
  <1>8. /\ buckets \in [1..P -> Nat]
        /\ \A b \in 1..P : buckets[b] >= d
        /\ \A x \in Nat : (\A i \in C : outputs[i].value = x) =>
               \A b \in 1..P : b <= Cardinality(C) => buckets[b] >= d + x
    <2> HIDE DEF outputs, d
    <2> QED
      BY <1>2, <1>3, GoalsLeast DEF d
  <1>9. goal = AfterFee(c, MaxFee(c, fees)) /\ goal \in Nat
    <2>1. goal = AfterFee(c, MaxFee(c, fees))
      BY DEF PossibleGoal
    <2> HIDE DEF c
    <2>2. AfterFee(c, MaxFee(c, fees)) \in Nat
      BY <1>3, FeeIs
    <2> HIDE DEF goal
    <2> QED
      BY <2>1, <2>2
  <1>10. MaxFee(d, fees) \in Nat
    <2> HIDE DEF d
    <2> QED
      BY <1>3, FeeIs
  <1> HIDE DEF outputs, d, P, C, found, c, values, D, buckets, goals, goal, answer
  <1>11. ASSUME NEW b \in 1..P
         PROVE  goal <= goals[b]
    <2>1. buckets[b] \in Nat /\ buckets[b] >= d
      BY <1>8
    <2>2. CASE c = d
      <3>1. AfterFee(d, MaxFee(d, fees)) <= AfterFee(buckets[b], MaxFee(d, fees))
        BY <1>3, <1>10, <2>1, LargerGoal
      <3> QED
        BY <1>6, <1>9, <2>2, <3>1
    <2>3. CASE c # d
      <3>1. b <= Cardinality(C)
        BY <1>3, <2>3
      <3>2. buckets[b] >= d + c
        BY <1>3, <1>8, <2>3, <3>1
      <3>3. AfterFee(c, MaxFee(c, fees)) <= AfterFee(buckets[b], MaxFee(d, fees))
        BY <1>3, <2>1, <3>2, FeesCompare
      <3> QED
        BY <1>6, <1>9, <3>3
    <2> QED
      BY <2>2, <2>3
  <1>12. Fillable(values, D, <<goal, goal>>)
    <2>1. goal <= goals[1] /\ goal <= goals[2]
      BY <1>3, <1>11
    <2> QED
      BY <1>3, <1>4, <1>6, <1>7, <1>9, <2>1, FillTwo
  <1>13. answer = TRUE
    <2> DEFINE two == <<goal, goal>>
               B == {1, 2}
    <2>1. two \in [B -> Nat] /\ B # {}
      BY <1>9
    <2>2. IsFiniteSet(B)
      <3>1. IsFiniteSet({1} \cup {2})
        BY FS_Singleton, FS_Union
      <3>2. {1} \cup {2} = B
        OBVIOUS
      <3> HIDE DEF B
      <3> QED
        BY <3>1, <3>2
    <2>3. answer = joinmarket_subset_result(values, two, 0).result
      BY DEF answer
    <2>4. Fillable(values, D, two)
      BY <1>12
    <2> HIDE DEF two, B
    <2>5. Exact(answer, values, D, two, 0)
      BY <1>4, <2>1, <2>2, <2>3, SearchExact
    <2> QED
      BY <2>4, <2>5 DEF Exact
  <1>14. joinmarket_subset_result(Contributions(record), <<PossibleGoal(record, fees), PossibleGoal(record, fees)>>,
                                  0).result = TRUE
    BY <1>13 DEF answer, values, goal
  <1>15. Candidate(record).count > 1 /\ Candidate(record).value # None /\ Cardinality(Unknown(record)) > 1
    BY <1>3 DEF found, c
  <1>16. /\ Len(record.inputs) # 1 /\ Len(record.outputs) # 1 /\ Cardinality(DOMAIN Contributions(record)) # 1
         /\ MostPaid(record.outputs, DOMAIN record.outputs).count > 1
    BY <1>3, <1>5 DEF outputs, D, values
  <1> QED
    BY <1>14, <1>15, <1>16, PossibleAccepts

\* Definite transactions are possible ones (DefiniteIsPossible).
LEMMA DefiniteHolds ==
  ASSUME NEW record, Transaction(record), NEW fees \in FeeRule
  PROVE  DefiniteIsPossible(record, fees)
  BY FreshIsPossible, CutShort DEF DefiniteIsPossible
-----------------------------------------------------------------------------
\* The detectors do what their rules say, on every search, every JoinMarket and every Wasabi
\* transaction: the search is exact, definite transactions are possible ones, all change has a
\* bucket, thresholds relax with height (heuristics.py).
THEOREM DetectorsHold == DetectorTyped => DetectorsAgree
  <1> SUFFICES ASSUME DetectorTyped
               PROVE  DetectorsAgree
    OBVIOUS
  <1>1. SubsetSearch
    <2> SUFFICES ASSUME input.kind = "search"
                 PROVE  SubsetSearchIsExact(input.values, input.goals, input.depth)
      BY DEF SubsetSearch
    <2>1. input.values \in Seq(Nat) /\ input.goals \in Seq(Nat) /\ input.depth \in Nat
      BY DEF DetectorTyped
    <2> QED
      BY <2>1, SearchHolds
  <1>2. ASSUME input.kind = "joinmarket"
        PROVE  DefiniteIsPossible(input.record, input.fees) /\ ChangeAllCounted(input.record, input.fees)
    <2>1. Transaction(input.record) /\ input.fees \in FeeRule
      BY <1>2 DEF DetectorTyped
    <2>2. input.record.outputs \in Seq(Coin)
      BY <2>1 DEF Transaction
    <2> QED
      BY <2>1, <2>2, DefiniteHolds, ChangeHolds
  <1>3. ASSUME input.kind = "wasabi"
        PROVE  WasabiRulesRelax(input.record, input.later)
    <2>1. Transaction(input.record) /\ input.later \in Nat
      BY <1>3 DEF DetectorTyped
    <2>2. /\ input.record.inputs \in Seq(Coin) /\ input.record.outputs \in Seq(Coin)
          /\ "height" \in DOMAIN input.record /\ input.record.height \in HeightOption
      BY <2>1 DEF Transaction
    <2> QED
      BY <2>1, <2>2, WasabiHolds
  <1> QED
    BY <1>1, <1>2, <1>3 DEF DetectorsAgree, DefinitePossible, ChangeCounted, WasabiRelaxes
-----------------------------------------------------------------------------
(***************************************************************************)
(* The liquidity of the pool. First, sums over sets and the coins of       *)
(* coinjoins: the places of outputs, and the columns of a series.          *)
(***************************************************************************)
\* A sum of sums.
LEMMA SumsAdd ==
  ASSUME NEW S, IsFiniteSet(S), NEW f, NEW g, NEW h,
         \A x \in S : f[x] \in Int /\ g[x] \in Int /\ h[x] = f[x] + g[x]
  PROVE  SumOf(h, S) = SumOf(f, S) + SumOf(g, S)
  <1> DEFINE P == {s \in SUBSET S : SumOf(h, s) = SumOf(f, s) + SumOf(g, s)}
  <1>1. \A s \in SUBSET S : /\ IsFiniteSet(s) /\ (\A x \in s : f[x] \in Int) /\ (\A x \in s : g[x] \in Int)
                            /\ \A x \in s : h[x] \in Int
    BY FS_Subset
  <1>2. {} \in P
    <2>1. SumOf(h, {}) = 0 /\ SumOf(f, {}) = 0 /\ SumOf(g, {}) = 0
      BY FS_EmptySet, IntSums
    <2> QED
      BY <2>1
  <1>3. ASSUME NEW s \in SUBSET S, s # {}, \A x \in s : s \ {x} \in P
        PROVE  s \in P
    <2> PICK x \in s : TRUE
      BY <1>3
    <2> DEFINE r == s \ {x}
    <2>1. r \in SUBSET S
      OBVIOUS
    <2>2. SumOf(h, s) = h[x] + SumOf(h, r) /\ SumOf(f, s) = f[x] + SumOf(f, r) /\ SumOf(g, s) = g[x] + SumOf(g, r)
      BY <1>1, IntSums
    <2>3. SumOf(f, r) \in Int /\ SumOf(g, r) \in Int
      <3> HIDE DEF r
      <3> QED
        BY <1>1, <2>1, IntSums
    <2>4. SumOf(h, r) = SumOf(f, r) + SumOf(g, r)
      BY <1>3
    <2>5. f[x] \in Int /\ g[x] \in Int /\ h[x] = f[x] + g[x]
      OBVIOUS
    <2> HIDE DEF r
    <2>6. SumOf(h, s) = SumOf(f, s) + SumOf(g, s)
      BY <2>2, <2>3, <2>4, <2>5
    <2> QED
      BY <2>6
  <1>4. \A s \in SUBSET S : s \in P
    <2> HIDE DEF P
    <2> QED
      BY <1>2, <1>3, SetInduction
  <1> QED
    BY <1>4

\* What is summed can be carried to other places, one for each.
LEMMA SumsMoved ==
  ASSUME NEW S, IsFiniteSet(S), NEW f, NEW g, NEW to, \A x \in S : f[x] \in Int /\ g[to[x]] = f[x],
         \A x, y \in S : to[x] = to[y] => x = y
  PROVE  SumOf(f, S) = SumOf(g, {to[x] : x \in S})
  <1> DEFINE there(s) == {to[x] : x \in s}
             P == {s \in SUBSET S : SumOf(f, s) = SumOf(g, there(s))}
  <1>1. \A s \in SUBSET S : IsFiniteSet(s) /\ IsFiniteSet(there(s)) /\ (\A x \in s : f[x] \in Int)
    <2> TAKE s \in SUBSET S
    <2>1. IsFiniteSet(s)
      BY FS_Subset
    <2>2. IsFiniteSet(there(s))
      BY <2>1, ImageFinite
    <2> QED
      BY <2>1, <2>2
  <1>2. {} \in P
    <2>1. SumOf(f, {}) = 0 /\ SumOf(g, {}) = 0
      BY FS_EmptySet, IntSums
    <2>2. there({}) = {}
      OBVIOUS
    <2> QED
      BY <2>1, <2>2
  <1>3. ASSUME NEW s \in SUBSET S, s # {}, \A x \in s : s \ {x} \in P
        PROVE  s \in P
    <2> PICK x \in s : TRUE
      BY <1>3
    <2>1. SumOf(f, s) = f[x] + SumOf(f, s \ {x})
      BY <1>1, IntSums
    <2>2. to[x] \in there(s) /\ \A y \in there(s) : g[y] \in Int
      OBVIOUS
    <2>3. SumOf(g, there(s)) = g[to[x]] + SumOf(g, there(s) \ {to[x]})
      <3> HIDE DEF there
      <3> QED
        BY <1>1, <2>2, IntSums
    <2>4. there(s) \ {to[x]} = there(s \ {x})
      OBVIOUS
    <2>5. SumOf(f, s \ {x}) = SumOf(g, there(s \ {x}))
      BY <1>3
    <2> HIDE DEF there
    <2>6. SumOf(f, s) = SumOf(g, there(s))
      BY <2>1, <2>3, <2>4, <2>5
    <2> QED
      BY <2>6
  <1>4. \A s \in SUBSET S : s \in P
    <2> HIDE DEF P
    <2> QED
      BY <1>2, <1>3, SetInduction
  <1> QED
    BY <1>4

\* A sum is the sum over the parts of what each of them sums to.
LEMMA SumsByParts ==
  ASSUME NEW S, IsFiniteSet(S), NEW f, \A x \in S : f[x] \in Int,
         NEW K, IsFiniteSet(K), NEW part, \A k \in K : part[k] \in SUBSET S,
         \A k, l \in K : k # l => part[k] \cap part[l] = {},
         NEW sums, \A k \in K : sums[k] = SumOf(f, part[k])
  PROVE  SumOf(f, UNION {part[k] : k \in K}) = SumOf(sums, K)
  <1> DEFINE all(s) == UNION {part[k] : k \in s}
             P == {s \in SUBSET K : SumOf(f, all(s)) = SumOf(sums, s)}
  <1>1. \A T \in SUBSET S : IsFiniteSet(T) /\ (\A x \in T : f[x] \in Int) /\ SumOf(f, T) \in Int
    <2> TAKE T \in SUBSET S
    <2>1. IsFiniteSet(T) /\ \A x \in T : f[x] \in Int
      BY FS_Subset
    <2> QED
      BY <2>1, IntSums
  <1>2. \A s \in SUBSET K : IsFiniteSet(s) /\ (\A k \in s : sums[k] \in Int) /\ all(s) \in SUBSET S
    BY <1>1, FS_Subset
  <1>3. {} \in P
    <2>1. SumOf(f, {}) = 0 /\ SumOf(sums, {}) = 0
      BY FS_EmptySet, IntSums
    <2>2. all({}) = {}
      OBVIOUS
    <2> QED
      BY <2>1, <2>2
  <1>4. ASSUME NEW s \in SUBSET K, s # {}, \A k \in s : s \ {k} \in P
        PROVE  s \in P
    <2> PICK k \in s : TRUE
      BY <1>4
    <2>1. SumOf(sums, s) = sums[k] + SumOf(sums, s \ {k})
      <3> HIDE DEF all
      <3> QED
        BY <1>2, IntSums
    <2>2. SumOf(f, all(s)) = SumOf(f, part[k]) + SumOf(f, all(s) \ part[k])
      <3>1. part[k] \in SUBSET all(s) /\ all(s) \in SUBSET S
        BY <1>2
      <3> HIDE DEF all
      <3> QED
        BY <1>1, <3>1, SumsSplit
    <2>3. all(s) \ part[k] = all(s \ {k})
      OBVIOUS
    <2>4. SumOf(f, all(s \ {k})) = SumOf(sums, s \ {k})
      BY <1>4
    <2> HIDE DEF all
    <2>5. SumOf(f, all(s)) = SumOf(sums, s)
      BY <2>1, <2>2, <2>3, <2>4
    <2> QED
      BY <2>5
  <1>5. \A s \in SUBSET K : s \in P
    <2> HIDE DEF P
    <2> QED
      BY <1>3, <1>4, SetInduction
  <1> QED
    BY <1>5

-----------------------------------------------------------------------------
(***************************************************************************)
(* The coins of the pool.                                                  *)
(***************************************************************************)
\* The places of the outputs, and which input spends one.
PoolPlaces(c) == UNION {{m} \X DOMAIN c[m].outputs : m \in DOMAIN c}
Spends(c, k, j, x) == c[k].inputs[j].prev = OutputAt(c, x).outpoint

\* The coinjoins are a sequence, and their coins have values.
CoinsTyped(c) ==
    /\ Len(c) \in Nat /\ DOMAIN c = 1..Len(c)
    /\ \A n \in DOMAIN c :
         /\ IsFiniteSet(DOMAIN c[n].inputs) /\ IsFiniteSet(DOMAIN c[n].outputs)
         /\ \A i \in DOMAIN c[n].inputs : ValueOf(c[n].inputs[i]) \in Nat /\ c[n].inputs[i].wallet \in Everyone
         /\ \A i \in DOMAIN c[n].outputs : ValueOf(c[n].outputs[i]) \in Nat /\ c[n].outputs[i].wallet \in Everyone

ValuesIn(items) == [i \in DOMAIN items |-> ValueOf(items[i])]
PlaceValues(c) == [x \in PoolPlaces(c) |-> ValueOf(OutputAt(c, x))]

\* What items are worth is the sum of their values.
LEMMA WorthIs ==
  ASSUME NEW items, NEW A \in SUBSET DOMAIN items
  PROVE  Worth(items, A) = SumOf(ValuesIn(items), A)
  <1>1. [i \in A |-> ValueOf(items[i])] = [i \in A |-> ValuesIn(items)[i]]
    BY DEF ValuesIn
  <1> QED
    BY <1>1 DEF Worth, SumOf

\* And so it is with places.
LEMMA PlacesWorthIs ==
  ASSUME NEW c, NEW X \in SUBSET PoolPlaces(c)
  PROVE  PlacesWorth(c, X) = SumOf(PlaceValues(c), X)
  <1>1. [x \in X |-> ValueOf(OutputAt(c, x))] = [x \in X |-> PlaceValues(c)[x]]
    BY DEF PlaceValues
  <1> QED
    BY <1>1 DEF PlacesWorth, SumOf

\* The pool has finitely many outputs, each with a value.
LEMMA PlacesTyped ==
  ASSUME NEW c, CoinsTyped(c)
  PROVE  /\ IsFiniteSet(PoolPlaces(c))
         /\ \A x \in PoolPlaces(c) : PlaceValues(c)[x] \in Nat /\ PlaceValues(c)[x] = ValueOf(OutputAt(c, x))
         /\ \A x \in PoolPlaces(c) : x[1] \in DOMAIN c /\ x[2] \in DOMAIN c[x[1]].outputs /\ x = <<x[1], x[2]>>
         /\ \A m \in DOMAIN c : \A i \in DOMAIN c[m].outputs : <<m, i>> \in PoolPlaces(c)
  <1> DEFINE at == [m \in DOMAIN c |-> {m} \X DOMAIN c[m].outputs]
  <1>1. PoolPlaces(c) = UNION {at[m] : m \in DOMAIN c}
    BY DEF PoolPlaces
  <1>2. \A m \in DOMAIN c : IsFiniteSet(at[m])
    <2> TAKE m \in DOMAIN c
    <2>1. IsFiniteSet({m}) /\ IsFiniteSet(DOMAIN c[m].outputs)
      BY FS_Singleton DEF CoinsTyped
    <2>2. IsFiniteSet({m} \X DOMAIN c[m].outputs)
      BY <2>1, FS_Product
    <2> QED
      BY <2>2
  <1>3. IsFiniteSet(DOMAIN c)
    <2>1. Len(c) \in Int /\ 1 \in Int /\ DOMAIN c = 1..Len(c)
      BY DEF CoinsTyped
    <2> QED
      BY <2>1, FS_Interval
  <1>4. IsFiniteSet(PoolPlaces(c))
    <2> HIDE DEF at
    <2>1. IsFiniteSet({at[m] : m \in DOMAIN c})
      BY <1>3, ImageFinite
    <2> QED
      BY <1>1, <1>2, <2>1, FS_UNION
  <1>5. \A x \in PoolPlaces(c) : x[1] \in DOMAIN c /\ x[2] \in DOMAIN c[x[1]].outputs /\ x = <<x[1], x[2]>>
    BY DEF PoolPlaces
  <1>6. \A x \in PoolPlaces(c) : PlaceValues(c)[x] \in Nat /\ PlaceValues(c)[x] = ValueOf(OutputAt(c, x))
    BY <1>5 DEF PlaceValues, OutputAt, CoinsTyped
  <1>7. \A m \in DOMAIN c : \A i \in DOMAIN c[m].outputs : <<m, i>> \in PoolPlaces(c)
    BY DEF PoolPlaces
  <1> QED
    BY <1>4, <1>5, <1>6, <1>7

\* What one coinjoin's outputs are worth, by place or by position.
LEMMA PlacesOfOne ==
  ASSUME NEW c, CoinsTyped(c), NEW m \in DOMAIN c, NEW A \in SUBSET DOMAIN c[m].outputs
  PROVE  /\ {m} \X A \in SUBSET PoolPlaces(c)
         /\ SumOf(PlaceValues(c), {m} \X A) = Worth(c[m].outputs, A)
         /\ Worth(c[m].outputs, A) \in Nat
  <1> DEFINE items == c[m].outputs
             to == [i \in A |-> <<m, i>>]
  <1>1. IsFiniteSet(A) /\ \A i \in A : ValuesIn(items)[i] \in Nat
    BY FS_Subset DEF CoinsTyped, ValuesIn
  <1>2. {m} \X A \in SUBSET PoolPlaces(c)
    BY DEF PoolPlaces
  <1>3. \A i \in A : PlaceValues(c)[to[i]] = ValuesIn(items)[i]
    BY <1>2 DEF PlaceValues, OutputAt, ValuesIn
  <1>4. {m} \X A = {to[i] : i \in A}
    OBVIOUS
  <1>5. \A i, j \in A : to[i] = to[j] => i = j
    OBVIOUS
  <1>6. SumOf(ValuesIn(items), A) = SumOf(PlaceValues(c), {to[i] : i \in A})
    <2> HIDE DEF to, items
    <2> QED
      BY <1>1, <1>3, <1>5, SumsMoved
  <1>7. Worth(items, A) = SumOf(ValuesIn(items), A)
    BY WorthIs
  <1>8. SumOf(ValuesIn(items), A) \in Nat
    <2> HIDE DEF items
    <2> QED
      BY <1>1, Sums
  <1> QED
    BY <1>2, <1>4, <1>6, <1>7, <1>8

\* What some of one coinjoin's inputs are worth is a number.
LEMMA InputsWorth ==
  ASSUME NEW c, CoinsTyped(c), NEW m \in DOMAIN c, NEW A \in SUBSET DOMAIN c[m].inputs
  PROVE  /\ IsFiniteSet(A) /\ \A i \in A : ValuesIn(c[m].inputs)[i] \in Nat
         /\ Worth(c[m].inputs, A) \in Nat /\ Worth(c[m].inputs, A) = SumOf(ValuesIn(c[m].inputs), A)
  <1>1. IsFiniteSet(A) /\ \A i \in A : ValuesIn(c[m].inputs)[i] \in Nat
    BY FS_Subset DEF CoinsTyped, ValuesIn
  <1>2. SumOf(ValuesIn(c[m].inputs), A) \in Nat
    BY <1>1, Sums
  <1> QED
    BY <1>1, <1>2, WorthIs

-----------------------------------------------------------------------------
(***************************************************************************)
(* The series of a pool.                                                   *)
(***************************************************************************)
\* The outputs that are unmoved: slow when they were created, and not spent by the owners since.
StillUnmoved(c, field, owners, n) ==
    {x \in PoolPlaces(c) :
        /\ x[1] <= n /\ x[2] \in Slow(c[x[1]], field, owners)
        /\ \A k \in (x[1] + 1)..n : \A i \in OwnedBy(c[k].inputs, owners) : ~Spends(c, k, i, x)}

\* The loop leaves these.
LEMMA UnmovedIs ==
  ASSUME NEW c, CoinsTyped(c), NEW field, NEW owners
  PROVE  \A n \in 0..Len(c) : UnmovedAfter(c, field, owners)[n] = StillUnmoved(c, field, owners, n)
  <1> DEFINE N == Len(c)
             U(n) == StillUnmoved(c, field, owners, n)
             new(n) == {n} \X Slow(c[n], field, owners)
             Is(f) == f = [n \in 0..N |-> IF n = 0 THEN {} ELSE Retire(c, f[n - 1], n, owners) \cup new(n)]
             unmoved == CHOOSE f : Is(f)
             known == [n \in 0..N |-> U(n)]
  <1>1. N \in Nat /\ DOMAIN c = 1..N
    BY DEF CoinsTyped
  <1>2. U(0) = {}
    <2>1. \A x \in PoolPlaces(c) : x[1] \in DOMAIN c
      BY PlacesTyped
    <2> QED
      BY <1>1, <2>1 DEF StillUnmoved
  <1>3. ASSUME NEW n \in 1..N
        PROVE  U(n) = Retire(c, U(n - 1), n, owners) \cup new(n)
    <2>1. n \in DOMAIN c /\ n \in Nat /\ n - 1 \in Nat
      BY <1>1
    <2>2. Slow(c[n], field, owners) \in SUBSET DOMAIN c[n].outputs
      BY DEF Slow, OutputsOf, OwnedBy
    <2>3. new(n) \in SUBSET U(n)
      <3> SUFFICES ASSUME NEW x \in new(n)
                   PROVE  x \in U(n)
        OBVIOUS
      <3>1. x[1] = n /\ x[2] \in Slow(c[n], field, owners) /\ x = <<n, x[2]>>
        OBVIOUS
      <3>2. x \in PoolPlaces(c)
        BY <2>1, <2>2, <3>1 DEF PoolPlaces
      <3>3. (x[1] + 1)..n = {}
        BY <2>1, <3>1
      <3> QED
        BY <2>1, <3>1, <3>2, <3>3 DEF StillUnmoved
    <2>4. ASSUME NEW x \in PoolPlaces(c)
          PROVE  x[1] \in Nat /\ x = <<x[1], x[2]>>
      BY <1>1, PlacesTyped
    <2>5. Retire(c, U(n - 1), n, owners) \in SUBSET U(n)
      <3> SUFFICES ASSUME NEW x \in U(n - 1), \A i \in OwnedBy(c[n].inputs, owners) : ~Spends(c, n, i, x)
                   PROVE  x \in U(n)
        BY DEF Retire, Spends
      <3>1. /\ x \in PoolPlaces(c) /\ x[1] <= n - 1 /\ x[2] \in Slow(c[x[1]], field, owners)
            /\ \A k \in (x[1] + 1)..(n - 1) : \A i \in OwnedBy(c[k].inputs, owners) : ~Spends(c, k, i, x)
        BY DEF StillUnmoved
      <3>2. x[1] \in Nat /\ x[1] <= n
        BY <2>1, <2>4, <3>1
      <3>3. \A k \in (x[1] + 1)..n : k = n \/ k \in (x[1] + 1)..(n - 1)
        BY <2>1, <3>2
      <3> QED
        BY <3>1, <3>2, <3>3 DEF StillUnmoved
    <2>6. ASSUME NEW x \in U(n)
          PROVE  x \in Retire(c, U(n - 1), n, owners) \cup new(n)
      <3>1. /\ x \in PoolPlaces(c) /\ x[1] <= n /\ x[2] \in Slow(c[x[1]], field, owners)
            /\ \A k \in (x[1] + 1)..n : \A i \in OwnedBy(c[k].inputs, owners) : ~Spends(c, k, i, x)
        BY DEF StillUnmoved
      <3>2. x[1] \in Nat /\ x = <<x[1], x[2]>>
        BY <2>4, <3>1
      <3>3. CASE x[1] = n
        BY <3>1, <3>2, <3>3
      <3>4. CASE x[1] # n
        <4>1. x[1] <= n - 1 /\ n \in (x[1] + 1)..n /\ (x[1] + 1)..(n - 1) \subseteq (x[1] + 1)..n
          BY <2>1, <3>1, <3>2, <3>4
        <4>2. x \in U(n - 1)
          BY <3>1, <4>1 DEF StillUnmoved
        <4>3. \A i \in OwnedBy(c[n].inputs, owners) : ~Spends(c, n, i, x)
          BY <3>1, <4>1
        <4> QED
          BY <4>2, <4>3 DEF Retire, Spends
      <3> QED
        BY <3>3, <3>4
    <2> HIDE DEF U, new
    <2> QED
      BY <2>3, <2>5, <2>6
  <1>4. Is(known)
    <2> HIDE DEF U, new
    <2>1. ASSUME NEW n \in 0..N
          PROVE  known[n] = IF n = 0 THEN {} ELSE Retire(c, known[n - 1], n, owners) \cup new(n)
      <3>1. CASE n = 0
        BY <1>2, <3>1
      <3>2. CASE n # 0
        <4>1. n \in 1..N /\ n - 1 \in 0..N
          BY <1>1, <3>2
        <4> QED
          BY <1>3, <3>2, <4>1
      <3> QED
        BY <3>1, <3>2
    <2>2. known = [n \in 0..N |-> known[n]]
      OBVIOUS
    <2> HIDE DEF known
    <2>3. [n \in 0..N |-> known[n]]
            = [n \in 0..N |-> IF n = 0 THEN {} ELSE Retire(c, known[n - 1], n, owners) \cup new(n)]
      BY <2>1
    <2> QED
      BY <2>2, <2>3
  <1>5. Is(unmoved)
    <2> HIDE DEF Is, known
    <2> QED
      BY <1>4
  <1>6. UnmovedAfter(c, field, owners) = unmoved
    BY DEF UnmovedAfter
  <1>7. \A n \in 0..N : n \in {k \in 0..N : unmoved[k] = U(k)}
    <2> DEFINE S == {k \in 0..N : unmoved[k] = U(k)}
    <2> HIDE DEF U, new, unmoved
    <2>1. 0 \in S
      BY <1>1, <1>2, <1>5
    <2>2. ASSUME NEW n \in 0..(N - 1), n \in S
          PROVE  n + 1 \in S
      <3>1. n + 1 \in 0..N /\ n + 1 # 0 /\ (n + 1) - 1 = n /\ n + 1 \in 1..N
        BY <1>1
      <3>2. unmoved[n + 1] = Retire(c, unmoved[(n + 1) - 1], n + 1, owners) \cup new(n + 1)
        BY <1>5, <3>1
      <3>3. U(n + 1) = Retire(c, U((n + 1) - 1), n + 1, owners) \cup new(n + 1)
        BY <1>3, <3>1
      <3>4. unmoved[n] = U(n)
        BY <2>2
      <3> QED
        BY <3>1, <3>2, <3>3, <3>4
    <2> HIDE DEF S
    <2>3. \A n \in 0..N : n \in S
      BY <1>1, <2>1, <2>2, UpTo
    <2> QED
      BY <2>3 DEF S
  <1> QED
    BY <1>6, <1>7

\* The columns, each of its own.
EnterOf(c, field, owners) == [n \in DOMAIN c |-> Worth(c[n].inputs, Entering(c[n], field, owners))]
LeaveOf(c, field, owners) == [n \in DOMAIN c |-> Worth(c[n].outputs, OutputsOf(c[n], field, owners, {Leave}))]
FastOf(c, field, owners) ==
    [n \in DOMAIN c |-> Worth(c[n].outputs, Fast(c[n], OutputsOf(c[n], field, owners, {Leave})))]
StayOf(c, field, owners) == [n \in DOMAIN c |-> Worth(c[n].outputs, OutputsOf(c[n], field, owners, {Stay}))]
StepOf(c, field, owners) ==
    [n \in DOMAIN c |-> EnterOf(c, field, owners)[n] - LeaveOf(c, field, owners)[n]]
FastStepOf(c, field, owners) ==
    [n \in DOMAIN c |-> EnterOf(c, field, owners)[n] - FastOf(c, field, owners)[n]]
UnmovedOf(c, field, owners) == [n \in DOMAIN c |-> PlacesWorth(c, StillUnmoved(c, field, owners, n))]

\* The series consists of these.
LEMMA SeriesIs ==
  ASSUME NEW c, CoinsTyped(c), NEW field, NEW owners
  PROVE  liquidity_series(c, field, owners) =
           [enter |-> EnterOf(c, field, owners), leave |-> LeaveOf(c, field, owners),
            stay |-> StayOf(c, field, owners), interim |-> Running(StepOf(c, field, owners)),
            interim_fast_leave |-> Running(FastStepOf(c, field, owners)),
            unmoved_window |-> UnmovedOf(c, field, owners),
            active_remix |-> [n \in DOMAIN c |-> Running(StepOf(c, field, owners))[n]
                                                    - UnmovedOf(c, field, owners)[n]]]
  <1>1. UnmovedOf(c, field, owners)
          = [n \in DOMAIN c |-> PlacesWorth(c, UnmovedAfter(c, field, owners)[n])]
    <2>1. \A n \in DOMAIN c : n \in 0..Len(c)
      BY DEF CoinsTyped
    <2>2. \A n \in DOMAIN c : UnmovedAfter(c, field, owners)[n] = StillUnmoved(c, field, owners, n)
      BY <2>1, UnmovedIs
    <2> QED
      BY <2>2 DEF UnmovedOf
  <1> QED
    BY <1>1 DEF liquidity_series, EnterOf, LeaveOf, FastOf, StayOf, StepOf, FastStepOf

\* A running total is the one before and the step.
LEMMA RunningIs ==
  ASSUME NEW N \in Nat, NEW steps, DOMAIN steps = 1..N, \A n \in 1..N : steps[n] \in Int
  PROVE  /\ SumOf(steps, 1..0) = 0
         /\ \A n \in 0..N : SumOf(steps, 1..n) \in Int
         /\ \A n \in 1..N : /\ Running(steps)[n] = SumOf(steps, 1..n)
                            /\ SumOf(steps, 1..n) = SumOf(steps, 1..(n - 1)) + steps[n]
  <1>1. \A n \in 0..N : IsFiniteSet(1..n) /\ \A k \in 1..n : steps[k] \in Int
    <2> TAKE n \in 0..N
    <2>1. 1 \in Int /\ n \in Int
      OBVIOUS
    <2> QED
      BY <2>1, FS_Interval
  <1>2. \A n \in 0..N : SumOf(steps, 1..n) \in Int
    <2> TAKE n \in 0..N
    <2> QED
      BY <1>1, IntSums
  <1>3. SumOf(steps, 1..0) = 0
    <2>1. 1..0 = {} /\ 0 \in 0..N
      OBVIOUS
    <2>2. IsFiniteSet(1..0) /\ \A k \in 1..0 : steps[k] \in Int
      BY <1>1, <2>1
    <2> QED
      BY <2>1, <2>2, IntSums
  <1>4. \A n \in 1..N : Running(steps)[n] = SumOf(steps, 1..n)
    BY DEF Running, SumOf
  <1>5. ASSUME NEW n \in 1..N
        PROVE  SumOf(steps, 1..n) = SumOf(steps, 1..(n - 1)) + steps[n]
    <2>1. n \in 0..N /\ n - 1 \in 0..N /\ n \in 1..n /\ (1..n) \ {n} = 1..(n - 1)
      OBVIOUS
    <2>2. SumOf(steps, 1..n) = steps[n] + SumOf(steps, (1..n) \ {n})
      BY <1>1, <2>1, IntSums
    <2> DEFINE before == SumOf(steps, 1..(n - 1))
               after == SumOf(steps, 1..n)
    <2>3. before \in Int /\ steps[n] \in Int
      BY <1>2, <2>1
    <2>4. after = steps[n] + before
      BY <2>1, <2>2
    <2> HIDE DEF before, after
    <2>5. after = before + steps[n]
      BY <2>3, <2>4
    <2> QED
      BY <2>5 DEF before, after
  <1> QED
    BY <1>2, <1>3, <1>4, <1>5

\* The columns are numbers.
LEMMA ColumnsTyped ==
  ASSUME NEW c, CoinsTyped(c), NEW field, NEW owners
  PROVE  \A n \in DOMAIN c :
           /\ EnterOf(c, field, owners)[n] \in Nat /\ LeaveOf(c, field, owners)[n] \in Nat
           /\ FastOf(c, field, owners)[n] \in Nat /\ StayOf(c, field, owners)[n] \in Nat
           /\ StepOf(c, field, owners)[n] = EnterOf(c, field, owners)[n] - LeaveOf(c, field, owners)[n]
           /\ FastStepOf(c, field, owners)[n] = EnterOf(c, field, owners)[n] - FastOf(c, field, owners)[n]
           /\ StillUnmoved(c, field, owners, n) \in SUBSET PoolPlaces(c)
           /\ UnmovedOf(c, field, owners)[n] = SumOf(PlaceValues(c), StillUnmoved(c, field, owners, n))
           /\ UnmovedOf(c, field, owners)[n] \in Nat
  <1> TAKE n \in DOMAIN c
  <1>1. Entering(c[n], field, owners) \in SUBSET DOMAIN c[n].inputs
    BY DEF Entering, OwnedBy
  <1>2. \A events : OutputsOf(c[n], field, owners, events) \in SUBSET DOMAIN c[n].outputs
    BY DEF OutputsOf, OwnedBy
  <1>3. Fast(c[n], OutputsOf(c[n], field, owners, {Leave})) \in SUBSET DOMAIN c[n].outputs
    BY <1>2 DEF Fast
  <1>4. EnterOf(c, field, owners)[n] \in Nat
    BY <1>1, InputsWorth DEF EnterOf
  <1>5. \A A \in SUBSET DOMAIN c[n].outputs : Worth(c[n].outputs, A) \in Nat
    BY PlacesOfOne
  <1>6. LeaveOf(c, field, owners)[n] \in Nat /\ FastOf(c, field, owners)[n] \in Nat
        /\ StayOf(c, field, owners)[n] \in Nat
    BY <1>2, <1>3, <1>5 DEF LeaveOf, FastOf, StayOf
  <1>7. /\ StepOf(c, field, owners)[n] = EnterOf(c, field, owners)[n] - LeaveOf(c, field, owners)[n]
        /\ FastStepOf(c, field, owners)[n] = EnterOf(c, field, owners)[n] - FastOf(c, field, owners)[n]
    BY DEF StepOf, FastStepOf
  <1> DEFINE X == StillUnmoved(c, field, owners, n)
  <1>8. X \in SUBSET PoolPlaces(c)
    BY DEF StillUnmoved
  <1>9. UnmovedOf(c, field, owners)[n] = PlacesWorth(c, X)
    BY DEF UnmovedOf
  <1>10. PlacesWorth(c, X) = SumOf(PlaceValues(c), X)
    BY <1>8, PlacesWorthIs
  <1>11. SumOf(PlaceValues(c), X) \in Nat
    <2> HIDE DEF X
    <2>1. IsFiniteSet(PoolPlaces(c)) /\ \A x \in PoolPlaces(c) : PlaceValues(c)[x] \in Nat
      BY PlacesTyped
    <2>2. IsFiniteSet(X) /\ \A x \in X : PlaceValues(c)[x] \in Nat
      BY <1>8, <2>1, FS_Subset
    <2> QED
      BY <2>2, Sums
  <1> QED
    BY <1>4, <1>6, <1>7, <1>8, <1>9, <1>10, <1>11

\* Series of the same coins by the same events are the same.
LEMMA SameSeriesIs ==
  ASSUME NEW c, CoinsTyped(c), NEW f, NEW g, NEW o, NEW p, f # "observed_event", g # "observed_event",
         \A n \in DOMAIN c :
           /\ OwnedBy(c[n].inputs, o) = OwnedBy(c[n].inputs, p)
           /\ OwnedBy(c[n].outputs, o) = OwnedBy(c[n].outputs, p)
           /\ \A i \in DOMAIN c[n].inputs : c[n].inputs[i][f] = c[n].inputs[i][g]
           /\ \A i \in DOMAIN c[n].outputs : c[n].outputs[i][f] = c[n].outputs[i][g]
  PROVE  liquidity_series(c, f, o) = liquidity_series(c, g, p)
  <1>1. \A n \in DOMAIN c : Entering(c[n], f, o) = Entering(c[n], g, p)
    <2> TAKE n \in DOMAIN c
    <2>1. OwnedBy(c[n].inputs, p) \in SUBSET DOMAIN c[n].inputs
      BY DEF OwnedBy
    <2> QED
      BY <2>1 DEF Entering
  <1>2. \A n \in DOMAIN c : \A events : OutputsOf(c[n], f, o, events) = OutputsOf(c[n], g, p, events)
    <2> TAKE n \in DOMAIN c
    <2>1. OwnedBy(c[n].outputs, p) \in SUBSET DOMAIN c[n].outputs
      BY DEF OwnedBy
    <2> QED
      BY <2>1 DEF OutputsOf
  <1>3. \A n \in DOMAIN c : Slow(c[n], f, o) = Slow(c[n], g, p)
    BY <1>2 DEF Slow
  <1>4. \A n \in DOMAIN c : StillUnmoved(c, f, o, n) = StillUnmoved(c, g, p, n)
    <2> TAKE n \in DOMAIN c
    <2>1. \A x \in PoolPlaces(c) : x[1] \in DOMAIN c
      BY PlacesTyped
    <2>2. ASSUME NEW x \in PoolPlaces(c)
          PROVE  \A k \in (x[1] + 1)..n : k \in DOMAIN c
      <3>1. x[1] \in 1..Len(c) /\ n \in 1..Len(c) /\ Len(c) \in Nat /\ DOMAIN c = 1..Len(c)
        BY <2>1 DEF CoinsTyped
      <3> QED
        BY <3>1
    <2> QED
      BY <1>3, <2>1, <2>2 DEF StillUnmoved
  <1>5. EnterOf(c, f, o) = EnterOf(c, g, p)
    BY <1>1 DEF EnterOf
  <1>6. LeaveOf(c, f, o) = LeaveOf(c, g, p) /\ FastOf(c, f, o) = FastOf(c, g, p) /\ StayOf(c, f, o) = StayOf(c, g, p)
    BY <1>2 DEF LeaveOf, FastOf, StayOf
  <1>7. StepOf(c, f, o) = StepOf(c, g, p) /\ FastStepOf(c, f, o) = FastStepOf(c, g, p)
    BY <1>5, <1>6 DEF StepOf, FastStepOf
  <1>8. UnmovedOf(c, f, o) = UnmovedOf(c, g, p)
    BY <1>4 DEF UnmovedOf
  <1> QED
    BY <1>5, <1>6, <1>7, <1>8, SeriesIs

-----------------------------------------------------------------------------
(***************************************************************************)
(* Coins that coinjoins make and spend.                                    *)
(***************************************************************************)
\* A remixed input spends an output of a coinjoin, and an output is remixed if one spends it: one
\* input, of its value and its wallet, as far behind it as its distance says.
CoinsLinked(c) ==
    /\ \A n \in DOMAIN c :
         /\ \A i \in DOMAIN c[n].inputs :
              /\ c[n].inputs[i].event \in {Enter, Remix}
              /\ c[n].inputs[i].event = Remix => \E x \in PoolPlaces(c) : Spends(c, n, i, x)
         /\ \A i \in DOMAIN c[n].outputs : c[n].outputs[i].event \in {Stay, Remix, Leave}
    /\ \A x, y \in PoolPlaces(c) : OutputAt(c, x).outpoint = OutputAt(c, y).outpoint => x = y
    /\ \A x \in PoolPlaces(c) :
         /\ OutputAt(c, x).event = Remix => \E k \in DOMAIN c : \E j \in DOMAIN c[k].inputs : Spends(c, k, j, x)
         /\ OutputAt(c, x).event = Stay => OutputAt(c, x).distance = None
         /\ \A k \in DOMAIN c : \A j \in DOMAIN c[k].inputs : Spends(c, k, j, x) =>
              /\ c[k].inputs[j].event = Remix /\ OutputAt(c, x).event = Remix
              /\ ValueOf(c[k].inputs[j]) = ValueOf(OutputAt(c, x))
              /\ c[k].inputs[j].wallet = OutputAt(c, x).wallet
              /\ OutputAt(c, x).distance = k - x[1] - 1
              /\ \A l \in DOMAIN c : \A i \in DOMAIN c[l].inputs : Spends(c, l, i, x) => l = k /\ i = j

\* Everyone owns every coin.
LEMMA OwnedByEveryone ==
  ASSUME NEW c, CoinsTyped(c), NEW n \in DOMAIN c
  PROVE  OwnedBy(c[n].inputs, Everyone) = DOMAIN c[n].inputs /\ OwnedBy(c[n].outputs, Everyone) = DOMAIN c[n].outputs
  BY DEF CoinsTyped, OwnedBy

\* The slow outputs of a coinjoin.
LEMMA SlowIs ==
  ASSUME NEW c, CoinsTyped(c), NEW n \in DOMAIN c
  PROVE  Slow(c[n], "event", Everyone)
           = {i \in DOMAIN c[n].outputs : c[n].outputs[i].event \in {Stay, Remix} /\ ~is_fast(c[n].outputs[i])}
  BY OwnedByEveryone DEF Slow, OutputsOf, Fast

\* What is unmoved in the end is what stays.
LEMMA UnmovedStays ==
  ASSUME NEW c, CoinsTyped(c), CoinsLinked(c)
  PROVE  StillUnmoved(c, "event", Everyone, Len(c)) = {x \in PoolPlaces(c) : OutputAt(c, x).event = Stay}
  <1> DEFINE N == Len(c)
  <1>1. N \in Nat /\ DOMAIN c = 1..N
    BY DEF CoinsTyped
  <1>2. \A x \in PoolPlaces(c) : x[1] \in DOMAIN c /\ x[2] \in DOMAIN c[x[1]].outputs /\ OutputAt(c, x) = c[x[1]].outputs[x[2]]
    BY PlacesTyped DEF OutputAt
  <1>3. \A x \in PoolPlaces(c) : x[2] \in Slow(c[x[1]], "event", Everyone)
                                   <=> OutputAt(c, x).event \in {Stay, Remix} /\ ~is_fast(OutputAt(c, x))
    BY <1>2, SlowIs
  <1>4. ASSUME NEW x \in PoolPlaces(c), OutputAt(c, x).event = Stay
        PROVE  x \in StillUnmoved(c, "event", Everyone, N)
    <2>1. ~is_fast(OutputAt(c, x))
      BY <1>4 DEF is_fast, CoinsLinked
    <2>2. x[1] <= N
      BY <1>1, <1>2
    <2>3. ASSUME NEW k \in (x[1] + 1)..N, NEW i \in OwnedBy(c[k].inputs, Everyone), Spends(c, k, i, x)
          PROVE  FALSE
      <3>1. k \in DOMAIN c
        BY <1>1, <1>2
      <3>2. i \in DOMAIN c[k].inputs
        BY <3>1, OwnedByEveryone
      <3>3. OutputAt(c, x).event = Remix
        BY <2>3, <3>1, <3>2 DEF CoinsLinked
      <3> QED
        BY <1>4, <3>3 DEF Stay, Remix
    <2> QED
      BY <1>3, <1>4, <2>1, <2>2, <2>3 DEF StillUnmoved
  <1>5. ASSUME NEW x \in StillUnmoved(c, "event", Everyone, N)
        PROVE  OutputAt(c, x).event = Stay
    <2>1. /\ x \in PoolPlaces(c) /\ x[2] \in Slow(c[x[1]], "event", Everyone)
          /\ \A k \in (x[1] + 1)..N : \A i \in OwnedBy(c[k].inputs, Everyone) : ~Spends(c, k, i, x)
      BY DEF StillUnmoved
    <2>2. OutputAt(c, x).event \in {Stay, Remix} /\ ~is_fast(OutputAt(c, x))
      BY <1>3, <2>1
    <2> SUFFICES ASSUME OutputAt(c, x).event = Remix
                 PROVE  FALSE
      BY <2>2
    <2>3. PICK k \in DOMAIN c : \E j \in DOMAIN c[k].inputs : Spends(c, k, j, x)
      BY <2>1 DEF CoinsLinked
    <2>4. PICK j \in DOMAIN c[k].inputs : Spends(c, k, j, x)
      BY <2>3
    <2>5. OutputAt(c, x).distance = k - x[1] - 1
      BY <2>1, <2>4 DEF CoinsLinked
    <2>6. k \in 1..N /\ x[1] \in 1..N
      BY <1>1, <1>2, <2>1
    <2>7. ~(k \in (x[1] + 1)..N)
      BY <2>1, <2>4, OwnedByEveryone
    <2>8. k - x[1] - 1 \in Int /\ k - x[1] - 1 < 0
      BY <1>1, <2>6, <2>7
    <2>9. OutputAt(c, x).distance # None /\ OutputAt(c, x).distance < WindowCoinjoins
      BY <2>5, <2>8, NoneAssumption, LiquidityAssumption
    <2> QED
      BY <2>2, <2>9 DEF is_fast
  <1>6. StillUnmoved(c, "event", Everyone, N) \in SUBSET PoolPlaces(c)
    BY DEF StillUnmoved
  <1> QED
    BY <1>4, <1>5, <1>6

\* Some outputs of each coinjoin are worth, coinjoin by coinjoin, what their places are worth.
LEMMA SumsByCoinjoin ==
  ASSUME NEW c, CoinsTyped(c), NEW sel, \A n \in DOMAIN c : sel[n] \in SUBSET DOMAIN c[n].outputs,
         NEW col, \A n \in DOMAIN c : col[n] = Worth(c[n].outputs, sel[n])
  PROVE  SumOf(col, DOMAIN c) = SumOf(PlaceValues(c), {x \in PoolPlaces(c) : x[2] \in sel[x[1]]})
  <1> DEFINE X == {x \in PoolPlaces(c) : x[2] \in sel[x[1]]}
             part == [n \in DOMAIN c |-> {n} \X sel[n]]
             V == PlaceValues(c)
  <1>1. IsFiniteSet(DOMAIN c)
    <2>1. Len(c) \in Nat /\ DOMAIN c = 1..Len(c)
      BY DEF CoinsTyped
    <2>2. 1 \in Int /\ Len(c) \in Int
      BY <2>1
    <2>3. IsFiniteSet(1..Len(c))
      BY <2>2, FS_Interval
    <2> QED
      BY <2>1, <2>3
  <1>2. /\ IsFiniteSet(PoolPlaces(c)) /\ \A x \in PoolPlaces(c) : V[x] \in Int
        /\ \A x \in PoolPlaces(c) : x[1] \in DOMAIN c /\ x[2] \in DOMAIN c[x[1]].outputs /\ x = <<x[1], x[2]>>
        /\ \A m \in DOMAIN c : \A i \in DOMAIN c[m].outputs : <<m, i>> \in PoolPlaces(c)
    BY PlacesTyped
  <1>3. X = UNION {part[n] : n \in DOMAIN c}
    <2>1. \A x \in X : x \in part[x[1]] /\ x[1] \in DOMAIN c
      BY <1>2
    <2>2. ASSUME NEW n \in DOMAIN c, NEW x \in part[n]
          PROVE  x \in X
      <3>1. x[1] = n /\ x[2] \in sel[n] /\ x = <<n, x[2]>>
        OBVIOUS
      <3>2. x[2] \in DOMAIN c[n].outputs
        BY <3>1
      <3>3. x \in PoolPlaces(c)
        BY <1>2, <3>1, <3>2
      <3> QED
        BY <3>1, <3>3
    <2> HIDE DEF part, X
    <2> QED
      BY <2>1, <2>2
  <1>4. \A n \in DOMAIN c : col[n] = SumOf(V, part[n]) /\ part[n] \in SUBSET PoolPlaces(c)
    <2> TAKE n \in DOMAIN c
    <2> DEFINE A == sel[n]
    <2>1. A \in SUBSET DOMAIN c[n].outputs /\ col[n] = Worth(c[n].outputs, A)
      OBVIOUS
    <2>2. part[n] = {n} \X A
      OBVIOUS
    <2> HIDE DEF A, part
    <2>3. /\ {n} \X A \in SUBSET PoolPlaces(c)
          /\ SumOf(V, {n} \X A) = Worth(c[n].outputs, A)
      BY <2>1, PlacesOfOne
    <2> QED
      BY <2>1, <2>2, <2>3
  <1>5. \A m, n \in DOMAIN c : m # n => part[m] \cap part[n] = {}
    OBVIOUS
  <1> HIDE DEF part, V, X
  <1> DEFINE P == PoolPlaces(c)
             K == DOMAIN c
  <1>6. \A n \in K : part[n] \in SUBSET P
    BY <1>4
  <1>7. \A n \in K : col[n] = SumOf(V, part[n])
    BY <1>4
  <1>8. IsFiniteSet(P) /\ \A x \in P : V[x] \in Int
    BY <1>2
  <1>9. IsFiniteSet(K) /\ \A m, n \in K : m # n => part[m] \cap part[n] = {}
    BY <1>1, <1>5
  <1>10. SumOf(V, UNION {part[n] : n \in K}) = SumOf(col, K)
    <2> HIDE DEF P, K
    <2> QED
      BY <1>6, <1>7, <1>8, <1>9, SumsByParts
  <1> QED
    BY <1>3, <1>10 DEF X, V

\* And it is worth what stays in each coinjoin, together.
LEMMA UnmovedIsWhatStays ==
  ASSUME NEW c, CoinsTyped(c), CoinsLinked(c), Len(c) # 0
  PROVE  UnmovedOf(c, "event", Everyone)[Len(c)] = SumOf(StayOf(c, "event", Everyone), DOMAIN c)
  <1> DEFINE X == {x \in PoolPlaces(c) : OutputAt(c, x).event = Stay}
             U == StillUnmoved(c, "event", Everyone, Len(c))
             sel == [n \in DOMAIN c |-> OutputsOf(c[n], "event", Everyone, {Stay})]
             stay == StayOf(c, "event", Everyone)
  <1>1. Len(c) \in DOMAIN c
    BY DEF CoinsTyped
  <1>2. UnmovedOf(c, "event", Everyone)[Len(c)] = SumOf(PlaceValues(c), U)
    BY <1>1, ColumnsTyped
  <1>3. U = X
    BY UnmovedStays
  <1>4. \A n \in DOMAIN c : sel[n] = {i \in DOMAIN c[n].outputs : c[n].outputs[i].event = Stay}
    BY OwnedByEveryone DEF OutputsOf
  <1>5. \A n \in DOMAIN c : sel[n] \in SUBSET DOMAIN c[n].outputs
    BY <1>4
  <1>6. \A n \in DOMAIN c : stay[n] = Worth(c[n].outputs, sel[n])
    BY DEF StayOf
  <1>7. \A x \in PoolPlaces(c) : x[1] \in DOMAIN c /\ x[2] \in DOMAIN c[x[1]].outputs
    BY PlacesTyped
  <1> HIDE DEF sel
  <1>8. X = {x \in PoolPlaces(c) : x[2] \in sel[x[1]]}
    BY <1>4, <1>7 DEF OutputAt
  <1> HIDE DEF U, X, stay
  <1>9. SumOf(stay, DOMAIN c) = SumOf(PlaceValues(c), {x \in PoolPlaces(c) : x[2] \in sel[x[1]]})
    BY <1>5, <1>6, SumsByCoinjoin
  <1> QED
    BY <1>2, <1>3, <1>8, <1>9 DEF stay

-----------------------------------------------------------------------------
(***************************************************************************)
(* The pool conserves value.                                               *)
(***************************************************************************)
\* What is in the mix after some coinjoins, if coins are spent after they are made.
KeptAt(c, n) ==
    {x \in PoolPlaces(c) : /\ x[1] <= n /\ OutputAt(c, x).event \in {Stay, Remix}
                           /\ \A k \in 1..n : \A j \in DOMAIN c[k].inputs : ~Spends(c, k, j, x)}
FeeOf(c) == [n \in DOMAIN c |-> TotalValue(c[n].inputs) - TotalValue(c[n].outputs)]
Forward(c) == \A x \in PoolPlaces(c) : \A k \in DOMAIN c : \A j \in DOMAIN c[k].inputs : Spends(c, k, j, x) => x[1] < k

\* What is in the mix loses what the next coinjoin spends and gains what it keeps.
KeepSet(c, n) == {i \in DOMAIN c[n].outputs : c[n].outputs[i].event \in {Stay, Remix}}
RemixSet(c, n) == {i \in DOMAIN c[n].inputs : c[n].inputs[i].event = Remix}
SourceOf(c, n) == [i \in RemixSet(c, n) |-> CHOOSE x \in PoolPlaces(c) : Spends(c, n, i, x)]
SpentBy(c, n) == {SourceOf(c, n)[i] : i \in RemixSet(c, n)}

\* An input that remixes spends one place, and inputs that do spend different ones.
LEMMA SourcesAre ==
  ASSUME NEW c, CoinsTyped(c), CoinsLinked(c), NEW n \in DOMAIN c
  PROVE  /\ \A i \in RemixSet(c, n) : SourceOf(c, n)[i] \in PoolPlaces(c) /\ Spends(c, n, i, SourceOf(c, n)[i])
         /\ \A i, j \in RemixSet(c, n) : SourceOf(c, n)[i] = SourceOf(c, n)[j] => i = j
         /\ \A x \in PoolPlaces(c) : \A j \in DOMAIN c[n].inputs :
              Spends(c, n, j, x) => j \in RemixSet(c, n) /\ SourceOf(c, n)[j] = x
  <1> DEFINE src == SourceOf(c, n)
  <1>1. ASSUME NEW i \in RemixSet(c, n)
        PROVE  src[i] \in PoolPlaces(c) /\ Spends(c, n, i, src[i])
    <2>1. \E x \in PoolPlaces(c) : Spends(c, n, i, x)
      BY DEF RemixSet, CoinsLinked
    <2>2. src[i] = CHOOSE x \in PoolPlaces(c) : Spends(c, n, i, x)
      BY DEF SourceOf
    <2> QED
      BY <2>1, <2>2
  <1>2. ASSUME NEW i \in RemixSet(c, n), NEW j \in RemixSet(c, n), src[i] = src[j]
        PROVE  i = j
    <2>1. i \in DOMAIN c[n].inputs /\ j \in DOMAIN c[n].inputs
      BY DEF RemixSet
    <2>2. src[i] \in PoolPlaces(c) /\ Spends(c, n, i, src[i]) /\ Spends(c, n, j, src[i])
      BY <1>1, <1>2
    <2> HIDE DEF src
    <2> QED
      BY <2>1, <2>2 DEF CoinsLinked
  <1>3. ASSUME NEW x \in PoolPlaces(c), NEW j \in DOMAIN c[n].inputs, Spends(c, n, j, x)
        PROVE  j \in RemixSet(c, n) /\ src[j] = x
    <2>1. j \in RemixSet(c, n)
      BY <1>3 DEF CoinsLinked, RemixSet
    <2>2. src[j] \in PoolPlaces(c) /\ Spends(c, n, j, src[j])
      BY <1>1, <2>1
    <2>3. OutputAt(c, src[j]).outpoint = OutputAt(c, x).outpoint
      BY <1>3, <2>2 DEF Spends
    <2> HIDE DEF src
    <2>4. src[j] = x
      BY <2>2, <2>3 DEF CoinsLinked
    <2> QED
      BY <2>1, <2>4
  <1> QED
    BY <1>1, <1>2, <1>3

\* How the mix changes.
LEMMA KeptChanges ==
  ASSUME NEW c, CoinsTyped(c), CoinsLinked(c), Forward(c), NEW n \in DOMAIN c
  PROVE  /\ KeptAt(c, 0) = {}
         /\ SpentBy(c, n) \in SUBSET KeptAt(c, n - 1)
         /\ KeptAt(c, n) = (KeptAt(c, n - 1) \ SpentBy(c, n)) \cup ({n} \X KeepSet(c, n))
         /\ (KeptAt(c, n - 1) \ SpentBy(c, n)) \cap ({n} \X KeepSet(c, n)) = {}
  <1> DEFINE N == Len(c)
             src == SourceOf(c, n)
             new == {n} \X KeepSet(c, n)
  <1>1. N \in Nat /\ DOMAIN c = 1..N /\ n \in 1..N
    BY DEF CoinsTyped
  <1>2. \A x \in PoolPlaces(c) : x[1] \in 1..N /\ x[2] \in DOMAIN c[x[1]].outputs /\ x = <<x[1], x[2]>>
                                 /\ OutputAt(c, x) = c[x[1]].outputs[x[2]]
    BY <1>1, PlacesTyped DEF OutputAt
  <1>3. \A x \in new : /\ x \in PoolPlaces(c) /\ x[1] = n /\ OutputAt(c, x).event \in {Stay, Remix}
    <2> TAKE x \in new
    <2>1. x[1] = n /\ x[2] \in KeepSet(c, n) /\ x = <<n, x[2]>>
      OBVIOUS
    <2>2. x[2] \in DOMAIN c[n].outputs /\ c[n].outputs[x[2]].event \in {Stay, Remix}
      BY <2>1 DEF KeepSet
    <2>3. <<n, x[2]>> \in PoolPlaces(c)
      BY <2>2, PlacesTyped
    <2> QED
      BY <2>1, <2>2, <2>3 DEF OutputAt
  <1>4. \A x \in PoolPlaces(c) : x[1] = n /\ OutputAt(c, x).event \in {Stay, Remix} => x \in new
    BY <1>2 DEF KeepSet
  <1>5. KeptAt(c, 0) = {}
    BY <1>2 DEF KeptAt
  <1>6. \A k \in 1..N : \A x \in PoolPlaces(c) : \A j \in DOMAIN c[k].inputs : Spends(c, k, j, x) => x[1] < k
    BY <1>1 DEF Forward
  <1>7. ASSUME NEW x \in SpentBy(c, n)
        PROVE  x \in KeptAt(c, n - 1)
    <2>1. PICK i \in RemixSet(c, n) : x = src[i]
      BY DEF SpentBy
    <2>2. x \in PoolPlaces(c) /\ Spends(c, n, i, x) /\ i \in DOMAIN c[n].inputs
      BY <2>1, SourcesAre DEF RemixSet
    <2>3. OutputAt(c, x).event \in {Stay, Remix}
      BY <2>2 DEF CoinsLinked
    <2>4. x[1] <= n - 1
      BY <1>1, <1>2, <1>6, <2>2
    <2>5. ASSUME NEW k \in 1..(n - 1), NEW j \in DOMAIN c[k].inputs, Spends(c, k, j, x)
          PROVE  FALSE
      <3>1. k \in DOMAIN c /\ k # n
        BY <1>1
      <3>2. k = n
        BY <2>2, <2>5, <3>1 DEF CoinsLinked
      <3> QED
        BY <3>1, <3>2
    <2> QED
      BY <2>2, <2>3, <2>4, <2>5 DEF KeptAt
  <1>8. ASSUME NEW x \in KeptAt(c, n)
        PROVE  x \in (KeptAt(c, n - 1) \ SpentBy(c, n)) \cup new
    <2>1. /\ x \in PoolPlaces(c) /\ x[1] <= n /\ OutputAt(c, x).event \in {Stay, Remix}
          /\ \A k \in 1..n : \A j \in DOMAIN c[k].inputs : ~Spends(c, k, j, x)
      BY DEF KeptAt
    <2>2. CASE x[1] = n
      BY <1>4, <2>1, <2>2
    <2>3. CASE x[1] # n
      <3>1. x[1] <= n - 1 /\ n \in 1..n /\ 1..(n - 1) \subseteq 1..n
        BY <1>1, <1>2, <2>1, <2>3
      <3>2. x \in KeptAt(c, n - 1)
        BY <2>1, <3>1 DEF KeptAt
      <3>3. ASSUME x \in SpentBy(c, n)
            PROVE  FALSE
        <4>1. PICK i \in RemixSet(c, n) : x = src[i]
          BY <3>3 DEF SpentBy
        <4>2. Spends(c, n, i, x) /\ i \in DOMAIN c[n].inputs
          BY <4>1, SourcesAre DEF RemixSet
        <4> QED
          BY <2>1, <3>1, <4>2
      <3> QED
        BY <3>2, <3>3
    <2> QED
      BY <2>2, <2>3
  <1>9. ASSUME NEW x \in KeptAt(c, n - 1), x \notin SpentBy(c, n)
        PROVE  x \in KeptAt(c, n)
    <2>1. /\ x \in PoolPlaces(c) /\ x[1] <= n - 1 /\ OutputAt(c, x).event \in {Stay, Remix}
          /\ \A k \in 1..(n - 1) : \A j \in DOMAIN c[k].inputs : ~Spends(c, k, j, x)
      BY DEF KeptAt
    <2>2. x[1] <= n /\ \A k \in 1..n : k = n \/ k \in 1..(n - 1)
      BY <1>1, <1>2, <2>1
    <2>3. ASSUME NEW j \in DOMAIN c[n].inputs, Spends(c, n, j, x)
          PROVE  FALSE
      <3>1. j \in RemixSet(c, n) /\ src[j] = x
        BY <2>1, <2>3, SourcesAre
      <3> QED
        BY <1>9, <3>1 DEF SpentBy
    <2> QED
      BY <2>1, <2>2, <2>3 DEF KeptAt
  <1>10. ASSUME NEW x \in new
         PROVE  x \in KeptAt(c, n) /\ x \notin KeptAt(c, n - 1)
    <2>1. x \in PoolPlaces(c) /\ x[1] = n /\ OutputAt(c, x).event \in {Stay, Remix}
      BY <1>3
    <2>2. ASSUME NEW k \in 1..n, NEW j \in DOMAIN c[k].inputs, Spends(c, k, j, x)
          PROVE  FALSE
      <3>1. k \in 1..N
        BY <1>1
      <3>2. n < k
        BY <1>6, <2>1, <2>2, <3>1
      <3> QED
        BY <1>1, <3>2
    <2>3. x \in KeptAt(c, n)
      BY <1>1, <2>1, <2>2 DEF KeptAt
    <2>4. x \notin KeptAt(c, n - 1)
      BY <1>1, <2>1 DEF KeptAt
    <2> QED
      BY <2>3, <2>4
  <1> HIDE DEF new
  <1>11. SpentBy(c, n) \in SUBSET KeptAt(c, n - 1)
    BY <1>7
  <1>12. KeptAt(c, n) = (KeptAt(c, n - 1) \ SpentBy(c, n)) \cup new
    BY <1>8, <1>9, <1>10
  <1>13. (KeptAt(c, n - 1) \ SpentBy(c, n)) \cap new = {}
    BY <1>10
  <1> QED
    BY <1>5, <1>11, <1>12, <1>13 DEF new

\* What one coinjoin takes in and lets out is its fee, what it keeps, and what it no longer does.
LEMMA StepIs ==
  ASSUME NEW c, CoinsTyped(c), CoinsLinked(c), NEW n \in DOMAIN c
  PROVE  /\ FeeOf(c)[n] \in Int
         /\ StepOf(c, "event", Everyone)[n]
              = FeeOf(c)[n] + SumOf(PlaceValues(c), {n} \X KeepSet(c, n)) - SumOf(PlaceValues(c), SpentBy(c, n))
         /\ SumOf(PlaceValues(c), {n} \X KeepSet(c, n)) \in Int
         /\ SumOf(PlaceValues(c), SpentBy(c, n)) \in Int
  <1> DEFINE ins == c[n].inputs
             outs == c[n].outputs
             V == PlaceValues(c)
             entering == Entering(c[n], "event", Everyone)
             leaving == OutputsOf(c[n], "event", Everyone, {Leave})
             src == SourceOf(c, n)
             remixed == RemixSet(c, n)
             keep == KeepSet(c, n)
  <1>1. /\ entering = {i \in DOMAIN ins : ins[i].event = Enter}
        /\ leaving = {i \in DOMAIN outs : outs[i].event = Leave}
    BY OwnedByEveryone DEF Entering, OutputsOf
  <1>2. /\ entering \in SUBSET DOMAIN ins /\ remixed = DOMAIN ins \ entering
        /\ leaving \in SUBSET DOMAIN outs /\ keep = DOMAIN outs \ leaving
    <2>1. /\ \A i \in DOMAIN ins : ins[i].event \in {Enter, Remix}
          /\ \A i \in DOMAIN outs : outs[i].event \in {Stay, Remix, Leave}
      BY DEF CoinsLinked
    <2> HIDE DEF entering, leaving, ins, outs
    <2>2. remixed = {i \in DOMAIN ins : ins[i].event = Remix} /\ keep = {i \in DOMAIN outs : outs[i].event \in {Stay, Remix}}
      BY DEF RemixSet, KeepSet, ins, outs
    <2> HIDE DEF remixed, keep
    <2> QED
      BY <1>1, <2>1, <2>2 DEF Enter, Remix, Stay, Leave
  <1>3. /\ TotalValue(ins) = Worth(ins, DOMAIN ins) /\ TotalValue(outs) = Worth(outs, DOMAIN outs)
    BY DEF TotalValue, Worth
  <1>4. /\ IsFiniteSet(DOMAIN ins) /\ \A i \in DOMAIN ins : ValuesIn(ins)[i] \in Int
        /\ IsFiniteSet(DOMAIN outs) /\ \A i \in DOMAIN outs : ValuesIn(outs)[i] \in Int
    BY DEF CoinsTyped, ValuesIn
  <1>5. /\ FeeOf(c)[n] = TotalValue(ins) - TotalValue(outs)
        /\ StepOf(c, "event", Everyone)[n] = Worth(ins, entering) - Worth(outs, leaving)
    BY DEF FeeOf, StepOf, EnterOf, LeaveOf
  <1>6. /\ Worth(outs, keep) = SumOf(V, {n} \X keep)
        /\ \A A \in SUBSET DOMAIN outs : Worth(outs, A) \in Nat
    <2> HIDE DEF keep, V
    <2>1. \A A \in SUBSET DOMAIN outs : SumOf(PlaceValues(c), {n} \X A) = Worth(outs, A) /\ Worth(outs, A) \in Nat
      BY PlacesOfOne
    <2> QED
      BY <1>2, <2>1 DEF V
  <1>7. \A A \in SUBSET DOMAIN ins : Worth(ins, A) \in Nat
    BY InputsWorth
  <1>8. Worth(ins, remixed) = SumOf(V, SpentBy(c, n))
    <2>1. \A i \in remixed : i \in DOMAIN ins /\ src[i] \in PoolPlaces(c) /\ Spends(c, n, i, src[i])
      BY SourcesAre DEF RemixSet
    <2>2. \A i \in remixed : ValuesIn(ins)[i] \in Int /\ V[src[i]] = ValuesIn(ins)[i]
      <3> TAKE i \in remixed
      <3>1. ValueOf(ins[i]) = ValueOf(OutputAt(c, src[i]))
        BY <2>1 DEF CoinsLinked
      <3>2. V[src[i]] = ValueOf(OutputAt(c, src[i]))
        BY <2>1, PlacesTyped
      <3> QED
        BY <1>4, <2>1, <3>1, <3>2 DEF ValuesIn
    <2>3. \A i, j \in remixed : src[i] = src[j] => i = j
      BY SourcesAre
    <2>4. IsFiniteSet(remixed)
      BY <1>2, <1>4, FS_Subset
    <2> DEFINE values == ValuesIn(ins)
    <2>5. SumOf(values, remixed) = SumOf(V, {src[i] : i \in remixed})
      <3> HIDE DEF values, src, remixed, V
      <3> QED
        BY <2>2, <2>3, <2>4, SumsMoved DEF values
    <2>6. Worth(ins, remixed) = SumOf(values, remixed)
      <3>1. remixed \in SUBSET DOMAIN ins
        BY <1>2
      <3> QED
        BY <3>1, WorthIs
    <2> QED
      BY <2>5, <2>6 DEF SpentBy
  <1>9. Worth(ins, DOMAIN ins) = Worth(ins, entering) + Worth(ins, remixed)
    <2>1. SumOf(ValuesIn(ins), DOMAIN ins)
            = SumOf(ValuesIn(ins), entering) + SumOf(ValuesIn(ins), DOMAIN ins \ entering)
      <3> HIDE DEF entering, ins
      <3> QED
        BY <1>2, <1>4, SumsSplit
    <2>2. \A A \in SUBSET DOMAIN ins : Worth(ins, A) = SumOf(ValuesIn(ins), A)
      BY WorthIs
    <2> HIDE DEF entering, remixed, ins
    <2> QED
      BY <1>2, <2>1, <2>2
  <1>10. Worth(outs, DOMAIN outs) = Worth(outs, leaving) + Worth(outs, keep)
    <2>1. SumOf(ValuesIn(outs), DOMAIN outs)
            = SumOf(ValuesIn(outs), leaving) + SumOf(ValuesIn(outs), DOMAIN outs \ leaving)
      <3> HIDE DEF leaving, outs
      <3> QED
        BY <1>2, <1>4, SumsSplit
    <2>2. \A A \in SUBSET DOMAIN outs : Worth(outs, A) = SumOf(ValuesIn(outs), A)
      BY WorthIs
    <2> HIDE DEF leaving, keep, outs
    <2> QED
      BY <1>2, <2>1, <2>2
  <1>11. /\ Worth(ins, entering) \in Nat /\ Worth(ins, remixed) \in Nat
         /\ Worth(outs, leaving) \in Nat /\ Worth(outs, keep) \in Nat
    <2> HIDE DEF entering, leaving, remixed, keep, ins, outs
    <2> QED
      BY <1>2, <1>6, <1>7
  <1> HIDE DEF entering, leaving, remixed, keep, ins, outs, V
  <1> DEFINE fee == FeeOf(c)[n]
             step == StepOf(c, "event", Everyone)[n]
             spent == TotalValue(ins)
             made == TotalValue(outs)
             e == Worth(ins, entering)
             r == Worth(ins, remixed)
             l == Worth(outs, leaving)
             k == Worth(outs, keep)
  <1>12. fee = spent - made /\ step = e - l
    BY <1>5
  <1>13. spent = e + r /\ made = l + k
    BY <1>3, <1>9, <1>10
  <1>14. e \in Nat /\ r \in Nat /\ l \in Nat /\ k \in Nat
    BY <1>11
  <1>15. k = SumOf(V, {n} \X keep) /\ r = SumOf(V, SpentBy(c, n))
    BY <1>6, <1>8
  <1> HIDE DEF fee, step, spent, made, e, r, l, k
  <1>16. fee \in Int /\ step = fee + k - r /\ k \in Int /\ r \in Int
    BY <1>12, <1>13, <1>14
  <1>17. /\ fee \in Int
         /\ step = fee + SumOf(V, {n} \X keep) - SumOf(V, SpentBy(c, n))
         /\ SumOf(V, {n} \X keep) \in Int /\ SumOf(V, SpentBy(c, n)) \in Int
    BY <1>15, <1>16
  <1> QED
    BY <1>17 DEF V, keep, fee, step

\* What was in the mix is there, or was paid as a fee, or has left.
LEMMA MixConserves ==
  ASSUME NEW c, CoinsTyped(c), CoinsLinked(c), Forward(c)
  PROVE  \A n \in 0..Len(c) :
           SumOf(StepOf(c, "event", Everyone), 1..n) = SumOf(FeeOf(c), 1..n) + SumOf(PlaceValues(c), KeptAt(c, n))
  <1> DEFINE N == Len(c)
             V == PlaceValues(c)
             step == StepOf(c, "event", Everyone)
             fee == FeeOf(c)
             kept(n) == SumOf(V, KeptAt(c, n))
             S == {n \in 0..N : SumOf(step, 1..n) = SumOf(fee, 1..n) + kept(n)}
  <1>1. N \in Nat /\ DOMAIN c = 1..N /\ DOMAIN step = 1..N /\ DOMAIN fee = 1..N
    BY DEF CoinsTyped, StepOf, FeeOf
  <1>2. \A n \in 1..N : /\ fee[n] \in Int
                        /\ step[n] = fee[n] + SumOf(V, {n} \X KeepSet(c, n)) - SumOf(V, SpentBy(c, n))
                        /\ SumOf(V, {n} \X KeepSet(c, n)) \in Int /\ SumOf(V, SpentBy(c, n)) \in Int
    BY <1>1, StepIs
  <1>3. IsFiniteSet(PoolPlaces(c)) /\ \A x \in PoolPlaces(c) : V[x] \in Int
    BY PlacesTyped
  <1>4. \A X \in SUBSET PoolPlaces(c) : IsFiniteSet(X) /\ (\A x \in X : V[x] \in Int) /\ SumOf(V, X) \in Int
    <2> TAKE X \in SUBSET PoolPlaces(c)
    <2>1. IsFiniteSet(X) /\ \A x \in X : V[x] \in Int
      BY <1>3, FS_Subset
    <2> HIDE DEF V
    <2> QED
      BY <2>1, IntSums
  <1>5. \A n \in 0..N : KeptAt(c, n) \in SUBSET PoolPlaces(c)
    BY DEF KeptAt
  <1>6. \A n \in 1..N : step[n] \in Int
    <2> TAKE n \in 1..N
    <2> DEFINE a == SumOf(V, {n} \X KeepSet(c, n))
               b == SumOf(V, SpentBy(c, n))
    <2>1. fee[n] \in Int /\ step[n] = fee[n] + a - b /\ a \in Int /\ b \in Int
      BY <1>2
    <2> HIDE DEF a, b, fee, step
    <2> QED
      BY <2>1
  <1> HIDE DEF step, fee
  <1>7. /\ SumOf(step, 1..0) = 0 /\ SumOf(fee, 1..0) = 0
        /\ \A n \in 0..N : SumOf(step, 1..n) \in Int /\ SumOf(fee, 1..n) \in Int
        /\ \A n \in 1..N : /\ SumOf(step, 1..n) = SumOf(step, 1..(n - 1)) + step[n]
                           /\ SumOf(fee, 1..n) = SumOf(fee, 1..(n - 1)) + fee[n]
    <2>1. \A n \in 1..N : fee[n] \in Int
      BY <1>2
    <2>2. /\ SumOf(step, 1..0) = 0 /\ \A n \in 0..N : SumOf(step, 1..n) \in Int
          /\ \A n \in 1..N : SumOf(step, 1..n) = SumOf(step, 1..(n - 1)) + step[n]
      BY <1>1, <1>6, RunningIs
    <2>3. /\ SumOf(fee, 1..0) = 0 /\ \A n \in 0..N : SumOf(fee, 1..n) \in Int
          /\ \A n \in 1..N : SumOf(fee, 1..n) = SumOf(fee, 1..(n - 1)) + fee[n]
      BY <1>1, <2>1, RunningIs
    <2> QED
      BY <2>2, <2>3
  <1>8. ASSUME NEW n \in 1..N
        PROVE  kept(n) = kept(n - 1) - SumOf(V, SpentBy(c, n)) + SumOf(V, {n} \X KeepSet(c, n))
    <2> DEFINE A == KeptAt(c, n - 1)
               B == SpentBy(c, n)
               C == {n} \X KeepSet(c, n)
               K == KeptAt(c, n)
    <2>1. B \in SUBSET A /\ K = (A \ B) \cup C /\ (A \ B) \cap C = {}
      BY <1>1, KeptChanges
    <2>2. A \in SUBSET PoolPlaces(c) /\ K \in SUBSET PoolPlaces(c)
      <3>1. n - 1 \in 0..N /\ n \in 0..N
        OBVIOUS
      <3> QED
        BY <1>5, <3>1
    <2> HIDE DEF A, B, C, K, V
    <2>3. C \in SUBSET K /\ K \ C = A \ B /\ A \ B \in SUBSET PoolPlaces(c) /\ B \in SUBSET PoolPlaces(c) /\ C \in SUBSET PoolPlaces(c)
      BY <2>1, <2>2
    <2>4. SumOf(V, A) = SumOf(V, B) + SumOf(V, A \ B)
      BY <1>4, <2>1, <2>2, SumsSplit
    <2>5. SumOf(V, K) = SumOf(V, C) + SumOf(V, A \ B)
      <3>1. SumOf(V, K) = SumOf(V, C) + SumOf(V, K \ C)
        BY <1>4, <2>2, <2>3, SumsSplit
      <3> QED
        BY <2>3, <3>1
    <2>6. SumOf(V, A) \in Int /\ SumOf(V, B) \in Int /\ SumOf(V, C) \in Int /\ SumOf(V, A \ B) \in Int /\ SumOf(V, K) \in Int
      BY <1>4, <2>2, <2>3
    <2>7. SumOf(V, K) = SumOf(V, A) - SumOf(V, B) + SumOf(V, C)
      BY <2>4, <2>5, <2>6
    <2> QED
      BY <2>7 DEF A, B, C, K
  <1>9. \A n \in 0..N : kept(n) \in Int
    BY <1>4, <1>5
  <1>10. kept(0) = 0
    <2> DEFINE K == KeptAt(c, 0)
    <2>1. \A x \in PoolPlaces(c) : x[1] \in 1..N
      BY <1>1, PlacesTyped
    <2>2. K = {}
      BY <2>1 DEF KeptAt
    <2>3. IsFiniteSet(K) /\ \A x \in K : V[x] \in Int
      BY <2>2, FS_EmptySet
    <2> HIDE DEF K, V
    <2>4. SumOf(V, K) = 0
      BY <2>2, <2>3, IntSums
    <2> QED
      BY <2>4 DEF K, V
  <1>11. 0 \in S
    BY <1>1, <1>7, <1>10
  <1>12. ASSUME NEW n \in 0..(N - 1), n \in S
         PROVE  n + 1 \in S
    <2> DEFINE m == n + 1
               a == SumOf(V, {m} \X KeepSet(c, m))
               b == SumOf(V, SpentBy(c, m))
               s == SumOf(step, 1..n)
               f == SumOf(fee, 1..n)
               k == kept(n)
    <2>1. m \in 1..N /\ m - 1 = n /\ n \in 0..N /\ m \in 0..N
      BY <1>1
    <2>2. SumOf(step, 1..m) = s + step[m] /\ SumOf(fee, 1..m) = f + fee[m]
      BY <1>7, <2>1
    <2>3. step[m] = fee[m] + a - b /\ fee[m] \in Int /\ a \in Int /\ b \in Int
      BY <1>2, <2>1
    <2>4. kept(m) = k - b + a
      BY <1>8, <2>1
    <2>5. s \in Int /\ f \in Int /\ k \in Int /\ s = f + k
      <3>1. SumOf(step, 1..n) \in Int /\ SumOf(fee, 1..n) \in Int
        BY <1>7, <2>1
      <3>2. kept(n) \in Int
        BY <1>9, <2>1
      <3>3. SumOf(step, 1..n) = SumOf(fee, 1..n) + kept(n)
        BY <1>12
      <3> QED
        BY <3>1, <3>2, <3>3
    <2> HIDE DEF a, b, s, f, k, kept, m
    <2>6. SumOf(step, 1..m) = SumOf(fee, 1..m) + kept(m)
      BY <2>2, <2>3, <2>4, <2>5
    <2>7. m \in S
      BY <2>1, <2>6
    <2> QED
      BY <2>7 DEF m
  <1>13. \A n \in 0..N : n \in S
    <2> HIDE DEF S
    <2> QED
      BY <1>1, <1>11, <1>12, UpTo
  <1> QED
    BY <1>13 DEF step, fee

\* So the active part of the pool is never negative.
LEMMA PoolIsConserved ==
  ASSUME NEW c, CoinsTyped(c), CoinsLinked(c), Forward(c), \A n \in DOMAIN c : FeeOf(c)[n] >= 0,
         NEW n \in DOMAIN c
  PROVE  LET total == Running(StepOf(c, "event", Everyone))[n]
         IN /\ total = SumOf(FeeOf(c), 1..n) + SumOf(PlaceValues(c), KeptAt(c, n))
            /\ total - UnmovedOf(c, "event", Everyone)[n] >= 0
  <1> DEFINE N == Len(c)
             V == PlaceValues(c)
             step == StepOf(c, "event", Everyone)
             fee == FeeOf(c)
             U == StillUnmoved(c, "event", Everyone, n)
             K == KeptAt(c, n)
  <1>1. N \in Nat /\ DOMAIN c = 1..N /\ DOMAIN step = 1..N /\ n \in 1..N /\ n \in 0..N
    BY DEF CoinsTyped, StepOf
  <1>2. \A k \in 1..N : step[k] \in Int
    <2> TAKE k \in 1..N
    <2>1. k \in DOMAIN c
      BY <1>1
    <2>2. EnterOf(c, "event", Everyone)[k] \in Nat /\ LeaveOf(c, "event", Everyone)[k] \in Nat
      BY <2>1, ColumnsTyped
    <2>3. step[k] = EnterOf(c, "event", Everyone)[k] - LeaveOf(c, "event", Everyone)[k]
      BY <2>1, ColumnsTyped
    <2> HIDE DEF step
    <2> QED
      BY <2>2, <2>3
  <1>3. Running(step)[n] = SumOf(step, 1..n)
    <2> HIDE DEF step
    <2> QED
      BY <1>1, <1>2, RunningIs
  <1>4. SumOf(step, 1..n) = SumOf(fee, 1..n) + SumOf(V, K)
    BY <1>1, MixConserves
  <1>5. SumOf(fee, 1..n) \in Nat
    <2>1. \A k \in 1..n : k \in DOMAIN c
      BY <1>1
    <2>2. \A k \in 1..n : fee[k] \in Int /\ fee[k] >= 0
      BY <2>1, StepIs
    <2>3. IsFiniteSet(1..n)
      <3>1. 1 \in Int /\ n \in Int
        BY <1>1
      <3> QED
        BY <3>1, FS_Interval
    <2> HIDE DEF fee
    <2>4. \A k \in 1..n : fee[k] \in Nat
      BY <2>2
    <2> QED
      BY <2>3, <2>4, Sums
  <1>6. UnmovedOf(c, "event", Everyone)[n] = SumOf(V, U) /\ U \in SUBSET PoolPlaces(c)
    BY ColumnsTyped
  <1>7. U \in SUBSET K
    <2> SUFFICES ASSUME NEW x \in U
                 PROVE  x \in K
      OBVIOUS
    <2>1. /\ x \in PoolPlaces(c) /\ x[1] <= n /\ x[2] \in Slow(c[x[1]], "event", Everyone)
          /\ \A k \in (x[1] + 1)..n : \A i \in OwnedBy(c[k].inputs, Everyone) : ~Spends(c, k, i, x)
      BY DEF StillUnmoved
    <2>2. x[1] \in 1..N
      BY <1>1, <2>1, PlacesTyped
    <2>3. OutputAt(c, x).event \in {Stay, Remix}
      BY <1>1, <2>1, <2>2, SlowIs DEF OutputAt
    <2>4. ASSUME NEW k \in 1..n, NEW j \in DOMAIN c[k].inputs, Spends(c, k, j, x)
          PROVE  FALSE
      <3>1. k \in DOMAIN c
        BY <1>1
      <3>2. x[1] < k
        BY <2>1, <2>4, <3>1 DEF Forward
      <3>3. k \in (x[1] + 1)..n /\ j \in OwnedBy(c[k].inputs, Everyone)
        BY <2>2, <3>1, <3>2, OwnedByEveryone
      <3> QED
        BY <2>1, <2>4, <3>3
    <2> QED
      BY <2>1, <2>3, <2>4 DEF KeptAt
  <1>8. SumOf(V, U) \in Nat /\ SumOf(V, K) \in Nat /\ SumOf(V, U) <= SumOf(V, K)
    <2>1. IsFiniteSet(PoolPlaces(c)) /\ \A x \in PoolPlaces(c) : V[x] \in Nat
      BY PlacesTyped
    <2>2. K \in SUBSET PoolPlaces(c)
      BY DEF KeptAt
    <2> HIDE DEF U, K, V
    <2>3. IsFiniteSet(U) /\ IsFiniteSet(K) /\ (\A x \in U : V[x] \in Nat /\ V[x] <= V[x]) /\ (\A x \in K : V[x] \in Nat)
      BY <1>6, <2>1, <2>2, FS_Subset
    <2>4. SumOf(V, U) \in Nat /\ SumOf(V, K) \in Nat
      BY <2>3, Sums
    <2> QED
      BY <1>7, <2>3, <2>4, SumsLarger
  <1> DEFINE total == Running(step)[n]
             paid == SumOf(fee, 1..n)
             still == UnmovedOf(c, "event", Everyone)[n]
             mix == SumOf(V, K)
  <1>9. total = paid + mix /\ paid \in Nat /\ mix \in Nat /\ still \in Nat /\ still <= mix
    BY <1>3, <1>4, <1>5, <1>6, <1>8
  <1> HIDE DEF total, paid, still, mix
  <1>10. total = paid + mix /\ total - still >= 0
    BY <1>9
  <1> QED
    BY <1>10 DEF total, paid, still, mix

-----------------------------------------------------------------------------
(***************************************************************************)
(* The order of the coinjoins.                                             *)
(***************************************************************************)
LabelledIn(transactions) == {t \in DOMAIN transactions : transactions[t].coinjoin = TRUE}

\* Whatever comes first is decided for every two coinjoins.
LEMMA PrecedesIs ==
  ASSUME NEW transactions, NEW broadcast, NEW S \in SUBSET Int,
         \A t \in S : transactions[t].height \in Amount /\ broadcast[t] \in Amount
  PROVE  /\ \A a \in S : ~Precedes(transactions, broadcast, a, a)
         /\ \A a, b, d \in S : Precedes(transactions, broadcast, a, b) /\ Precedes(transactions, broadcast, b, d)
                                 => Precedes(transactions, broadcast, a, d)
         /\ \A a, b \in S : a = b \/ Precedes(transactions, broadcast, a, b) \/ Precedes(transactions, broadcast, b, a)
  <1> DEFINE h == [t \in S |-> transactions[t].height]
             late == [t \in S |-> IF broadcast[t] = None THEN -1 ELSE broadcast[t]]
             Before(a, b) == \/ h[a] # None /\ h[b] = None
                             \/ h[a] # None /\ h[b] # None /\ h[a] < h[b]
                             \/ h[a] = h[b] /\ (late[a] < late[b] \/ (late[a] = late[b] /\ a < b))
  <1>1. \A a, b \in S : Precedes(transactions, broadcast, a, b) <=> Before(a, b)
    BY DEF Precedes
  <1>2. \A t \in S : (h[t] \in Nat \/ h[t] = None) /\ late[t] \in Int /\ t \in Int
    BY NoneAssumption DEF Amount
  <1>3. None \notin Nat
    BY NoneAssumption
  <1> HIDE DEF h, late
  <1>4. \A a \in S : ~Before(a, a)
    BY <1>2, <1>3
  <1>5. ASSUME NEW a \in S, NEW b \in S, NEW d \in S, Before(a, b), Before(b, d)
        PROVE  Before(a, d)
    <2>1. h[d] = None \/ (h[d] \in Nat /\ h[d] # None)
      BY <1>2, <1>3
    <2>2. late[a] \in Int /\ late[b] \in Int /\ late[d] \in Int /\ a \in Int /\ b \in Int /\ d \in Int
      BY <1>2
    <2>3. (late[a] < late[b] \/ (late[a] = late[b] /\ a < b)) /\ (late[b] < late[d] \/ (late[b] = late[d] /\ b < d))
            => late[a] < late[d] \/ (late[a] = late[d] /\ a < d)
      BY <2>2
    <2>4. CASE h[d] = None
      BY <1>5, <2>3, <2>4
    <2>5. CASE h[d] \in Nat /\ h[d] # None
      <3>1. h[b] \in Nat /\ h[b] # None /\ h[a] \in Nat /\ h[a] # None
        BY <1>2, <1>5, <2>5
      <3>2. h[a] < h[b] \/ (h[a] = h[b] /\ (late[a] < late[b] \/ (late[a] = late[b] /\ a < b)))
        BY <1>5, <3>1
      <3>3. h[b] < h[d] \/ (h[b] = h[d] /\ (late[b] < late[d] \/ (late[b] = late[d] /\ b < d)))
        BY <1>5, <2>5
      <3>4. h[a] < h[d] \/ (h[a] = h[d] /\ (late[a] < late[d] \/ (late[a] = late[d] /\ a < d)))
        BY <2>3, <2>5, <3>1, <3>2, <3>3
      <3> QED
        BY <2>5, <3>1, <3>4
    <2> QED
      BY <2>1, <2>4, <2>5
  <1>6. ASSUME NEW a \in S, NEW b \in S, a # b
        PROVE  Before(a, b) \/ Before(b, a)
    <2>1. late[a] \in Int /\ late[b] \in Int /\ a \in Int /\ b \in Int
      BY <1>2
    <2>2. late[a] < late[b] \/ (late[a] = late[b] /\ a < b) \/ late[b] < late[a] \/ (late[b] = late[a] /\ b < a)
      BY <1>6, <2>1
    <2>3. CASE h[a] = None
      BY <2>2, <2>3
    <2>4. CASE h[b] = None
      BY <2>2, <2>4
    <2>5. CASE h[a] # None /\ h[b] # None
      <3>1. h[a] \in Nat /\ h[b] \in Nat
        BY <1>2, <2>5
      <3>2. h[a] < h[b] \/ h[b] < h[a] \/ h[a] = h[b]
        BY <3>1
      <3> QED
        BY <2>2, <2>5, <3>2
    <2> QED
      BY <2>3, <2>4, <2>5
  <1> HIDE DEF Before
  <1> QED
    BY <1>1, <1>4, <1>5, <1>6

\* The coinjoins in their order are the labelled ones, each once.
LEMMA OrderIs ==
  ASSUME NEW transactions, NEW broadcast, DOMAIN transactions \in SUBSET Int, IsFiniteSet(DOMAIN transactions),
         \A t \in DOMAIN transactions : transactions[t].height \in Amount /\ broadcast[t] \in Amount
  PROVE  LET order == coinjoin_order(transactions, broadcast)
             L == LabelledIn(transactions)
         IN /\ order \in Seq(L) /\ DOMAIN order = 1..Len(order) /\ Len(order) = Cardinality(L)
            /\ \A m, n \in DOMAIN order : order[m] = order[n] => m = n
            /\ \A t \in L : \E n \in DOMAIN order : order[n] = t
  <1> DEFINE order == coinjoin_order(transactions, broadcast)
             L == LabelledIn(transactions)
             k == Cardinality(L)
             Before(a, b) == Precedes(transactions, broadcast, a, b)
             rank == [t \in L |-> Cardinality({u \in L : Before(u, t)})]
  <1>1. L \in SUBSET Int /\ IsFiniteSet(L) /\ k \in Nat
    <2>1. L \in SUBSET DOMAIN transactions
      BY DEF LabelledIn
    <2> HIDE DEF L
    <2>2. IsFiniteSet(L)
      BY <2>1, FS_Subset
    <2> QED
      BY <2>1, <2>2, FS_CardinalityType
  <1>2. order = [n \in 1..k |-> CHOOSE t \in L : rank[t] = n - 1]
    <2>1. order = [n \in 1..k |-> CHOOSE t \in L : Cardinality({u \in L : Before(u, t)}) = n - 1]
      BY DEF coinjoin_order, LabelledIn
    <2>2. \A n : (CHOOSE t \in L : Cardinality({u \in L : Before(u, t)}) = n - 1) = (CHOOSE t \in L : rank[t] = n - 1)
      <3> HIDE DEF L, Before
      <3> QED
        OBVIOUS
    <2> QED
      BY <2>1, <2>2
  <1>3. /\ \A a \in L : ~Before(a, a)
        /\ \A a, b, d \in L : Before(a, b) /\ Before(b, d) => Before(a, d)
        /\ \A a, b \in L : a = b \/ Before(a, b) \/ Before(b, a)
    <2>1. \A t \in L : transactions[t].height \in Amount /\ broadcast[t] \in Amount
      BY DEF LabelledIn
    <2> HIDE DEF L
    <2> QED
      BY <1>1, <2>1, PrecedesIs
  <1> HIDE DEF L, Before
  <1>4. \A t \in L : /\ IsFiniteSet({u \in L : Before(u, t)})
                     /\ rank[t] \in Nat /\ rank[t] <= k - 1
    <2> TAKE t \in L
    <2> DEFINE E == {u \in L : Before(u, t)}
               R == L \ {t}
    <2>1. E \in SUBSET R /\ IsFiniteSet(R) /\ Cardinality(R) = k - 1
      <3>1. E \in SUBSET R
        BY <1>3
      <3>2. IsFiniteSet(R) /\ Cardinality(R) = k - 1
        BY <1>1, FS_RemoveElement
      <3> QED
        BY <3>1, <3>2
    <2>2. rank[t] = Cardinality(E)
      OBVIOUS
    <2> HIDE DEF E, R, rank, k
    <2>3. IsFiniteSet(E) /\ Cardinality(E) <= Cardinality(R)
      BY <2>1, FS_Subset
    <2>4. Cardinality(E) \in Nat
      BY <2>3, FS_CardinalityType
    <2> QED
      BY <1>1, <2>1, <2>2, <2>3, <2>4 DEF E
  <1>5. ASSUME NEW a \in L, NEW b \in L, Before(a, b)
        PROVE  rank[a] < rank[b]
    <2> DEFINE A == {u \in L : Before(u, a)}
               B == {u \in L : Before(u, b)}
    <2>1. A \in SUBSET B /\ a \in B /\ a \notin A
      BY <1>3, <1>5
    <2>2. IsFiniteSet(A) /\ IsFiniteSet(B) /\ rank[a] = Cardinality(A) /\ rank[b] = Cardinality(B)
      BY <1>4
    <2>3. rank[a] \in Nat /\ rank[b] \in Nat
      BY <1>4
    <2> HIDE DEF A, B, rank
    <2>4. Cardinality(A) <= Cardinality(B) /\ Cardinality(B) # Cardinality(A)
      BY <2>1, <2>2, FS_Subset
    <2> QED
      BY <2>2, <2>3, <2>4
  <1>6. \A a, b \in L : rank[a] = rank[b] => a = b
    <2> SUFFICES ASSUME NEW a \in L, NEW b \in L, rank[a] = rank[b], a # b
                 PROVE  FALSE
      OBVIOUS
    <2>1. rank[a] \in Nat /\ rank[b] \in Nat
      BY <1>4
    <2>2. Before(a, b) \/ Before(b, a)
      BY <1>3
    <2>3. rank[a] < rank[b] \/ rank[b] < rank[a]
      BY <1>5, <2>2
    <2> HIDE DEF rank
    <2> QED
      BY <2>1, <2>3
  <1>7. \A n \in 1..k : \E t \in L : rank[t] = n - 1
    <2> DEFINE P == 0..(k - 1)
    <2>1. rank \in [L -> P]
      <3>1. \A t \in L : rank[t] \in P
        BY <1>1, <1>4
      <3> HIDE DEF P
      <3> QED
        BY <3>1
    <2>2. rank \in Injection(L, P)
      <3> HIDE DEF rank, P
      <3> QED
        BY <1>6, <2>1 DEF Injection, IsInjective
    <2>3. IsFiniteSet(P) /\ Cardinality(P) = k
      <3>1. 0 \in Int /\ k - 1 \in Int
        BY <1>1
      <3>2. IsFiniteSet(P) /\ Cardinality(P) = IF 0 > k - 1 THEN 0 ELSE (k - 1) - 0 + 1
        BY <3>1, FS_Interval
      <3> HIDE DEF P
      <3> QED
        BY <1>1, <3>2
    <2>4. rank \in Surjection(L, P)
      <3> HIDE DEF rank, P
      <3> QED
        BY <1>1, <2>2, <2>3, FS_Injection
    <2>5. \A p \in P : \E t \in L : rank[t] = p
      <3> HIDE DEF rank, P
      <3> QED
        BY <2>4 DEF Surjection
    <2>6. \A n \in 1..k : n - 1 \in P
      BY <1>1
    <2> HIDE DEF rank, P
    <2> QED
      BY <2>5, <2>6
  <1> HIDE DEF rank, k, order
  <1>8. \A n \in 1..k : order[n] \in L /\ rank[order[n]] = n - 1
    <2> TAKE n \in 1..k
    <2>1. \E t \in L : rank[t] = n - 1
      BY <1>7
    <2>2. order[n] = CHOOSE t \in L : rank[t] = n - 1
      BY <1>2
    <2> QED
      BY <2>1, <2>2
  <1>9. order \in Seq(L) /\ DOMAIN order = 1..Len(order) /\ Len(order) = k
    <2>1. order \in [1..k -> L]
      BY <1>2, <1>8
    <2>2. order \in Seq(L) /\ Len(order) = k /\ DOMAIN order = 1..k
      BY <1>1, <2>1
    <2> QED
      BY <2>2
  <1>10. \A m, n \in DOMAIN order : order[m] = order[n] => m = n
    <2> SUFFICES ASSUME NEW m \in 1..k, NEW n \in 1..k, order[m] = order[n]
                 PROVE  m = n
      BY <1>9
    <2>1. m - 1 = n - 1
      BY <1>8
    <2> QED
      BY <1>1, <2>1
  <1>11. \A t \in L : \E n \in DOMAIN order : order[n] = t
    <2> TAKE t \in L
    <2> DEFINE n == rank[t] + 1
    <2>1. n \in 1..k /\ n - 1 = rank[t]
      <3>1. rank[t] \in Nat /\ rank[t] <= k - 1 /\ k \in Nat
        BY <1>1, <1>4
      <3> QED
        BY <3>1
    <2> HIDE DEF n
    <2>2. order[n] = t
      BY <1>6, <1>8, <2>1
    <2> QED
      BY <1>9, <2>1, <2>2
  <1> QED
    BY <1>9, <1>10, <1>11 DEF L, k, order

-----------------------------------------------------------------------------
(***************************************************************************)
(* The classification.                                                     *)
(***************************************************************************)
\* What the classified inputs and outputs of the coinjoins hold.
ClassifiedInput(item, prior, order) ==
    /\ item.prev = prior.prev /\ item.value = prior.value /\ item.wallet = prior.wallet
    /\ item.event = InputEvent(prior.prev, Range(order))
ClassifiedOutput(item, made, outpoint, n, order, transactions) ==
    /\ item.outpoint = outpoint /\ item.value = made.value /\ item.wallet = made.wallet
    /\ item.event = OutputEvent(spender_index(transactions, outpoint), Range(order))
    /\ item.distance = IF spender_index(transactions, outpoint) = None THEN None
                       ELSE spend_distance(n, spender_index(transactions, outpoint), order, transactions)
Classified(c, order, transactions, mixEvents) ==
    /\ DOMAIN c = DOMAIN order /\ Len(c) = Len(order)
    /\ \A n \in DOMAIN order :
         /\ c[n].txid = order[n]
         /\ DOMAIN c[n].inputs = DOMAIN transactions[order[n]].inputs
         /\ DOMAIN c[n].outputs = DOMAIN transactions[order[n]].outputs
         /\ \A i \in DOMAIN transactions[order[n]].inputs :
              /\ ClassifiedInput(c[n].inputs[i], transactions[order[n]].inputs[i], order)
              /\ c[n].inputs[i].blocksci_event = blocksci_event(mixEvents, order[n], "inputs", i)
         /\ \A i \in DOMAIN transactions[order[n]].outputs :
              /\ ClassifiedOutput(c[n].outputs[i], transactions[order[n]].outputs[i], <<order[n], i>>, n, order, transactions)
              /\ c[n].outputs[i].blocksci_event = blocksci_event(mixEvents, order[n], "outputs", i)

\* The classification classifies.
LEMMA ClassifiesAll ==
  ASSUME NEW order, DOMAIN order = 1..Len(order), Len(order) \in Nat, NEW transactions, NEW observed, NEW mixEvents
  PROVE  Classified(classify_coinjoins(order, transactions, observed, mixEvents), order, transactions, mixEvents)
  <1> DEFINE c == classify_coinjoins(order, transactions, observed, mixEvents)
  <1>1. DOMAIN c = DOMAIN order
    BY DEF classify_coinjoins
  <1>2. Len(c) = Len(order)
    <2> DEFINE S == {c[n] : n \in 1..Len(order)}
               k == Len(order)
    <2>1. c = [n \in 1..k |-> c[n]]
      BY <1>1 DEF classify_coinjoins
    <2>2. \A n \in 1..k : c[n] \in S
      OBVIOUS
    <2> HIDE DEF c, S
    <2>3. c \in [1..k -> S]
      BY <2>1, <2>2
    <2>4. k \in Nat
      OBVIOUS
    <2> HIDE DEF k
    <2>5. c \in Seq(S) /\ Len(c) = k
      BY <2>3, <2>4
    <2> QED
      BY <2>5 DEF k
  <1>3. ASSUME NEW n \in DOMAIN order
        PROVE  /\ c[n].txid = order[n]
               /\ DOMAIN c[n].inputs = DOMAIN transactions[order[n]].inputs
               /\ DOMAIN c[n].outputs = DOMAIN transactions[order[n]].outputs
    BY DEF classify_coinjoins
  <1>4. ASSUME NEW n \in DOMAIN order, NEW i \in DOMAIN transactions[order[n]].inputs
        PROVE  /\ ClassifiedInput(c[n].inputs[i], transactions[order[n]].inputs[i], order)
               /\ c[n].inputs[i].blocksci_event = blocksci_event(mixEvents, order[n], "inputs", i)
    BY DEF classify_coinjoins, ClassifiedInput
  <1>5. ASSUME NEW n \in DOMAIN order, NEW i \in DOMAIN transactions[order[n]].outputs
        PROVE  /\ ClassifiedOutput(c[n].outputs[i], transactions[order[n]].outputs[i], <<order[n], i>>, n, order, transactions)
               /\ c[n].outputs[i].blocksci_event = blocksci_event(mixEvents, order[n], "outputs", i)
    BY DEF classify_coinjoins, ClassifiedOutput
  <1> HIDE DEF c
  <1>6. Classified(c, order, transactions, mixEvents)
    BY <1>1, <1>2, <1>3, <1>4, <1>5 DEF Classified
  <1> QED
    BY <1>6 DEF c

\* An outpoint has a spender when something spends it.
LEMMA SpenderIs ==
  ASSUME NEW transactions, DOMAIN transactions \in SUBSET Int, NEW outpoint
  PROVE  LET spender == spender_index(transactions, outpoint)
         IN /\ spender # None => /\ spender \in DOMAIN transactions
                                 /\ \E i \in DOMAIN transactions[spender].inputs :
                                       transactions[spender].inputs[i].prev = outpoint
            /\ spender = None => \A t \in DOMAIN transactions : \A i \in DOMAIN transactions[t].inputs :
                                    transactions[t].inputs[i].prev # outpoint
  <1> DEFINE S == {t \in DOMAIN transactions : \E i \in DOMAIN transactions[t].inputs : transactions[t].inputs[i].prev = outpoint}
             spender == spender_index(transactions, outpoint)
  <1>1. spender = IF S = {} THEN None ELSE CHOOSE t \in S : TRUE
    BY DEF spender_index
  <1>2. S # {} => spender \in S
    BY <1>1
  <1>3. \A t \in S : t # None
    BY NoneAssumption
  <1>4. S = {} => \A t \in DOMAIN transactions : \A i \in DOMAIN transactions[t].inputs : transactions[t].inputs[i].prev # outpoint
    OBVIOUS
  <1>5. spender \in S => /\ spender \in DOMAIN transactions
                         /\ \E i \in DOMAIN transactions[spender].inputs : transactions[spender].inputs[i].prev = outpoint
    OBVIOUS
  <1>6. S = {} => spender = None
    BY <1>1
  <1> HIDE DEF spender, S
  <1>7. CASE S = {}
    BY <1>4, <1>6, <1>7 DEF spender
  <1>8. CASE S # {}
    BY <1>2, <1>3, <1>5, <1>8 DEF spender
  <1> QED
    BY <1>7, <1>8

\* No missing value is an outpoint.
LEMMA NoneIsNoOutpoint ==
  ASSUME NoFunction(None), NEW a, NEW b
  PROVE  <<a, b>> # None
  <1>1. <<a, b>> \in [1..2 -> {a, b}]
    OBVIOUS
  <1> QED
    BY <1>1, FunctionIsNot

\* What a ledger holds of one transaction.
LEMMA LedgerHolds ==
  ASSUME NEW transactions, LedgerTyped(transactions), NEW t \in DOMAIN transactions
  PROVE  LET record == transactions[t]
         IN /\ IsFiniteSet(DOMAIN record.inputs) /\ IsFiniteSet(DOMAIN record.outputs)
            /\ \A i \in DOMAIN record.inputs :
                 /\ record.inputs[i].value \in Amount /\ record.inputs[i].wallet \in Everyone
                 /\ record.inputs[i].prev # None =>
                      \E u \in DOMAIN transactions : \E j \in DOMAIN transactions[u].outputs :
                          record.inputs[i].prev = <<u, j>>
            /\ \A i \in DOMAIN record.outputs :
                 record.outputs[i].value \in Amount /\ record.outputs[i].wallet \in Everyone
  <1> DEFINE record == transactions[t]
             ins == record.inputs
             outs == record.outputs
             Points == Outpoints(transactions)
             Spent == [prev : Points \cup {None}, value : Amount, wallet : Everyone]
             Output == [value : Amount, wallet : Everyone]
  <1>1. ins \in Seq(Spent) /\ outs \in Seq(Output)
    BY DEF LedgerTyped
  <1>2. \A p \in Points : \E u \in DOMAIN transactions : \E j \in DOMAIN transactions[u].outputs : p = <<u, j>>
    BY DEF Outpoints
  <1>3. \A x \in Spent : x.prev \in Points \cup {None} /\ x.value \in Amount /\ x.wallet \in Everyone
    OBVIOUS
  <1>4. \A x \in Output : x.value \in Amount /\ x.wallet \in Everyone
    OBVIOUS
  <1> HIDE DEF ins, outs, Spent, Output, Points
  <1>5. /\ DOMAIN ins = 1..Len(ins) /\ Len(ins) \in Nat /\ \A i \in DOMAIN ins : ins[i] \in Spent
        /\ DOMAIN outs = 1..Len(outs) /\ Len(outs) \in Nat /\ \A i \in DOMAIN outs : outs[i] \in Output
    BY <1>1
  <1>6. IsFiniteSet(DOMAIN ins) /\ IsFiniteSet(DOMAIN outs)
    <2>1. 1 \in Int /\ Len(ins) \in Int /\ Len(outs) \in Int
      BY <1>5
    <2>2. IsFiniteSet(1..Len(ins)) /\ IsFiniteSet(1..Len(outs))
      BY <2>1, FS_Interval
    <2> QED
      BY <1>5, <2>2
  <1>7. \A i \in DOMAIN ins : ins[i].value \in Amount /\ ins[i].wallet \in Everyone /\ ins[i].prev \in Points \cup {None}
    BY <1>3, <1>5
  <1>8. \A i \in DOMAIN outs : outs[i].value \in Amount /\ outs[i].wallet \in Everyone
    BY <1>4, <1>5
  <1>9. \A i \in DOMAIN ins : ins[i].prev # None =>
           \E u \in DOMAIN transactions : \E j \in DOMAIN transactions[u].outputs : ins[i].prev = <<u, j>>
    BY <1>2, <1>7
  <1> QED
    BY <1>6, <1>7, <1>8, <1>9 DEF ins, outs

\* The classified coinjoins are coinjoins of typed coins.
LEMMA ClassifiedTyped ==
  ASSUME NEW transactions, LedgerTyped(transactions), NEW order, DOMAIN order = 1..Len(order), Len(order) \in Nat,
         \A n \in DOMAIN order : order[n] \in DOMAIN transactions,
         NEW mixEvents, NEW c, Classified(c, order, transactions, mixEvents)
  PROVE  CoinsTyped(c)
  <1>1. Len(c) \in Nat /\ DOMAIN c = 1..Len(c) /\ DOMAIN c = DOMAIN order
    BY DEF Classified
  <1>2. \A io : io.value \in Amount => ValueOf(io) \in Nat
    <2> TAKE io
    <2> DEFINE v == io.value
    <2>1. v \in Amount => (IF v = None THEN 0 ELSE v) \in Nat
      BY DEF Amount
    <2> QED
      BY <2>1 DEF ValueOf
  <1>3. ASSUME NEW n \in DOMAIN c
        PROVE  /\ IsFiniteSet(DOMAIN c[n].inputs) /\ IsFiniteSet(DOMAIN c[n].outputs)
               /\ \A i \in DOMAIN c[n].inputs : ValueOf(c[n].inputs[i]) \in Nat /\ c[n].inputs[i].wallet \in Everyone
               /\ \A i \in DOMAIN c[n].outputs : ValueOf(c[n].outputs[i]) \in Nat /\ c[n].outputs[i].wallet \in Everyone
    <2> DEFINE t == order[n]
    <2>1. n \in DOMAIN order /\ t \in DOMAIN transactions
      BY <1>1
    <2>2. /\ DOMAIN c[n].inputs = DOMAIN transactions[t].inputs
          /\ DOMAIN c[n].outputs = DOMAIN transactions[t].outputs
          /\ \A i \in DOMAIN transactions[t].inputs : ClassifiedInput(c[n].inputs[i], transactions[t].inputs[i], order)
          /\ \A i \in DOMAIN transactions[t].outputs :
               ClassifiedOutput(c[n].outputs[i], transactions[t].outputs[i], <<t, i>>, n, order, transactions)
      BY <2>1 DEF Classified
    <2> HIDE DEF t
    <2>3. /\ IsFiniteSet(DOMAIN transactions[t].inputs) /\ IsFiniteSet(DOMAIN transactions[t].outputs)
          /\ \A i \in DOMAIN transactions[t].inputs :
               transactions[t].inputs[i].value \in Amount /\ transactions[t].inputs[i].wallet \in Everyone
          /\ \A i \in DOMAIN transactions[t].outputs :
               transactions[t].outputs[i].value \in Amount /\ transactions[t].outputs[i].wallet \in Everyone
      BY <2>1, LedgerHolds
    <2>4. \A i \in DOMAIN transactions[t].inputs :
             c[n].inputs[i].value \in Amount /\ c[n].inputs[i].wallet \in Everyone
      BY <2>2, <2>3 DEF ClassifiedInput
    <2>5. \A i \in DOMAIN transactions[t].outputs :
             c[n].outputs[i].value \in Amount /\ c[n].outputs[i].wallet \in Everyone
      BY <2>2, <2>3 DEF ClassifiedOutput
    <2> QED
      BY <1>2, <2>2, <2>3, <2>4, <2>5
  <1> QED
    BY <1>1, <1>3 DEF CoinsTyped

\* The order lists the labelled transactions, each once.
MixOrder(order, transactions) ==
    /\ DOMAIN order = 1..Len(order) /\ Len(order) \in Nat
    /\ \A n \in DOMAIN order : order[n] \in LabelledIn(transactions) /\ order[n] \in DOMAIN transactions
    /\ \A m, n \in DOMAIN order : order[m] = order[n] => m = n
    /\ \A t \in LabelledIn(transactions) : \E n \in DOMAIN order : order[n] = t

\* What spends a place of the pool spends its outpoint.
SpendsOutput(transactions, order, c, k, j, x) ==
    Spends(c, k, j, x) <=> transactions[order[k]].inputs[j].prev = <<order[x[1]], x[2]>>

\* A place of the pool is an output of a transaction, and an input spends it by its outpoint.
LEMMA PlaceIs ==
  ASSUME NEW transactions, LedgerTyped(transactions), NEW order, MixOrder(order, transactions),
         NEW mixEvents, NEW c, Classified(c, order, transactions, mixEvents), NEW x \in PoolPlaces(c)
  PROVE  /\ x[1] \in DOMAIN order /\ x[2] \in DOMAIN transactions[order[x[1]]].outputs
         /\ x[1] \in DOMAIN c /\ x = <<x[1], x[2]>>
         /\ ClassifiedOutput(OutputAt(c, x), transactions[order[x[1]]].outputs[x[2]], <<order[x[1]], x[2]>>,
                             x[1], order, transactions)
         /\ \A k \in DOMAIN c : \A j \in DOMAIN c[k].inputs :
              /\ ClassifiedInput(c[k].inputs[j], transactions[order[k]].inputs[j], order)
              /\ k \in DOMAIN order /\ j \in DOMAIN transactions[order[k]].inputs
              /\ SpendsOutput(transactions, order, c, k, j, x)
  <1>1. DOMAIN c = DOMAIN order
    BY DEF Classified
  <1>2. CoinsTyped(c)
    BY ClassifiedTyped DEF MixOrder
  <1>3. x[1] \in DOMAIN c /\ x[2] \in DOMAIN c[x[1]].outputs /\ x = <<x[1], x[2]>>
    BY <1>2, PlacesTyped
  <1>4. /\ DOMAIN c[x[1]].outputs = DOMAIN transactions[order[x[1]]].outputs
        /\ \A i \in DOMAIN transactions[order[x[1]]].outputs :
             ClassifiedOutput(c[x[1]].outputs[i], transactions[order[x[1]]].outputs[i], <<order[x[1]], i>>, x[1], order, transactions)
    BY <1>1, <1>3 DEF Classified
  <1>5. OutputAt(c, x) = c[x[1]].outputs[x[2]]
    BY DEF OutputAt
  <1>6. ClassifiedOutput(OutputAt(c, x), transactions[order[x[1]]].outputs[x[2]], <<order[x[1]], x[2]>>,
                         x[1], order, transactions)
    BY <1>3, <1>4, <1>5
  <1>7. ASSUME NEW k \in DOMAIN c, NEW j \in DOMAIN c[k].inputs
        PROVE  /\ ClassifiedInput(c[k].inputs[j], transactions[order[k]].inputs[j], order)
               /\ k \in DOMAIN order /\ j \in DOMAIN transactions[order[k]].inputs
               /\ SpendsOutput(transactions, order, c, k, j, x)
    <2>1. /\ k \in DOMAIN order /\ j \in DOMAIN transactions[order[k]].inputs
          /\ ClassifiedInput(c[k].inputs[j], transactions[order[k]].inputs[j], order)
      BY <1>1 DEF Classified
    <2>2. c[k].inputs[j].prev = transactions[order[k]].inputs[j].prev
      BY <2>1 DEF ClassifiedInput
    <2>3. OutputAt(c, x).outpoint = <<order[x[1]], x[2]>>
      BY <1>6 DEF ClassifiedOutput
    <2> QED
      BY <2>1, <2>2, <2>3 DEF Spends, SpendsOutput
  <1> QED
    BY <1>1, <1>3, <1>4, <1>6, <1>7

\* The mix is the labelled transactions.
LEMMA MixIs ==
  ASSUME NEW transactions, NEW order, MixOrder(order, transactions)
  PROVE  /\ Range(order) = LabelledIn(transactions)
         /\ \A n \in DOMAIN order : order[n] \in Range(order) /\ PositionIn(order, order[n]) = n
  <1>1. Range(order) = LabelledIn(transactions) /\ \A n \in DOMAIN order : order[n] \in Range(order)
    BY DEF MixOrder, Range
  <1>2. ASSUME NEW n \in DOMAIN order
        PROVE  PositionIn(order, order[n]) = n
    <2>1. \A m \in DOMAIN order : order[m] = order[n] <=> m = n
      BY DEF MixOrder
    <2> QED
      BY <2>1 DEF PositionIn
  <1> QED
    BY <1>1, <1>2

\* A coin of a ledger has the value and the wallet of its output, and only one input spends it.
LEMMA SpentCoin ==
  ASSUME NEW transactions, SpendsCoins(transactions), NEW t \in DOMAIN transactions,
         NEW j \in DOMAIN transactions[t].inputs, NEW coin, coin = transactions[t].inputs[j], coin.prev # None
  PROVE  /\ coin.value = transactions[coin.prev[1]].outputs[coin.prev[2]].value
         /\ coin.wallet = transactions[coin.prev[1]].outputs[coin.prev[2]].wallet
         /\ \A u \in DOMAIN transactions : \A i \in DOMAIN transactions[u].inputs :
              transactions[u].inputs[i].prev = coin.prev => u = t /\ i = j
  <1>1. SpendsOnce(transactions, t, j, coin)
    BY DEF SpendsCoins
  <1> QED
    BY <1>1 DEF SpendsOnce

\* An output that a coinjoin spends is remixed, and its distance is how far behind it is.
LEMMA SpentIs ==
  ASSUME NoFunction(None), NEW transactions, LedgerTyped(transactions), NEW order, MixOrder(order, transactions),
         NEW mixEvents, NEW c, Classified(c, order, transactions, mixEvents), NEW x \in PoolPlaces(c),
         NEW k \in DOMAIN c, NEW j \in DOMAIN c[k].inputs, Spends(c, k, j, x)
  PROVE  /\ c[k].inputs[j].event = Remix /\ OutputAt(c, x).event = Remix
         /\ ValueOf(c[k].inputs[j]) = ValueOf(OutputAt(c, x)) /\ c[k].inputs[j].wallet = OutputAt(c, x).wallet
         /\ OutputAt(c, x).distance = k - x[1] - 1
         /\ \A t \in DOMAIN transactions : \A i \in DOMAIN transactions[t].inputs :
              transactions[t].inputs[i].prev = <<order[x[1]], x[2]>> => t = order[k] /\ i = j
         /\ \A l \in DOMAIN c : \A i \in DOMAIN c[l].inputs : Spends(c, l, i, x) => l = k /\ i = j
  <1> DEFINE p == <<order[x[1]], x[2]>>
             t == order[k]
             made == transactions[order[x[1]]].outputs[x[2]]
             coin == transactions[t].inputs[j]
             spender == spender_index(transactions, p)
  <1>1. /\ x[1] \in DOMAIN order /\ k \in DOMAIN order /\ j \in DOMAIN transactions[t].inputs
        /\ ClassifiedOutput(OutputAt(c, x), made, p, x[1], order, transactions)
        /\ ClassifiedInput(c[k].inputs[j], coin, order)
        /\ SpendsOutput(transactions, order, c, k, j, x)
    BY PlaceIs
  <1>15. coin.prev = p
    BY <1>1 DEF SpendsOutput
  <1>2. t \in DOMAIN transactions /\ t \in Range(order) /\ order[x[1]] \in Range(order) /\ PositionIn(order, t) = k
    BY <1>1, MixIs DEF MixOrder
  <1>3. p # None
    BY NoneIsNoOutpoint
  <1>4. p[1] = order[x[1]] /\ p[2] = x[2]
    OBVIOUS
  <1>14. \A l \in DOMAIN c : \A i \in DOMAIN c[l].inputs :
            /\ l \in DOMAIN order /\ i \in DOMAIN transactions[order[l]].inputs
            /\ Spends(c, l, i, x) => transactions[order[l]].inputs[i].prev = p
    <2> HIDE DEF p, t, made, coin, spender
    <2>1. \A l \in DOMAIN c : \A i \in DOMAIN c[l].inputs :
            /\ l \in DOMAIN order /\ i \in DOMAIN transactions[order[l]].inputs
            /\ SpendsOutput(transactions, order, c, l, i, x)
      BY PlaceIs
    <2> QED
      BY <2>1 DEF p, SpendsOutput
  <1> HIDE DEF p
  <1>5. /\ coin.value = made.value /\ coin.wallet = made.wallet
        /\ \A u \in DOMAIN transactions : \A i \in DOMAIN transactions[u].inputs :
             transactions[u].inputs[i].prev = p => u = t /\ i = j
    <2>1. SpendsCoins(transactions)
      BY DEF LedgerTyped
    <2>2. /\ coin.value = transactions[p[1]].outputs[p[2]].value
          /\ coin.wallet = transactions[p[1]].outputs[p[2]].wallet
          /\ \A u \in DOMAIN transactions : \A i \in DOMAIN transactions[u].inputs :
               transactions[u].inputs[i].prev = p => u = t /\ i = j
      <3>1. t \in DOMAIN transactions /\ j \in DOMAIN transactions[t].inputs
            /\ transactions[t].inputs[j] = coin /\ transactions[t].inputs[j].prev = p
        BY <1>1, <1>2, <1>15
      <3>2. /\ coin.value = transactions[coin.prev[1]].outputs[coin.prev[2]].value
            /\ coin.wallet = transactions[coin.prev[1]].outputs[coin.prev[2]].wallet
            /\ \A u \in DOMAIN transactions : \A i \in DOMAIN transactions[u].inputs :
                 transactions[u].inputs[i].prev = coin.prev => u = t /\ i = j
        <4>1. coin.prev # None
          BY <1>3, <1>15
        <4> HIDE DEF t, p
        <4> QED
          BY <2>1, <3>1, <4>1, SpentCoin
      <3> QED
        BY <1>15, <3>2
    <2> QED
      BY <1>4, <2>2
  <1>6. c[k].inputs[j].event = Remix
    BY <1>1, <1>15, <1>2, <1>3, <1>4 DEF ClassifiedInput, InputEvent
  <1>7. spender = t
    <2>1. DOMAIN transactions \in SUBSET Int
      BY DEF LedgerTyped
    <2>2. spender # None
      BY <1>1, <1>15, <1>2, <2>1, SpenderIs
    <2>3. spender \in DOMAIN transactions /\ \E i \in DOMAIN transactions[spender].inputs : transactions[spender].inputs[i].prev = p
      BY <2>1, <2>2, SpenderIs
    <2> HIDE DEF spender, t
    <2> QED
      BY <1>5, <2>3
  <1>8. t # None
    <2>1. DOMAIN transactions \in SUBSET Int
      BY DEF LedgerTyped
    <2> QED
      BY <1>2, <2>1, NoneAssumption
  <1>9. OutputAt(c, x).event = Remix
    BY <1>1, <1>2, <1>7, <1>8 DEF ClassifiedOutput, OutputEvent
  <1>10. OutputAt(c, x).distance = k - x[1] - 1
    <2>1. OutputAt(c, x).distance = spend_distance(x[1], t, order, transactions)
      BY <1>1, <1>7, <1>8 DEF ClassifiedOutput
    <2>2. spend_distance(x[1], t, order, transactions) = PositionIn(order, t) - x[1] - 1
      BY <1>2 DEF spend_distance
    <2> QED
      BY <1>2, <2>1, <2>2
  <1>11. c[k].inputs[j].value = OutputAt(c, x).value /\ c[k].inputs[j].wallet = OutputAt(c, x).wallet
    BY <1>1, <1>5 DEF ClassifiedInput, ClassifiedOutput
  <1>12. ValueOf(c[k].inputs[j]) = ValueOf(OutputAt(c, x))
    BY <1>11 DEF ValueOf
  <1>13. ASSUME NEW l \in DOMAIN c, NEW i \in DOMAIN c[l].inputs, Spends(c, l, i, x)
         PROVE  l = k /\ i = j
    <2>1. l \in DOMAIN order /\ i \in DOMAIN transactions[order[l]].inputs /\ transactions[order[l]].inputs[i].prev = p
      BY <1>13, <1>14
    <2>2. order[l] \in DOMAIN transactions
      BY <2>1 DEF MixOrder
    <2>3. order[l] = order[k] /\ i = j
      BY <1>5, <2>1, <2>2
    <2> QED
      BY <1>1, <2>1, <2>3 DEF MixOrder
  <1> QED
    BY <1>5, <1>6, <1>9, <1>10, <1>11, <1>12, <1>13 DEF p

\* The classified coinjoins are linked by the coins they make and spend.
LEMMA ClassifiedLinked ==
  ASSUME NoFunction(None), NEW transactions, LedgerTyped(transactions), NEW order, MixOrder(order, transactions),
         NEW mixEvents, NEW c, Classified(c, order, transactions, mixEvents)
  PROVE  CoinsLinked(c)
  <1>1. DOMAIN c = DOMAIN order /\ DOMAIN transactions \in SUBSET Int /\ CoinsTyped(c)
    <2>1. CoinsTyped(c)
      BY ClassifiedTyped DEF MixOrder
    <2> QED
      BY <2>1 DEF Classified, LedgerTyped
  <1>2. ASSUME NEW n \in DOMAIN c, NEW i \in DOMAIN c[n].inputs
        PROVE  c[n].inputs[i].event \in {Enter, Remix}
    <2>1. ClassifiedInput(c[n].inputs[i], transactions[order[n]].inputs[i], order)
      BY <1>1 DEF Classified
    <2> QED
      BY <2>1 DEF ClassifiedInput, InputEvent
  <1>3. ASSUME NEW n \in DOMAIN c, NEW i \in DOMAIN c[n].inputs, c[n].inputs[i].event = Remix
        PROVE  \E x \in PoolPlaces(c) : Spends(c, n, i, x)
    <2> DEFINE t == order[n]
               p == transactions[t].inputs[i].prev
    <2>1. /\ n \in DOMAIN order /\ t \in DOMAIN transactions /\ i \in DOMAIN transactions[t].inputs
          /\ ClassifiedInput(c[n].inputs[i], transactions[t].inputs[i], order)
      BY <1>1 DEF Classified, MixOrder
    <2>2. p # None /\ p[1] \in Range(order)
      BY <1>3, <2>1 DEF ClassifiedInput, InputEvent, Enter, Remix
    <2>3. \E u \in DOMAIN transactions : \E j \in DOMAIN transactions[u].outputs : p = <<u, j>>
      BY <2>1, <2>2, LedgerHolds
    <2>4. PICK u \in DOMAIN transactions : \E j \in DOMAIN transactions[u].outputs : p = <<u, j>>
      BY <2>3
    <2>5. PICK j \in DOMAIN transactions[u].outputs : p = <<u, j>>
      BY <2>4
    <2>6. p[1] = u
      BY <2>5
    <2>7. PICK m \in DOMAIN order : order[m] = u
      BY <2>2, <2>6 DEF Range
    <2> DEFINE x == <<m, j>>
    <2>8. m \in DOMAIN c /\ j \in DOMAIN c[m].outputs
      BY <1>1, <2>5, <2>7 DEF Classified
    <2>9. x \in PoolPlaces(c)
      BY <1>1, <2>8, PlacesTyped
    <2>10. x[1] = m /\ x[2] = j
      OBVIOUS
    <2> HIDE DEF x
    <2>11. SpendsOutput(transactions, order, c, n, i, x)
      BY <2>9, PlaceIs
    <2>12. Spends(c, n, i, x)
      BY <2>5, <2>7, <2>10, <2>11 DEF SpendsOutput
    <2> QED
      BY <2>9, <2>12
  <1>4. ASSUME NEW n \in DOMAIN c, NEW i \in DOMAIN c[n].outputs
        PROVE  c[n].outputs[i].event \in {Stay, Remix, Leave}
    <2>1. ClassifiedOutput(c[n].outputs[i], transactions[order[n]].outputs[i], <<order[n], i>>, n, order, transactions)
      BY <1>1 DEF Classified
    <2> QED
      BY <2>1 DEF ClassifiedOutput, OutputEvent
  <1>5. ASSUME NEW x \in PoolPlaces(c), NEW y \in PoolPlaces(c), OutputAt(c, x).outpoint = OutputAt(c, y).outpoint
        PROVE  x = y
    <2>1. /\ x[1] \in DOMAIN order /\ y[1] \in DOMAIN order /\ x = <<x[1], x[2]>> /\ y = <<y[1], y[2]>>
          /\ OutputAt(c, x).outpoint = <<order[x[1]], x[2]>>
          /\ OutputAt(c, y).outpoint = <<order[y[1]], y[2]>>
      <3>1. /\ x[1] \in DOMAIN order /\ x = <<x[1], x[2]>>
            /\ ClassifiedOutput(OutputAt(c, x), transactions[order[x[1]]].outputs[x[2]], <<order[x[1]], x[2]>>,
                                x[1], order, transactions)
        BY PlaceIs
      <3>2. /\ y[1] \in DOMAIN order /\ y = <<y[1], y[2]>>
            /\ ClassifiedOutput(OutputAt(c, y), transactions[order[y[1]]].outputs[y[2]], <<order[y[1]], y[2]>>,
                                y[1], order, transactions)
        BY PlaceIs
      <3> QED
        BY <3>1, <3>2 DEF ClassifiedOutput
    <2>2. order[x[1]] = order[y[1]] /\ x[2] = y[2]
      <3> DEFINE a == order[x[1]]
                 b == order[y[1]]
      <3>1. <<a, x[2]>> = <<b, y[2]>>
        BY <1>5, <2>1
      <3> HIDE DEF a, b
      <3>2. a = b /\ x[2] = y[2]
        BY <3>1
      <3> QED
        BY <3>2 DEF a, b
    <2>3. x[1] = y[1]
      BY <2>1, <2>2 DEF MixOrder
    <2> QED
      BY <2>1, <2>2, <2>3
  <1>6. ASSUME NEW x \in PoolPlaces(c)
        PROVE  /\ OutputAt(c, x).event = Remix => \E k \in DOMAIN c : \E j \in DOMAIN c[k].inputs : Spends(c, k, j, x)
               /\ OutputAt(c, x).event = Stay => OutputAt(c, x).distance = None
    <2> DEFINE p == <<order[x[1]], x[2]>>
               spender == spender_index(transactions, p)
    <2>1. ClassifiedOutput(OutputAt(c, x), transactions[order[x[1]]].outputs[x[2]], p, x[1], order, transactions)
      BY PlaceIs
    <2>2. OutputAt(c, x).event = OutputEvent(spender, Range(order))
      BY <2>1 DEF ClassifiedOutput
    <2> HIDE DEF spender
    <2>3. ASSUME OutputAt(c, x).event = Stay
          PROVE  OutputAt(c, x).distance = None
      <3>1. spender = None
        BY <2>2, <2>3 DEF OutputEvent, Stay, Remix, Leave
      <3> QED
        BY <2>1, <3>1 DEF ClassifiedOutput, spender
    <2>4. ASSUME OutputAt(c, x).event = Remix
          PROVE  \E k \in DOMAIN c : \E j \in DOMAIN c[k].inputs : Spends(c, k, j, x)
      <3>1. spender # None /\ spender \in Range(order)
        <4>1. OutputEvent(spender, Range(order)) = Remix
          BY <2>1, <2>4 DEF ClassifiedOutput, spender
        <4> QED
          BY <4>1 DEF OutputEvent, Stay, Remix, Leave
      <3>2. \E i \in DOMAIN transactions[spender].inputs : transactions[spender].inputs[i].prev = p
        BY <1>1, <3>1, SpenderIs DEF spender
      <3>3. PICK k \in DOMAIN order : order[k] = spender
        BY <3>1 DEF Range
      <3>4. PICK j \in DOMAIN transactions[spender].inputs : transactions[spender].inputs[j].prev = p
        BY <3>2
      <3>5. k \in DOMAIN c /\ j \in DOMAIN c[k].inputs
        BY <1>1, <3>3 DEF Classified
      <3>6. SpendsOutput(transactions, order, c, k, j, x)
        BY <3>5, PlaceIs
      <3>7. Spends(c, k, j, x)
        BY <3>3, <3>4, <3>6 DEF SpendsOutput
      <3> QED
        BY <3>5, <3>7
    <2> QED
      BY <2>3, <2>4
  <1>7. ASSUME NEW x \in PoolPlaces(c), NEW k \in DOMAIN c, NEW j \in DOMAIN c[k].inputs, Spends(c, k, j, x)
        PROVE  /\ c[k].inputs[j].event = Remix /\ OutputAt(c, x).event = Remix
               /\ ValueOf(c[k].inputs[j]) = ValueOf(OutputAt(c, x))
               /\ c[k].inputs[j].wallet = OutputAt(c, x).wallet
               /\ OutputAt(c, x).distance = k - x[1] - 1
               /\ \A l \in DOMAIN c : \A i \in DOMAIN c[l].inputs : Spends(c, l, i, x) => l = k /\ i = j
    BY <1>7, SpentIs
  <1> QED
    BY <1>2, <1>3, <1>4, <1>5, <1>6, <1>7 DEF CoinsLinked

\* What the specification calls outstanding is what is in the mix.
LEMMA OutstandingIs ==
  ASSUME NoFunction(None), NEW run, LedgerTyped(run.transactions), NEW order, MixOrder(order, run.transactions),
         NEW mixEvents, NEW c, Classified(c, order, run.transactions, mixEvents), NEW n \in DOMAIN c
  PROVE  Outstanding(run, c, n) = SumOf(PlaceValues(c), KeptAt(c, n))
  <1> DEFINE T == run.transactions
             Txids(ms) == {c[m].txid : m \in ms}
             Kept(x) == \A t \in DOMAIN T : \A i \in DOMAIN T[t].inputs :
                            T[t].inputs[i].prev = OutputAt(c, x).outpoint =>
                                t \in Txids(DOMAIN c) /\ t \notin Txids(1..n)
             places == UNION {{m} \X DOMAIN c[m].outputs : m \in 1..n}
             X == {x \in places : Kept(x)}
  <1>1. /\ DOMAIN c = DOMAIN order /\ Len(c) \in Nat /\ DOMAIN c = 1..Len(c) /\ CoinsTyped(c)
        /\ DOMAIN T \in SUBSET Int /\ \A m \in DOMAIN c : c[m].txid = order[m]
    <2>1. CoinsTyped(c)
      BY ClassifiedTyped DEF MixOrder
    <2>2. DOMAIN T \in SUBSET Int
      BY DEF LedgerTyped
    <2>3. \A m \in DOMAIN c : c[m].txid = order[m]
      BY DEF Classified
    <2> QED
      BY <2>1, <2>2, <2>3 DEF Classified, MixOrder
  <1>2. places = {x \in PoolPlaces(c) : x[1] <= n}
    <2>1. n \in 1..Len(c) /\ 1..n \subseteq DOMAIN c
      BY <1>1
    <2>2. \A x \in places : x \in PoolPlaces(c) /\ x[1] <= n
      BY <2>1 DEF PoolPlaces
    <2>3. ASSUME NEW x \in PoolPlaces(c), x[1] <= n
          PROVE  x \in places
      <3>1. x[1] \in DOMAIN c /\ x[2] \in DOMAIN c[x[1]].outputs /\ x = <<x[1], x[2]>>
        BY <1>1, PlacesTyped
      <3>2. x[1] \in 1..n
        BY <1>1, <2>1, <2>3, <3>1
      <3> QED
        BY <3>1, <3>2
    <2> HIDE DEF places
    <2> QED
      BY <2>2, <2>3
  <1>3. ASSUME NEW x \in PoolPlaces(c), x[1] <= n
        PROVE  Kept(x) <=> /\ OutputAt(c, x).event \in {Stay, Remix}
                           /\ \A k \in 1..n : \A j \in DOMAIN c[k].inputs : ~Spends(c, k, j, x)
    <2> DEFINE p == <<order[x[1]], x[2]>>
               spender == spender_index(T, p)
    <2>1. ClassifiedOutput(OutputAt(c, x), T[order[x[1]]].outputs[x[2]], p, x[1], order, T)
      BY PlaceIs
    <2>2. OutputAt(c, x).event = OutputEvent(spender, Range(order)) /\ OutputAt(c, x).outpoint = p
      BY <2>1 DEF ClassifiedOutput
    <2>3. /\ spender # None => /\ spender \in DOMAIN T
                               /\ \E i \in DOMAIN T[spender].inputs : T[spender].inputs[i].prev = p
          /\ spender = None => \A t \in DOMAIN T : \A i \in DOMAIN T[t].inputs : T[t].inputs[i].prev # p
      BY <1>1, SpenderIs
    <2>4. 1..n \subseteq DOMAIN c
      BY <1>1
    <2>5. ASSUME NEW k \in DOMAIN c, NEW j \in DOMAIN c[k].inputs
          PROVE  /\ order[k] \in DOMAIN T /\ j \in DOMAIN T[order[k]].inputs
                 /\ SpendsOutput(T, order, c, k, j, x)
      <3>1. k \in DOMAIN order
        BY <1>1
      <3>2. order[k] \in DOMAIN T
        BY <3>1 DEF MixOrder
      <3>3. j \in DOMAIN T[order[k]].inputs /\ SpendsOutput(T, order, c, k, j, x)
        BY PlaceIs
      <3> QED
        BY <3>2, <3>3
    <2> HIDE DEF spender, p, T
    <2>6. ASSUME Kept(x)
          PROVE  /\ OutputAt(c, x).event \in {Stay, Remix}
                 /\ \A k \in 1..n : \A j \in DOMAIN c[k].inputs : ~Spends(c, k, j, x)
      <3>1. ASSUME NEW k \in 1..n, NEW j \in DOMAIN c[k].inputs, Spends(c, k, j, x)
            PROVE  FALSE
        <4>1. k \in DOMAIN c
          BY <2>4
        <4>2. order[k] \in DOMAIN T /\ j \in DOMAIN T[order[k]].inputs /\ T[order[k]].inputs[j].prev = p
          BY <2>5, <3>1, <4>1 DEF SpendsOutput, p
        <4>3. order[k] \notin Txids(1..n)
          BY <2>2, <2>6, <4>2
        <4> QED
          BY <1>1, <4>1, <4>3
      <3>2. ASSUME spender # None
            PROVE  spender \in Range(order)
        <4>1. PICK i \in DOMAIN T[spender].inputs : T[spender].inputs[i].prev = p
          BY <2>3, <3>2
        <4>2. spender \in Txids(DOMAIN c)
          BY <2>2, <2>3, <2>6, <3>2, <4>1
        <4> QED
          BY <1>1, <4>2 DEF Range
      <3>3. OutputAt(c, x).event \in {Stay, Remix}
        BY <2>2, <3>2 DEF OutputEvent
      <3> QED
        BY <3>1, <3>3
    <2>7. ASSUME OutputAt(c, x).event \in {Stay, Remix},
                 \A k \in 1..n : \A j \in DOMAIN c[k].inputs : ~Spends(c, k, j, x)
          PROVE  Kept(x)
      <3> SUFFICES ASSUME NEW t \in DOMAIN T, NEW i \in DOMAIN T[t].inputs, T[t].inputs[i].prev = p
                   PROVE  t \in Txids(DOMAIN c) /\ t \notin Txids(1..n)
        BY <2>2
      <3>1. spender # None
        BY <2>3
      <3>2. spender \in Range(order)
        BY <2>2, <2>7, <3>1 DEF OutputEvent, Stay, Remix, Leave
      <3>3. PICK k \in DOMAIN order : order[k] = spender
        BY <3>2 DEF Range
      <3>4. PICK j \in DOMAIN T[spender].inputs : T[spender].inputs[j].prev = p
        BY <2>3, <3>1
      <3>5. k \in DOMAIN c /\ j \in DOMAIN c[k].inputs
        BY <1>1, <3>3 DEF Classified, T
      <3>6. Spends(c, k, j, x)
        BY <2>5, <3>3, <3>4, <3>5 DEF SpendsOutput, p
      <3>7. t = order[k]
        BY <3>5, <3>6, SpentIs DEF T, p
      <3>8. t \in Txids(DOMAIN c)
        BY <1>1, <3>5, <3>7
      <3>9. ASSUME NEW m \in 1..n, t = c[m].txid
            PROVE  FALSE
        <4>1. m \in DOMAIN order /\ order[m] = order[k]
          BY <1>1, <2>4, <3>7, <3>9
        <4>2. m = k
          BY <3>3, <4>1 DEF MixOrder
        <4> QED
          BY <2>7, <3>5, <3>6, <4>2
      <3> QED
        BY <3>8, <3>9
    <2> HIDE DEF Kept
    <2> QED
      BY <2>6, <2>7
  <1>4. X = KeptAt(c, n)
    <2> HIDE DEF Kept, places
    <2> QED
      BY <1>2, <1>3 DEF KeptAt
  <1>5. Outstanding(run, c, n) = PlacesWorth(c, X)
    BY DEF Outstanding
  <1>6. KeptAt(c, n) \in SUBSET PoolPlaces(c)
    BY DEF KeptAt
  <1> HIDE DEF X
  <1> QED
    BY <1>4, <1>5, <1>6, PlacesWorthIs

\* A coinjoin's fee is that of its transaction.
LEMMA FeesAre ==
  ASSUME NEW transactions, LedgerTyped(transactions), NEW order, MixOrder(order, transactions),
         NEW mixEvents, NEW c, Classified(c, order, transactions, mixEvents), NEW n \in DOMAIN c
  PROVE  FeeOf(c)[n] >= 0 /\ Fees(c, n) = SumOf(FeeOf(c), 1..n)
  <1> DEFINE record == transactions[order[n]]
  <1>1. /\ n \in DOMAIN order /\ order[n] \in DOMAIN transactions /\ record.coinjoin = TRUE
        /\ DOMAIN c = 1..Len(c) /\ Len(c) \in Nat
    BY DEF Classified, MixOrder, LabelledIn
  <1>2. TotalValue(record.inputs) >= TotalValue(record.outputs)
    BY <1>1 DEF LedgerTyped
  <1>3. TotalValue(c[n].inputs) = TotalValue(record.inputs)
    <2>1. DOMAIN c[n].inputs = DOMAIN record.inputs
      BY <1>1 DEF Classified
    <2>2. \A i \in DOMAIN record.inputs : ValueOf(c[n].inputs[i]) = ValueOf(record.inputs[i])
      BY <1>1 DEF Classified, ClassifiedInput, ValueOf
    <2>3. [i \in DOMAIN c[n].inputs |-> ValueOf(c[n].inputs[i])] = [i \in DOMAIN record.inputs |-> ValueOf(record.inputs[i])]
      BY <2>1, <2>2
    <2> QED
      BY <2>3 DEF TotalValue
  <1>4. TotalValue(c[n].outputs) = TotalValue(record.outputs)
    <2>1. DOMAIN c[n].outputs = DOMAIN record.outputs
      BY <1>1 DEF Classified
    <2>2. \A i \in DOMAIN record.outputs : ValueOf(c[n].outputs[i]) = ValueOf(record.outputs[i])
      BY <1>1 DEF Classified, ClassifiedOutput, ValueOf
    <2>3. [i \in DOMAIN c[n].outputs |-> ValueOf(c[n].outputs[i])] = [i \in DOMAIN record.outputs |-> ValueOf(record.outputs[i])]
      BY <2>1, <2>2
    <2> QED
      BY <2>3 DEF TotalValue
  <1>5. FeeOf(c)[n] = TotalValue(record.inputs) - TotalValue(record.outputs)
    BY <1>3, <1>4 DEF FeeOf
  <1>6. TotalValue(record.inputs) \in Int /\ TotalValue(record.outputs) \in Int
    <2>1. CoinsTyped(c)
      BY ClassifiedTyped DEF MixOrder
    <2>2. TotalValue(c[n].inputs) = Worth(c[n].inputs, DOMAIN c[n].inputs)
          /\ TotalValue(c[n].outputs) = Worth(c[n].outputs, DOMAIN c[n].outputs)
      BY DEF TotalValue, Worth
    <2>3. Worth(c[n].inputs, DOMAIN c[n].inputs) \in Nat
      BY <2>1, InputsWorth
    <2>4. Worth(c[n].outputs, DOMAIN c[n].outputs) \in Nat
      BY <2>1, PlacesOfOne
    <2> QED
      BY <1>3, <1>4, <2>2, <2>3, <2>4
  <1>7. Fees(c, n) = SumOf(FeeOf(c), 1..n)
    <2>1. 1..n \subseteq DOMAIN c
      BY <1>1
    <2>2. [m \in 1..n |-> TotalValue(c[m].inputs) - TotalValue(c[m].outputs)] = [m \in 1..n |-> FeeOf(c)[m]]
      BY <2>1 DEF FeeOf
    <2> QED
      BY <2>2 DEF Fees, SumOf
  <1> DEFINE spent == TotalValue(record.inputs)
             made == TotalValue(record.outputs)
             fee == FeeOf(c)[n]
  <1>8. spent >= made /\ fee = spent - made /\ spent \in Int /\ made \in Int
    BY <1>2, <1>5, <1>6
  <1> HIDE DEF spent, made, fee
  <1>9. fee >= 0
    BY <1>8
  <1> QED
    BY <1>7, <1>9 DEF fee

-----------------------------------------------------------------------------
(***************************************************************************)
(* The report of the liquidity.                                            *)
(***************************************************************************)
\* A typed run, and the coinjoins of its report.
RunTyped(run) ==
    /\ LedgerTyped(run.transactions)
    /\ \A t \in DOMAIN run.transactions : run.broadcast[t] \in Amount
    /\ run.mix_events # None => run.mix_events = ExternalMixEvents(run.transactions, DOMAIN run.mix_events)
EventsIn(run) == IF run.mix_events = None THEN << >> ELSE run.mix_events
CoinjoinsIn(run) ==
    classify_coinjoins(coinjoin_order(run.transactions, run.broadcast), run.transactions, run.observed, EventsIn(run))

\* The report is unavailable, or it is about the labelled coinjoins.
LEMMA ReportIs ==
  ASSUME NEW run, RunTyped(run), build_liquidity(run).available
  PROVE  LET order == coinjoin_order(run.transactions, run.broadcast)
             c == CoinjoinsIn(run)
         IN /\ build_liquidity(run) = LiquiditySections(run, c)
            /\ build_liquidity(run).coinjoins = c
            /\ build_liquidity(run).pool = liquidity_series(c, "event", Everyone)
            /\ MixOrder(order, run.transactions) /\ Classified(c, order, run.transactions, EventsIn(run))
            /\ CoinsTyped(c) /\ Len(c) # 0 /\ DOMAIN c = DOMAIN order
  <1> DEFINE order == coinjoin_order(run.transactions, run.broadcast)
             c == CoinjoinsIn(run)
  <1>1. build_liquidity(run) = IF ~run.independent \/ order = << >> THEN [available |-> FALSE] ELSE LiquiditySections(run, c)
    BY DEF build_liquidity, CoinjoinsIn, EventsIn
  <1>2. build_liquidity(run) = LiquiditySections(run, c) /\ order # << >>
    <2>1. [available |-> FALSE].available = FALSE
      OBVIOUS
    <2> HIDE DEF order, c
    <2>2. CASE ~run.independent \/ order = << >>
      BY <1>1, <2>1, <2>2
    <2>3. CASE ~(~run.independent \/ order = << >>)
      BY <1>1, <2>3
    <2> QED
      BY <2>2, <2>3
  <1>3. /\ LiquiditySections(run, c).coinjoins = c
        /\ LiquiditySections(run, c).pool = liquidity_series(c, "event", Everyone)
    <2> HIDE DEF c
    <2> QED
      BY DEF LiquiditySections, OwnerSections
  <1>4. /\ DOMAIN run.transactions \in SUBSET Int /\ IsFiniteSet(DOMAIN run.transactions)
        /\ \A t \in DOMAIN run.transactions : run.transactions[t].height \in Amount /\ run.broadcast[t] \in Amount
    BY DEF RunTyped, LedgerTyped
  <1>5. MixOrder(order, run.transactions)
    <2> DEFINE L == LabelledIn(run.transactions)
    <2>1. /\ order \in Seq(L) /\ DOMAIN order = 1..Len(order)
          /\ \A m, n \in DOMAIN order : order[m] = order[n] => m = n
          /\ \A t \in L : \E n \in DOMAIN order : order[n] = t
      BY <1>4, OrderIs
    <2>2. L \in SUBSET DOMAIN run.transactions
      BY DEF LabelledIn
    <2> HIDE DEF L, order
    <2>3. Len(order) \in Nat /\ \A n \in DOMAIN order : order[n] \in L
      BY <2>1
    <2> QED
      BY <2>1, <2>2, <2>3 DEF MixOrder, L
  <1>6. Classified(c, order, run.transactions, EventsIn(run))
    BY <1>5, ClassifiesAll DEF CoinjoinsIn, MixOrder
  <1>7. CoinsTyped(c)
    <2> HIDE DEF c, order
    <2> QED
      BY <1>5, <1>6, ClassifiedTyped DEF RunTyped, MixOrder
  <1>8. Len(c) # 0
    <2>1. order \in Seq(LabelledIn(run.transactions))
      BY <1>4, OrderIs
    <2>2. Len(c) = Len(order)
      BY <1>6 DEF Classified
    <2> HIDE DEF c, order
    <2> QED
      BY <1>2, <2>1, <2>2
  <1> HIDE DEF c, order
  <1>9. DOMAIN c = DOMAIN order
    BY <1>6 DEF Classified
  <1> QED
    BY <1>2, <1>3, <1>5, <1>6, <1>7, <1>8, <1>9 DEF c, order

\* The pool conserves value.
LEMMA PoolConservedHolds ==
  ASSUME NoFunction(None), NEW run, RunTyped(run)
  PROVE  PoolConserved(run, build_liquidity(run))
  <1> DEFINE report == build_liquidity(run)
             c == CoinjoinsIn(run)
             order == coinjoin_order(run.transactions, run.broadcast)
             T == run.transactions
             E == EventsIn(run)
  <1> SUFFICES ASSUME report.available, SpendsForward(report.coinjoins), NEW n \in DOMAIN report.coinjoins
               PROVE  /\ report.pool.interim[n] = Fees(report.coinjoins, n) + Outstanding(run, report.coinjoins, n)
                      /\ report.pool.active_remix[n] >= 0
    BY DEF PoolConserved
  <1>1. /\ report.coinjoins = c /\ report.pool = liquidity_series(c, "event", Everyone)
        /\ MixOrder(order, T) /\ Classified(c, order, T, E) /\ CoinsTyped(c) /\ LedgerTyped(T)
    BY ReportIs DEF RunTyped
  <1>2. n \in DOMAIN c /\ SpendsForward(c)
    BY <1>1
  <1> HIDE DEF c, order, T, E, report
  <1>3. CoinsLinked(c)
    BY <1>1, ClassifiedLinked
  <1>4. Forward(c)
    <2> SUFFICES ASSUME NEW x \in PoolPlaces(c), NEW k \in DOMAIN c, NEW j \in DOMAIN c[k].inputs, Spends(c, k, j, x)
                 PROVE  x[1] < k
      BY DEF Forward
    <2>1. /\ x[1] \in DOMAIN c /\ x[1] \in DOMAIN order
          /\ ClassifiedOutput(OutputAt(c, x), T[order[x[1]]].outputs[x[2]], <<order[x[1]], x[2]>>, x[1], order, T)
      BY <1>1, PlaceIs
    <2> DEFINE p == <<order[x[1]], x[2]>>
    <2>2. c[k].inputs[j].prev = p
      BY <2>1 DEF ClassifiedOutput, Spends
    <2>3. p # None /\ p[1] = order[x[1]]
      BY NoneIsNoOutpoint
    <2>4. c[x[1]].txid = order[x[1]]
      BY <1>1, <2>1 DEF Classified
    <2> HIDE DEF p
    <2> QED
      BY <1>2, <2>1, <2>2, <2>3, <2>4 DEF SpendsForward
  <1>5. \A m \in DOMAIN c : FeeOf(c)[m] >= 0
    BY <1>1, FeesAre
  <1>6. Fees(c, n) = SumOf(FeeOf(c), 1..n)
    BY <1>1, <1>2, FeesAre
  <1>7. Outstanding(run, c, n) = SumOf(PlaceValues(c), KeptAt(c, n))
    <2>1. LedgerTyped(run.transactions) /\ MixOrder(order, run.transactions) /\ Classified(c, order, run.transactions, E)
      BY <1>1 DEF T
    <2> QED
      BY ZenonT(60), <1>2, <2>1, OutstandingIs
  <1> DEFINE total == Running(StepOf(c, "event", Everyone))[n]
  <1>8. /\ total = SumOf(FeeOf(c), 1..n) + SumOf(PlaceValues(c), KeptAt(c, n))
        /\ total - UnmovedOf(c, "event", Everyone)[n] >= 0
    BY <1>1, <1>2, <1>3, <1>4, <1>5, PoolIsConserved
  <1>9. /\ liquidity_series(c, "event", Everyone).interim[n] = total
        /\ liquidity_series(c, "event", Everyone).active_remix[n] = total - UnmovedOf(c, "event", Everyone)[n]
    BY <1>1, <1>2, SeriesIs
  <1> HIDE DEF total
  <1> QED
    BY <1>1, <1>6, <1>7, <1>8, <1>9

\* What is unmoved in the end stays.
LEMMA UnmovedEndsHolds ==
  ASSUME NoFunction(None), NEW run, RunTyped(run)
  PROVE  UnmovedEndsAsStay(build_liquidity(run))
  <1> DEFINE report == build_liquidity(run)
             c == CoinjoinsIn(run)
             order == coinjoin_order(run.transactions, run.broadcast)
             T == run.transactions
             E == EventsIn(run)
  <1> SUFFICES ASSUME report.available
               PROVE  report.pool.unmoved_window[Len(report.coinjoins)] = SumFunction(report.pool.stay)
    BY DEF UnmovedEndsAsStay
  <1>1. /\ report.coinjoins = c /\ report.pool = liquidity_series(c, "event", Everyone) /\ Len(c) # 0
        /\ MixOrder(order, T) /\ Classified(c, order, T, E) /\ CoinsTyped(c) /\ LedgerTyped(T)
    BY ReportIs DEF RunTyped
  <1> HIDE DEF c, order, T, E, report
  <1>2. CoinsLinked(c)
    BY <1>1, ClassifiedLinked
  <1> DEFINE stay == StayOf(c, "event", Everyone)
             unmoved == UnmovedOf(c, "event", Everyone)
  <1>3. /\ liquidity_series(c, "event", Everyone).unmoved_window = unmoved
        /\ liquidity_series(c, "event", Everyone).stay = stay
    BY <1>1, SeriesIs
  <1>4. unmoved[Len(c)] = SumOf(stay, DOMAIN c)
    BY <1>1, <1>2, UnmovedIsWhatStays
  <1>5. SumFunction(stay) = SumOf(stay, DOMAIN c)
    <2>1. stay = [n \in DOMAIN c |-> stay[n]]
      BY DEF StayOf
    <2> HIDE DEF stay
    <2> QED
      BY <2>1 DEF SumOf
  <1> HIDE DEF stay, unmoved
  <1> QED
    BY <1>1, <1>3, <1>4, <1>5

\* What a perfect detection says of the coins is the ground truth.
LEMMA DetectedEvents ==
  ASSUME NEW transactions, NEW order, MixOrder(order, transactions), NEW mixEvents,
         mixEvents = ExternalMixEvents(transactions, LabelledIn(transactions)),
         NEW c, Classified(c, order, transactions, mixEvents), NEW n \in DOMAIN c
  PROVE  /\ \A i \in DOMAIN c[n].inputs : c[n].inputs[i].blocksci_event = c[n].inputs[i].event
         /\ \A i \in DOMAIN c[n].outputs : c[n].outputs[i].blocksci_event = c[n].outputs[i].event
  <1> DEFINE L == LabelledIn(transactions)
             t == order[n]
             ins == [i \in DOMAIN transactions[t].inputs |-> InputEvent(transactions[t].inputs[i].prev, L)]
             outs == [i \in DOMAIN transactions[t].outputs |-> OutputEvent(spender_index(transactions, <<t, i>>), L)]
  <1>1. /\ n \in DOMAIN order /\ t \in L /\ Range(order) = L
        /\ DOMAIN c[n].inputs = DOMAIN transactions[t].inputs
        /\ DOMAIN c[n].outputs = DOMAIN transactions[t].outputs
    BY MixIs DEF Classified, MixOrder
  <1>2. /\ mixEvents[t] = [inputs |-> ins, outputs |-> outs] /\ t \in DOMAIN mixEvents
    BY <1>1 DEF ExternalMixEvents, OutputEvent
  <1>3. mixEvents[t]["inputs"] = ins /\ mixEvents[t]["outputs"] = outs
    BY <1>2
  <1>4. ASSUME NEW i \in DOMAIN c[n].inputs
        PROVE  c[n].inputs[i].blocksci_event = c[n].inputs[i].event
    <2>1. /\ ClassifiedInput(c[n].inputs[i], transactions[t].inputs[i], order)
          /\ c[n].inputs[i].blocksci_event = blocksci_event(mixEvents, t, "inputs", i)
      BY <1>1 DEF Classified
    <2>2. c[n].inputs[i].event = InputEvent(transactions[t].inputs[i].prev, L)
      BY <1>1, <2>1 DEF ClassifiedInput
    <2>3. i \in DOMAIN ins /\ ins[i] = InputEvent(transactions[t].inputs[i].prev, L)
      BY <1>1
    <2> HIDE DEF ins
    <2>4. blocksci_event(mixEvents, t, "inputs", i) = ins[i]
      BY <1>2, <1>3, <2>3 DEF blocksci_event
    <2> QED
      BY <2>1, <2>2, <2>3, <2>4
  <1>5. ASSUME NEW i \in DOMAIN c[n].outputs
        PROVE  c[n].outputs[i].blocksci_event = c[n].outputs[i].event
    <2>1. /\ ClassifiedOutput(c[n].outputs[i], transactions[t].outputs[i], <<t, i>>, n, order, transactions)
          /\ c[n].outputs[i].blocksci_event = blocksci_event(mixEvents, t, "outputs", i)
      BY <1>1 DEF Classified
    <2>2. c[n].outputs[i].event = OutputEvent(spender_index(transactions, <<t, i>>), L)
      BY <1>1, <2>1 DEF ClassifiedOutput
    <2>3. i \in DOMAIN outs /\ outs[i] = OutputEvent(spender_index(transactions, <<t, i>>), L)
      BY <1>1
    <2> HIDE DEF outs
    <2>4. blocksci_event(mixEvents, t, "outputs", i) = outs[i]
      BY <1>2, <1>3, <2>3 DEF blocksci_event
    <2> QED
      BY <2>1, <2>2, <2>3, <2>4
  <1> QED
    BY <1>4, <1>5

\* Where all events agree, all classified items do.
LEMMA AllAgree ==
  ASSUME NEW c, \A n \in DOMAIN c :
           /\ \A i \in DOMAIN c[n].inputs : c[n].inputs[i].blocksci_event = c[n].inputs[i].event
           /\ \A i \in DOMAIN c[n].outputs : c[n].outputs[i].blocksci_event = c[n].outputs[i].event
  PROVE  LET a == classification_agreement(c, "blocksci_event") IN a.agreeing = a.classified
  <1> DEFINE items == UNION {{<<n, side>>} \X DOMAIN c[n][side] : n \in DOMAIN c, side \in {"inputs", "outputs"}}
             Item(x) == c[x[1][1]][x[1][2]][x[2]]
             agreeing == {x \in items : Item(x)["blocksci_event"] = Item(x).event}
  <1>1. agreeing = items
    <2> SUFFICES ASSUME NEW x \in items
                 PROVE  Item(x)["blocksci_event"] = Item(x).event
      OBVIOUS
    <2>1. PICK n \in DOMAIN c : \E side \in {"inputs", "outputs"} : x \in {<<n, side>>} \X DOMAIN c[n][side]
      OBVIOUS
    <2>2. PICK side \in {"inputs", "outputs"} : x \in {<<n, side>>} \X DOMAIN c[n][side]
      BY <2>1
    <2>3. x[1][1] = n /\ x[1][2] = side /\ x[2] \in DOMAIN c[n][side]
      BY <2>2
    <2>4. Item(x) = c[n][side][x[2]]
      BY <2>3
    <2> HIDE DEF Item, items
    <2>5. CASE side = "inputs"
      <3> DEFINE i == x[2]
      <3>1. i \in DOMAIN c[n].inputs /\ Item(x) = c[n].inputs[i]
        BY <2>3, <2>4, <2>5
      <3> HIDE DEF i
      <3> QED
        BY <3>1
    <2>6. CASE side = "outputs"
      <3> DEFINE i == x[2]
      <3>1. i \in DOMAIN c[n].outputs /\ Item(x) = c[n].outputs[i]
        BY <2>3, <2>4, <2>6
      <3> HIDE DEF i
      <3> QED
        BY <3>1
    <2> QED
      BY <2>2, <2>5, <2>6
  <1>2. /\ classification_agreement(c, "blocksci_event").agreeing = Cardinality(agreeing)
        /\ classification_agreement(c, "blocksci_event").classified = Cardinality(items)
    BY DEF classification_agreement
  <1> HIDE DEF agreeing, items
  <1> QED
    BY <1>1, <1>2

\* A series does not differ from itself.
LEMMA NoDifference ==
  ASSUME NEW pool, \A n \in DOMAIN pool.interim : pool.interim[n] \in Int
  PROVE  max_interim_difference(pool, pool) = 0
  <1> DEFINE diff(n) == LET d == pool.interim[n] - pool.interim[n] IN IF d < 0 THEN -d ELSE d
             S == {0} \cup {diff(n) : n \in DOMAIN pool.interim}
  <1>1. \A n \in DOMAIN pool.interim : diff(n) = 0
    OBVIOUS
  <1>2. max_interim_difference(pool, pool) = Max(S)
    BY DEF max_interim_difference
  <1> HIDE DEF diff
  <1>3. S = {0}
    BY <1>1
  <1>4. Max({0}) = 0
    BY DEF Max
  <1> QED
    BY <1>2, <1>3, <1>4

\* A perfect detection has the ground truth's curve.
LEMMA PerfectDetectionHolds ==
  ASSUME NEW run, RunTyped(run)
  PROVE  PerfectDetectionAgrees(run, build_liquidity(run))
  <1> DEFINE report == build_liquidity(run)
             c == CoinjoinsIn(run)
             order == coinjoin_order(run.transactions, run.broadcast)
             T == run.transactions
             E == run.mix_events
             L == LabelledIn(T)
             pool == liquidity_series(c, "event", Everyone)
             series == liquidity_series(c, "blocksci_event", Everyone)
             b == blocksci_liquidity(c, pool, E)
  <1> SUFFICES ASSUME report.available, E # None, DOMAIN E = L
               PROVE  /\ report.blocksci.interim_max_abs_difference_sats = 0
                      /\ report.blocksci.classification_agreement.agreeing
                            = report.blocksci.classification_agreement.classified
                      /\ report.blocksci.unclassified_coinjoins = 0 /\ report.blocksci.extra_coinjoins = 0
    BY DEF PerfectDetectionAgrees, LabelledIn
  <1>1. /\ report = LiquiditySections(run, c)
        /\ MixOrder(order, T) /\ Classified(c, order, T, EventsIn(run)) /\ CoinsTyped(c) /\ DOMAIN c = DOMAIN order
    BY ReportIs
  <1>2. EventsIn(run) = E /\ E = ExternalMixEvents(T, L)
    <2>1. E = ExternalMixEvents(T, DOMAIN E)
      BY DEF RunTyped
    <2> QED
      BY <2>1 DEF EventsIn
  <1>3. report.blocksci = b
    <2> HIDE DEF c, report
    <2>1. report.blocksci = blocksci_liquidity(c, liquidity_series(c, "event", Everyone), run.mix_events)
      BY <1>1 DEF LiquiditySections, OwnerSections
    <2> QED
      BY <2>1
  <1> HIDE DEF c, order, T, L, report
  <1>4. \A n \in DOMAIN c :
           /\ \A i \in DOMAIN c[n].inputs : c[n].inputs[i].blocksci_event = c[n].inputs[i].event
           /\ \A i \in DOMAIN c[n].outputs : c[n].outputs[i].blocksci_event = c[n].outputs[i].event
    <2> HIDE DEF E
    <2>1. Classified(c, order, T, E) /\ E = ExternalMixEvents(T, LabelledIn(T))
      BY <1>1, <1>2 DEF L
    <2> QED
      BY <1>1, <2>1, DetectedEvents
  <1>5. pool = series
    <2>1. \A n \in DOMAIN c :
           /\ \A i \in DOMAIN c[n].inputs : c[n].inputs[i]["event"] = c[n].inputs[i]["blocksci_event"]
           /\ \A i \in DOMAIN c[n].outputs : c[n].outputs[i]["event"] = c[n].outputs[i]["blocksci_event"]
      BY <1>4
    <2>2. "event" # "observed_event" /\ "blocksci_event" # "observed_event"
      OBVIOUS
    <2> QED
      BY <1>1, <2>1, <2>2, SameSeriesIs
  <1>6. /\ b.interim_max_abs_difference_sats = max_interim_difference(pool, series)
        /\ b.classification_agreement = classification_agreement(c, "blocksci_event")
        /\ b.unclassified_coinjoins = Cardinality({c[n].txid : n \in DOMAIN c} \ DOMAIN E)
        /\ b.extra_coinjoins = Cardinality(DOMAIN E \ {c[n].txid : n \in DOMAIN c})
    <2> HIDE DEF E, pool
    <2> QED
      BY DEF blocksci_liquidity
  <1>7. max_interim_difference(pool, pool) = 0
    <2>1. pool.interim = Running(StepOf(c, "event", Everyone))
      BY <1>1, SeriesIs
    <2> DEFINE step == StepOf(c, "event", Everyone)
               N == Len(c)
    <2>2. N \in Nat /\ DOMAIN step = 1..N /\ DOMAIN c = 1..N
      BY <1>1 DEF CoinsTyped, StepOf
    <2>3. \A n \in 1..N : step[n] \in Int
      <3> TAKE n \in 1..N
      <3>1. /\ EnterOf(c, "event", Everyone)[n] \in Nat /\ LeaveOf(c, "event", Everyone)[n] \in Nat
            /\ step[n] = EnterOf(c, "event", Everyone)[n] - LeaveOf(c, "event", Everyone)[n]
        BY <1>1, <2>2, ColumnsTyped
      <3> HIDE DEF step
      <3> QED
        BY <3>1
    <2> HIDE DEF step, pool, N
    <2>4. DOMAIN Running(step) = 1..N
      BY <2>2 DEF Running
    <2>5. \A n \in 1..N : Running(step)[n] \in Int
      BY <2>2, <2>3, RunningIs
    <2>6. pool.interim = Running(step)
      BY <2>1 DEF step
    <2>7. \A n \in DOMAIN pool.interim : pool.interim[n] \in Int
      BY <2>4, <2>5, <2>6
    <2> QED
      BY <2>7, NoDifference
  <1>8. {c[n].txid : n \in DOMAIN c} = DOMAIN E
    <2>1. \A n \in DOMAIN c : c[n].txid = order[n]
      BY <1>1 DEF Classified
    <2>2. {order[n] : n \in DOMAIN order} = L
      BY <1>1 DEF MixOrder, L
    <2> QED
      BY <1>1, <2>1, <2>2
  <1>9. b.unclassified_coinjoins = 0 /\ b.extra_coinjoins = 0
    <2>1. DOMAIN E \ DOMAIN E = {} /\ Cardinality({}) = 0
      BY FS_EmptySet
    <2> HIDE DEF b, E
    <2> QED
      BY <1>6, <1>8, <2>1
  <1>10. classification_agreement(c, "blocksci_event").agreeing = classification_agreement(c, "blocksci_event").classified
    BY <1>4, AllAgree
  <1> HIDE DEF pool, series, b
  <1> QED
    BY <1>3, <1>5, <1>6, <1>7, <1>9, <1>10

\* Numbers that are summed by the parts of a set.
Parted(S, f, K, part, sums) ==
    /\ IsFiniteSet(S) /\ \A x \in S : f[x] \in Int
    /\ IsFiniteSet(K) /\ \A k \in K : part[k] \in SUBSET S /\ sums[k] = SumOf(f, part[k])
    /\ \A k, l \in K : k # l => part[k] \cap part[l] = {}

\* Their sum is that of the parts'.
LEMMA SumsOfParts ==
  ASSUME NEW S, NEW f, NEW K, NEW part, NEW sums, Parted(S, f, K, part, sums)
  PROVE  SumOf(f, UNION {part[k] : k \in K}) = SumOf(sums, K)
  BY SumsByParts DEF Parted

-----------------------------------------------------------------------------
(***************************************************************************)
(* The owners of the pool.                                                 *)
(***************************************************************************)
\* Every coin has one of the wallets.
OwnedIn(c, W) ==
    \A n \in DOMAIN c : /\ \A i \in DOMAIN c[n].inputs : c[n].inputs[i].wallet \in W
                        /\ \A i \in DOMAIN c[n].outputs : c[n].outputs[i].wallet \in W

\* The positions a wallet owns, of some.
OwnOf(items, places, w) == {i \in places : items[i].wallet = w}

\* What items are worth, wallet by wallet.
LEMMA WorthByWallet ==
  ASSUME NEW items, IsFiniteSet(DOMAIN items), \A i \in DOMAIN items : ValueOf(items[i]) \in Nat,
         NEW W, IsFiniteSet(W), \A i \in DOMAIN items : items[i].wallet \in W,
         NEW A \in SUBSET DOMAIN items,
         NEW col, \A w \in W : col[w] = Worth(items, OwnOf(items, A, w))
  PROVE  SumOf(col, W) = Worth(items, A)
  <1> DEFINE S == DOMAIN items
             V == ValuesIn(items)
             part == [w \in W |-> OwnOf(items, A, w)]
  <1>1. \A i \in S : V[i] \in Int
    BY DEF ValuesIn
  <1>2. \A w \in W : part[w] \in SUBSET S
    BY DEF OwnOf
  <1>3. \A v, w \in W : v # w => part[v] \cap part[w] = {}
    BY DEF OwnOf
  <1>4. \A w \in W : col[w] = SumOf(V, part[w])
    <2> TAKE w \in W
    <2> DEFINE P == OwnOf(items, A, w)
    <2>1. P \in SUBSET DOMAIN items /\ col[w] = Worth(items, P) /\ part[w] = P
      BY DEF OwnOf
    <2> HIDE DEF P, part
    <2>2. Worth(items, P) = SumOf(ValuesIn(items), P)
      BY <2>1, WorthIs
    <2> QED
      BY <2>1, <2>2
  <1>5. UNION {part[w] : w \in W} = A
    <2>1. \A i \in A : items[i].wallet \in W /\ i \in part[items[i].wallet]
      BY DEF OwnOf
    <2>2. \A w \in W : part[w] \in SUBSET A
      BY DEF OwnOf
    <2> HIDE DEF part
    <2> QED
      BY <2>1, <2>2
  <1>6. IsFiniteSet(S)
    OBVIOUS
  <1> HIDE DEF part, V, S
  <1>9. Parted(S, V, W, part, col)
    BY <1>1, <1>2, <1>3, <1>4, <1>6 DEF Parted
  <1>7. SumOf(V, UNION {part[w] : w \in W}) = SumOf(col, W)
    BY <1>9, SumsOfParts
  <1>8. Worth(items, A) = SumOf(V, A)
    BY WorthIs DEF V
  <1> QED
    BY <1>5, <1>7, <1>8

\* Differences add up when what they are of does.
LEMMA SumsOfDifferences ==
  ASSUME NEW W, IsFiniteSet(W), NEW f, NEW g, NEW h, \A w \in W : f[w] \in Int /\ g[w] \in Int /\ h[w] = f[w] - g[w]
  PROVE  SumOf(h, W) = SumOf(f, W) - SumOf(g, W)
  <1>1. \A w \in W : h[w] \in Int /\ g[w] \in Int /\ f[w] = h[w] + g[w]
    <2> TAKE w \in W
    <2> DEFINE a == f[w]
               b == g[w]
               d == h[w]
    <2>1. a \in Int /\ b \in Int /\ d = a - b
      OBVIOUS
    <2> HIDE DEF a, b, d
    <2>2. d \in Int /\ b \in Int /\ a = d + b
      BY <2>1
    <2> QED
      BY <2>2 DEF a, b, d
  <1>2. SumOf(f, W) = SumOf(h, W) + SumOf(g, W)
    BY <1>1, SumsAdd
  <1>3. SumOf(f, W) \in Int /\ SumOf(g, W) \in Int /\ SumOf(h, W) \in Int
    <2>1. (\A w \in W : f[w] \in Int) /\ (\A w \in W : g[w] \in Int) /\ (\A w \in W : h[w] \in Int)
      BY <1>1
    <2> QED
      BY <2>1, IntSums
  <1> QED
    BY <1>2, <1>3

\* Steps of each wallet that add up to those of the pool, and the running totals of each.
StepsAddUp(W, N, steps, total) ==
    /\ DOMAIN total = 1..N
    /\ \A w \in W : DOMAIN steps[w] = 1..N /\ \A n \in 1..N : steps[w][n] \in Int
    /\ \A n \in 1..N : total[n] \in Int /\ SumOf([w \in W |-> steps[w][n]], W) = total[n]
RunningAt(W, steps, n) == [w \in W |-> Running(steps[w])[n]]

\* Running totals add up when their steps do.
LEMMA RunningByWallet ==
  ASSUME NEW W, IsFiniteSet(W), NEW N \in Nat, NEW steps, NEW total, StepsAddUp(W, N, steps, total), NEW k \in 1..N
  PROVE  SumOf(RunningAt(W, steps, k), W) = Running(total)[k]
  <1> DEFINE sum(w, n) == SumOf(steps[w], 1..n)
             at(n) == [w \in W |-> sum(w, n)]
             S == {n \in 0..N : SumOf(at(n), W) = SumOf(total, 1..n)}
  <1>1. \A w \in W : /\ sum(w, 0) = 0
                     /\ \A n \in 0..N : sum(w, n) \in Int
                     /\ \A n \in 1..N : /\ Running(steps[w])[n] = sum(w, n)
                                        /\ sum(w, n) = sum(w, n - 1) + steps[w][n]
    <2> TAKE w \in W
    <2> DEFINE step == steps[w]
    <2>1. DOMAIN step = 1..N /\ \A n \in 1..N : step[n] \in Int
      BY DEF StepsAddUp
    <2> HIDE DEF step
    <2>2. /\ SumOf(step, 1..0) = 0 /\ \A n \in 0..N : SumOf(step, 1..n) \in Int
          /\ \A n \in 1..N : /\ Running(step)[n] = SumOf(step, 1..n)
                             /\ SumOf(step, 1..n) = SumOf(step, 1..(n - 1)) + step[n]
      BY <2>1, RunningIs
    <2> QED
      BY <2>2 DEF step
  <1>2. /\ SumOf(total, 1..0) = 0
        /\ \A n \in 1..N : /\ Running(total)[n] = SumOf(total, 1..n)
                           /\ SumOf(total, 1..n) = SumOf(total, 1..(n - 1)) + total[n]
    <2>1. DOMAIN total = 1..N /\ \A n \in 1..N : total[n] \in Int
      BY DEF StepsAddUp
    <2> QED
      BY <2>1, RunningIs
  <1> HIDE DEF sum
  <1>3. 0 \in S
    <2> DEFINE z == at(0)
    <2>1. \A w \in W : z[w] = 0
      BY <1>1
    <2> HIDE DEF z
    <2>2. SumOf(z, W) = 0
      <3> DEFINE P == {s \in SUBSET W : SumOf(z, s) = 0}
      <3>1. \A s \in SUBSET W : IsFiniteSet(s) /\ \A w \in s : z[w] \in Int
        BY <2>1, FS_Subset
      <3>2. {} \in P
        <4>1. SumOf(z, {}) = 0
          BY FS_EmptySet, IntSums
        <4> QED
          BY <4>1
      <3>3. ASSUME NEW s \in SUBSET W, s # {}, \A w \in s : s \ {w} \in P
            PROVE  s \in P
        <4> PICK w \in s : TRUE
          BY <3>3
        <4>1. SumOf(z, s) = z[w] + SumOf(z, s \ {w})
          BY <3>1, IntSums
        <4>2. SumOf(z, s \ {w}) = 0 /\ z[w] = 0
          BY <2>1, <3>3
        <4>3. SumOf(z, s) = 0
          BY <4>1, <4>2
        <4> QED
          BY <4>3
      <3>4. \A s \in SUBSET W : s \in P
        <4> HIDE DEF P
        <4> QED
          BY <3>2, <3>3, SetInduction
      <3> QED
        BY <3>4
    <2> QED
      BY <1>2, <2>2 DEF z
  <1>4. ASSUME NEW n \in 0..(N - 1), n \in S
        PROVE  n + 1 \in S
    <2> DEFINE m == n + 1
               now == at(m)
               before == at(n)
               step == [w \in W |-> steps[w][m]]
    <2>1. m \in 1..N /\ m - 1 = n /\ n \in 0..N /\ m \in 0..N
      OBVIOUS
    <2>2. \A w \in W : before[w] \in Int /\ step[w] \in Int /\ now[w] = before[w] + step[w]
      <3> TAKE w \in W
      <3>1. sum(w, n) \in Int /\ steps[w][m] \in Int /\ sum(w, m) = sum(w, m - 1) + steps[w][m]
        BY <1>1, <2>1 DEF StepsAddUp
      <3> QED
        BY <2>1, <3>1
    <2>3. SumOf(step, W) = total[m]
      BY <2>1 DEF StepsAddUp
    <2>4. SumOf(before, W) = SumOf(total, 1..n)
      BY <1>4
    <2>5. SumOf(total, 1..m) = SumOf(total, 1..n) + total[m]
      BY <1>2, <2>1
    <2>6. SumOf(now, W) = SumOf(before, W) + SumOf(step, W)
      <3> HIDE DEF now, before, step
      <3> QED
        BY <2>2, SumsAdd
    <2>7. SumOf(now, W) = SumOf(total, 1..m)
      <3> HIDE DEF now, before, step, m
      <3> QED
        BY <2>3, <2>4, <2>5, <2>6
    <2> QED
      BY <2>1, <2>7
  <1>5. \A n \in 0..N : n \in S
    <2> HIDE DEF S
    <2> QED
      BY <1>3, <1>4, UpTo
  <1>6. k \in S /\ k \in 0..N
    BY <1>5
  <1>7. RunningAt(W, steps, k) = at(k)
    BY <1>1 DEF RunningAt
  <1>8. Running(total)[k] = SumOf(total, 1..k)
    BY <1>2
  <1> QED
    BY <1>6, <1>7, <1>8

\* What a wallet owns of what is selected is what is selected of what it owns.
LEMMA OwnIs ==
  ASSUME NEW c, CoinsTyped(c), NEW n \in DOMAIN c, NEW w
  PROVE  /\ Entering(c[n], "event", {w}) = OwnOf(c[n].inputs, Entering(c[n], "event", Everyone), w)
         /\ \A events : OutputsOf(c[n], "event", {w}, events)
                          = OwnOf(c[n].outputs, OutputsOf(c[n], "event", Everyone, events), w)
         /\ Fast(c[n], OutputsOf(c[n], "event", {w}, {Leave}))
              = OwnOf(c[n].outputs, Fast(c[n], OutputsOf(c[n], "event", Everyone, {Leave})), w)
         /\ Slow(c[n], "event", {w}) = OwnOf(c[n].outputs, Slow(c[n], "event", Everyone), w)
  <1>1. /\ OwnedBy(c[n].inputs, {w}) = OwnOf(c[n].inputs, OwnedBy(c[n].inputs, Everyone), w)
        /\ OwnedBy(c[n].outputs, {w}) = OwnOf(c[n].outputs, OwnedBy(c[n].outputs, Everyone), w)
    <2>1. /\ OwnedBy(c[n].inputs, {w}) = {i \in DOMAIN c[n].inputs : c[n].inputs[i].wallet = w}
          /\ OwnedBy(c[n].outputs, {w}) = {i \in DOMAIN c[n].outputs : c[n].outputs[i].wallet = w}
      BY DEF OwnedBy
    <2> QED
      BY <2>1, OwnedByEveryone DEF OwnOf
  <1>2. Entering(c[n], "event", {w}) = OwnOf(c[n].inputs, Entering(c[n], "event", Everyone), w)
    BY <1>1 DEF Entering, OwnOf
  <1>3. \A events : OutputsOf(c[n], "event", {w}, events)
                      = OwnOf(c[n].outputs, OutputsOf(c[n], "event", Everyone, events), w)
    BY <1>1 DEF OutputsOf, OwnOf
  <1>4. Fast(c[n], OutputsOf(c[n], "event", {w}, {Leave}))
          = OwnOf(c[n].outputs, Fast(c[n], OutputsOf(c[n], "event", Everyone, {Leave})), w)
    BY <1>3 DEF Fast, OwnOf
  <1>5. Slow(c[n], "event", {w}) = OwnOf(c[n].outputs, Slow(c[n], "event", Everyone), w)
    BY <1>3 DEF Slow, Fast, OwnOf
  <1> QED
    BY <1>2, <1>3, <1>4, <1>5

\* Each wallet's part of a column.
EntersAt(c, W, n) == [w \in W |-> EnterOf(c, "event", {w})[n]]
LeavesAt(c, W, n) == [w \in W |-> LeaveOf(c, "event", {w})[n]]
FastsAt(c, W, n) == [w \in W |-> FastOf(c, "event", {w})[n]]
StaysAt(c, W, n) == [w \in W |-> StayOf(c, "event", {w})[n]]
StepsAt(c, W, n) == [w \in W |-> StepOf(c, "event", {w})[n]]
FastStepsAt(c, W, n) == [w \in W |-> FastStepOf(c, "event", {w})[n]]
UnmovedAt(c, W, n) == [w \in W |-> UnmovedOf(c, "event", {w})[n]]

\* The wallets' shares of what a coinjoin takes and makes add up.
LEMMA ColumnsAddUp ==
  ASSUME NEW c, CoinsTyped(c), NEW W, IsFiniteSet(W), OwnedIn(c, W), NEW n \in DOMAIN c
  PROVE  /\ SumOf(EntersAt(c, W, n), W) = EnterOf(c, "event", Everyone)[n]
         /\ SumOf(LeavesAt(c, W, n), W) = LeaveOf(c, "event", Everyone)[n]
         /\ SumOf(FastsAt(c, W, n), W) = FastOf(c, "event", Everyone)[n]
         /\ SumOf(StaysAt(c, W, n), W) = StayOf(c, "event", Everyone)[n]
         /\ SumOf(StepsAt(c, W, n), W) = StepOf(c, "event", Everyone)[n]
         /\ SumOf(FastStepsAt(c, W, n), W) = FastStepOf(c, "event", Everyone)[n]
  <1> DEFINE ins == c[n].inputs
             outs == c[n].outputs
             enter == EntersAt(c, W, n)
             leave == LeavesAt(c, W, n)
             fast == FastsAt(c, W, n)
             stay == StaysAt(c, W, n)
             step == StepsAt(c, W, n)
             quick == FastStepsAt(c, W, n)
  <1>1. /\ IsFiniteSet(DOMAIN ins) /\ IsFiniteSet(DOMAIN outs)
        /\ \A i \in DOMAIN ins : ValueOf(ins[i]) \in Nat
        /\ \A i \in DOMAIN outs : ValueOf(outs[i]) \in Nat
        /\ \A i \in DOMAIN ins : ins[i].wallet \in W
        /\ \A i \in DOMAIN outs : outs[i].wallet \in W
    BY DEF CoinsTyped, OwnedIn
  <1>2. SumOf(enter, W) = EnterOf(c, "event", Everyone)[n]
    <2> DEFINE A == Entering(c[n], "event", Everyone)
    <2>1. A \in SUBSET DOMAIN ins
      BY DEF Entering, OwnedBy
    <2>2. \A w \in W : enter[w] = Worth(ins, OwnOf(ins, A, w))
      <3> TAKE w \in W
      <3> DEFINE own == Entering(c[n], "event", {w})
      <3>1. enter[w] = Worth(ins, own)
        BY DEF EnterOf, EntersAt
      <3>2. own = OwnOf(ins, A, w)
        BY ZenonT(60), OwnIs
      <3> HIDE DEF own, A, ins, enter
      <3> QED
        BY <3>1, <3>2
    <2>3. EnterOf(c, "event", Everyone)[n] = Worth(ins, A)
      BY DEF EnterOf
    <2> HIDE DEF A, ins, enter
    <2> QED
      BY <1>1, <2>1, <2>2, <2>3, WorthByWallet
  <1>3. SumOf(leave, W) = LeaveOf(c, "event", Everyone)[n]
    <2> DEFINE A == OutputsOf(c[n], "event", Everyone, {Leave})
    <2>1. A \in SUBSET DOMAIN outs
      BY DEF OutputsOf, OwnedBy
    <2>2. \A w \in W : leave[w] = Worth(outs, OwnOf(outs, A, w))
      <3> TAKE w \in W
      <3> DEFINE own == OutputsOf(c[n], "event", {w}, {Leave})
      <3>1. leave[w] = Worth(outs, own)
        BY DEF LeaveOf, LeavesAt
      <3>2. own = OwnOf(outs, A, w)
        BY ZenonT(60), OwnIs
      <3> HIDE DEF own, A, outs, leave
      <3> QED
        BY <3>1, <3>2
    <2>3. LeaveOf(c, "event", Everyone)[n] = Worth(outs, A)
      BY DEF LeaveOf
    <2> HIDE DEF A, outs, leave
    <2> QED
      BY <1>1, <2>1, <2>2, <2>3, WorthByWallet
  <1>4. SumOf(fast, W) = FastOf(c, "event", Everyone)[n]
    <2> DEFINE A == Fast(c[n], OutputsOf(c[n], "event", Everyone, {Leave}))
    <2>1. A \in SUBSET DOMAIN outs
      BY DEF Fast, OutputsOf, OwnedBy
    <2>2. \A w \in W : fast[w] = Worth(outs, OwnOf(outs, A, w))
      <3> TAKE w \in W
      <3> DEFINE own == Fast(c[n], OutputsOf(c[n], "event", {w}, {Leave}))
      <3>1. fast[w] = Worth(outs, own)
        BY DEF FastOf, FastsAt
      <3>2. own = OwnOf(outs, A, w)
        BY ZenonT(60), OwnIs
      <3> HIDE DEF own, A, outs, fast
      <3> QED
        BY <3>1, <3>2
    <2>3. FastOf(c, "event", Everyone)[n] = Worth(outs, A)
      BY DEF FastOf
    <2> HIDE DEF A, outs, fast
    <2> QED
      BY <1>1, <2>1, <2>2, <2>3, WorthByWallet
  <1>5. SumOf(stay, W) = StayOf(c, "event", Everyone)[n]
    <2> DEFINE A == OutputsOf(c[n], "event", Everyone, {Stay})
    <2>1. A \in SUBSET DOMAIN outs
      BY DEF OutputsOf, OwnedBy
    <2>2. \A w \in W : stay[w] = Worth(outs, OwnOf(outs, A, w))
      <3> TAKE w \in W
      <3> DEFINE own == OutputsOf(c[n], "event", {w}, {Stay})
      <3>1. stay[w] = Worth(outs, own)
        BY DEF StayOf, StaysAt
      <3>2. own = OwnOf(outs, A, w)
        BY ZenonT(60), OwnIs
      <3> HIDE DEF own, A, outs, stay
      <3> QED
        BY <3>1, <3>2
    <2>3. StayOf(c, "event", Everyone)[n] = Worth(outs, A)
      BY DEF StayOf
    <2> HIDE DEF A, outs, stay
    <2> QED
      BY <1>1, <2>1, <2>2, <2>3, WorthByWallet
  <1>6. \A w \in W : /\ enter[w] \in Int /\ leave[w] \in Int /\ fast[w] \in Int
                     /\ step[w] = enter[w] - leave[w] /\ quick[w] = enter[w] - fast[w]
    <2> TAKE w \in W
    <2>1. /\ EnterOf(c, "event", {w})[n] \in Nat /\ LeaveOf(c, "event", {w})[n] \in Nat
          /\ FastOf(c, "event", {w})[n] \in Nat
          /\ StepOf(c, "event", {w})[n] = EnterOf(c, "event", {w})[n] - LeaveOf(c, "event", {w})[n]
          /\ FastStepOf(c, "event", {w})[n] = EnterOf(c, "event", {w})[n] - FastOf(c, "event", {w})[n]
      BY ColumnsTyped
    <2> QED
      BY <2>1 DEF EntersAt, LeavesAt, FastsAt, StepsAt, FastStepsAt
  <1> HIDE DEF enter, leave, fast, stay, step, quick
  <1>7. SumOf(step, W) = SumOf(enter, W) - SumOf(leave, W)
    BY <1>6, SumsOfDifferences
  <1>8. SumOf(quick, W) = SumOf(enter, W) - SumOf(fast, W)
    BY <1>6, SumsOfDifferences
  <1>9. /\ StepOf(c, "event", Everyone)[n] = EnterOf(c, "event", Everyone)[n] - LeaveOf(c, "event", Everyone)[n]
        /\ FastStepOf(c, "event", Everyone)[n] = EnterOf(c, "event", Everyone)[n] - FastOf(c, "event", Everyone)[n]
    BY ColumnsTyped
  <1>10. SumOf(step, W) = StepOf(c, "event", Everyone)[n] /\ SumOf(quick, W) = FastStepOf(c, "event", Everyone)[n]
    BY <1>2, <1>3, <1>4, <1>7, <1>8, <1>9
  <1> QED
    BY <1>2, <1>3, <1>4, <1>5, <1>10 DEF enter, leave, fast, stay, step, quick

\* The wallets' unmoved outputs are the unmoved outputs, each with its owner's.
LEMMA UnmovedAddsUp ==
  ASSUME NEW c, CoinsTyped(c), CoinsLinked(c), NEW W, IsFiniteSet(W), OwnedIn(c, W), NEW n \in DOMAIN c
  PROVE  SumOf(UnmovedAt(c, W, n), W) = UnmovedOf(c, "event", Everyone)[n]
  <1> DEFINE P == PoolPlaces(c)
             V == PlaceValues(c)
             U == StillUnmoved(c, "event", Everyone, n)
             part == [w \in W |-> StillUnmoved(c, "event", {w}, n)]
             col == UnmovedAt(c, W, n)
  <1>1. /\ IsFiniteSet(P) /\ \A x \in P : V[x] \in Int
        /\ \A x \in P : x[1] \in DOMAIN c /\ x[2] \in DOMAIN c[x[1]].outputs
    BY PlacesTyped
  <1>2. Len(c) \in Nat /\ DOMAIN c = 1..Len(c)
    BY DEF CoinsTyped
  <1>3. \A x \in P : \A k \in (x[1] + 1)..n : k \in DOMAIN c
    <2> TAKE x \in P
    <2>1. x[1] \in 1..Len(c) /\ n \in 1..Len(c)
      BY <1>1, <1>2
    <2> QED
      BY <1>2, <2>1
  <1>4. \A w \in W : \A x \in P : x \in part[w] <=> x \in U /\ OutputAt(c, x).wallet = w
    <2> TAKE w \in W
    <2> TAKE x \in P
    <2>1. x[2] \in Slow(c[x[1]], "event", {w}) <=> x[2] \in Slow(c[x[1]], "event", Everyone) /\ OutputAt(c, x).wallet = w
      <3> DEFINE m == x[1]
                 i == x[2]
                 own == Slow(c[m], "event", {w})
                 slow == Slow(c[m], "event", Everyone)
      <3>1. m \in DOMAIN c
        BY <1>1
      <3> HIDE DEF m
      <3>2. own = OwnOf(c[m].outputs, slow, w)
        BY <3>1, OwnIs
      <3> HIDE DEF own, slow, i
      <3>3. i \in own <=> i \in slow /\ c[m].outputs[i].wallet = w
        BY <3>2 DEF OwnOf
      <3>4. OutputAt(c, x) = c[m].outputs[i]
        BY DEF OutputAt, m, i
      <3>5. i \in own <=> i \in slow /\ OutputAt(c, x).wallet = w
        BY <3>3, <3>4
      <3> QED
        BY <3>5 DEF m, i, own, slow
    <2>2. ASSUME NEW k \in (x[1] + 1)..n, OutputAt(c, x).wallet = w
          PROVE  \A i \in DOMAIN c[k].inputs : Spends(c, k, i, x) =>
                    i \in OwnedBy(c[k].inputs, {w}) /\ i \in OwnedBy(c[k].inputs, Everyone)
      <3> SUFFICES ASSUME NEW i \in DOMAIN c[k].inputs, Spends(c, k, i, x)
                   PROVE  i \in OwnedBy(c[k].inputs, {w}) /\ i \in OwnedBy(c[k].inputs, Everyone)
        OBVIOUS
      <3>1. k \in DOMAIN c
        BY <1>3
      <3>2. c[k].inputs[i].wallet = w
        BY <2>2, <3>1 DEF CoinsLinked
      <3>3. i \in OwnedBy(c[k].inputs, {w})
        BY <3>2 DEF OwnedBy
      <3>4. i \in OwnedBy(c[k].inputs, Everyone)
        BY <3>1, OwnedByEveryone
      <3> QED
        BY <3>3, <3>4
    <2>3. \A k \in (x[1] + 1)..n : /\ OwnedBy(c[k].inputs, {w}) \in SUBSET DOMAIN c[k].inputs
                                   /\ OwnedBy(c[k].inputs, Everyone) \in SUBSET DOMAIN c[k].inputs
      BY DEF OwnedBy
    <2>4. x \in part[w] <=> /\ x[1] <= n /\ x[2] \in Slow(c[x[1]], "event", {w})
                            /\ \A k \in (x[1] + 1)..n : \A i \in OwnedBy(c[k].inputs, {w}) : ~Spends(c, k, i, x)
      BY DEF StillUnmoved
    <2>5. x \in U <=> /\ x[1] <= n /\ x[2] \in Slow(c[x[1]], "event", Everyone)
                      /\ \A k \in (x[1] + 1)..n : \A i \in OwnedBy(c[k].inputs, Everyone) : ~Spends(c, k, i, x)
      BY DEF StillUnmoved
    <2> HIDE DEF part, U
    <2>6. CASE OutputAt(c, x).wallet # w
      BY <2>1, <2>4, <2>6
    <2>7. CASE OutputAt(c, x).wallet = w
      <3>1. \A k \in (x[1] + 1)..n : (\A i \in OwnedBy(c[k].inputs, {w}) : ~Spends(c, k, i, x))
                                        <=> (\A i \in OwnedBy(c[k].inputs, Everyone) : ~Spends(c, k, i, x))
        BY <2>2, <2>3, <2>7
      <3> QED
        BY <2>1, <2>4, <2>5, <2>7, <3>1
    <2> QED
      BY <2>6, <2>7
  <1>5. \A w \in W : part[w] \in SUBSET P
    BY DEF StillUnmoved
  <1>6. U \in SUBSET P /\ UnmovedOf(c, "event", Everyone)[n] = SumOf(V, U)
    BY ColumnsTyped
  <1>7. \A w \in W : col[w] = SumOf(V, part[w])
    BY ColumnsTyped DEF UnmovedAt
  <1>8. \A x \in P : OutputAt(c, x).wallet \in W
    BY <1>1 DEF OwnedIn, OutputAt
  <1> HIDE DEF part, U, V, P, col
  <1>9. \A v, w \in W : v # w => part[v] \cap part[w] = {}
    BY <1>4, <1>5
  <1>10. UNION {part[w] : w \in W} = U
    <2>1. \A x \in U : OutputAt(c, x).wallet \in W /\ x \in part[OutputAt(c, x).wallet]
      BY <1>4, <1>6, <1>8
    <2>2. \A w \in W : part[w] \in SUBSET U
      BY <1>4, <1>5
    <2> QED
      BY <2>1, <2>2
  <1>11. Parted(P, V, W, part, col)
    BY <1>1, <1>5, <1>7, <1>9 DEF Parted
  <1>12. SumOf(V, UNION {part[w] : w \in W}) = SumOf(col, W)
    BY <1>11, SumsOfParts
  <1> QED
    BY <1>6, <1>10, <1>12 DEF col

\* So do their running totals.
LEMMA TotalsAddUp ==
  ASSUME NEW c, CoinsTyped(c), NEW W, IsFiniteSet(W), OwnedIn(c, W), NEW n \in DOMAIN c
  PROVE  /\ SumOf([w \in W |-> Running(StepOf(c, "event", {w}))[n]], W) = Running(StepOf(c, "event", Everyone))[n]
         /\ SumOf([w \in W |-> Running(FastStepOf(c, "event", {w}))[n]], W)
              = Running(FastStepOf(c, "event", Everyone))[n]
         /\ \A who : Running(StepOf(c, "event", who))[n] \in Int
  <1> DEFINE N == Len(c)
             steps == [w \in W |-> StepOf(c, "event", {w})]
             step == StepOf(c, "event", Everyone)
             quicks == [w \in W |-> FastStepOf(c, "event", {w})]
             quick == FastStepOf(c, "event", Everyone)
  <1>1. N \in Nat /\ DOMAIN c = 1..N /\ n \in 1..N
    BY DEF CoinsTyped
  <1>2. \A who : /\ DOMAIN StepOf(c, "event", who) = 1..N /\ DOMAIN FastStepOf(c, "event", who) = 1..N
                 /\ \A k \in 1..N : StepOf(c, "event", who)[k] \in Int /\ FastStepOf(c, "event", who)[k] \in Int
    <2> TAKE who
    <2>1. DOMAIN StepOf(c, "event", who) = 1..N /\ DOMAIN FastStepOf(c, "event", who) = 1..N
      BY <1>1 DEF StepOf, FastStepOf
    <2>2. ASSUME NEW k \in 1..N
          PROVE  StepOf(c, "event", who)[k] \in Int /\ FastStepOf(c, "event", who)[k] \in Int
      <3>1. k \in DOMAIN c
        BY <1>1
      <3>2. /\ EnterOf(c, "event", who)[k] \in Nat /\ LeaveOf(c, "event", who)[k] \in Nat
            /\ FastOf(c, "event", who)[k] \in Nat
            /\ StepOf(c, "event", who)[k] = EnterOf(c, "event", who)[k] - LeaveOf(c, "event", who)[k]
            /\ FastStepOf(c, "event", who)[k] = EnterOf(c, "event", who)[k] - FastOf(c, "event", who)[k]
        BY <3>1, ColumnsTyped
      <3> QED
        BY <3>2
    <2> QED
      BY <2>1, <2>2
  <1>3. \A k \in 1..N : /\ SumOf(StepsAt(c, W, k), W) = step[k]
                        /\ SumOf(FastStepsAt(c, W, k), W) = quick[k]
    <2> TAKE k \in 1..N
    <2>1. k \in DOMAIN c
      BY <1>1
    <2> QED
      BY <2>1, ColumnsAddUp
  <1>4. \A k \in 1..N : /\ [w \in W |-> steps[w][k]] = StepsAt(c, W, k)
                        /\ [w \in W |-> quicks[w][k]] = FastStepsAt(c, W, k)
    BY DEF StepsAt, FastStepsAt
  <1>5. /\ \A w \in W : DOMAIN steps[w] = 1..N /\ \A k \in 1..N : steps[w][k] \in Int
        /\ \A w \in W : DOMAIN quicks[w] = 1..N /\ \A k \in 1..N : quicks[w][k] \in Int
    BY <1>2
  <1>6. /\ DOMAIN step = 1..N /\ \A k \in 1..N : step[k] \in Int
        /\ DOMAIN quick = 1..N /\ \A k \in 1..N : quick[k] \in Int
    BY <1>2
  <1>7. ASSUME NEW who
        PROVE  Running(StepOf(c, "event", who))[n] \in Int
    <2> DEFINE s == StepOf(c, "event", who)
    <2>1. DOMAIN s = 1..N /\ \A k \in 1..N : s[k] \in Int
      BY <1>2
    <2> HIDE DEF s, N
    <2>2. (\A k \in 0..N : SumOf(s, 1..k) \in Int) /\ \A k \in 1..N : Running(s)[k] = SumOf(s, 1..k)
      BY <1>1, <2>1, RunningIs
    <2>3. n \in 0..N
      BY <1>1
    <2>4. Running(s)[n] \in Int
      BY <1>1, <2>2, <2>3
    <2> QED
      BY <2>4 DEF s
  <1>8. /\ RunningAt(W, steps, n) = [w \in W |-> Running(StepOf(c, "event", {w}))[n]]
        /\ RunningAt(W, quicks, n) = [w \in W |-> Running(FastStepOf(c, "event", {w}))[n]]
    BY DEF RunningAt
  <1> HIDE DEF steps, step, quicks, quick, N
  <1>9. StepsAddUp(W, N, steps, step) /\ StepsAddUp(W, N, quicks, quick)
    BY <1>3, <1>4, <1>5, <1>6 DEF StepsAddUp
  <1>10. SumOf(RunningAt(W, steps, n), W) = Running(step)[n]
    BY <1>1, <1>9, RunningByWallet
  <1>11. SumOf(RunningAt(W, quicks, n), W) = Running(quick)[n]
    BY <1>1, <1>9, RunningByWallet
  <1> QED
    BY <1>7, <1>8, <1>10, <1>11 DEF step, quick

\* What the wallets' series show in a column after a coinjoin.
ShownAt(W, series, col, n) == [w \in W |-> series[w][col][n]]

\* The wallets' series add up to the pool's.
LEMMA SeriesAddUp ==
  ASSUME NEW c, CoinsTyped(c), CoinsLinked(c), NEW W, IsFiniteSet(W), OwnedIn(c, W),
         NEW series, \A w \in W : series[w] = liquidity_series(c, "event", {w}),
         NEW col \in Columns, NEW n \in DOMAIN c
  PROVE  SumOf(ShownAt(W, series, col, n), W) = liquidity_series(c, "event", Everyone)[col][n]
  <1> DEFINE shown == [w \in W |-> series[w][col][n]]
             pool == liquidity_series(c, "event", Everyone)
             interim == [w \in W |-> Running(StepOf(c, "event", {w}))[n]]
             fast == [w \in W |-> Running(FastStepOf(c, "event", {w}))[n]]
             active == [w \in W |-> interim[w] - UnmovedAt(c, W, n)[w]]
             Is(s, who) == /\ s["enter"][n] = EnterOf(c, "event", who)[n]
                           /\ s["leave"][n] = LeaveOf(c, "event", who)[n]
                           /\ s["stay"][n] = StayOf(c, "event", who)[n]
                           /\ s["interim"][n] = Running(StepOf(c, "event", who))[n]
                           /\ s["interim_fast_leave"][n] = Running(FastStepOf(c, "event", who))[n]
                           /\ s["unmoved_window"][n] = UnmovedOf(c, "event", who)[n]
                           /\ s["active_remix"][n]
                                = Running(StepOf(c, "event", who))[n] - UnmovedOf(c, "event", who)[n]
  <1>1. \A who : Is(liquidity_series(c, "event", who), who)
    <2> TAKE who
    <2>1. liquidity_series(c, "event", who) =
           [enter |-> EnterOf(c, "event", who), leave |-> LeaveOf(c, "event", who),
            stay |-> StayOf(c, "event", who), interim |-> Running(StepOf(c, "event", who)),
            interim_fast_leave |-> Running(FastStepOf(c, "event", who)),
            unmoved_window |-> UnmovedOf(c, "event", who),
            active_remix |-> [k \in DOMAIN c |-> Running(StepOf(c, "event", who))[k]
                                                    - UnmovedOf(c, "event", who)[k]]]
      BY SeriesIs
    <2> QED
      BY <2>1
  <1>2. \A w \in W : Is(series[w], {w})
    <2> HIDE DEF Is
    <2> QED
      BY <1>1
  <1>3. Is(pool, Everyone)
    <2> HIDE DEF Is
    <2> QED
      BY <1>1
  <1>4. /\ SumOf(EntersAt(c, W, n), W) = EnterOf(c, "event", Everyone)[n]
        /\ SumOf(LeavesAt(c, W, n), W) = LeaveOf(c, "event", Everyone)[n]
        /\ SumOf(StaysAt(c, W, n), W) = StayOf(c, "event", Everyone)[n]
    BY ColumnsAddUp
  <1>5. /\ SumOf(interim, W) = Running(StepOf(c, "event", Everyone))[n]
        /\ SumOf(fast, W) = Running(FastStepOf(c, "event", Everyone))[n]
        /\ \A w \in W : interim[w] \in Int
    BY TotalsAddUp
  <1>6. SumOf(UnmovedAt(c, W, n), W) = UnmovedOf(c, "event", Everyone)[n]
    BY UnmovedAddsUp
  <1>7. SumOf(active, W) = SumOf(interim, W) - SumOf(UnmovedAt(c, W, n), W)
    <2> DEFINE unmoved == UnmovedAt(c, W, n)
    <2>1. \A w \in W : unmoved[w] \in Int
      BY ColumnsTyped DEF UnmovedAt
    <2>2. \A w \in W : interim[w] \in Int /\ unmoved[w] \in Int /\ active[w] = interim[w] - unmoved[w]
      BY <1>5, <2>1
    <2> HIDE DEF interim, unmoved, active
    <2>3. SumOf(active, W) = SumOf(interim, W) - SumOf(unmoved, W)
      BY <2>2, SumsOfDifferences
    <2> QED
      BY <2>3 DEF unmoved
  <1>8. shown = [w \in W |-> shown[w]]
    OBVIOUS
  <1>9. \A w \in W : /\ shown[w] = series[w][col][n]
                     /\ EntersAt(c, W, n)[w] = EnterOf(c, "event", {w})[n]
                     /\ LeavesAt(c, W, n)[w] = LeaveOf(c, "event", {w})[n]
                     /\ StaysAt(c, W, n)[w] = StayOf(c, "event", {w})[n]
                     /\ UnmovedAt(c, W, n)[w] = UnmovedOf(c, "event", {w})[n]
                     /\ interim[w] = Running(StepOf(c, "event", {w}))[n]
                     /\ fast[w] = Running(FastStepOf(c, "event", {w}))[n]
                     /\ active[w] = Running(StepOf(c, "event", {w}))[n] - UnmovedOf(c, "event", {w})[n]
    BY DEF EntersAt, LeavesAt, StaysAt, UnmovedAt
  <1>10. \A f : (\A w \in W : shown[w] = f[w]) => SumOf(shown, W) = SumOf(f, W)
    <2> TAKE f
    <2> SUFFICES ASSUME \A w \in W : shown[w] = f[w]
                 PROVE  SumOf(shown, W) = SumOf(f, W)
      OBVIOUS
    <2> HIDE DEF shown
    <2>1. [w \in W |-> shown[w]] = [w \in W |-> f[w]]
      OBVIOUS
    <2> QED
      BY <2>1 DEF SumOf
  <1> HIDE DEF shown, pool, interim, fast, active
  <1>11. CASE col = "enter"
    <2>1. \A w \in W : shown[w] = EntersAt(c, W, n)[w]
      BY <1>2, <1>9, <1>11
    <2> QED
      BY <1>3, <1>4, <1>10, <1>11, <2>1 DEF shown, pool, ShownAt
  <1>12. CASE col = "leave"
    <2>1. \A w \in W : shown[w] = LeavesAt(c, W, n)[w]
      BY <1>2, <1>9, <1>12
    <2> QED
      BY <1>3, <1>4, <1>10, <1>12, <2>1 DEF shown, pool, ShownAt
  <1>13. CASE col = "stay"
    <2>1. \A w \in W : shown[w] = StaysAt(c, W, n)[w]
      BY <1>2, <1>9, <1>13
    <2> QED
      BY <1>3, <1>4, <1>10, <1>13, <2>1 DEF shown, pool, ShownAt
  <1>14. CASE col = "interim"
    <2>1. \A w \in W : shown[w] = interim[w]
      BY <1>2, <1>9, <1>14
    <2> QED
      BY <1>3, <1>5, <1>10, <1>14, <2>1 DEF shown, pool, ShownAt
  <1>15. CASE col = "interim_fast_leave"
    <2>1. \A w \in W : shown[w] = fast[w]
      BY <1>2, <1>9, <1>15
    <2> QED
      BY <1>3, <1>5, <1>10, <1>15, <2>1 DEF shown, pool, ShownAt
  <1>16. CASE col = "unmoved_window"
    <2>1. \A w \in W : shown[w] = UnmovedAt(c, W, n)[w]
      BY <1>2, <1>9, <1>16
    <2> QED
      BY <1>3, <1>6, <1>10, <1>16, <2>1 DEF shown, pool, ShownAt
  <1>17. CASE col = "active_remix"
    <2>1. \A w \in W : shown[w] = active[w]
      BY <1>2, <1>9, <1>17
    <2> QED
      BY <1>3, <1>5, <1>6, <1>7, <1>10, <1>17, <2>1 DEF shown, pool, ShownAt
  <1> QED
    BY <1>11, <1>12, <1>13, <1>14, <1>15, <1>16, <1>17 DEF Columns

\* The largest element of a finite set of integers.
LEMMA LargestOf ==
  ASSUME NEW S \in SUBSET Int, IsFiniteSet(S), S # {}
  PROVE  Max(S) \in S
  <1> DEFINE P == {T \in SUBSET S : T # {} => \E x \in T : \A y \in T : x >= y}
  <1>1. {} \in P
    OBVIOUS
  <1>2. ASSUME NEW T \in SUBSET S, T # {}, \A z \in T : T \ {z} \in P
        PROVE  T \in P
    <2>1. PICK z \in T : T \ {z} \in P
      BY <1>2
    <2>2. CASE T \ {z} = {}
      <3>1. \A y \in T : y = z
        BY <2>2
      <3>2. \A y \in T : z >= y
        BY <3>1
      <3> QED
        BY <3>2
    <2>3. CASE T \ {z} # {}
      <3>1. PICK x \in T \ {z} : \A y \in T \ {z} : x >= y
        BY <2>1, <2>3
      <3>2. x \in Int /\ z \in Int /\ \A y \in T : y \in Int
        OBVIOUS
      <3>3. CASE x >= z
        <4>1. \A y \in T : x >= y
          BY <3>1, <3>3
        <4> QED
          BY <4>1
      <3>4. CASE ~(x >= z)
        <4>1. \A y \in T : z >= y
          BY <3>1, <3>2, <3>4
        <4> QED
          BY <4>1
      <3> QED
        BY <3>3, <3>4
    <2> QED
      BY <2>2, <2>3
  <1> HIDE DEF P
  <1>3. S \in P
    <2>1. \A T \in SUBSET S : T # {} /\ (\A z \in T : T \ {z} \in P) => T \in P
      BY <1>2
    <2>2. \A T \in SUBSET S : T \in P
      BY <1>1, <2>1, SetInduction
    <2> QED
      BY <2>2
  <1>4. \E x \in S : \A y \in S : x >= y
    BY <1>3 DEF P
  <1> QED
    BY <1>4 DEF Max

\* The window of a curve lies on the curve.
LEMMA WindowIs ==
  ASSUME NEW N \in Nat \ {0}, NEW curve \in [1..N -> Int]
  PROVE  LET w == descending_window(curve) IN w.from \in 1..N /\ w.to \in 0..N
  <1> DEFINE top == Max(Range(curve))
             I == {i \in 1..Len(curve) : curve[i] = top}
             peak == SelectInSeq(curve, LAMBDA v : v = top)
             trough == Min({curve[n] : n \in peak..Len(curve)})
             J == {i \in peak..Len(curve) : curve[i] = trough}
             last == SelectInSubSeq(curve, peak, Len(curve), LAMBDA v : v = trough)
  <1>1. Len(curve) = N
    OBVIOUS
  <1>2. top \in Range(curve)
    <2>1. IsFiniteSet(1..N)
      <3>1. 1 \in Int /\ N \in Int
        OBVIOUS
      <3> QED
        BY <3>1, FS_Interval
    <2>2. IsFiniteSet({curve[i] : i \in 1..N})
      BY <2>1, ImageFinite
    <2>3. Range(curve) = {curve[i] : i \in 1..N}
      BY DEF Range
    <2>4. {curve[i] : i \in 1..N} \in SUBSET Int /\ {curve[i] : i \in 1..N} # {}
      <3>1. 1 \in 1..N
        OBVIOUS
      <3> QED
        BY <3>1
    <2> HIDE DEF top
    <2> QED
      BY <2>2, <2>3, <2>4, LargestOf DEF top
  <1>3. I # {} /\ I \in SUBSET Nat /\ I \in SUBSET (1..N)
    <2> HIDE DEF top
    <2>1. PICK i \in 1..N : curve[i] = top
      BY <1>2 DEF Range
    <2> QED
      BY <1>1, <2>1
  <1>4. peak = Min(I)
    <2> HIDE DEF top
    <2> QED
      BY <1>3 DEF SelectInSeq
  <1>5. peak \in 1..N
    <2> HIDE DEF I, peak
    <2> QED
      BY <1>3, <1>4, Least
  <1>6. last \in 0..N
    <2> HIDE DEF peak, trough
    <2>1. J \in SUBSET (1..N) /\ J \in SUBSET Nat
      BY <1>1, <1>5
    <2>2. last = IF J # {} THEN Min(J) ELSE 0
      BY DEF SelectInSubSeq
    <2> HIDE DEF J, last
    <2>3. CASE J = {}
      BY <2>2, <2>3
    <2>4. CASE J # {}
      <3>1. Min(J) \in J
        BY <2>1, <2>4, Least
      <3>2. last \in 1..N
        BY <2>1, <2>2, <2>4, <3>1
      <3>3. \A k \in 1..N : k \in 0..N
        OBVIOUS
      <3> QED
        BY <3>2, <3>3
    <2> QED
      BY <2>3, <2>4
  <1>7. descending_window(curve) = [from |-> peak, to |-> last]
    BY DEF descending_window
  <1> HIDE DEF peak, last
  <1> QED
    BY <1>5, <1>6, <1>7

\* Owners whose coins are the pool's.
OwnAll(c, who) ==
    \A n \in DOMAIN c : /\ OwnedBy(c[n].inputs, who) = OwnedBy(c[n].inputs, Everyone)
                        /\ OwnedBy(c[n].outputs, who) = OwnedBy(c[n].outputs, Everyone)

\* A group of all the wallets is such an owner.
LEMMA GroupOwnsAll ==
  ASSUME NEW c, CoinsTyped(c), NEW W, OwnedIn(c, W), NEW who, W \subseteq who
  PROVE  OwnAll(c, who)
  <1> SUFFICES ASSUME NEW n \in DOMAIN c
               PROVE  /\ OwnedBy(c[n].inputs, who) = OwnedBy(c[n].inputs, Everyone)
                      /\ OwnedBy(c[n].outputs, who) = OwnedBy(c[n].outputs, Everyone)
    BY DEF OwnAll
  <1>1. /\ \A i \in DOMAIN c[n].inputs : c[n].inputs[i].wallet \in who
        /\ \A i \in DOMAIN c[n].outputs : c[n].outputs[i].wallet \in who
    BY DEF OwnedIn
  <1>2. /\ OwnedBy(c[n].inputs, Everyone) = DOMAIN c[n].inputs
        /\ OwnedBy(c[n].outputs, Everyone) = DOMAIN c[n].outputs
    BY OwnedByEveryone
  <1> QED
    BY <1>1, <1>2 DEF OwnedBy

\* The curve of a series has an integer for each coinjoin.
LEMMA CurveTyped ==
  ASSUME NEW c, CoinsTyped(c), NEW field, NEW who
  PROVE  liquidity_series(c, field, who).interim \in [1..Len(c) -> Int]
  <1> DEFINE N == Len(c)
             steps == StepOf(c, field, who)
  <1>1. N \in Nat /\ DOMAIN c = 1..N
    BY DEF CoinsTyped
  <1>2. DOMAIN steps = 1..N
    BY <1>1 DEF StepOf
  <1>3. \A n \in 1..N : steps[n] \in Int
    <2> TAKE n \in 1..N
    <2>1. n \in DOMAIN c
      BY <1>1
    <2>2. /\ EnterOf(c, field, who)[n] \in Nat /\ LeaveOf(c, field, who)[n] \in Nat
          /\ steps[n] = EnterOf(c, field, who)[n] - LeaveOf(c, field, who)[n]
      BY <2>1, ColumnsTyped
    <2> QED
      BY <2>2
  <1>4. liquidity_series(c, field, who).interim = Running(steps)
    BY SeriesIs
  <1> HIDE DEF steps, N
  <1>5. (\A k \in 0..N : SumOf(steps, 1..k) \in Int) /\ \A k \in 1..N : Running(steps)[k] = SumOf(steps, 1..k)
    BY <1>1, <1>2, <1>3, RunningIs
  <1>6. \A k \in 1..N : k \in 0..N
    BY <1>1
  <1>7. Running(steps) = [n \in 1..N |-> Running(steps)[n]]
    BY <1>2 DEF Running
  <1>8. \A k \in 1..N : Running(steps)[k] \in Int
    BY <1>5, <1>6
  <1>9. Running(steps) \in [1..N -> Int]
    BY <1>7, <1>8
  <1> QED
    BY <1>4, <1>9 DEF N

\* All that leaves while the observed curve descends is theirs.
LEMMA PrecisionIsWhole ==
  ASSUME NEW c, CoinsTyped(c), Len(c) # 0, NEW who, OwnAll(c, who),
         NEW observed, observed = liquidity_series(c, "observed_event", Everyone),
         NEW precision, precision = fin_evaluation(c, observed, who).window_leave_precision, precision # None
  PROVE  precision.num = precision.den
  <1> DEFINE w == descending_window(observed.interim)
             left(o) == SumFunction([n \in w.from..w.to |->
                                       Worth(c[n].outputs, OutputsOf(c[n], "event", o, {Leave}))])
  <1>1. w.from \in 1..Len(c) /\ w.to \in 0..Len(c)
    <2>1. Len(c) \in Nat \ {0} /\ observed.interim \in [1..Len(c) -> Int]
      BY CurveTyped DEF CoinsTyped
    <2> DEFINE N == Len(c)
               curve == observed.interim
    <2> HIDE DEF N, curve
    <2>2. N \in Nat \ {0} /\ curve \in [1..N -> Int]
      BY <2>1 DEF N, curve
    <2>3. descending_window(curve).from \in 1..N /\ descending_window(curve).to \in 0..N
      BY <2>2, WindowIs
    <2> QED
      BY <2>3 DEF N, curve
  <1>2. fin_evaluation(c, observed, who).window_leave_precision = compute_optional_rate(left(who), left(Everyone))
    BY DEF fin_evaluation
  <1> HIDE DEF w
  <1>3. \A n \in w.from..w.to : n \in DOMAIN c
    <2>1. Len(c) \in Nat /\ DOMAIN c = 1..Len(c)
      BY DEF CoinsTyped
    <2> QED
      BY <1>1, <2>1
  <1>4. \A n \in w.from..w.to : OutputsOf(c[n], "event", who, {Leave}) = OutputsOf(c[n], "event", Everyone, {Leave})
    BY <1>3 DEF OwnAll, OutputsOf
  <1>5. left(who) = left(Everyone)
    BY <1>4
  <1> DEFINE a == left(who)
             b == left(Everyone)
  <1>6. precision = compute_optional_rate(a, b) /\ a = b
    BY <1>2, <1>5
  <1> HIDE DEF a, b
  <1>7. precision = [num |-> a, den |-> b] /\ a = b
    BY <1>6 DEF compute_optional_rate
  <1> QED
    BY <1>7

\* The wallets of the coinjoins are finitely many, and they own the coins that have an owner.
LEMMA WalletsOwn ==
  ASSUME NEW c, CoinsTyped(c), AllOwned(c)
  PROVE  LET W == UNION {wallet_names(c[n]) : n \in DOMAIN c} IN IsFiniteSet(W) /\ OwnedIn(c, W)
  <1> DEFINE names == [n \in DOMAIN c |-> wallet_names(c[n])]
             W == UNION {wallet_names(c[n]) : n \in DOMAIN c}
  <1>1. \A n \in DOMAIN c : IsFiniteSet(names[n])
    <2> TAKE n \in DOMAIN c
    <2> DEFINE ins == c[n].inputs
               outs == c[n].outputs
               paid == [i \in DOMAIN ins |-> ins[i].wallet]
               owned == [i \in DOMAIN outs |-> outs[i].wallet]
    <2>1. IsFiniteSet(DOMAIN ins) /\ IsFiniteSet(DOMAIN outs)
      BY DEF CoinsTyped
    <2>2. names[n] = {io.wallet : io \in Range(ins) \cup Range(outs)} \ {None}
      BY DEF wallet_names
    <2>3. {io.wallet : io \in Range(ins) \cup Range(outs)}
            = {paid[i] : i \in DOMAIN ins} \cup {owned[i] : i \in DOMAIN outs}
      BY DEF Range
    <2> HIDE DEF paid, owned, ins, outs, names
    <2>4. IsFiniteSet({paid[i] : i \in DOMAIN ins}) /\ IsFiniteSet({owned[i] : i \in DOMAIN outs})
      BY <2>1, ImageFinite
    <2> DEFINE P == {paid[i] : i \in DOMAIN ins}
               O == {owned[i] : i \in DOMAIN outs}
    <2>5. names[n] \in SUBSET (P \cup O) /\ IsFiniteSet(P) /\ IsFiniteSet(O)
      BY <2>2, <2>3, <2>4
    <2> HIDE DEF P, O
    <2>6. IsFiniteSet(P \cup O)
      BY <2>5, FS_Union
    <2> QED
      BY <2>5, <2>6, FS_Subset
  <1>2. IsFiniteSet(DOMAIN c)
    <2>1. Len(c) \in Int /\ 1 \in Int /\ DOMAIN c = 1..Len(c)
      BY DEF CoinsTyped
    <2> QED
      BY <2>1, FS_Interval
  <1>3. IsFiniteSet(UNION {names[n] : n \in DOMAIN c})
    <2> DEFINE all == {names[n] : n \in DOMAIN c}
    <2>1. IsFiniteSet(all)
      BY <1>2, ImageFinite
    <2>2. \A S \in all : IsFiniteSet(S)
      BY <1>1
    <2> HIDE DEF all
    <2>3. IsFiniteSet(UNION all)
      BY <2>1, <2>2, FS_UNION
    <2> QED
      BY <2>3 DEF all
  <1>4. W = UNION {names[n] : n \in DOMAIN c}
    OBVIOUS
  <1>5. \A n \in DOMAIN c : wallet_names(c[n]) \in SUBSET W
    OBVIOUS
  <1>6. OwnedIn(c, W)
    <2> HIDE DEF W, names
    <2> SUFFICES ASSUME NEW n \in DOMAIN c
                 PROVE  /\ \A i \in DOMAIN c[n].inputs : c[n].inputs[i].wallet \in W
                        /\ \A i \in DOMAIN c[n].outputs : c[n].outputs[i].wallet \in W
      BY DEF OwnedIn
    <2>1. /\ \A i \in DOMAIN c[n].inputs : c[n].inputs[i].wallet \in wallet_names(c[n])
          /\ \A i \in DOMAIN c[n].outputs : c[n].outputs[i].wallet \in wallet_names(c[n])
      BY DEF wallet_names, AllOwned, Range
    <2> QED
      BY <1>5, <2>1
  <1> QED
    BY <1>3, <1>4, <1>6

\* The wallets' series add up to the pool's, and a group of all wallets is the pool.
LEMMA OwnersHold ==
  ASSUME NoFunction(None), NEW run, RunTyped(run)
  PROVE  OwnersAddUpToPool(run, build_liquidity(run))
  <1> DEFINE report == build_liquidity(run)
             c == CoinjoinsIn(run)
             order == coinjoin_order(run.transactions, run.broadcast)
             T == run.transactions
             E == EventsIn(run)
             W == UNION {wallet_names(c[n]) : n \in DOMAIN c}
             pool == liquidity_series(c, "event", Everyone)
             observed == liquidity_series(c, "observed_event", Everyone)
  <1> SUFFICES ASSUME report.available, AllOwned(report.coinjoins)
               PROVE  /\ \A col \in Columns : \A n \in DOMAIN report.coinjoins :
                             SumFunction([w \in DOMAIN report.wallets |-> report.wallets[w].series[col][n]])
                               = report.pool[col][n]
                      /\ \A g \in DOMAIN run.groups : DOMAIN report.wallets \subseteq run.groups[g] =>
                             LET group == report.large_groups[g]
                                 precision == group.fin.window_leave_precision
                             IN /\ group.summary.series = report.pool
                                /\ precision # None => precision.num = precision.den
    BY DEF OwnersAddUpToPool
  <1>1. /\ report = LiquiditySections(run, c)
        /\ report.coinjoins = c /\ report.pool = pool
        /\ MixOrder(order, T) /\ Classified(c, order, T, E) /\ CoinsTyped(c) /\ LedgerTyped(T) /\ Len(c) # 0
    BY ReportIs DEF RunTyped
  <1>2. AllOwned(c)
    BY <1>1
  <1>3. /\ report.wallets = [w \in W |-> owner_summary(c, pool, {w})]
        /\ report.large_groups = [g \in DOMAIN run.groups |->
                                    [summary |-> owner_summary(c, pool, run.groups[g]),
                                     fin |-> fin_evaluation(c, observed, run.groups[g])]]
    <2> HIDE DEF c, order, T, E
    <2> QED
      BY <1>1 DEF LiquiditySections, OwnerSections
  <1> HIDE DEF c, order, T, E, report, observed
  <1>4. IsFiniteSet(W) /\ OwnedIn(c, W)
    BY <1>1, <1>2, WalletsOwn
  <1>5. CoinsLinked(c)
    BY <1>1, ClassifiedLinked
  <1>6. \A who : owner_summary(c, pool, who).series = liquidity_series(c, "event", who)
    <2> HIDE DEF pool
    <2> QED
      BY DEF owner_summary, OwnSummary, SeriesSummary
  <1> HIDE DEF W, pool
  <1>7. ASSUME NEW col \in Columns, NEW n \in DOMAIN c
        PROVE  SumFunction([w \in W |-> report.wallets[w].series[col][n]]) = pool[col][n]
    <2> DEFINE series == [w \in W |-> report.wallets[w].series]
    <2>1. \A w \in W : series[w] = liquidity_series(c, "event", {w})
      BY <1>3, <1>6
    <2>2. [w \in W |-> report.wallets[w].series[col][n]] = [w \in W |-> series[w][col][n]]
      OBVIOUS
    <2> HIDE DEF series
    <2>3. SumOf(ShownAt(W, series, col, n), W) = pool[col][n]
      <3>1. CoinsTyped(c) /\ CoinsLinked(c) /\ IsFiniteSet(W) /\ OwnedIn(c, W)
        BY <1>1, <1>4, <1>5
      <3> QED
        BY SMTT(60), <1>7, <2>1, <3>1, SeriesAddUp DEF pool
    <2> DEFINE f == ShownAt(W, series, col, n)
    <2>4. f = [w \in W |-> f[w]] /\ f = [w \in W |-> series[w][col][n]]
      BY DEF ShownAt
    <2> HIDE DEF f
    <2>5. SumOf(f, W) = SumFunction(f)
      BY <2>4 DEF SumOf
    <2> QED
      BY <2>2, <2>3, <2>4, <2>5 DEF f
  <1>8. ASSUME NEW g \in DOMAIN run.groups, W \subseteq run.groups[g]
        PROVE  LET group == report.large_groups[g]
                   precision == group.fin.window_leave_precision
               IN /\ group.summary.series = pool
                  /\ precision # None => precision.num = precision.den
    <2> DEFINE who == run.groups[g]
               group == report.large_groups[g]
               precision == group.fin.window_leave_precision
    <2>1. OwnAll(c, who)
      BY <1>1, <1>4, <1>8, GroupOwnsAll
    <2>2. group.summary = owner_summary(c, pool, who) /\ group.fin = fin_evaluation(c, observed, who)
      BY <1>3
    <2>3. liquidity_series(c, "event", who) = pool
      BY <1>1, <2>1, SameSeriesIs DEF OwnAll, pool
    <2>4. group.summary.series = pool
      BY <1>6, <2>2, <2>3
    <2>5. ASSUME precision # None
          PROVE  precision.num = precision.den
      <3>1. precision = fin_evaluation(c, observed, who).window_leave_precision
        BY <2>2
      <3> HIDE DEF who, group, precision
      <3>2. observed = liquidity_series(c, "observed_event", Everyone)
        BY DEF observed
      <3> QED
        BY <1>1, <2>1, <2>5, <3>1, <3>2, PrecisionIsWhole
    <2> QED
      BY <2>4, <2>5
  <1>9. DOMAIN report.wallets = W
    BY <1>3
  <1> QED
    BY <1>1, <1>7, <1>8, <1>9

\* For every run whose transactions are a ledger, liquidity adds up over coins, over time, over
\* owners, and over the two ways to find the mixes (liquidity.py:64-459).
THEOREM LiquidityHolds ==
  ASSUME NoFunction(None)
  PROVE  PoolTyped => LiquidityAddsUp
  <1> SUFFICES ASSUME PoolTyped
               PROVE  LiquidityConserved /\ UnmovedIsStay /\ OwnersAddUp /\ DetectionAgrees
    BY DEF LiquidityAddsUp
  <1>1. CASE input.kind = "liquidity"
    <2> DEFINE run == input.run
    <2>1. RunTyped(run)
      BY <1>1 DEF PoolTyped, RunTyped
    <2> HIDE DEF run
    <2>2. /\ PoolConserved(run, build_liquidity(run))
          /\ UnmovedEndsAsStay(build_liquidity(run))
          /\ OwnersAddUpToPool(run, build_liquidity(run))
          /\ PerfectDetectionAgrees(run, build_liquidity(run))
      BY <2>1, PoolConservedHolds, UnmovedEndsHolds, OwnersHold, PerfectDetectionHolds
    <2> QED
      BY <2>2 DEF run, LiquidityConserved, UnmovedIsStay, OwnersAddUp, DetectionAgrees
  <1>2. CASE input.kind # "liquidity"
    BY <1>2 DEF LiquidityConserved, UnmovedIsStay, OwnersAddUp, DetectionAgrees
  <1> QED
    BY <1>1, <1>2
=============================================================================
