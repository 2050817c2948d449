----------------------------- MODULE Liquidity ------------------------------
(***************************************************************************)
(* The pool liquidity of an emulated run (exporters/liquidity.py): every   *)
(* coinjoin input and output is classified as entering, remixed, leaving   *)
(* or staying, and the classified coins are summed per coinjoin.           *)
(*                                                                         *)
(* transactions is a function of the transaction id (a number, so that ids *)
(* are ordered) to [coinjoin, height, inputs, outputs]. An input is        *)
(* [prev, value, wallet]: prev is the outpoint <<transaction, index>> it   *)
(* spends, or None when the exported blocks do not hold it. An output is   *)
(* [value, wallet]; indices are positions.                                 *)
(***************************************************************************)
EXTENDS Records

CONSTANTS
    WindowCoinjoins,           \* WINDOW_COINJOINS: spent within so many coinjoins is fast
    LargeShare                 \* LARGE_WALLET_SHARE, as a fraction

ASSUME LiquidityAssumption == WindowCoinjoins \in Nat

Enter == "MIX_ENTER"
Remix == "MIX_REMIX"
Leave == "MIX_LEAVE"
Stay == "MIX_STAY"
ObservedInflow == {Enter, "MIX_REMIX_FRIENDS", "MIX_REMIX_FRIENDS_WW1"}

-----------------------------------------------------------------------------
\* Order and classification.

\* By height, then broadcast time (a missing one first), then id; no height sorts last.
Precedes(transactions, broadcast, a, b) ==
    LET Height(t) == transactions[t].height
        Time(t) == IF broadcast[t] = None THEN -1 ELSE broadcast[t]
    IN \/ Height(a) # None /\ Height(b) = None
       \/ Height(a) # None /\ Height(b) # None /\ Height(a) < Height(b)
       \/ Height(a) = Height(b) /\ (Time(a) < Time(b) \/ (Time(a) = Time(b) /\ a < b))

\* The labelled coinjoins, each after those that come before it.
coinjoin_order(transactions, broadcast) ==
    LET labelled == {t \in DOMAIN transactions : transactions[t].coinjoin = TRUE}
        Earlier(t) == {u \in labelled : Precedes(transactions, broadcast, u, t)}
    IN [n \in 1..Cardinality(labelled) |-> CHOOSE t \in labelled : Cardinality(Earlier(t)) = n - 1]

\* The transaction that spends an outpoint, None when nothing exported does.
spender_index(transactions, outpoint) ==
    LET spenders == {t \in DOMAIN transactions :
                        \E i \in DOMAIN transactions[t].inputs : transactions[t].inputs[i].prev = outpoint}
    IN IF spenders = {} THEN None ELSE CHOOSE t \in spenders : TRUE

PositionIn(order, t) == CHOOSE n \in DOMAIN order : order[n] = t

\* Coinjoins confirmed after the output's coinjoin and up to its spender, the spender excluded.
\* The heights of the order ascend, so bisect_right counts the ones not above the spender's.
spend_distance(created, spender, order, transactions) ==
    IF spender \in Range(order) THEN PositionIn(order, spender) - created - 1
    ELSE LET height == transactions[spender].height
             upTo == {n \in DOMAIN order : transactions[order[n]].height <= height}
         IN IF height = None THEN None ELSE Max({Cardinality(upTo) - created, 0})

\* The output values that occur more than once.
standard_denominations(outputs) == DOMAIN repeated_denominations(outputs)

\* BlockSci's event of one input or output; its lists are in index order. None when BlockSci
\* did not detect the transaction or classified fewer inputs or outputs.
blocksci_event(mixEvents, t, side, index) ==
    IF t \notin DOMAIN mixEvents \/ index \notin DOMAIN mixEvents[t][side] THEN None
    ELSE mixEvents[t][side][index]

\* MUTANT: an output is a remix when any exported transaction spends it.
MutOutputEvent(spender, mix) == IF spender = None THEN Stay ELSE Remix

\* mix is the set of coinjoins.
OutputEvent(spender, mix) == IF spender = None THEN Stay ELSE IF spender \in mix THEN Remix ELSE Leave

InputEvent(prev, mix) == IF prev # None /\ prev[1] \in mix THEN Remix ELSE Enter

classify_coinjoins(order, transactions, observed, mixEvents) ==
    LET Input(n, t, i) ==
            LET item == transactions[t].inputs[i]
            IN [wallet |-> item.wallet, value |-> item.value, prev |-> item.prev,
                event |-> InputEvent(item.prev, Range(order)),
                observed_event |-> observed[t].inputs[i],
                blocksci_event |-> blocksci_event(mixEvents, t, "inputs", i),
                distance |-> None]
        Output(n, t, i) ==
            LET item == transactions[t].outputs[i]
                spender == spender_index(transactions, <<t, i>>)
            IN [wallet |-> item.wallet, value |-> item.value, outpoint |-> <<t, i>>,
                event |-> OutputEvent(spender, Range(order)),
                observed_event |-> observed[t].outputs[i],
                blocksci_event |-> blocksci_event(mixEvents, t, "outputs", i),
                spent_by |-> spender,
                distance |-> IF spender = None THEN None
                             ELSE spend_distance(n, spender, order, transactions),
                is_standard_denom |-> item.value \in standard_denominations(transactions[t].outputs)]
    IN [n \in DOMAIN order |->
           [txid |-> order[n],
            inputs |-> [i \in DOMAIN transactions[order[n]].inputs |-> Input(n, order[n], i)],
            outputs |-> [i \in DOMAIN transactions[order[n]].outputs |-> Output(n, order[n], i)]]]

-----------------------------------------------------------------------------
\* The cumulative series.

is_fast(item) == item.distance # None /\ item.distance < WindowCoinjoins

\* Owners of the pool: every wallet, and coins without one (wallets is None).
Everyone == STRING \cup {None}

\* The positions of the owners' items, and the value of items at some positions.
OwnedBy(items, owners) == {i \in DOMAIN items : items[i].wallet \in owners}
Worth(items, places) == SumFunction([i \in places |-> ValueOf(items[i])])

Entering(coinjoin, field, owners) ==
    {i \in OwnedBy(coinjoin.inputs, owners) :
        coinjoin.inputs[i][field] \in (IF field = "observed_event" THEN ObservedInflow ELSE {Enter})}
OutputsOf(coinjoin, field, owners, events) ==
    {i \in OwnedBy(coinjoin.outputs, owners) : coinjoin.outputs[i][field] \in events}
Fast(coinjoin, places) == {i \in places : is_fast(coinjoin.outputs[i])}
Slow(coinjoin, field, owners) ==
    LET kept == OutputsOf(coinjoin, field, owners, {Stay, Remix}) IN kept \ Fast(coinjoin, kept)

\* An output by its place: its coinjoin's position and its own.
OutputAt(coinjoins, x) == coinjoins[x[1]].outputs[x[2]]
PlacesWorth(coinjoins, places) == SumFunction([x \in places |-> ValueOf(OutputAt(coinjoins, x))])

\* MUTANT: an output that stays unmoved is never retired when it is spent.
MutRetire(coinjoins, unmoved, n, owners) == unmoved

\* Outputs that were outstanding are retired when an input spends them.
Retire(coinjoins, unmoved, n, owners) ==
    LET inputs == coinjoins[n].inputs
    IN {x \in unmoved : \A i \in OwnedBy(inputs, owners) : inputs[i].prev # OutputAt(coinjoins, x).outpoint}

\* The places of the unmoved outputs after so many coinjoins: a staying or slowly remixed output
\* is unmoved until an input consumes it.
UnmovedAfter(coinjoins, field, owners) ==
    LET unmoved[n \in 0..Len(coinjoins)] ==
            IF n = 0 THEN {}
            ELSE Retire(coinjoins, unmoved[n - 1], n, owners) \cup ({n} \X Slow(coinjoins[n], field, owners))
    IN unmoved

\* What a counter that each step changes by its value amounts to after each step.
Running(steps) == [n \in DOMAIN steps |-> SumFunction([m \in 1..n |-> steps[m]])]

\* One list per column, one entry per coinjoin, for the coins of the owners. An outflow is
\* charged to the coinjoin that created it.
liquidity_series(coinjoins, field, owners) ==
    LET Left(n) == OutputsOf(coinjoins[n], field, owners, {Leave})
        enter == [n \in DOMAIN coinjoins |->
                     Worth(coinjoins[n].inputs, Entering(coinjoins[n], field, owners))]
        leave == [n \in DOMAIN coinjoins |-> Worth(coinjoins[n].outputs, Left(n))]
        fast == [n \in DOMAIN coinjoins |-> Worth(coinjoins[n].outputs, Fast(coinjoins[n], Left(n)))]
        stay == [n \in DOMAIN coinjoins |->
                    Worth(coinjoins[n].outputs, OutputsOf(coinjoins[n], field, owners, {Stay}))]
        interim == Running([n \in DOMAIN coinjoins |-> enter[n] - leave[n]])
        unmoved == [n \in DOMAIN coinjoins |->
                       PlacesWorth(coinjoins, UnmovedAfter(coinjoins, field, owners)[n])]
    IN [enter |-> enter, leave |-> leave, stay |-> stay, interim |-> interim,
        interim_fast_leave |-> Running([n \in DOMAIN coinjoins |-> enter[n] - fast[n]]),
        unmoved_window |-> unmoved,
        active_remix |-> [n \in DOMAIN coinjoins |-> interim[n] - unmoved[n]]]

Columns == {"enter", "leave", "stay", "interim", "interim_fast_leave", "unmoved_window", "active_remix"}

\* How often an analyzer's event is the ground truth.
classification_agreement(coinjoins, field) ==
    LET items == UNION {{<<n, side>>} \X DOMAIN coinjoins[n][side] :
                           n \in DOMAIN coinjoins, side \in {"inputs", "outputs"}}
        Item(x) == coinjoins[x[1][1]][x[1][2]][x[2]]
        agreeing == {x \in items : Item(x)[field] = Item(x).event}
    IN [classified |-> Cardinality(items), agreeing |-> Cardinality(agreeing),
        agreement_rate |-> compute_optional_rate(Cardinality(agreeing), Cardinality(items))]

first_index(values) == SelectInSeq(values, LAMBDA v : v > 0)
last_index(values) == SelectLastInSeq(values, LAMBDA v : v > 0)

\* Totals, extent and peak pool share of the owners' coins. Without an entry the indices are 0.
PeakOf(coinjoins, interim) == Max(Range(interim) \cup (IF coinjoins = << >> THEN {0} ELSE {}))
PeakIndex(interim, peak) == SelectInSeq(interim, LAMBDA v : v = peak)

PoolShare(pool, peak, at) ==
    IF at = 0 THEN None
    ELSE IF pool.interim[at] > 0 THEN [num |-> peak, den |-> pool.interim[at]] ELSE None

SeriesSummary(coinjoins, pool, owners, series, peak) ==
    [coinjoins_participated |->
        Cardinality({n \in DOMAIN coinjoins : OwnedBy(coinjoins[n].inputs, owners) # {}}),
     entered_sats |-> SumFunction(series.enter),
     left_sats |-> SumFunction(series.leave),
     stayed_sats |-> SumFunction(series.stay),
     first_enter_index |-> first_index(series.enter),
     last_enter_index |-> last_index(series.enter),
     first_leave_index |-> first_index(series.leave),
     last_leave_index |-> last_index(series.leave),
     peak_interim_sats |-> peak,
     peak_index |-> PeakIndex(series.interim, peak),
     peak_pool_share |-> PoolShare(pool, peak, PeakIndex(series.interim, peak)),
     series |-> series]

OwnSummary(coinjoins, pool, owners, series) ==
    SeriesSummary(coinjoins, pool, owners, series, PeakOf(coinjoins, series.interim))

owner_summary(coinjoins, pool, owners) ==
    OwnSummary(coinjoins, pool, owners, liquidity_series(coinjoins, "event", owners))

\* Coinjoins from the first peak down to the first lowest point after it.
descending_window(interim) ==
    LET peak == SelectInSeq(interim, LAMBDA v : v = Max(Range(interim)))
        trough == Min({interim[n] : n \in peak..Len(interim)})
    IN [from |-> peak, to |-> SelectInSubSeq(interim, peak, Len(interim), LAMBDA v : v = trough)]

\* The owners' share of what leaves while the observed curve descends, and of all that leaves.
fin_evaluation(coinjoins, observed, owners) ==
    LET LeftIn(ns, who) ==
            SumFunction([n \in ns |-> Worth(coinjoins[n].outputs,
                                            OutputsOf(coinjoins[n], "event", who, {Leave}))])
        EnteredAt(n, who) == Worth(coinjoins[n].inputs, Entering(coinjoins[n], "event", who))
        entry == PeakIndex(observed.enter, Max(Range(observed.enter)))
        window == descending_window(observed.interim)
        span == window.from..window.to
        precision == compute_optional_rate(LeftIn(span, owners), LeftIn(span, Everyone))
        baseline == compute_optional_rate(LeftIn(DOMAIN coinjoins, owners), LeftIn(DOMAIN coinjoins, Everyone))
    IN [observed_entry_index |-> entry,
        entry_wallet_share |-> compute_optional_rate(EnteredAt(entry, owners), EnteredAt(entry, Everyone)),
        descending_window |-> window,
        window_leave_sats |-> LeftIn(span, Everyone),
        window_leave_precision |-> precision,
        window_leave_recall |->
            compute_optional_rate(LeftIn(span, owners), LeftIn(DOMAIN coinjoins, owners)),
        baseline_leave_share |-> baseline,
        lift |-> IF precision = None \/ baseline = None THEN None
                 ELSE IF baseline.num = 0 THEN None
                 ELSE [num |-> precision.num * baseline.den, den |-> precision.den * baseline.num]]

\* The spends the emulator scheduled, checked against the exported blocks. A spend is
\* [status, txids]; it is confirmed once all of its transactions are exported.
load_postmix_spends(spends, transactions, order) ==
    LET Confirmed(s) == s.txids # {} /\ s.txids \subseteq DOMAIN transactions
        SpendsMix(s) == \E t \in s.txids \cap DOMAIN transactions :
                            \E i \in DOMAIN transactions[t].inputs :
                                InputEvent(transactions[t].inputs[i].prev, Range(order)) = Remix
    IN [scheduled |-> Cardinality(spends),
        confirmed_postmix |-> Cardinality({s \in spends : Confirmed(s) /\ SpendsMix(s)})]

series_totals(series) ==
    [entered_sats |-> SumFunction(series.enter), left_sats |-> SumFunction(series.leave),
     stayed_sats |-> SumFunction(series.stay), final_interim_sats |-> Last(series.interim),
     peak_interim_sats |-> Max(Range(series.interim))]

max_interim_difference(pool, series) ==
    Max({0} \cup {LET d == pool.interim[n] - series.interim[n] IN IF d < 0 THEN -d ELSE d :
                     n \in DOMAIN pool.interim})

blocksci_liquidity(coinjoins, pool, mixEvents) ==
    IF mixEvents = None THEN [available |-> FALSE]
    ELSE LET series == liquidity_series(coinjoins, "blocksci_event", Everyone)
             labelled == {coinjoins[n].txid : n \in DOMAIN coinjoins}
         IN [available |-> TRUE,
             totals |-> series_totals(series),
             unclassified_coinjoins |-> Cardinality(labelled \ DOMAIN mixEvents),
             extra_coinjoins |-> Cardinality(DOMAIN mixEvents \ labelled),
             interim_max_abs_difference_sats |-> max_interim_difference(pool, series),
             classification_agreement |-> classification_agreement(coinjoins, "blocksci_event")]

\* The names of the wallets whose peak share of the pool is large.
LargeWallets(wallets) ==
    {w \in DOMAIN wallets : LET share == wallets[w].peak_pool_share
                            IN share # None /\ share.num * LargeShare.den >= share.den * LargeShare.num}

\* The sections by owner, from the two pools' series.
OwnerSections(run, coinjoins, pool, observed) ==
    LET wallets == [w \in UNION {wallet_names(coinjoins[n]) : n \in DOMAIN coinjoins} |->
                       owner_summary(coinjoins, pool, {w})]
    IN [available |-> TRUE,
        coinjoins |-> coinjoins,
        pool |-> pool,
        observed |-> observed,
        interim_max_abs_difference_sats |-> max_interim_difference(pool, observed),
        classification_agreement |-> classification_agreement(coinjoins, "observed_event"),
        blocksci |-> blocksci_liquidity(coinjoins, pool, run.mix_events),
        wallets |-> wallets,
        large_wallets |-> [w \in LargeWallets(wallets) |-> fin_evaluation(coinjoins, observed, {w})],
        large_groups |-> [g \in DOMAIN run.groups |->
                             [summary |-> owner_summary(coinjoins, pool, run.groups[g]),
                              fin |-> fin_evaluation(coinjoins, observed, run.groups[g])]],
        postmix_spends |-> load_postmix_spends(run.spends, run.transactions,
                                               [n \in DOMAIN coinjoins |-> coinjoins[n].txid])]

LiquiditySections(run, coinjoins) ==
    OwnerSections(run, coinjoins, liquidity_series(coinjoins, "event", Everyone),
                  liquidity_series(coinjoins, "observed_event", Everyone))

\* The report section; unavailable without independent labels or without a labelled coinjoin.
build_liquidity(run) ==
    LET order == coinjoin_order(run.transactions, run.broadcast)
        events == IF run.mix_events = None THEN << >> ELSE run.mix_events
    IN IF ~run.independent \/ order = << >> THEN [available |-> FALSE]
       ELSE LiquiditySections(run, classify_coinjoins(order, run.transactions, run.observed, events))

-----------------------------------------------------------------------------
\* BlockSci's classify_coinjoin_mix_events: the mix is the detected set.
ExternalMixEvents(transactions, detected) ==
    [t \in detected |->
        [inputs |-> [i \in DOMAIN transactions[t].inputs |->
                        InputEvent(transactions[t].inputs[i].prev, detected)],
         outputs |-> [i \in DOMAIN transactions[t].outputs |->
                         LET s == spender_index(transactions, <<t, i>>)
                         IN IF s = None THEN Stay ELSE IF s \in detected THEN Remix ELSE Leave]]]

\* The fees, and the coins in the mix, after the first n coinjoins: outputs nothing has spent
\* yet and that only a later coinjoin spends.
Fees(coinjoins, n) ==
    SumFunction([m \in 1..n |-> TotalValue(coinjoins[m].inputs) - TotalValue(coinjoins[m].outputs)])
Outstanding(run, coinjoins, n) ==
    LET Txids(ms) == {coinjoins[m].txid : m \in ms}
        Kept(x) == \A t \in DOMAIN run.transactions : \A i \in DOMAIN run.transactions[t].inputs :
                       run.transactions[t].inputs[i].prev = OutputAt(coinjoins, x).outpoint =>
                           t \in Txids(DOMAIN coinjoins) /\ t \notin Txids(1..n)
    IN PlacesWorth(coinjoins, {x \in UNION {{m} \X DOMAIN coinjoins[m].outputs : m \in 1..n} : Kept(x)})

\* No coinjoin comes before a coinjoin it spends: true unless two coinjoins that confirm in one
\* block are ordered by broadcast time or id against the order in which one spends the other.
SpendsForward(coinjoins) ==
    \A m, n \in DOMAIN coinjoins : \A i \in DOMAIN coinjoins[m].inputs :
        coinjoins[m].inputs[i].prev # None /\ coinjoins[m].inputs[i].prev[1] = coinjoins[n].txid => n < m

\* The pool conserves value: after every coinjoin the interim liquidity is the coins in the mix
\* plus the fees paid so far, so the active part is never negative (liquidity.py:194-243).
PoolConserved(run, report) ==
    report.available /\ SpendsForward(report.coinjoins) =>
        \A n \in DOMAIN report.coinjoins :
            /\ report.pool.interim[n] = Fees(report.coinjoins, n) + Outstanding(run, report.coinjoins, n)
            /\ report.pool.active_remix[n] >= 0

\* In whatever order the coinjoins of a block come, every remixed output is retired in the end:
\* what is still unmoved is exactly what stays (liquidity.py:213-225).
UnmovedEndsAsStay(report) ==
    report.available => report.pool.unmoved_window[Len(report.coinjoins)] = SumFunction(report.pool.stay)

\* The decomposition by owner is one: when the coins of the coinjoins have owners, the wallets'
\* series add up to the pool's, and a group that holds every wallet is the pool, with all that
\* leaves attributed to it (liquidity.py:274-358).
AllOwned(coinjoins) ==
    \A n \in DOMAIN coinjoins :
        /\ \A i \in DOMAIN coinjoins[n].inputs : coinjoins[n].inputs[i].wallet # None
        /\ \A i \in DOMAIN coinjoins[n].outputs : coinjoins[n].outputs[i].wallet # None

OwnersAddUpToPool(run, report) ==
    report.available /\ AllOwned(report.coinjoins) =>
        /\ \A c \in Columns : \A n \in DOMAIN report.coinjoins :
               SumFunction([w \in DOMAIN report.wallets |-> report.wallets[w].series[c][n]])
                   = report.pool[c][n]
        /\ \A g \in DOMAIN run.groups : DOMAIN report.wallets \subseteq run.groups[g] =>
               LET group == report.large_groups[g]
                   precision == group.fin.window_leave_precision
               IN /\ group.summary.series = report.pool
                  /\ precision # None => precision.num = precision.den

\* BlockSci's curve is the ground truth when it detects exactly the labelled coinjoins, and
\* otherwise it classifies no more items than it detected (liquidity.py:413-436).
PerfectDetectionAgrees(run, report) ==
    LET labelled == {t \in DOMAIN run.transactions : run.transactions[t].coinjoin = TRUE}
        b == report.blocksci
    IN report.available /\ run.mix_events # None /\ DOMAIN run.mix_events = labelled =>
         /\ b.interim_max_abs_difference_sats = 0
         /\ b.classification_agreement.agreeing = b.classification_agreement.classified
         /\ b.unclassified_coinjoins = 0 /\ b.extra_coinjoins = 0
=============================================================================
