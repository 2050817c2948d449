------------------------------- MODULE Pools --------------------------------
(***************************************************************************)
(* What the pool liquidity of an emulated run (Liquidity) promises. The    *)
(* input is [kind |-> "liquidity", run]: the transactions the emulator     *)
(* exported with their labels, coinjoin-analysis' and BlockSci's events,   *)
(* the scenario's wallet groups and its scheduled spends.                  *)
(***************************************************************************)
EXTENDS Reports

Amount == Nat \cup {None}
Outpoints(transactions) == UNION {{t} \X DOMAIN transactions[t].outputs : t \in DOMAIN transactions}

\* A coin has the value and the wallet of the output that created it, and is spent once.
SpendsOnce(transactions, t, i, coin) ==
    /\ LET output == transactions[coin.prev[1]].outputs[coin.prev[2]]
       IN coin.value = output.value /\ coin.wallet = output.wallet
    /\ \A u \in DOMAIN transactions : \A j \in DOMAIN transactions[u].inputs :
           transactions[u].inputs[j].prev = coin.prev => u = t /\ j = i
SpendsCoins(transactions) ==
    \A t \in DOMAIN transactions : \A i \in DOMAIN transactions[t].inputs :
        LET coin == transactions[t].inputs[i]
        IN coin.prev # None => SpendsOnce(transactions, t, i, coin)

\* The emulator's transactions form a ledger: their outputs are what they spend, or less.
LedgerTyped(transactions) ==
    /\ DOMAIN transactions \subseteq Int /\ IsFiniteSet(DOMAIN transactions)
    /\ \A t \in DOMAIN transactions :
           LET record == transactions[t]
           IN /\ record.height \in Amount
              /\ record.outputs \in Seq([value : Amount, wallet : Everyone])
              /\ record.inputs \in
                     Seq([prev : Outpoints(transactions) \cup {None}, value : Amount, wallet : Everyone])
              /\ record.coinjoin = TRUE => TotalValue(record.inputs) >= TotalValue(record.outputs)
    /\ SpendsCoins(transactions)

\* BlockSci, if it was asked, classifies the transactions it detects by its own rules.
PoolTyped ==
    input.kind = "liquidity" =>
        LET run == input.run
        IN /\ LedgerTyped(run.transactions)
           /\ \A t \in DOMAIN run.transactions : run.broadcast[t] \in Amount
           /\ run.mix_events # None =>
                run.mix_events = ExternalMixEvents(run.transactions, DOMAIN run.mix_events)

\* The pool of liquidity.py:194-243 conserves value.
LiquidityConserved == input.kind = "liquidity" => PoolConserved(input.run, build_liquidity(input.run))

\* What liquidity.py:213-225 leaves unmoved at the end is what stays.
UnmovedIsStay == input.kind = "liquidity" => UnmovedEndsAsStay(build_liquidity(input.run))

\* The wallets' and the groups' series of liquidity.py:274-358 decompose the pool.
OwnersAddUp == input.kind = "liquidity" => OwnersAddUpToPool(input.run, build_liquidity(input.run))

\* A perfect detection has the ground truth's curve (liquidity.py:413-436).
DetectionAgrees == input.kind = "liquidity" => PerfectDetectionAgrees(input.run, build_liquidity(input.run))

\* Liquidity adds up: over coins, over time, over owners, and over the two ways to find the mixes.
LiquidityAddsUp == PoolTyped /\ LiquidityConserved /\ UnmovedIsStay /\ OwnersAddUp /\ DetectionAgrees
=============================================================================
