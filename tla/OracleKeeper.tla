----------------------------- MODULE OracleKeeper -----------------------------
(***************************************************************************)
(* The loop of oracle-keeper/src/index.ts, which fetches the prices of all *)
(* markets and submits them to the OracleRouter in one transaction, and    *)
(* the router (contracts/src/OracleRouter.sol), which checks them and sets *)
(* the prices of the engine.  The price 0 is one that is missing, stale or *)
(* too uncertain to be used.                                               *)
(***************************************************************************)
EXTENDS Integers, Sequences, SequencesExt

CONSTANTS
    MarketIds,          \* a sequence: the markets of the keeper
    Prices,             \* what a source may report
    BasisPoints,
    MaxPriceChangeBps,
    MaxDeviationBps,
    RequiredGoodPrices,
    MaxMoves,           \* bound on what the sources and the owner do
    MaxLost             \* bound on what goes wrong on the network

ASSUME OracleAssumption ==
    /\ Prices \subseteq Nat /\ MaxMoves \in Nat /\ MaxLost \in Nat
    /\ BasisPoints \in Nat \ {0} /\ RequiredGoodPrices \in Nat
    /\ MaxPriceChangeBps \in Nat \ {0} /\ MaxDeviationBps \in Nat
    /\ MarketIds \in Seq(Range(MarketIds)) /\ IsInjective(MarketIds)

VARIABLES
    hermes,     \* the prices Pyth publishes off chain
    chainlink,  \* the answers of the second source
    active,     \* the feeds that are configured and not deactivated
    router,     \* its lastPrice, which is the mark of the engine, breaker, and count of good prices
    waits,      \* the loop waits for a receipt
    pushes,     \* updates under way to the chain, in the order of their nonces
    moves, lost
oracleVars == <<hermes, chainlink, active, router, waits, pushes, moves, lost>>

FedMarkets == Range(MarketIds)

OracleInit ==
    /\ hermes \in [FedMarkets -> Prices]
    /\ chainlink = [m \in FedMarkets |-> 0] /\ active \in SUBSET FedMarkets
    /\ router = [lastPrice |-> [m \in FedMarkets |-> 0], breaker |-> FALSE, good |-> 0]
    /\ waits = FALSE /\ pushes = <<>> /\ moves = 0 /\ lost = 0

-----------------------------------------------------------------------------
(* The router *)

\* _calculateDeviation
Deviation(a, b) ==
    IF a = 0 \/ b = 0 THEN BasisPoints
    ELSE ((IF a > b THEN a - b ELSE b - a) * BasisPoints) \div ((a + b) \div 2)

\* getPrice: the mark is Pyth's, or else the one of Chainlink.
Marked(m, pyth) == IF pyth[m] > 0 THEN pyth[m] ELSE chainlink[m]

\* What reverts _pushPrice, and with it the whole batch.
Reverts(m, pyth) ==
    \/ Marked(m, pyth) = 0
    \/ /\ pyth[m] > 0 /\ chainlink[m] > 0 /\ MaxDeviationBps > 0
       /\ Deviation(pyth[m], chainlink[m]) > MaxDeviationBps

\* A price too far from the last one trips the breaker and is left out.
Jumps(last, price) ==
    last > 0 /\ MaxPriceChangeBps > 0 /\ Deviation(price, last) > MaxPriceChangeBps

\* Faulty form of Pushed: the breaker trips, and the price is pushed.
PushedAnyway(r, m, price) ==
    IF Jumps(r.lastPrice[m], price)
    THEN [r EXCEPT !.breaker = TRUE, !.good = 0, !.lastPrice[m] = price]
    ELSE [r EXCEPT !.lastPrice[m] = price]

\* _pushPrice of a price that reverts nothing.  The count of good prices is one for all markets.
Pushed(r, m, price) ==
    IF Jumps(r.lastPrice[m], price) THEN [r EXCEPT !.breaker = TRUE, !.good = 0]
    ELSE [r EXCEPT !.lastPrice[m] = price,
                   !.good = IF r.breaker /\ @ < RequiredGoodPrices THEN @ + 1 ELSE @]

\* Faulty form of InBatch: a deactivated feed is pushed, too, which reverts.
AnyInBatch(m) == TRUE

\* pushPriceBatchWithPyth leaves out the feeds that are not active.
InBatch(m) == m \in active

BatchReverts(pyth) == \E m \in FedMarkets : InBatch(m) /\ (m \notin active \/ Reverts(m, pyth))

Batch(pyth) ==
    FoldLeft(LAMBDA r, m : IF InBatch(m) THEN Pushed(r, m, Marked(m, pyth)) ELSE r, router, MarketIds)

-----------------------------------------------------------------------------
(* The sources and the owner *)

HermesMoves(m, price) ==
    /\ moves < MaxMoves /\ moves' = moves + 1
    /\ hermes' = [hermes EXCEPT ![m] = price]
    /\ UNCHANGED <<chainlink, active, router, waits, pushes, lost>>

ChainlinkMoves(m, price) ==
    /\ moves < MaxMoves /\ moves' = moves + 1
    /\ chainlink' = [chainlink EXCEPT ![m] = price]
    /\ UNCHANGED <<hermes, active, router, waits, pushes, lost>>

\* configureFeed and deactivateFeed
SetFeed(m, on) ==
    /\ moves < MaxMoves /\ moves' = moves + 1
    /\ active' = IF on THEN active \union {m} ELSE active \ {m}
    /\ UNCHANGED <<hermes, chainlink, router, waits, pushes, lost>>

\* resetOracleCircuitBreaker: the count, and the last prices, stay.
ResetOracleCircuitBreaker ==
    /\ moves < MaxMoves /\ moves' = moves + 1
    /\ router' = [router EXCEPT !.breaker = FALSE]
    /\ UNCHANGED <<hermes, chainlink, active, waits, pushes, lost>>

-----------------------------------------------------------------------------
(* The keeper *)

\* A cycle of pushLoop: fetched, simulated and sent.  A cycle whose simulation fails, or that
\* finds the gas too dear, sleeps; so does one that fails otherwise, after its retries.
PushCycle ==
    /\ ~waits
    /\ ~BatchReverts(hermes)
    /\ pushes' = Append(pushes, hermes)
    /\ waits' = TRUE
    /\ UNCHANGED <<hermes, chainlink, active, router, moves, lost>>

\* The chain executes an update.  If the loop waits for it, it goes on: its status is not looked at.
PushExecuted ==
    /\ pushes # <<>>
    /\ router' = IF BatchReverts(Head(pushes)) THEN router ELSE Batch(Head(pushes))
    /\ pushes' = Tail(pushes)
    /\ waits' = (waits /\ Len(pushes) > 1)
    /\ UNCHANGED <<hermes, chainlink, active, moves, lost>>

PushLost ==
    /\ pushes # <<>>
    /\ lost < MaxLost /\ lost' = lost + 1
    /\ pushes' = Tail(pushes)
    /\ UNCHANGED <<hermes, chainlink, active, router, waits, moves>>

\* Thirty seconds without a receipt: the cycle has failed, and the next one fetches again.
PushTimesOut ==
    /\ waits
    /\ pushes = <<>> \/ lost < MaxLost
    /\ waits' = FALSE
    /\ lost' = IF pushes = <<>> THEN lost ELSE lost + 1
    /\ UNCHANGED <<hermes, chainlink, active, router, pushes, moves>>

OracleNext ==
    \/ \E m \in FedMarkets, price \in Prices \union {0} :
          HermesMoves(m, price) \/ ChainlinkMoves(m, price)
    \/ \E m \in FedMarkets, on \in BOOLEAN : SetFeed(m, on)
    \/ ResetOracleCircuitBreaker
    \/ PushCycle \/ PushExecuted \/ PushLost \/ PushTimesOut

OracleSpec == OracleInit /\ [][OracleNext]_oracleVars

-----------------------------------------------------------------------------
\* OracleRouter.sol:468-480: whatever the sources report, and in whatever order updates that were
\* late or sent twice arrive, the mark of the engine never moves by more than the allowed
\* change at once.
MarksMoveInSteps ==
    [][\A m \in FedMarkets : router.lastPrice[m] # 0 =>
            Deviation(router'.lastPrice[m], router.lastPrice[m]) <= MaxPriceChangeBps]_oracleVars

\* Nothing stands in the way of the prices of the active feeds.
Deliverable == \A m \in active : /\ ~Reverts(m, hermes)
                                 /\ ~Jumps(router.lastPrice[m], Marked(m, hermes))

\* oracle-keeper/src/index.ts:4-7: when no source is missing, deviates or has jumped, the engine
\* gets the prices of every active feed, whatever updates were lost or timed out before.
PricesArrive ==
    <>[]Deliverable => []<>(\A m \in active : router.lastPrice[m] = Marked(m, hermes))
================================================================================
