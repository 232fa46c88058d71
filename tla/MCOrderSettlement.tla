-------------------------- MODULE MCOrderSettlement --------------------------
(***************************************************************************)
(* Small instances of settlement, on the scales of MCPerpEngine but with     *)
(* prices ten times as large, so that averages are rounded.  Traders have    *)
(* 120 units each.                                                         *)
(***************************************************************************)
EXTENDS OrderSettlement

VARIABLE scene      \* which of the two instances below a behaviour belongs to

sceneVars == <<vars, settlementVars, scene>>

MCConfig ==
    [m \in 1..MarketCount |->
        [initialMarginBps |-> 50, maintenanceMarginBps |-> 40, maxPositionSize |-> 4,
         fundingIntervalSecs |-> 1]]

MCBalances == [a \in 1..N |-> CASE a = 1 -> 0 [] a \in {2, 3} -> 1 [] OTHER -> 120]
MCCredits == [a \in 1..N |-> 0]
MCNoParams == <<>>

MCInitialParams ==
    {[maxPriceAge |-> 2, maxExposureBps |-> 0, oiSkewCapBps |-> 100, reserveFactorBps |-> 0,
      oiCap |-> [m \in 1..MarketCount |-> 0],
      impactFactorBps |-> [m \in 1..MarketCount |-> 0],
      windowSecs |-> 1, thresholdBps |-> 50, cooldown |-> 1]}

Order(trader, isLong, size, price, nonce, expiry) ==
    [trader |-> trader, market |-> 1, isLong |-> isLong, size |-> size, price |-> price,
     nonce |-> nonce, expiry |-> expiry]

\* Trader 4 buys and trader 5 sells, with an order that expires at once and one that
\* replaces it under the same nonce.
Buy1 == Order(4, TRUE, 2, 37, 1, 2)
Buy2 == Order(4, TRUE, 1, 30, 2, 2)
Sell1 == Order(5, FALSE, 2, 30, 1, 2)
Sell2 == Order(5, FALSE, 1, 30, 2, 0)
Sell2Again == Order(5, FALSE, 2, 30, 2, 2)
PairOrders == {Buy1, Buy2, Sell1, Sell2, Sell2Again}

\* Three traders who buy and sell, so that positions grow, shrink and change sides
\* against one another.
CircleOrders ==
    {Order(4, TRUE, 2, 37, 1, 2), Order(4, TRUE, 2, 37, 4, 2), Order(4, FALSE, 2, 30, 3, 2),
     Order(5, FALSE, 2, 30, 1, 2), Order(5, TRUE, 2, 37, 3, 2),
     Order(6, FALSE, 2, 30, 1, 2), Order(6, TRUE, 1, 37, 2, 2), Order(6, FALSE, 1, 30, 3, 2)}

MCOrders == PairOrders \union CircleOrders
MCCommitBatches == {PairOrders, {Buy1, Sell1}}

MCFees == {[maker |-> 2, taker |-> 1], [maker |-> 0, taker |-> 3]}
MCDelays == {[min |-> 0, max |-> 2], [min |-> 2, max |-> 1], [min |-> 0, max |-> 3]}
MCSpreadTiers == {<<1, 2, 3>>}
MCInitialSettings ==
    [makerFeeBps |-> 0, takerFeeBps |-> 2, minSettlementDelay |-> 1,
     dynamicSpreadEnabled |-> TRUE, spreadTiers |-> <<0, 1, 2>>]

\* Two traders, one price: commits, single and batch settlement and the owner's setters.
PairTrades ==
    {trade \in Matches : {trade.maker, trade.taker} \subseteq PairOrders /\ trade.price = 30}
PairCalls == 4

PairCall ==
    \/ \E o \in PairOrders : CommitOrder(o)
    \/ \E os \in CommitBatches : CommitOrderBatch(os)
    \/ \E trade \in PairTrades : SettleOne(trade)
    \/ \E n \in 2..MaxTrades : \E trades \in [1..n -> PairTrades] : SettleBatch(trades)
    \/ SettingStep

PairNext ==
    /\ scene = "pair"
    /\ \/ calls < PairCalls /\ PairCall
       \/ EngineStep
    /\ \A m \in Markets : markets'[m].markPrice \in {0, 30}

\* Three traders, two prices: trades one by one, after the owner allowed them to be settled
\* without a commit, while no time passes.
CircleTrades == {trade \in Matches : {trade.maker, trade.taker} \subseteq CircleOrders}

CircleNext ==
    /\ scene = "circle"
    /\ \/ calls = 0 /\ (\E delay \in Delays : SetSettlementDelay(delay))
       \/ settings.minSettlementDelay = 0 /\ (\E trade \in CircleTrades : SettleOne(trade))
       \/ EngineStep
    /\ now' = 0

SceneNext == (PairNext \/ CircleNext) /\ UNCHANGED scene
SceneInit == SettlementInit /\ scene \in {"pair", "circle"}
SceneSpec == SceneInit /\ [][SceneNext]_sceneVars
=============================================================================
