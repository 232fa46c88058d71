----------------------------- MODULE PerpEngine -----------------------------
(***************************************************************************)
(* src/contracts/src/PerpEngine.sol: positions, margin, funding, open       *)
(* interest, liquidation and the circuit breaker, over the books of         *)
(* PerpVault.  The engine holds no USDC: it is an operator that moves        *)
(* balances between a trader and its own account in the vault.              *)
(*                                                                         *)
(* An action is one transaction.  A handler makes several transfers, each    *)
(* of which the vault may refuse and so revert everything; it is computed    *)
(* as a chain of scratch states s, and s.ok says that nothing in the chain    *)
(* reverted.  Prices, sizes and amounts are small integers under the scales  *)
(* of EngineMath.                                                           *)
(***************************************************************************)
EXTENDS VaultLedger, EngineMath

CONSTANTS
    MarketCount,        \* markets are the numbers 1 .. MarketCount
    Traders,            \* accounts that trade
    Keepers,            \* accounts paid for liquidations
    Engine,             \* the engine's own account in the vault
    InsuranceFund, FundingPool, FeeRecipient,
    InitialBalances,    \* the vault's books when trading starts
    InitialCredits,
    Config,             \* per market: margins, maxPositionSize, fundingIntervalSecs
    MaxFundingRate,     \* FUNDING_PRECISION / 1000 in the code
    BadDebtRewardBps,   \* 5: the keeper's reward when nothing is left
    MaxRewardBps,       \* 500: the cap of the keeper's reward
    MaxTierVersions,
    PriceAges,          \* 10 .. 3600: what setMaxPriceAge accepts
    BreakerTimes,       \* 60 .. 86400: the windows and cooldowns that are accepted
    MarginModes,        \* the modes traders choose from
    Prices, IndexPrices,    \* what oracles and traders bring as prices
    SizeDeltas, Amounts,    \* what traders ask for
    TierLists, Statuses,            \* what the owner calls the setters with
    ParamSets, MarketParamSets, BreakerParams,
    InitialParams,      \* the parameters at the start
    Withdrawals,        \* what traders withdraw from the vault meanwhile
    MaxTime,            \* bound on the clock
    MaxCalls            \* bound on the calls of traders, keepers and the owner

Markets == 1..MarketCount

\* A tier of setMarginTiers.
Tiers == [maxNotional : Nat, initialMarginBps : Nat, maintenanceMarginBps : Nat]

\* What the parameters may be: the first four alone, then those of one market, then those
\* of the circuit breaker.
Params == [maxPriceAge : PriceAges, maxExposureBps : 0..BPS, oiSkewCapBps : BPS \div 2..BPS,
           reserveFactorBps : 0..BPS,
           oiCap : [Markets -> Nat], impactFactorBps : [Markets -> Nat],
           windowSecs : BreakerTimes, thresholdBps : 1..BPS, cooldown : BreakerTimes]

ASSUME RolesAssumption ==
    /\ MarketCount \in Nat
    /\ Traders \subseteq Accounts
    /\ Keepers \subseteq Accounts
    /\ {Engine, InsuranceFund, FundingPool, FeeRecipient} \subseteq Accounts
    /\ Engine \notin Traders
    /\ MarginModes \subseteq {"ISOLATED", "CROSS"}
    /\ InitialBalances \in [Accounts -> Nat]
    /\ InitialCredits \in [Accounts -> Nat]

ASSUME RatesAssumption ==
    /\ {MaxFundingRate, BadDebtRewardBps, MaxRewardBps, MaxTierVersions, MaxTime, MaxCalls}
           \subseteq Nat
    /\ Prices \subseteq Nat
    /\ IndexPrices \subseteq Nat
    /\ SizeDeltas \subseteq Int
    /\ Amounts \subseteq Nat
    /\ Withdrawals \subseteq Nat
    /\ TierLists \subseteq Seq(Tiers)
    /\ Statuses \subseteq BOOLEAN
    /\ InitialParams \subseteq Params
    /\ DOMAIN ParamSets \subseteq {"maxPriceAge", "maxExposureBps", "oiSkewCapBps",
                                 "reserveFactorBps"}
    /\ DOMAIN MarketParamSets \subseteq {"oiCap", "impactFactorBps"}
    /\ \A field \in DOMAIN MarketParamSets : MarketParamSets[field] \subseteq Nat
    /\ \A m \in Markets :
           /\ {Config[m].maxPositionSize, Config[m].fundingIntervalSecs} \subseteq Nat \ {0}
           /\ Config[m].initialMarginBps \in 1..BPS
           /\ Config[m].maintenanceMarginBps \in 1..Config[m].initialMarginBps - 1

VARIABLES
    now,                \* block.timestamp
    paused,
    balances,           \* the vault's two mappings
    collateralBalances,
    markets,            \* what the Market struct keeps besides Config
    positions,          \* positions[m][a]
    marginMode,         \* traderMarginMode
    activeMarkets,      \* traderActiveMarkets[a]: a list
    activeIndex,        \* _activeMarketIndex[a][m]: place in that list, 0 if absent
    tierHistory,        \* marketMarginTiersHistory[m]; its length is the live version
    breaker,            \* circuitBreakerActive and circuitBreakerTriggeredAt
    window,             \* per market: windowStart and liquidatedInWindow
    params,             \* the parameters the setters change, two of them per market
    calls               \* calls so far, to bound those that could go on for ever

ledgerVars == <<balances, collateralBalances>>
bookVars == <<positions, activeMarkets, activeIndex>>
riskVars == <<breaker, window>>
vars == <<now, paused, ledgerVars, markets, bookVars, marginMode, tierHistory, riskVars,
          params, calls>>

NoPosition == [size |-> 0, entryPrice |-> 0, margin |-> 0,
               lastCumulativeFunding |-> 0, marginTierVersion |-> 0]

NoMarket == [exists |-> FALSE, active |-> FALSE, markPrice |-> 0, indexPrice |-> 0,
             lastPriceUpdate |-> 0, cumulativeFunding |-> 0, lastFundingUpdate |-> 0,
             openInterestLong |-> 0, openInterestShort |-> 0]

Init ==
    /\ now = 0
    /\ paused = FALSE
    /\ balances = InitialBalances
    /\ collateralBalances = InitialCredits
    /\ markets = [m \in Markets |-> NoMarket]
    /\ positions = [m \in Markets |-> [a \in Accounts |-> NoPosition]]
    /\ marginMode = [a \in Accounts |-> "ISOLATED"]
    /\ activeMarkets = [a \in Accounts |-> <<>>]
    /\ activeIndex = [a \in Accounts |-> [m \in Markets |-> 0]]
    /\ tierHistory = [m \in Markets |-> <<>>]
    /\ breaker = [active |-> FALSE, triggeredAt |-> 0]
    /\ window = [m \in Markets |-> [start |-> 0, liquidated |-> 0]]
    /\ params \in InitialParams
    /\ calls = 0

-----------------------------------------------------------------------------
(* Scratch states: what a transaction has done so far, and whether it reverted *)

Scratch == [ok |-> TRUE,
            ledger |-> [balances |-> balances, collateralBalances |-> collateralBalances],
            markets |-> markets, positions |-> positions,
            active |-> activeMarkets, index |-> activeIndex,
            breaker |-> breaker, window |-> window]

Commit(s) ==
    /\ s.ok
    /\ balances' = s.ledger.balances
    /\ collateralBalances' = s.ledger.collateralBalances
    /\ markets' = s.markets
    /\ positions' = s.positions
    /\ activeMarkets' = s.active
    /\ activeIndex' = s.index
    /\ breaker' = s.breaker
    /\ window' = s.window

Require(s, condition) == [s EXCEPT !.ok = @ /\ condition]

Free(s, a) == s.ledger.balances[a]

\* vault.internalTransfer: reverts on a zero amount and on one the payer cannot cover.
Pay(s, from, to, amount) ==
    [s EXCEPT !.ok = @ /\ LegAllowed(s.ledger, from, to, amount, 0),
              !.ledger = Transferred(@, from, to, amount)]

PayIfAny(s, from, to, amount) == IF amount > 0 THEN Pay(s, from, to, amount) ELSE s

SetPosition(s, m, a, pos) == [s EXCEPT !.positions[m][a] = pos]

\* Faulty form of UpdateOpenInterest: the short side is never taken off.
ShortsPileUp(s, m, oldSize, newSize) ==
    [s EXCEPT !.markets[m].openInterestLong =
                  @ - (IF oldSize > 0 THEN oldSize ELSE 0) + (IF newSize > 0 THEN newSize ELSE 0),
              !.markets[m].openInterestShort = @ + (IF newSize < 0 THEN -newSize ELSE 0)]

\* What a position adds to each side of its market.
LongPart(size) == IF size > 0 THEN size ELSE 0
ShortPart(size) == IF size < 0 THEN -size ELSE 0

\* _updateOpenInterest
UpdateOpenInterest(s, m, oldSize, newSize) ==
    LET k == s.markets[m]
    IN  [s EXCEPT !.markets[m] =
            [k EXCEPT !.openInterestLong = @ - LongPart(oldSize) + LongPart(newSize),
                      !.openInterestShort = @ - ShortPart(oldSize) + ShortPart(newSize)]]

\* Faulty form of AddActive: only a trader's first market is listed.
AddFirstActive(s, m, a) ==
    IF s.active[a] # <<>> THEN s
    ELSE [s EXCEPT !.active[a] = <<m>>, !.index[a][m] = 1]

\* _addActiveMarket
AddActive(s, m, a) ==
    IF s.index[a][m] # 0
    THEN s
    ELSE [s EXCEPT !.active[a] = Append(@, m),
                   !.index[a][m] = Len(s.active[a]) + 1]

\* Faulty form of RemoveActive: the market moved into the gap keeps its old index.
RemoveButForgetIndex(s, m, a) ==
    LET list == s.active[a]
        i == s.index[a][m]
    IN  IF i = 0 THEN s
        ELSE [s EXCEPT
                 !.active[a] = SubSeq([list EXCEPT ![i] = list[Len(list)]], 1, Len(list) - 1),
                 !.index[a][m] = 0]

\* _removeActiveMarket: the last market of the list takes the place of the removed one.
RemoveActive(s, m, a) ==
    LET list == s.active[a]
        i == s.index[a][m]
        last == list[Len(list)]
    IN  IF i = 0
        THEN s
        ELSE [s EXCEPT
                 !.active[a] = SubSeq([list EXCEPT ![i] = last], 1, Len(list) - 1),
                 !.index[a] = [[@ EXCEPT ![last] = i] EXCEPT ![m] = 0]]

\* A position closed for good: delete positions[m][a], off the books and the list.
Closed(s, m, a) ==
    RemoveActive(
        SetPosition(UpdateOpenInterest(s, m, s.positions[m][a].size, 0), m, a, NoPosition),
        m, a)

-----------------------------------------------------------------------------
(* Margin requirements *)

\* _calculateTieredMarginForVersion: flat rates for version 0 and for an empty list.
MarginForVersion(m, notional, isInitial, version) ==
    IF version = 0 \/ (version # 0 /\ tierHistory[m][version] = <<>>)
    THEN (notional * (IF isInitial THEN Config[m].initialMarginBps
                                   ELSE Config[m].maintenanceMarginBps)) \div BPS
    ELSE TieredMargin(tierHistory[m][version], notional, isInitial)

InitialMargin(m, notional) == MarginForVersion(m, notional, TRUE, Len(tierHistory[m]))

\* Faulty form of MaintenanceVersion: the tiers in force now.
LiveVersion(m, pos) == Len(tierHistory[m])

\* The tiers a position is held to: those in force when it was opened.
MaintenanceVersion(m, pos) == pos.marginTierVersion

PositionPnl(s, m, pos) == Pnl(pos.entryPrice, s.markets[m].markPrice, pos.size)
PositionNotional(s, m, pos) == Notional(s.markets[m].markPrice, Abs(pos.size))

\* _isBelowMaintenance
BelowMaintenance(s, m, pos) ==
    LET notional == PositionNotional(s, m, pos)
        effective == pos.margin + PositionPnl(s, m, pos)
    IN  /\ pos.size # 0
        /\ notional # 0
        /\ \/ effective <= 0
           \/ effective < MarginForVersion(m, notional, FALSE, MaintenanceVersion(m, pos))

\* The sum of a function on markets over the active list of one trader.
SumActive(s, a, part) ==
    SumTo([i \in 1..Len(s.active[a]) |-> part[s.active[a][i]]], Len(s.active[a]))

\* getAccountEquity
Equity(s, a) ==
    LET part == [m \in Markets |->
                    IF s.positions[m][a].size = 0 THEN 0
                    ELSE s.positions[m][a].margin + PositionPnl(s, m, s.positions[m][a])]
    IN  Free(s, a) + SumActive(s, a, part)

AccountMaintenance(s, a) ==
    LET part == [m \in Markets |-> (PositionNotional(s, m, s.positions[m][a])
                                        * Config[m].maintenanceMarginBps) \div BPS]
    IN  SumActive(s, a, part)

\* _isAccountLiquidatable
AccountBelowMaintenance(s, a) ==
    /\ AccountMaintenance(s, a) # 0
    /\ Equity(s, a) < AccountMaintenance(s, a)

\* _requireCrossMarginSufficient, for a position of notional in market m
CrossMarginSufficient(s, a, m, notional) ==
    LET others == [k \in Markets |->
                      IF k = m THEN 0
                      ELSE (PositionNotional(s, k, s.positions[k][a])
                               * Config[k].initialMarginBps) \div BPS]
    IN  Equity(s, a) >= SumActive(s, a, others)
                            + (notional * Config[m].initialMarginBps) \div BPS

\* _checkOiCaps
OiCapsHold(s, m) ==
    LET long == s.markets[m].openInterestLong
        short == s.markets[m].openInterestShort
        total == long + short
        dominant == IF long > short THEN long ELSE short
        tvl == SumTo(s.ledger.balances, N)
    IN  /\ params.oiCap[m] > 0 => total <= params.oiCap[m]
        /\ (total > 0 /\ params.oiSkewCapBps < BPS)
               => (dominant * BPS) \div total <= params.oiSkewCapBps
        /\ (params.reserveFactorBps > 0 /\ tvl > 0)
               => Notional(s.markets[m].markPrice, total)
                      <= (tvl * params.reserveFactorBps) \div BPS

\* _checkExposureLimit: against a share of the open interest of all markets.
ExposureAllowed(s, a) ==
    LET part == [m \in Markets |-> PositionNotional(s, m, s.positions[m][a])]
        all == SumActive(s, a, part)
        total == SumTo([m \in Markets |->
                           Notional(s.markets[m].markPrice,
                                    s.markets[m].openInterestLong
                                        + s.markets[m].openInterestShort)],
                       MarketCount)
    IN  \/ params.maxExposureBps = 0
        \/ total = 0
        \/ all <= (total * params.maxExposureBps) \div BPS

\* _calculatePriceImpact, on open interest that already counts the trade
PriceImpact(s, m, sizeDelta, notional) ==
    LET long == s.markets[m].openInterestLong
        short == s.markets[m].openInterestShort
        fraction == (Abs(sizeDelta) * BPS) \div (long + short)
        worsens == (sizeDelta > 0) = (long >= short)
    IN  IF params.impactFactorBps[m] = 0 \/ long + short = 0 \/ ~worsens
        THEN 0
        ELSE (notional * fraction * fraction * params.impactFactorBps[m]) \div (BPS * BPS * BPS)

-----------------------------------------------------------------------------
(* Funding *)

\* _applyFunding: what the position owes is taken from its margin, but paid out of
\* the trader's free balance; what it is owed is added to both.
ApplyFunding(s, m, a) ==
    LET pos == s.positions[m][a]
        cumulative == s.markets[m].cumulativeFunding
        owed == Quotient(pos.size * (cumulative - pos.lastCumulativeFunding),
                         FUNDING_PRECISION)
        payment == Least(owed, pos.margin)
        receipt == Least(-owed, Free(s, FundingPool))
        Settled(margin) == [pos EXCEPT !.margin = margin,
                                       !.lastCumulativeFunding = cumulative]
    IN  IF pos.size = 0 THEN s
        ELSE IF owed > 0
        THEN Pay(SetPosition(s, m, a, Settled(pos.margin - payment)),
                 a, FundingPool, payment)
        ELSE PayIfAny(SetPosition(s, m, a, Settled(pos.margin + receipt)),
                      FundingPool, a, receipt)

\* _settlePnl: margin and profit out of the engine's account, topped up from the
\* insurance fund when that is short, and cut to what there is.
SettlePnl(s, a, pnl, released) ==
    LET total == released + pnl
        shortfall == Least(Excess(total, Free(s, Engine)), Free(s, InsuranceFund))
        topped == PayIfAny(s, InsuranceFund, Engine, shortfall)
    IN  IF pnl >= 0 THEN Pay(topped, Engine, a, Least(total, Free(topped, Engine)))
        ELSE IF total <= 0 THEN s
        ELSE Pay(s, Engine, a, total)

-----------------------------------------------------------------------------
(* Opening, increasing, reducing *)

Cross(a) == marginMode[a] = "CROSS"

\* What goes from the free balance to margin: a cross position takes what there is.
Lockable(s, a, needed) == IF Cross(a) THEN Least(needed, Free(s, a)) ELSE needed

\* An isolated position needs its margin free, a cross one enough equity in the account.
LockMargin(s, a, m, notional, needed) ==
    IF Cross(a)
    THEN PayIfAny(Require(s, CrossMarginSufficient(s, a, m, notional)),
                  a, Engine, Lockable(s, a, needed))
    ELSE Pay(Require(s, Free(s, a) >= needed), a, Engine, needed)

\* Price impact is charged on the free balance that is left, as far as it goes.
ChargeImpact(s, m, a, sizeDelta, notional) ==
    PayIfAny(s, a, FeeRecipient,
             Least(PriceImpact(s, m, sizeDelta, notional), Free(s, a)))

\* _openNewPosition
OpenNewPosition(s, m, a, size, price) ==
    LET notional == Notional(price, Abs(size))
        needed == InitialMargin(m, notional)
        locked == LockMargin(s, a, m, notional, needed)
        opened == UpdateOpenInterest(
                      SetPosition(locked, m, a,
                          [size |-> size, entryPrice |-> price,
                           margin |-> Lockable(s, a, needed),
                           lastCumulativeFunding |-> s.markets[m].cumulativeFunding,
                           marginTierVersion |-> Len(tierHistory[m])]),
                      m, 0, size)
        listed == AddActive(ChargeImpact(Require(opened, OiCapsHold(opened, m)),
                                         m, a, size, notional),
                            m, a)
    IN  Require(listed, ExposureAllowed(listed, a))

\* _increasePosition: the tiers the position is held to stay those it was opened under.
IncreasePosition(s, m, a, sizeDelta, price) ==
    LET pos == s.positions[m][a]
        entry == AverageEntry(pos.entryPrice, Abs(pos.size), price, Abs(sizeDelta))
        notional == Notional(entry, Abs(pos.size) + Abs(sizeDelta))
        needed == Excess(InitialMargin(m, notional), pos.margin)
        locked == LockMargin(s, a, m, notional, needed)
        grown == UpdateOpenInterest(
                     SetPosition(locked, m, a,
                         [pos EXCEPT !.size = @ + sizeDelta, !.entryPrice = entry,
                                     !.margin = @ + Lockable(s, a, needed)]),
                     m, pos.size, pos.size + sizeDelta)
        charged == ChargeImpact(Require(grown, OiCapsHold(grown, m)),
                                m, a, sizeDelta, Notional(price, Abs(sizeDelta)))
    IN  Require(charged, ExposureAllowed(charged, a))

\* _reduceOrFlipPosition
ReduceOrFlip(s, m, a, sizeDelta, price) ==
    LET pos == s.positions[m][a]
        newSize == pos.size + sizeDelta
        closing == Least(Abs(sizeDelta), Abs(pos.size))
        signed == IF pos.size > 0 THEN closing ELSE -closing
        released == IF newSize = 0 THEN pos.margin
                    ELSE (pos.margin * closing) \div Abs(pos.size)
        paid == SettlePnl(s, a, Pnl(pos.entryPrice, price, signed), released)
    IN  IF newSize = 0 THEN Closed(paid, m, a)
        ELSE IF SameSign(pos.size, newSize)
        THEN UpdateOpenInterest(
                 SetPosition(paid, m, a, [pos EXCEPT !.size = newSize,
                                                     !.margin = @ - released]),
                 m, pos.size, newSize)
        ELSE OpenNewPosition(
                 SetPosition(UpdateOpenInterest(paid, m, pos.size, 0), m, a,
                             [pos EXCEPT !.size = 0, !.entryPrice = 0, !.margin = 0]),
                 m, a, newSize, price)

\* Faulty form of Fresh: any price there ever was will do.
EverPriced(m) == markets[m].markPrice # 0

\* _requireFreshPrice
Fresh(m) ==
    /\ markets[m].markPrice # 0
    /\ now - markets[m].lastPriceUpdate <= params.maxPriceAge

\* _checkCircuitBreaker: lets positions open when it is off or its cooldown is over.
BreakerLetsOpen(s) == s.breaker.active => now - s.breaker.triggeredAt >= params.cooldown

\* What openPosition asks before it looks at the position.
OpenAllowed(s, m, sizeDelta, price) ==
    /\ ~paused
    /\ markets[m].exists /\ markets[m].active
    /\ sizeDelta # 0
    /\ price # 0
    /\ Fresh(m)
    /\ BreakerLetsOpen(s)

\* What openPosition does, for the callers that chain it with other calls.
Opened(s, m, a, sizeDelta, price) ==
    LET allowed == [s EXCEPT !.ok = @ /\ OpenAllowed(s, m, sizeDelta, price),
                             !.breaker.active = FALSE]
        funded == ApplyFunding(allowed, m, a)
        size == funded.positions[m][a].size
        sized == Require(funded, Abs(size + sizeDelta) <= Config[m].maxPositionSize)
    IN  IF size = 0 THEN OpenNewPosition(sized, m, a, sizeDelta, price)
        ELSE IF SameSign(size, sizeDelta) THEN IncreasePosition(sized, m, a, sizeDelta, price)
        ELSE ReduceOrFlip(sized, m, a, sizeDelta, price)

\* One more of the calls this instance allows.
Counted == calls < MaxCalls /\ calls' = calls + 1

OpenPosition(m, a, sizeDelta, price) ==
    /\ Counted
    /\ OpenAllowed(Scratch, m, sizeDelta, price)
    /\ Commit(Opened(Scratch, m, a, sizeDelta, price))
    /\ UNCHANGED <<now, paused, marginMode, tierHistory, params>>

\* What closing a whole position does, in an active market or not.
CloseResult(m, a, price) ==
    LET s == ApplyFunding(Scratch, m, a)
        pos == s.positions[m][a]
    IN  Closed(SettlePnl(s, a, Pnl(pos.entryPrice, price, pos.size), pos.margin), m, a)

ClosePosition(m, a, price) ==
    /\ Counted
    /\ ~paused
    /\ markets[m].exists
    /\ price # 0
    /\ Fresh(m)
    /\ positions[m][a].size # 0
    /\ Commit(CloseResult(m, a, price))
    /\ UNCHANGED <<now, paused, marginMode, tierHistory, params>>

-----------------------------------------------------------------------------
(* Margin of an open position *)

AddMargin(m, a, amount) ==
    /\ Counted
    /\ ~paused
    /\ markets[m].exists
    /\ amount # 0
    /\ positions[m][a].size # 0
    /\ Free(Scratch, a) >= amount
    /\ Commit(SetPosition(Pay(Scratch, a, Engine, amount), m, a,
                          [positions[m][a] EXCEPT !.margin = @ + amount]))
    /\ UNCHANGED <<now, paused, marginMode, tierHistory, params>>

\* Cross: the account's equity covers its maintenance.  Isolated: what is left covers
\* the flat rate of the market, whatever tiers the position was opened under.
RemovalAllowed(m, a, amount) ==
    LET pos == positions[m][a]
    IN  IF Cross(a)
        THEN Equity(Scratch, a) >= AccountMaintenance(Scratch, a)
        ELSE pos.margin - amount + PositionPnl(Scratch, m, pos)
                 >= (PositionNotional(Scratch, m, pos)
                        * Config[m].maintenanceMarginBps) \div BPS

RemoveMargin(m, a, amount) ==
    /\ Counted
    /\ ~paused
    /\ markets[m].exists
    /\ amount # 0
    /\ positions[m][a].size # 0
    /\ amount <= positions[m][a].margin
    /\ RemovalAllowed(m, a, amount)
    /\ Commit(Pay(SetPosition(Scratch, m, a, [positions[m][a] EXCEPT !.margin = @ - amount]),
                  Engine, a, amount))
    /\ UNCHANGED <<now, paused, marginMode, tierHistory, params>>

SetMarginMode(a, mode) ==
    /\ ~paused
    /\ activeMarkets[a] = <<>>
    /\ marginMode' = [marginMode EXCEPT ![a] = mode]
    /\ UNCHANGED <<now, paused, ledgerVars, markets, bookVars, tierHistory, riskVars, params,
                   calls>>

-----------------------------------------------------------------------------
(* Liquidation *)

\* _trackLiquidation: volume per window against the open interest of the market.
TrackLiquidation(s, m, notional) ==
    LET old == s.window[m]
        counted == IF now - old.start > params.windowSecs
                   THEN [start |-> now, liquidated |-> notional]
                   ELSE [old EXCEPT !.liquidated = @ + notional]
        interest == Notional(s.markets[m].markPrice,
                             s.markets[m].openInterestLong + s.markets[m].openInterestShort)
        tripped == /\ interest > 0
                   /\ (counted.liquidated * BPS) \div interest >= params.thresholdBps
    IN  [s EXCEPT !.window[m] = counted,
                  !.breaker = IF tripped THEN [active |-> TRUE, triggeredAt |-> now] ELSE @]

\* Faulty form of DistributeRewards: the bonus is paid the wrong way.
RewardsReversed(s, keeper, notional, effective) ==
    PayIfAny(s, keeper, InsuranceFund,
             Least((notional * BadDebtRewardBps) \div BPS, Free(s, keeper)))

\* What is left of margin goes to the keeper and the insurance fund; when nothing is
\* left the insurance fund pays the keeper as far as it can.
DistributeRewards(s, keeper, notional, effective) ==
    LET bonus == Least((notional * BadDebtRewardBps) \div BPS, Free(s, InsuranceFund))
        reward == Least(effective \div 2, (notional * MaxRewardBps) \div BPS)
    IN  IF effective <= 0
        THEN PayIfAny(s, InsuranceFund, keeper, bonus)
        ELSE PayIfAny(Pay(s, Engine, keeper, reward), Engine, InsuranceFund,
                      effective - reward)

\* A quarter of the position, all of it when that is nothing or the position is tiny.
LiquidationSize(absSize) ==
    IF absSize \div 4 = 0 \/ absSize <= SIZE_PRECISION \div 100
    THEN absSize
    ELSE absSize \div 4

\* One round on an isolated position whose funding has been applied in s.
LiquidationRound(s, m, a, keeper) ==
    LET pos == s.positions[m][a]
        size == LiquidationSize(Abs(pos.size))
        signed == IF pos.size > 0 THEN size ELSE -size
        full == size = Abs(pos.size)
        released == IF full THEN pos.margin ELSE (pos.margin * size) \div Abs(pos.size)
        price == s.markets[m].markPrice
        paid == TrackLiquidation(
                    DistributeRewards(s, keeper, Notional(price, size),
                                      released + Pnl(pos.entryPrice, price, signed)),
                    m, Notional(price, size))
    IN  IF full THEN Closed(paid, m, a)
        ELSE UpdateOpenInterest(
                 SetPosition(paid, m, a, [pos EXCEPT !.size = @ - signed,
                                                     !.margin = @ - released]),
                 m, pos.size, pos.size - signed)

LiquidatePosition(m, a, keeper) ==
    /\ Counted
    /\ ~paused
    /\ markets[m].exists
    /\ ~Cross(a)
    /\ positions[m][a].size # 0
    /\ markets[m].markPrice # 0
    /\ LET s == ApplyFunding(Scratch, m, a)
       IN  /\ BelowMaintenance(s, m, s.positions[m][a])
           /\ Commit(LiquidationRound(s, m, a, keeper))
    /\ UNCHANGED <<now, paused, marginMode, tierHistory, params>>

\* All the positions of a cross account, funding applied one market at a time: entry i
\* is the state after the first i markets of the list, with the totals so far.
AccountAlong(a) ==
    LET list == activeMarkets[a]
        after[i \in 0..Len(list)] ==
            IF i = 0
            THEN [s |-> Scratch, effective |-> 0, notional |-> 0]
            ELSE LET m == list[i]
                     t == after[i - 1]
                     funded == ApplyFunding(t.s, m, a)
                     pos == funded.positions[m][a]
                 IN  [s |-> SetPosition(UpdateOpenInterest(funded, m, pos.size, 0),
                                        m, a, NoPosition),
                      effective |-> t.effective + pos.margin + PositionPnl(funded, m, pos),
                      notional |-> t.notional + PositionNotional(funded, m, pos)]
    IN  after

AccountClosed(a) == AccountAlong(a)[Len(activeMarkets[a])]

LiquidateAccount(a, keeper) ==
    /\ Counted
    /\ ~paused
    /\ Cross(a)
    /\ AccountBelowMaintenance(Scratch, a)
    /\ LET t == AccountClosed(a)
           tracked == IF t.notional > 0
                      THEN TrackLiquidation(t.s, activeMarkets[a][1], t.notional)
                      ELSE t.s
           cleared == [tracked EXCEPT !.active[a] = <<>>,
                                      !.index[a] = [m \in Markets |-> 0]]
       IN  Commit(DistributeRewards(cleared, keeper, t.notional, t.effective))
    /\ UNCHANGED <<now, paused, marginMode, tierHistory, params>>

-----------------------------------------------------------------------------
(* Prices, funding rate, markets *)

UpdateMarkPrice(m, mark, index) ==
    /\ markets[m].exists
    /\ mark # 0 /\ index # 0
    /\ markets' = [markets EXCEPT ![m].markPrice = mark, ![m].indexPrice = index,
                                  ![m].lastPriceUpdate = now]
    /\ UNCHANGED <<now, paused, ledgerVars, bookVars, marginMode, tierHistory, riskVars,
                   params, calls>>

\* At most three periods a call, each at a capped rate; callable by anyone, even paused.
ApplyFundingRate(m) ==
    LET mk == markets[m]
        elapsed == now - mk.lastFundingUpdate
        interval == Config[m].fundingIntervalSecs
        rate == Clamped(Quotient((mk.markPrice - mk.indexPrice) * FUNDING_PRECISION,
                                 mk.indexPrice),
                        MaxFundingRate)
        periods == Least(elapsed \div interval, 3)
    IN  /\ mk.exists
        /\ elapsed >= interval
        /\ mk.markPrice # 0 /\ mk.indexPrice # 0
        /\ markets' = [markets EXCEPT ![m].cumulativeFunding = @ + rate * periods,
                                      ![m].lastFundingUpdate = @ + interval * periods]
        /\ UNCHANGED <<now, paused, ledgerVars, bookVars, marginMode, tierHistory, riskVars,
                       params, calls>>

AddMarket(m) ==
    /\ ~markets[m].exists
    /\ markets' = [markets EXCEPT ![m] = [NoMarket EXCEPT !.exists = TRUE, !.active = TRUE,
                                                          !.lastFundingUpdate = now]]
    /\ UNCHANGED <<now, paused, ledgerVars, bookVars, marginMode, tierHistory, riskVars,
                   params, calls>>

SetMarketActive(m, status) ==
    /\ Counted
    /\ markets[m].exists
    /\ markets' = [markets EXCEPT ![m].active = status]
    /\ UNCHANGED <<now, paused, ledgerVars, bookVars, marginMode, tierHistory, riskVars,
                   params>>

-----------------------------------------------------------------------------
(* Parameters: the setters of the owner *)

\* Appended as a new version; positions keep the version they were opened under.
SetMarginTiers(m, tiers) ==
    /\ markets[m].exists
    /\ Len(tierHistory[m]) < MaxTierVersions
    /\ TiersValid(tiers)
    /\ tierHistory' = [tierHistory EXCEPT ![m] = Append(@, tiers)]
    /\ UNCHANGED <<now, paused, ledgerVars, markets, bookVars, marginMode, riskVars, params,
                   calls>>

\* What each parameter may be.
ParamRange ==
    [maxPriceAge |-> PriceAges, maxExposureBps |-> 0..BPS, oiSkewCapBps |-> BPS \div 2..BPS,
     reserveFactorBps |-> 0..BPS]

\* setMaxPriceAge, setMaxExposureBps, setOiSkewCap, setReserveFactor: one field each.
SetParam(field, value) ==
    /\ Counted
    /\ value \in ParamRange[field]
    /\ params' = [params EXCEPT ![field] = value]
    /\ UNCHANGED <<now, paused, ledgerVars, markets, bookVars, marginMode, tierHistory,
                   riskVars>>

\* setOiCap and setPriceImpactConfig: one field of one market.
SetMarketParam(m, field, value) ==
    /\ Counted
    /\ markets[m].exists
    /\ params' = [params EXCEPT ![field][m] = value]
    /\ UNCHANGED <<now, paused, ledgerVars, markets, bookVars, marginMode, tierHistory,
                   riskVars>>

SetCircuitBreakerParams(windowSecs, thresholdBps, cooldown) ==
    /\ Counted
    /\ {windowSecs, cooldown} \subseteq BreakerTimes
    /\ thresholdBps \in 1..BPS
    /\ params' = [params EXCEPT !.windowSecs = windowSecs, !.thresholdBps = thresholdBps,
                                !.cooldown = cooldown]
    /\ UNCHANGED <<now, paused, ledgerVars, markets, bookVars, marginMode, tierHistory,
                   riskVars>>

ResetCircuitBreaker ==
    /\ Counted
    /\ breaker' = [breaker EXCEPT !.active = FALSE]
    /\ UNCHANGED <<now, paused, ledgerVars, markets, bookVars, marginMode, tierHistory,
                   window, params>>

Pause ==
    /\ Counted
    /\ ~paused
    /\ paused' = TRUE
    /\ UNCHANGED <<now, ledgerVars, markets, bookVars, marginMode, tierHistory, riskVars,
                   params>>

Unpause ==
    /\ Counted
    /\ paused
    /\ paused' = FALSE
    /\ UNCHANGED <<now, ledgerVars, markets, bookVars, marginMode, tierHistory, riskVars,
                   params>>

-----------------------------------------------------------------------------
(* Around the engine: the vault's own withdrawals, and time *)

\* A trader takes free balance out of the vault (PerpVault's withdraw).
WithdrawFree(a, amount) ==
    /\ Counted
    /\ amount > 0
    /\ amount <= balances[a]
    /\ balances' = [balances EXCEPT ![a] = @ - amount]
    /\ UNCHANGED <<now, paused, collateralBalances, markets, bookVars, marginMode,
                   tierHistory, riskVars, params>>

Tick ==
    /\ now < MaxTime
    /\ now' = now + 1
    /\ UNCHANGED <<paused, ledgerVars, markets, bookVars, marginMode, tierHistory, riskVars,
                   params, calls>>

TraderStep(a) ==
    \/ \E m \in Markets, sizeDelta \in SizeDeltas, price \in Prices :
           OpenPosition(m, a, sizeDelta, price)
    \/ \E m \in Markets, price \in Prices : ClosePosition(m, a, price)
    \/ \E m \in Markets, amount \in Amounts : AddMargin(m, a, amount)
    \/ \E m \in Markets, amount \in Amounts : RemoveMargin(m, a, amount)
    \/ \E mode \in MarginModes : SetMarginMode(a, mode)
    \/ \E amount \in Withdrawals : WithdrawFree(a, amount)

KeeperStep(keeper) ==
    \E a \in Traders :
        \/ \E m \in Markets : LiquidatePosition(m, a, keeper)
        \/ LiquidateAccount(a, keeper)

MarketStep(m) ==
    \/ \E mark \in Prices, index \in IndexPrices : UpdateMarkPrice(m, mark, index)
    \/ ApplyFundingRate(m)
    \/ AddMarket(m)

OwnerStep ==
    \/ \E m \in Markets, status \in Statuses : SetMarketActive(m, status)
    \/ \E m \in Markets, tiers \in TierLists : SetMarginTiers(m, tiers)
    \/ \E field \in DOMAIN ParamSets : \E value \in ParamSets[field] : SetParam(field, value)
    \/ \E m \in Markets, field \in DOMAIN MarketParamSets :
           \E value \in MarketParamSets[field] : SetMarketParam(m, field, value)
    \/ \E p \in BreakerParams :
           SetCircuitBreakerParams(p.windowSecs, p.thresholdBps, p.cooldown)
    \/ ResetCircuitBreaker
    \/ Pause
    \/ Unpause

Next ==
    \/ \E a \in Traders : TraderStep(a)
    \/ \E keeper \in Keepers : KeeperStep(keeper)
    \/ \E m \in Markets : MarketStep(m)
    \/ OwnerStep
    \/ Tick

Spec == Init /\ [][Next]_vars

-----------------------------------------------------------------------------
(* Properties *)

TypeOK ==
    /\ now \in 0..MaxTime
    /\ calls \in 0..MaxCalls
    /\ paused \in BOOLEAN
    /\ balances \in [Accounts -> Nat]
    /\ collateralBalances \in [Accounts -> Nat]
    /\ markets \in [Markets -> [exists : BOOLEAN, active : BOOLEAN, markPrice : Nat,
                                indexPrice : Nat, lastPriceUpdate : 0..now,
                                cumulativeFunding : Int, lastFundingUpdate : 0..now,
                                openInterestLong : Nat, openInterestShort : Nat]]
    /\ positions \in [Markets -> [Accounts ->
                         [size : Int, entryPrice : Nat, margin : Nat,
                          lastCumulativeFunding : Int, marginTierVersion : Nat]]]
    /\ marginMode \in [Accounts -> {"ISOLATED", "CROSS"}]
    /\ activeMarkets \in [Accounts -> Seq(Markets)]
    /\ activeIndex \in [Accounts -> [Markets -> Nat]]
    /\ params \in Params
    /\ breaker \in [active : BOOLEAN, triggeredAt : 0..now]
    /\ window \in [Markets -> [start : 0..now, liquidated : Nat]]
    /\ tierHistory \in [Markets -> Seq(Seq(Tiers))]
    /\ \A m \in Markets : /\ Len(tierHistory[m]) <= MaxTierVersions
                          /\ \A v \in 1..Len(tierHistory[m]) : TiersValid(tierHistory[m][v])

\* The long (short) side of a market, one entry per account.
LongSizes(m) == [a \in Accounts |-> LongPart(positions[m][a].size)]
ShortSizes(m) == [a \in Accounts |-> ShortPart(positions[m][a].size)]

\* Open interest, adjusted step by step, is what the positions add up to, through
\* flips, partial liquidations and whole accounts closed at once.
OpenInterestConsistent ==
    \A m \in Markets :
        /\ markets[m].openInterestLong = SumTo(LongSizes(m), N)
        /\ markets[m].openInterestShort = SumTo(ShortSizes(m), N)

\* The list of a trader's markets holds just those with a position, once each, and the
\* index finds each of them, whatever was swapped into the place of what was removed;
\* equity, exposure and account liquidation look at no other market.
ActiveListsExact ==
    \A a \in Accounts, m \in Markets :
        LET i == activeIndex[a][m]
        IN  /\ (i # 0) = (positions[m][a].size # 0)
            /\ i # 0 => i \in 1..Len(activeMarkets[a]) /\ activeMarkets[a][i] = m
            /\ \A j \in 1..Len(activeMarkets[a]) : activeMarkets[a][j] = m => i = j

\* A position gets larger, or changes sides, only in an active market, unpaused, at a
\* fresh price and with the circuit breaker off or past its cooldown.
ExposureGrowsOnlyWhenOpen ==
    [][ \A m \in Markets, a \in Traders :
            LET old == positions[m][a].size
                new == positions'[m][a].size
            IN  (new # 0 /\ (Abs(new) > Abs(old) \/ ~SameSign(old, new)) /\ new # old)
                    => /\ ~paused
                       /\ markets[m].active
                       /\ markets[m].markPrice # 0
                       /\ now - markets[m].lastPriceUpdate <= params.maxPriceAge
                       /\ breaker.active
                              => now - breaker.triggeredAt >= params.cooldown ]_vars

\* What happens to one trader's positions takes nothing from another: neither
\* position nor free balance; only the protocol's own accounts may pay for it.
BystandersUntouched ==
    [][ \A a \in Traders, b \in Traders \ {InsuranceFund, FundingPool}, m \in Markets :
            (a # b /\ positions'[m][a] # positions[m][a])
                => /\ balances'[b] >= balances[b]
                   /\ \A k \in Markets : positions'[k][b] = positions[k][b] ]_vars

\* A trader keeps the margin mode for as long as any position is open, so that no position
\* is ever judged by the other mode's rules; setMarginMode looks only at the active list.
ModeFixedWhileOpen ==
    [][ \A a \in Traders :
            marginMode'[a] # marginMode[a]
                => \A m \in Markets : positions[m][a].size = 0 ]_vars

IsBelowMaintenance(m, a) == BelowMaintenance(Scratch, m, positions[m][a])

\* New parameters are prospective: while a position and its market stay as they are,
\* nothing the owner sets makes an isolated position liquidatable (or saves it).
ParametersProspective ==
    [][ \A m \in Markets, a \in Traders :
            (positions'[m][a] = positions[m][a] /\ markets'[m] = markets[m])
                => IsBelowMaintenance(m, a)' = IsBelowMaintenance(m, a) ]_vars

\* "Funding payments net to zero across longs and shorts": applying the funding of a
\* position takes from its trader just what the funding pool receives.
FundingNeutral ==
    \A m \in Markets, a \in Traders :
        LET s == ApplyFunding(Scratch, m, a)
        IN  s.ok => Equity(s, a) + Free(s, FundingPool)
                        = Equity(Scratch, a) + Free(Scratch, FundingPool)

\* "In isolated mode: must keep margin >= maintenance requirement": taking margin out
\* leaves no position that can be liquidated as it stands.
RemovalKeepsMaintenance ==
    [][ \A m \in Markets, a \in Traders :
            (/\ marginMode[a] = "ISOLATED"
             /\ positions'[m][a].size = positions[m][a].size
             /\ positions'[m][a].margin < positions[m][a].margin)
                => ~IsBelowMaintenance(m, a)' ]_vars
=============================================================================
