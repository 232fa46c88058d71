--------------------------- MODULE OrderSettlement ---------------------------
(***************************************************************************)
(* src/contracts/src/OrderSettlement.sol over the engine and the vault.     *)
(* The matching engine brings pairs of signed orders; the operator commits   *)
(* them first, which fixes the fees and the delay they settle under, and     *)
(* then settles them: both fees through the vault, both positions through    *)
(* PerpEngine, all in one transaction, and a batch of trades in one too.     *)
(*                                                                         *)
(* A settlement continues the scratch states of PerpEngine with what the     *)
(* settlement itself keeps.  An order stands for its signature and digest.   *)
(***************************************************************************)
EXTENDS PerpEngine

CONSTANTS
    Orders,         \* the orders traders signed
    CommitBatches,  \* the sets of orders committed in one call
    ExecutionSizes,
    MaxTrades,      \* the longest batch
    Fees,           \* what the owner sets: pairs of fees
    Delays,         \* pairs of a shortest and a longest delay
    SpreadTiers,    \* triples of extra fees
    MaxFeeBps,      \* 1000: the highest fee setFees accepts
    LongestDelay,   \* 3600: the highest maxSettlementDelay
    InitialSettings, InitialMaxDelay

\* What the setters leave the settings at; a snapshot is one of these.
Settings == [makerFeeBps : 0..MaxFeeBps, takerFeeBps : 0..MaxFeeBps,
             minSettlementDelay : 0..LongestDelay, dynamicSpreadEnabled : BOOLEAN,
             spreadTiers : [1..3 -> Nat]]

ASSUME OrdersAssumption ==
    /\ Orders \subseteq [trader : Accounts, market : Markets, isLong : BOOLEAN, size : Nat,
                         price : Nat, nonce : Nat, expiry : Nat]
    /\ CommitBatches \subseteq SUBSET Orders
    /\ ExecutionSizes \subseteq Nat
    /\ MaxTrades \in Nat
    /\ {MaxFeeBps, LongestDelay} \subseteq Nat
    /\ \A d \in Delays : d.min \in Nat /\ d.max \in Nat
    /\ \A f \in Fees : f.maker \in Nat /\ f.taker \in Nat
    /\ SpreadTiers \subseteq [1..3 -> Nat]
    /\ InitialSettings \in Settings
    /\ InitialMaxDelay \in InitialSettings.minSettlementDelay..LongestDelay

VARIABLES
    settlementPaused,
    settings,           \* the parameters that a commit takes a snapshot of
    maxSettlementDelay,
    commits,            \* orderCommitTime and orderSnapshots of the committed orders
    usedNonces,         \* pairs <<trader, nonce>>
    filled              \* history: how much of each order has been executed

settlementVars ==
    <<settlementPaused, settings, maxSettlementDelay, commits, usedNonces, filled>>
engineVars ==
    <<now, paused, ledgerVars, markets, bookVars, marginMode, tierHistory, riskVars, params>>

SettlementInit ==
    /\ Init
    /\ settlementPaused = FALSE
    /\ settings = InitialSettings
    /\ maxSettlementDelay = InitialMaxDelay
    /\ commits = <<>>
    /\ usedNonces = {}
    /\ filled = [o \in Orders |-> 0]

Committed(o) == o \in DOMAIN commits

-----------------------------------------------------------------------------
(* Committing *)

\* Faulty form of Fixed: committing again takes a new snapshot.
FixedAgain(os) ==
    [o \in DOMAIN commits \union os |->
        IF o \in os THEN [time |-> now, terms |-> settings] ELSE commits[o]]

\* The first commit of an order fixes its time and its terms; later ones do nothing.
Fixed(os) ==
    [o \in DOMAIN commits \union os |->
        IF Committed(o) THEN commits[o] ELSE [time |-> now, terms |-> settings]]

\* Possible while paused, like commitOrderBatch.
CommitOrder(o) ==
    /\ Counted
    /\ commits' = Fixed({o})
    /\ UNCHANGED <<engineVars, settlementPaused, settings, maxSettlementDelay, usedNonces,
                   filled>>

CommitOrderBatch(os) ==
    /\ Counted
    /\ commits' = Fixed(os)
    /\ UNCHANGED <<engineVars, settlementPaused, settings, maxSettlementDelay, usedNonces,
                   filled>>

-----------------------------------------------------------------------------
(* The terms of a trade *)

BothCommitted(trade) == Committed(trade.maker) /\ Committed(trade.taker)

\* Faulty form of TermsOf: the settings of the moment.
CurrentTerms(trade, o) == settings

\* The snapshot of each order, or the current settings if either was not committed.
TermsOf(trade, o) == IF BothCommitted(trade) THEN commits[o].terms ELSE settings

\* The delay is that of the order committed last, counted from its commit.
DelayOver(trade) ==
    LET maker == commits[trade.maker]
        taker == commits[trade.taker]
        last == IF maker.time > taker.time THEN maker ELSE taker
    IN  IF BothCommitted(trade)
        THEN now >= last.time + last.terms.minSettlementDelay
        ELSE settings.minSettlementDelay = 0

\* _calculateDynamicSpreadWithParams: what the side pays that adds to the skew.
DynamicSpread(s, m, isLong, terms) ==
    LET long == s.markets[m].openInterestLong
        short == s.markets[m].openInterestShort
        dominant == IF long > short THEN long ELSE short
        skew == (dominant * BPS) \div (long + short)
    IN  IF ~terms.dynamicSpreadEnabled \/ long + short = 0 \/ isLong # (long >= short)
        THEN 0
        ELSE IF skew * 10 >= 7 * BPS THEN terms.spreadTiers[3]
        ELSE IF skew * 10 >= 5 * BPS THEN terms.spreadTiers[2]
        ELSE IF skew * 10 >= 3 * BPS THEN terms.spreadTiers[1]
        ELSE 0

TradeNotional(trade) == Notional(trade.price, trade.size)

MakerFee(trade) ==
    (TradeNotional(trade) * TermsOf(trade, trade.maker).makerFeeBps) \div BPS

TakerFee(s, trade) ==
    LET terms == TermsOf(trade, trade.taker)
        rate == terms.takerFeeBps
                    + DynamicSpread(s, trade.taker.market, trade.taker.isLong, terms)
    IN  (TradeNotional(trade) * rate) \div BPS

-----------------------------------------------------------------------------
(* Settling *)

\* Within the limit an order was signed with: a buyer pays no more, a seller gets no less.
WithinLimit(o, price) == IF o.isLong THEN price <= o.price ELSE price >= o.price

NonceOf(o) == <<o.trader, o.nonce>>

\* Everything _settleTrade checks, given the nonces used so far.
TradeValid(used, trade) ==
    /\ trade.maker.trader # trade.taker.trader
    /\ trade.maker.market = trade.taker.market
    /\ trade.maker.isLong # trade.taker.isLong
    /\ trade.size # 0
    /\ trade.price # 0
    /\ \A o \in {trade.maker, trade.taker} :
           /\ o.expiry >= now
           /\ NonceOf(o) \notin used
           /\ WithinLimit(o, trade.price)
           /\ trade.size <= o.size
    /\ DelayOver(trade)

\* Faulty form of NoncesOf: the maker's order can be used again.
TakerNonce(trade) == {NonceOf(trade.taker)}

NoncesOf(trade) == {NonceOf(trade.maker), NonceOf(trade.taker)}

\* Faulty form of Delta: both orders taken for buys.
UnsignedDelta(o, size) == size

Delta(o, size) == IF o.isLong THEN size ELSE -size

\* _settleTrade: fees of maker and taker, then their positions, in this order.
Settled(t, trade) ==
    LET maker == trade.maker
        taker == trade.taker
        checked == Require(t.s, TradeValid(t.used, trade))
        charged == PayIfAny(PayIfAny(checked, maker.trader, FeeRecipient, MakerFee(trade)),
                            taker.trader, FeeRecipient, TakerFee(t.s, trade))
        made == Opened(charged, maker.market, maker.trader, Delta(maker, trade.size),
                       trade.price)
        taken == Opened(made, taker.market, taker.trader, Delta(taker, trade.size),
                        trade.price)
    IN  [s |-> taken,
         used |-> t.used \union NoncesOf(trade),
         filled |-> [t.filled EXCEPT ![maker] = @ + trade.size, ![taker] = @ + trade.size]]

\* The trades of a batch one after the other, each on what the ones before it left:
\* entry i is the state after the first i trades.
SettledAlong(trades) ==
    LET after[i \in 0..Len(trades)] ==
            IF i = 0 THEN [s |-> Scratch, used |-> usedNonces, filled |-> filled]
            ELSE LET t == after[i - 1]
                 IN  IF t.s.ok THEN Settled(t, trades[i]) ELSE t
    IN  after

SettledAll(trades) == SettledAlong(trades)[Len(trades)]

CommitSettlement(t) ==
    /\ Commit(t.s)
    /\ usedNonces' = t.used
    /\ filled' = t.filled
    /\ UNCHANGED <<now, paused, marginMode, tierHistory, params, settlementPaused, settings,
                   maxSettlementDelay, commits>>

SettleOne(trade) ==
    /\ Counted
    /\ ~settlementPaused
    /\ TradeValid(usedNonces, trade)
    /\ CommitSettlement(SettledAll(<<trade>>))

\* All the trades or none.
SettleBatch(trades) ==
    /\ Counted
    /\ ~settlementPaused
    /\ trades # <<>>
    /\ \A i \in 1..Len(trades) : TradeValid(usedNonces, trades[i])   \* as nonces only grow
    /\ CommitSettlement(SettledAll(trades))

-----------------------------------------------------------------------------
(* The owner's setters *)

SetSettings(new) ==
    /\ Counted
    /\ settings' = new
    /\ UNCHANGED <<engineVars, settlementPaused, commits, usedNonces, filled>>

SetFees(fees) ==
    /\ fees.maker <= MaxFeeBps /\ fees.taker <= MaxFeeBps
    /\ SetSettings([settings EXCEPT !.makerFeeBps = fees.maker, !.takerFeeBps = fees.taker])
    /\ UNCHANGED maxSettlementDelay

SetSettlementDelay(delay) ==
    /\ delay.max <= LongestDelay
    /\ delay.max >= delay.min
    /\ SetSettings([settings EXCEPT !.minSettlementDelay = delay.min])
    /\ maxSettlementDelay' = delay.max

SetDynamicSpreadEnabled(enabled) ==
    /\ SetSettings([settings EXCEPT !.dynamicSpreadEnabled = enabled])
    /\ UNCHANGED maxSettlementDelay

SetDynamicSpreadTiers(tiers) ==
    /\ tiers[1] <= tiers[2] /\ tiers[2] <= tiers[3]
    /\ SetSettings([settings EXCEPT !.spreadTiers = tiers])
    /\ UNCHANGED maxSettlementDelay

SetSettlementPaused(status) ==
    /\ Counted
    /\ settlementPaused' = status
    /\ UNCHANGED <<engineVars, settings, maxSettlementDelay, commits, usedNonces, filled>>

-----------------------------------------------------------------------------
Trades == [maker : Orders, taker : Orders, price : Prices, size : ExecutionSizes]

\* The trades worth offering to the contract: all that it does not refuse at sight.
Matches == {trade \in Trades : trade.maker.isLong # trade.taker.isLong}

SettlementStep ==
    \/ \E o \in Orders : CommitOrder(o)
    \/ \E os \in CommitBatches : CommitOrderBatch(os)
    \/ \E trade \in Matches : SettleOne(trade)
    \/ \E n \in 2..MaxTrades : \E trades \in [1..n -> Matches] : SettleBatch(trades)

SettingStep ==
    \/ \E fees \in Fees : SetFees(fees)
    \/ \E delay \in Delays : SetSettlementDelay(delay)
    \/ \E enabled \in BOOLEAN : SetDynamicSpreadEnabled(enabled)
    \/ \E tiers \in SpreadTiers : SetDynamicSpreadTiers(tiers)
    \/ \E status \in BOOLEAN : SetSettlementPaused(status)

\* Time, prices and funding go on below.
EngineStep == (Tick \/ \E m \in Markets : MarketStep(m)) /\ UNCHANGED settlementVars

SettlementNext == SettlementStep \/ SettingStep \/ EngineStep

SettlementSpec == SettlementInit /\ [][SettlementNext]_<<vars, settlementVars>>

-----------------------------------------------------------------------------
(* Properties *)

SettlementTypeOK ==
    /\ TypeOK
    /\ settlementPaused \in BOOLEAN
    /\ settings \in Settings
    /\ maxSettlementDelay \in settings.minSettlementDelay..LongestDelay
    /\ DOMAIN commits \subseteq Orders
    /\ \A o \in DOMAIN commits : commits[o] \in [time : 0..now, terms : Settings]
    /\ usedNonces \subseteq {NonceOf(o) : o \in Orders}
    /\ filled \in [Orders -> Nat]

\* No signature is worth more than the size it was given for, whatever batches it is
\* settled in, as maker or as taker, and whoever it is matched with.
NoOverfill == \A o \in Orders : filled[o] <= o.size

SignedSizes(m) == [a \in Accounts |-> positions[m][a].size]

\* As long as positions change by settlement alone, longs and shorts of a market cancel
\* out: no trade leaves one of its two legs behind.
LegsBalance == \A m \in Markets : SumTo(SignedSizes(m), N) = 0

CommittedTrades == [maker : DOMAIN commits, taker : DOMAIN commits,
                    price : Prices, size : ExecutionSizes]

\* The terms two committed orders would settle under at this moment.
TradeTerms(trade) == <<MakerFee(trade), TakerFee(Scratch, trade), DelayOver(trade)>>

\* Committed orders are out of the owner's reach: no setting, and no commit repeated,
\* changes the fees or the delay they settle under.
CommittedTermsFixed ==
    [][ UNCHANGED <<now, markets>>
            => \A trade \in CommittedTrades :
                   TradeTerms(trade)' = TradeTerms(trade) ]_<<vars, settlementVars>>

\* What an open position is worth to its trader when it is closed at price.
Worth(m, a, price) ==
    positions[m][a].margin + Pnl(positions[m][a].entryPrice, price, positions[m][a].size)

MarketWorth(price) ==
    [m \in Markets |-> SumTo([a \in Accounts |-> Worth(m, a, price)], N)]

\* What the pool holds beyond what all positions are worth together.
Surplus(price) == balances[Engine] + collateralBalances[Engine]
                      - SumTo(MarketWorth(price), MarketCount)

\* A trade rounds down the average of one long position at most, by less than a unit of
\* price for each unit of its size.
Rounding == MaxTrades * SumTo([m \in Markets |-> Config[m].maxPositionSize], MarketCount)

NobodyOwes(price) == \A m \in Markets, a \in Accounts : Worth(m, a, price) >= 0

NoFundingDue ==
    \A m \in Markets, a \in Accounts :
        positions[m][a].size # 0
            => positions[m][a].lastCumulativeFunding = markets[m].cumulativeFunding

\* "No phantom PnL": as longs and shorts are settled in pairs, the pool pays a winner (its
\* own margin and profit, _settlePnl) out of what the losers left, and never out of what
\* backs the positions of others, up to the rounding of averages.  It can only fall behind
\* once a position has lost more than its margin, or is owed funding.
PoolBacksPositions ==
    [][ \A price \in Prices :
            ((\A p \in Prices : NobodyOwes(p)) /\ NoFundingDue)
                => Surplus(price)' + Rounding >= Surplus(price) ]_<<vars, settlementVars>>
=============================================================================
