# A formal model of the Sur protocol

Sur is a perpetual-futures exchange with off-chain matching and on-chain custody,
margin and settlement, the services that keep it going, a web client and a trading bot.
This directory holds TLA+ modules translated from the sources, TLC configurations that check them on small instances, and proofs of
their main theorems for TLAPS. `PROJECT.json` gives, for every definition, the lines
of code it stands for.

Contents: [the system](#the-system) · [modules](#the-modules) ·
[runs](#what-the-runs-check) · [findings](#where-the-code-and-its-documents-differ) ·
[proofs](#what-is-proved) · [what is left out](#what-is-not-modelled) · [plan](#plan).

## The system

```
 traders, agents ── WebSocket/HTTP ──> API: matching engine ──> settlement pipeline
                                                                      │ settleBatch
 oracle keeper ── prices ──> OracleRouter ──┐                         v
 funding bot ── applyFundingRate ───────────┤                  OrderSettlement
 keeper ── liquidate ──> Liquidator ────────┼──────────> PerpEngine <─┘
                         AutoDeleveraging ──┘                 │ internalTransfer
                                                              v
 CollateralManager, InsuranceFund, TradingVault, A2ADarkPool ──> PerpVault (the USDC)
                      SurTimelock owns every contract; its guardian pauses them
```

A contract call is atomic: it runs whole, together with every call it makes, or it
reverts and changes nothing. Concurrency is the interleaving of transactions from
many senders, and of time. The off-chain services run on one thread each: a handler runs to its
next `await` and is then interleaved with every other; they see the chain late or not at all,
and die and start again.

| Component | State | Operations | Hard behaviour | What makes it correct |
|---|---|---|---|---|
| `PerpVault.sol` | deposits and collateral credits per account, both totals, roles, limits, pause, the USDC held | deposit, withdraw, internal and batch transfers, credit and debit of collateral, two-step ownership, limits, pause | a transfer larger than the deposits spills into credits; payer and payee may be one; a batch is all or nothing; the cap may drop below the deposits | totals are the sums; USDC covers every withdrawable balance; credits never become USDC; a pause freezes everything |
| `PerpEngine.sol` | markets, positions, margin modes, lists of active markets, funding index, open interest, tier versions, circuit breaker and its windows, caps | open, increase, reduce, flip, close, add and remove margin, liquidate a position or an account, funding, prices, setters | long chains of transfers one of which may fail; totals and lists kept step by step; stale prices; parameters changed under open positions; partial liquidation | open interest and lists agree with the positions; exposure grows only when it may; nobody pays for another's trade; new tiers are prospective |
| `OrderSettlement.sol` | commit times and term snapshots, used nonces, fees, delays, spread | commit, settle one, settle a batch, setters, pause | the same order in several batches and roles; terms changed between commit and settlement; two engine calls per trade | no signature is worth more than its size; both legs or none; committed terms are fixed |
| `SurTimelock.sol` | queue, delay, owner, guardian, registered targets | queue, execute, cancel, self-administration, setup, emergency pause | delay, owner and guardian change while transactions wait; an execution window with two ends | changes are announced; nothing executes twice; the guardian only pauses |
| `Liquidator.sol`, `InsuranceFund.sol`, `AutoDeleveraging.sol` | counters, bad debt, keeper-reward cap, cooldown | forwarding, swallowing failures in batches, rewards, forced reductions | partial failure; a batch that does nothing still counts | debt is recorded; caps hold per day |
| `CollateralManager.sol` | deposits of yield tokens with haircut snapshots, prices | deposit, withdraw, liquidate | credits may be spent before the collateral leaves | credits outstanding match the collateral held |
| `OracleRouter.sol` | last prices, sources, breaker | push, read with fallback and deviation, breaker administration | stale and deviating sources; a lasting move keeps tripping the breaker | the engine sees only fresh, confirmed prices |
| `TradingVault.sol` | shares, high-water marks, lock-ups, fees | deposit, withdraw, trade, fees, pause | share price moves between calls; a check that pauses and then reverts | shares redeem what they are worth |
| `A2ADarkPool.sol` | intents, responses, reputation | post, respond, cancel, accept and settle | acceptance races expiry and cancellation | at most one response settles per intent |
| Matching engine (`engine/src`, `api/src/engine`) | price levels in time order with running totals, an index of the orders, trades | submit, match, cancel | time in force, hidden orders, sweeps over levels, cancellation from the middle of a queue; two implementations | price-time priority; totals and index agree with the orders; the book is never crossed; the port does what the original does |
| Settlement pipeline (`api/src/settlement`) | pending trades, batches under way | queue, flush, submit, wait, requeue | flushes overlap; receipts time out although the transaction lands; a bad trade takes its batch along | a matched trade settles at most once and leaves in the end |
| WebSocket gateway (`api/src/ws`) | connections, what each has proven, subscriptions, a rate window | authenticate, subscribe, submit, cancel | verification is awaited; messages go out on some outcomes only | orders are for proven accounts; subscribers see the book |
| Points (`api/src/points`) | records of traders, history, referrals, in memory or in a database | award, refer, credit the referrer | read, change and write around awaits, several at once | the history explains the points; no trade counts twice |
| Liquidation keeper (`keeper/src`) | a book of positions rebuilt from events | sync, watch, verify, scan, liquidate | events replayed by kind; the chain is read late; time-outs | a sick position in the book is dealt with in the end |
| Oracle keeper, funding bot | loops with a transaction under way | fetch, simulate, push; look, call | lost and late transactions, reverting batches, other callers | prices arrive; funding catches up |
| Trading bot (`trading-bot`) | positions, cooldowns, two circuit breakers, a regime view, a database | candles, tickers, entries, exits, live or on paper | checks before an `await` and entries after it; closes that overlap; restarts | pauses and limits hold; what is switched off stays off |
| Web client (`web`) | a paper account kept in the browser; a feed with queued messages | orders, fills, groups, reload; connect, retry, switch market, sign | effects on every price; sockets replaced while messages wait | money is conserved; pairs leave together; messages keep their order |
| Nonce manager, indexer, database, SDK, risk and agent services, backtester, scripts | caches, metrics | adapters of the above | – | – |

## The modules

| Module | Stands for | Built on |
|---|---|---|
| `Sums` | the sum of a function over `1..n`, by a recursive function | |
| `VaultLedger` | the vault's two mappings and the one algorithm that moves value | `Sums` |
| `Custody` | **abstract**: a pool of USDC, claims on it, credits that are no claims | `Sums` |
| `PerpVault` | `PerpVault.sol`, whole | `VaultLedger`, implements `Custody` |
| `EngineMath` | the engine's arithmetic and bracket margins | `Sums` |
| `PerpEngine` | `PerpEngine.sol` over the vault's books | `VaultLedger`, `EngineMath` |
| `OrderSettlement` | `OrderSettlement.sol` over the engine | `PerpEngine` |
| `SurTimelock` | `SurTimelock.sol` and the pause of what it owns | |
| `PriceLevels` | the order book of both matching engines | |
| `AbstractBook` | **abstract**: price-time priority, stated without levels, queues or loops | |
| `MatchingEngine` | `engine/src/matching.rs` | `PriceLevels` |
| `ApiMatchingEngine` | `api/src/engine/matching.ts` | `PriceLevels` |
| `TwinEngines` | both engines fed with the same orders | the two engines, each implements `AbstractBook` |
| `SettlementPipeline` | `api/src/settlement/pipeline.ts` and the chain it sends to | |
| `PointsEngine` | `api/src/points/engine.ts` | |
| `WsGateway` | `api/src/ws/server.ts` | `ApiMatchingEngine` |
| `ApiServer` | `api/src/index.ts`: pipeline with points, gateway | the three before |
| `LiquidationKeeper` | `keeper/src`: `tracker.ts`, `scanner.ts`, `index.ts` | |
| `OracleKeeper` | `oracle-keeper/src/index.ts` and the push path of `OracleRouter.sol` | |
| `FundingBot` | `funding-bot/src/index.ts` and `applyFundingRate` | |
| `Keepers` | the three side by side, with their fairness | the three before |
| `CircuitBreaker`, `PaperExecutor`, `MarketBrain` | what the methods of these classes of the trading bot compute, as operators on records | |
| `BotDesk` | what both engines of the bot share: market, executor, database | the three before |
| `ScalpEngine`, `SwingEngine` | `engines/momentum-scalp.ts`, `engines/swing-engine.ts` | `BotDesk` |
| `TradingBot` | `trading-bot/index.ts`: one engine, one executor | the two engines |
| `PaperTrading` | the paper account of `web/lib/trading-zustand.ts`, as operators on a record | |
| `TradingFeed` | the socket of `TradingProvider.tsx` and signing in `OrderPanel.tsx` | |
| `WebClient` | the trading page | the two before |
| `SumTheorems` | lemmas on sums, folds and lists | `Sums` |
| `PerpVaultProofs` | the theorems of the vault | `PerpVault`, `SumTheorems` |
| `EngineProofs` | the theorems of the engine and of settlement over it | `OrderSettlement`, `SumTheorems` |
| `TimelockRouterProofs` | the theorems of the timelock and of the router's price breaker, the two contracts that bound what may change in the others | `SurTimelock`, `OracleKeeper`, `SumTheorems` |
| `TwinEnginesProofs` | the theorems of both matching engines, their refinement of `AbstractBook` among them | `TwinEngines`, `PriceLevels`, `SumTheorems` |
| `ApiServerProofs` | the theorems of the API server | `ApiServer`, `SumTheorems` |
| `TradingBotProofs` | the theorems of the trading bot | `TradingBot`, `SumTheorems` |
| `WebClientProofs` | the theorems of the feed and the paper account | `WebClient`, `SumTheorems` |
| `MC…` | values of the constants for TLC (`PerpVault` and `SurTimelock` need none) | |

**An action is a transaction.** Its guard is the conjunction of the `require`s,
`revert`s and modifiers on the way; where the code would revert the action is
disabled. The state after a revert is the state before, so a reverted transaction
needs no step.

**`PerpVault`.** The variables are the contract's storage, plus `wallet` and `held`,
the token's view of the accounts and of the vault. The running totals are variables
like any other, as the contract cannot sum a mapping; that they are sums is an
invariant. The token may keep a fee of what it transfers in (`TransferFees`), as the
contract measures what arrived. `Donate` is a transfer to the vault's address that
runs none of its code. An account may have any role at once (owner, operator,
trader), so the instance needs few accounts. A batch (`BatchInternalTransfer`) folds
`Transferred` over the legs and is enabled only when each leg is allowed on what the
legs before it left.

**`Custody`** has five actions – pay in, pay out, reallocate, grant, gift – and knows
neither limits nor roles, totals or transfer algorithm. `PerpVault` implements it under
`pool <- held`, `claims <- balances`, `credits <- collateralBalances`. It is what a
depositor needs to know of the vault.

**`PerpEngine`.** The engine holds no USDC: it moves balances in the vault between a
trader and its own account. A handler makes several transfers in the middle of its
computation, each of which may revert; it is written as a chain of *scratch states*:
`Scratch` is the state at the start, `Pay`, `SetPosition`, `UpdateOpenInterest`, …
take one and give the next, `s.ok` turns false where the code reverts, and `Commit(s)`
is the step if nothing did. So every transfer, early return and order of effects is in
the model, and a caller such as the settlement can continue the chain. Markets keep
their static configuration in the constant `Config`. The parameters the owner may change
are the record `params`; the setters are `SetParam`, `SetMarketParam`,
`SetCircuitBreakerParams`, with the ranges the code accepts in their guards.
`WithdrawFree` is the vault's withdrawal, because free balance counts as equity and
may leave between any two calls.

The engine calls the vault as an operator. Two of the vault's checks are not repeated
below it: the vault's own pause and the operator's limit per transfer, which only
disable steps; no safety property depends on them.

**`OrderSettlement`** extends `PerpEngine` and continues its scratch states: a trade is
both fees and both positions in one chain (`Settled`), a batch the chain of its trades.
An order stands for its EIP-712 digest and signature: to know the order is to have
what its trader signed. `filled` is a history variable: how much was executed of each order.

**`SurTimelock`** keeps the queue as a set of transactions (call and eta, as the hash
covers both), and two histories, `announced` and `executed`, which the properties speak
of. The targets are contracts such as the vault: all that is kept of them is whether
they are paused (`pausedTargets`); the calls modelled are the timelock's own
administration and pause/unpause of a target.

**The matching engines.** `PriceLevels` has the book as a record: for each side a function
from prices to levels (queue, total, visible quantity), and the index from ids to places. The
Rust book and its port differ in one point, `FillsShow` of each engine: a fill in
Rust leaves the visible quantity of the level as it was (`orderbook.rs:318`), in the API it
reduces it (`matching.ts:65`). The matching loop is `Matched`, a recursive function over rounds. The
checks before it and the answers after it differ more, so each engine has a module of its own.
A submission is one action, `Reject`, `Kill` or `Match`, as neither engine gives up control
inside a call. `TwinEngines` runs both on the same calls. In `AbstractBook` an order takes from every
order it reaches what those ahead of it leave over, all at once; it may refuse
a fill-or-kill order at will, and a post-only one when it would trade. Each engine
implements it under `resting <-` what its book holds, `trades <-` the set of its trades.

**The off-chain services** are JavaScript on one thread. An action is what runs between two
`await`s; what a function still has to do stands in a variable while it waits (`flights`,
`calls`, `verifying`, `scan`, `desk.entering`, `desk.flights`), and the answer is an action of its own, with
failure and lost answer as alternatives.

**`SettlementPipeline`, `PointsEngine`, `WsGateway`, `ApiServer`.** A run of `flushBatch` is an
element of `flights` with its batch, its phase (submitting or waiting for a receipt) and its
tries. The chain beside it executes the operator's transactions in order and knows the trades it
has settled; it refuses a batch in which an order's nonce is used or occurs twice, or a trader trades with itself, as
`OrderSettlement` does. An award of points is an element of `calls` that has loaded, is about to save,
or to write history; `durable` says whether records are copied from a database or shared in
memory. The rate limiter has a window for each connection. A snapshot of the book shows the best
`SnapshotDepth` levels of a side that show anything. `WsGateway` instantiates `ApiMatchingEngine` as the book behind the socket. As the gateway hands
the pipeline no trade (finding 3), an instance follows one half of the server, and the pipeline
is fed by any caller of `queueTrade`.

**`LiquidationKeeper`, `OracleKeeper`, `FundingBot`, `Keepers`.** The engine's side is what the
keepers can see of it: sizes, which traders are liquidatable and the log of events; the router's
last prices; when funding was last applied. Transactions may be lost, or land after
their sender stopped waiting, and a liquidation may revert for some positions (the `Liquidator` swallows it) or, when that contract
is paused, for all; others liquidate and apply funding too. In the liquidation keeper the
boot sequence, four subscriptions with a cursor each, the loop and every request to verify a
position are concurrent. An instance follows one of the three keepers.

**The trading bot.** `desk` is the memory of the process, and handlers map desks to desks. Indicators are
numbers the strategies compare with their thresholds (`Reports`, `Setups`, `Signals` are the candidates
of the instance); what the code decides with them – scores, regimes, special events, vetoes,
cooldowns, breakers, memory, exits – is translated. Of the live executor the model keeps what tells it
from the paper one: a position is booked before its order is sent, a close after its
answer, whatever that is.

**The web client.** A handler of the store maps an account to an account. React's effects are
separate steps (`Effects`): they run after the price has changed and before it changes again or
not, and save the account to the browser, from which `Reload` starts anew, or from the initial account if the page takes the saved one for
empty or invalid. The store drops a position whose rest is at most 0.00001 (`Dust`); `dropped` sums the margins that go with such rests. `TradingFeed` keeps
every socket ever opened, because an old one may close after its successor was made.

**Faulty forms.** Next to some definitions stands a *faulty form*, such as
`ShortsPileUp` beside `UpdateOpenInterest`: the same operator with a slip one could make
in that code. No specification uses it. Put in place of the right form it must break a
property named in `PROJECT.json` (`mutants`): this is how the properties are tested.

## What the runs check

Run any of them with `tlc -config <cfg> <module>`. The runs of the contracts, of the matching engines and of the bot check for deadlock
too; the others stop where a bound or the code ends them (a client whose reconnections are used up, a
server that has settled everything, a keeper with nothing to do).

| Run | Question |
|---|---|
| `vault` | Do the books balance and cover what can be withdrawn, does a pause hold, and does the vault implement custody, under every order of calls by two accounts in any role? |
| `engine` | Two scenes: two traders with isolated margin in one market, with trades, flips, partial liquidations, funding, stale prices, breaker and a new tier list; one trader over two markets, both margin modes, account liquidation, withdrawals in between, every setter of the owner. |
| `settlement` | Two traders, five orders that share nonces and expire, single and batch settlement, settings changed on the way. And three traders who open, reduce and turn around positions against one another at two prices. |
| `timelock` | Queue, wait, execute, cancel, while delay, owner and guardian change and a target is paused from both sides. |
| `matching` | Both engines, four orders of every time in force, hidden ones among them, and cancellations. |
| `bot` | Either engine, on paper and live: prices, signals, answers that come late and in any order, stops, pauses, a change of day, a restart. |
| `web` | The paper account under orders, fills, pairs, rests too small to keep, reloads and prices; the feed under sockets that open, fail and close around market switches and signatures. |
| `server` | Trades through overlapping batches, lost answers, late receipts and a restart into points; clients that authenticate, subscribe, order, cancel and leave. |
| `keepers` | Each keeper against a chain that loses transactions, answers late and is used by others. |
| `funding_neutrality`, `margin_removal`, `unsettled_matches` | Three sentences of documents and comments, each refuted by the code (below). |

What the properties mean:

- **vault** – `BooksBalance`: the two totals are the sums of the two mappings, after every
  spill from deposits to credits, self-payment and batch. `Solvent`: the USDC held covers
  all withdrawable balances, with fees of the token and donations. `FrozenWhilePaused`:
  what no step may do. `ImplementsCustody`: the refinement.
- **engine** – `OpenInterestConsistent`: open interest, kept by increments in every
  handler, equals what the positions add up to. `ActiveListsExact`: the swap-and-pop
  list and its index hold exactly the markets with a position; equity and liquidation
  see nothing else. `ExposureGrowsOnlyWhenOpen`: no order of price pushes, breaker trips,
  manual and automatic resets and pauses lets a position grow when it must not.
  `BystandersUntouched`: what changes one trader's position takes nothing from the other.
  `ParametersProspective`: a new tier list makes no open position liquidatable.
  `ModeFixedWhileOpen`: `setMarginMode` looks only at the list, so the mode is safe because
  the list is exact.
- **settlement** – `NoOverfill`: whatever is submitted again, in whatever role or batch, an
  order executes at most its signed size. `LegsBalance`: longs and shorts of a market cancel
  out, no reverted second leg leaves the first. `CommittedTermsFixed`: no setter and no
  repeated commit moves the fees or the delay of committed orders. `PoolBacksPositions`: `_settlePnl` pays a winner out of the engine's
  one pooled balance, which also backs the margins of everybody else. At whatever price one values them, what the pool holds beyond
  the worth of all positions does not fall by a settled trade, for what a winner takes a loser has left; but for the rounding of average
  entries, less than a price unit for each unit of size. Two premises say where this ends: no position has lost more than its margin (then
  nobody has left what a winner is paid), and none has funding due (finding 1 is about funding). Of one trader's leg alone, of `closePosition` or a liquidation, it
  would be false; paying in pairs is what makes the pool whole.
- **timelock** – `NeverTwice`; `ChangesAreAnnounced`: owner, guardian, delay, un-pausing and,
  after setup, the list of targets change only by a transaction announced at least `MinDelay`
  before; `GuardianOnlyPauses`.
- **matching** – `RustImplementsBook`, `ApiImplementsBook`: each engine gives price-time
  priority, trades at the maker's price and within every limit, fills nothing twice, and
  does with the rest of an order what its time in force says. Each is held to its own rules of acceptance
  (the API has no largest quantity). `LevelsExact`: totals, index and,
  for the API, displayed sizes agree with the orders. `TwinsAgree`: from the same
  books both engines make the same trades in the same order and leave the same books, but for orders above the
  largest size and fill-or-kill orders over something the API does not look at. Without any one of these
  three exceptions TLC refutes it. `AnswersTrue`: what a trader is told
  about an order is so.
- **bot** – `EngineLimits`: entries are decided at several places, one of them after an `await`, and
  no strategy exceeds its number of positions. `PausesHold`: the breaker's verdict holds at
  the moment of entry, and in a pause of the regime what a candle's handler decides itself is structural (the ride, decided after a wait, is not asked: see below). `DisabledForGood`: a strategy the bot switched off for its losses stays off,
  over restarts. `SwingGuarded`: the swing engine's own position and the executor's book agree on
  paper, and live the engine never watches a position that is off the book.
- **web** – `PaperFundsAccounted`: wallet, balance, margins and reservations add up to the initial money, the
  results and the fees; what is lost is the margins of dropped rests and no more. A reset, and a reload that discards the saved account, begin another account.
  `ReloadKeepsPositions`: a reload discards no account that has free money or a position: none is ever saved with an entry price of zero.
  `GroupsLeaveTogether`: both legs of a pair leave in one step.
  `SentInOrder`: whatever happens to the sockets, messages leave in order and once.
- **server** – `TradesAccounted`: a queued trade is in exactly one place: pending, under way in one batch, or ended. `NeverOvercounted`: nobody's record counts a trade the chain did
  not execute, or one twice. `TradesLeave`: every queued trade ends. `PointsExplained`:
  in memory, history explains points however awards interleave. `OrdersProven`: an accepted
  order is for an account its connection has proven. `SubscribersSeeTheBook`: what a subscriber was
  sent last is the displayed top of the book.
- **keepers** – `LiquidatedInTheEnd`: a sick position worth its reward that is in the keeper's book is
  liquidated, recovers or leaves the book. `MarksMoveInSteps`: no push, however late, moves the price by more
  than the breaker allows. `PricesArrive`: when no source is missing, deviates or has jumped, the
  prices get through. `FundingCatchesUp`: the bot gets to every market that stays due.

**Bounds, and why they are enough.** All are constants, and named.

- `PerpVault`: two accounts, two units each, batches of two legs, two credits in circulation.
  Two accounts give payer ≠ payee and payer = payee; two units let a payment spill (one
  from deposits, one from credits); two legs let a leg depend on an earlier one. Limits take
  "none" and a value that binds. The proofs lift all of these bounds.
- `PerpEngine`: `MaxCalls` bounds the calls of traders, keepers and owner (4 in the first scene, 3 in the second; prices,
  funding, markets and, when it changes nothing but the mode, `setMarginMode` are not
  counted), `MaxTime` the clock. Four calls are enough for open – flip – liquidate – trade
  again. Sizes 2 and −4 open, increase (to 4, the largest position), flip (2 to −2),
  close by trade, and leave −4, of which liquidation takes a quarter. Prices 3 and 4 with margins of
  5/10 and 4/10 make positions liquidatable and leave rewards that round; `BPS = 10` keeps
  every division of the code a rounding one. Two markets are the least for the list, where
  removing the first moves the second. In the second scene each setter is called at most once, the engine is
  not paused, and the second market, added later, charges no funding.
- `OrderSettlement`: five orders, two of them under one nonce and one that expires first; batches of
  two trades; four calls, of which committing takes one or two. In the other scene three traders, as a winner and a loser alone are always
  settled with one another, with orders on both sides of sizes 1 and 2 that the owner's first call lets settle without a commit; then
  four trades one by one, enough to open, to average, to reduce and to turn around. Prices 30 and 37, with margins of 50/100, are far enough apart for profits and near
  enough for nobody to lose more than the margin: the premises are reached, and so are averages that are rounded.
- `SurTimelock`: `MaxTime = 4` with delays of 1 and 2 and a grace period of 1 lets a
  transaction become ripe, expire, and be executed under another delay than it was queued
  under; `MaxTransactions = 2` lets one transaction change what the other needs.
- `TwinEngines`: `MaxOrders = 4` with two prices and two sizes gives a queue of two, a sweep over
  two orders or two levels, and an order that takes the rest; cancellations come on top. `Depth`, the 100
  levels the API's fill-or-kill check looks at, is 1 here, so that a second price is one it does not look at; one kind of order is above the
  largest size, which only the API accepts.
- `TradingBot`: three positions over a behaviour and two at once, one close under way for the scalp engine and two for the swing engine, days of two units, thresholds of the
  breakers at their least: one stop pauses a strategy, one lost trade switches it off, two stops on one side pause the regime. A strategy holds one position; one trend ride
  closed within two units of time is kept, a second keeps the next out. One restart, but none of the scalp engine live.
  `TrendAloneNeverSwings`, an assumption TLC evaluates, shows over all combinations of what the swing score tells
  apart that it stays below the confidence an entry without an event needs.
- `WebClient`: four acts of the user, two prices and two markets: open, reverse, fill a pair, reload. Sizes from 1 to 4 with `Dust = 1`
  leave rests that are kept and rests that are not; one pair has a leg for each price, in another one price triggers both. One order of size 12 reserves all the money there is.
  Four sockets and five messages, three per window, two reconnections.
- `ApiServer`: two trades of the same two traders that share no order, batches of two, two tries of each call, one requeue, two
  transactions, one restart, two days; four orders of two accounts, one of them badly formed, on up to two levels of a side of which a snapshot shows one; three clients, two connections at once,
  four messages, two in a window, and one window that ends. Two trades of one order in a batch, which the chain refuses, are left to the theorems.
- `Keepers`: two traders with sizes up to 2, three events, requests of two events, one failure or revert (the cap of a batch and the least reward,
  two and one, never bind for two traders); prices of which
  one jumps, two changes of the sources, one lost push; five intervals, longer than the three a call can charge.

**Fairness.** The contracts and the client schedule nothing themselves, and of the bot only safety is stated: their runs have none. Where liveness is checked it rests on
weak fairness of steps the code takes by itself.

- `server`: the interval timer fires, and a call to the node ends: viem's calls have time limits, and
  `retryWithBackoff` a number of tries. New trades and blocks are not assumed to come.
- `keepers`: the loops never stop – each wait has a time limit, each failure is caught, and a process
  that died is started again (`railway.toml`, `ON_FAILURE`, up to ten times; an instance fails once). The chain executes what it does not
  lose; subscriptions deliver and reads are answered.

## Where the code and its documents differ

1. **Funding is not neutral** (`FundingNeutral`). `_applyFunding` takes a payment
   out of the position's margin and also pays it from the trader's free balance, while the USDC
   behind the margin stays with the engine (`PerpEngine.sol:590-591`); a receipt is added
   twice too (599-600). The trader's equity moves by twice what the pool sees.
   `docs/AUDIT_SCOPE.md:26` promises that payments net to zero.
2. **Margin can be removed below maintenance** (`RemovalKeepsMaintenance`). `removeMargin`
   asks for the flat rate of the market (`PerpEngine.sol:1466`), liquidation for the tiers the
   position was opened under (694-696). Line 1440 says the margin must stay above maintenance.
3. **Matches are never settled** (`MatchedTradesQueued`). `handleSubmitOrder` queues a trade "for on-chain
   settlement" (`server.ts:409`) if `findOrderById` finds the maker's order; that function returns `undefined`
   for every id (496-503), so no trade the API's engine makes reaches the pipeline.

Seen while modelling, without a run of their own:

- `maxSettlementDelay` is set and never read (`OrderSettlement.sol:355-365`), though line 180 gives it as the
  maximum age of an order.
- For a fill-or-kill order the API counts only what the book shows (`matching.ts:338`), the Rust engine everything
  within reach (`matching.rs:442-473`): against a visible and a hidden order one kills what the other fills. The API calls an
  immediate order that traded in part `partiallyFilled`, the Rust engine `cancelled`, and has no largest
  quantity; `TwinsAgree` tells how far the port goes.
- A live close stays in the book until it is answered, so several may be sent for one position, and all of them are booked; an entry that failed
  leaves a position that does not exist; a restart leaves live positions nobody tracks.
- In the paper account of the web client, a reduction that leaves at most 0.00001 drops the position with the margin of that rest (`trading-zustand.ts:352`),
  which comes back nowhere: `PaperFundsAccounted` counts it apart (`dropped`).
- A reload can wipe a paper account. The page throws away a save without free money and without positions (`TradingProvider.tsx:265-272`)
  and does not ask for orders: an account whose money is all reserved in orders begins anew, its orders gone. `paperLoad`, which is then not
  called, takes such an account for sound (`trading-zustand.ts:579`).
- The regime's pause does not stop the trend ride. `momentum-scalp.ts:849` and `853` say that only the structure-based strategies
  (`BREAKOUT_RETEST`, `SNIPER`) operate in it; `evaluateV4` (899-936), which enters `TREND_RIDER`, never asks `regimePauseUntil`.
- `live-executor.ts:17-20` promises an accurate internal state "even if API responses are delayed". A close that the exchange refuses is logged, and
  the position is taken off the book all the same (95-100): the account keeps what the bot forgets. And with nothing refused, a position is
  booked before its entry is sent (32-50), so that a close may overtake the entry and find nothing to reduce.
- `circuit-breaker.ts:11` says "stop all trading until next day"; breakout retest, sniper, grid and reversal never ask the breaker.
- The bot's macro filter needs 1200 candles of five minutes (`config.ts:450`) and at most 500 are kept: it never runs. The swing score reaches
  62 where an entry without an event needs 65.
- A position's partial liquidation, and a position closed and opened again within one request of the boot synchronisation,
  make the keeper forget a position that is open (`tracker.ts:85`, `240`), for good if no later event or check restores it.
  `index.ts:212` relies on a periodic re-sync that does not exist, and `scanner.ts:13` names a retry that is not there.
- In the router, a lasting move beyond the allowed change freezes the market (each push trips the breaker again), one bad feed
  reverts the batch of all, and no contract asks `isOracleHealthy`.
- In the pipeline, a batch whose receipt says reverted is not put back while one that throws is; a late receipt leads to a
  resubmission that is refused, and its executed trades get no points. Over the database, concurrent awards overwrite one another.
- In the web client the paper orders of every market are filled at the price of the selected one; two orders signed
  at once carry the same nonce; the late close of an old socket leaves the new one unused; a
  socket that fails before opening is not retried.

## What is proved

`tlapm M.tla` for each module `M` of theorems: `SumTheorems`, `PerpVaultProofs`, `EngineProofs`,
`TimelockRouterProofs`, `TwinEnginesProofs`, `ApiServerProofs`, `TradingBotProofs`, `WebClientProofs`. The theorems hold for
every value of the constants that satisfies the named assumptions of the modules, which TLC evaluates in each run: any number of accounts,
markets, tiers, orders, positions and sockets, any amounts and prices, batches of any length, any delays, a queue of any length.

| Assumption | Asks |
|---|---|
| `AccountsAssumption`, `LimitsAssumption`, `ScalesAssumption`, `RolesAssumption`, `RatesAssumption` | amounts are natural numbers, scales and chunks are not zero, rates are what constructors and setters accept |
| `OrdersAssumption`, `MarketAssumption` | an order names an account and a market; market orders come as the Rust constructor builds them, immediate and without a price |
| `TimelockAssumption` | times are natural numbers, the least delay is not zero |
| `OracleAssumption` | the keeper's list names no market twice (`index.ts:71-85`), and the allowed change is not zero (`OracleRouter.sol:625`) |
| `PointsAssumption`, `RequestsAssumption`, `TradesAssumption` | the lowest tier of volume begins at zero; all of a new order remains; the two sides of a trade are traders and its volume is a natural number |
| `ScalpAssumption`, `BreakerAssumption` | each strategy has a limit, a natural number; days and the breaker's counts are not zero |
| `PaperAssumption`, `FormAssumption`, `FeedAssumption` | finitely many markets, tiers and fee parts that are not zero; the form sends orders with a positive size and leverage, and limit orders with a price; limits of retries and messages are natural numbers |

| Theorem | Run that shows it on an instance | Says |
|---|---|---|
| `PerpVaultProofs.BooksAlwaysBalance`, `AlwaysSolvent`, `PauseFreezes`, `Refinement` | `vault` | the vault's properties, and that it implements `Custody` |
| `PerpVaultProofs.CapAlwaysHolds` | – | no step takes the deposits past the cap in force |
| `EngineProofs.OpenInterestAlwaysConsistent`, `ListsAlwaysExact` | `engine` | the engine's books agree with its positions |
| `EngineProofs.ExposureChecked`, `BystandersKeepTheirs`, `ModeStaysWhileOpen`, `ParametersApplyForward` | `engine` | the four action properties |
| `EngineProofs.OrdersNeverOverfilled`, `LegsAlwaysBalance`, `TermsStayCommitted` | `settlement` | the three properties of that run |
| `EngineProofs.SettlementKeepsEngineBooks` | – | open interest and lists stay exact under settlement too |
| `TimelockRouterProofs.ExecutedOnce`, `Announced`, `GuardianLimited` | `timelock` | the three properties of the timelock |
| `TwinEnginesProofs.LevelsStayExact`, `AnswersStayTrue` | `matching` | the books of both engines are exact, their answers true |
| `TwinEnginesProofs.RustRefines`, `ApiRefines` | `matching` | each engine implements `AbstractBook` |
| `TwinEnginesProofs.PortAgrees` | `matching` | the port does what the original does |
| `TwinEnginesProofs.OrdersTyped` | – | only orders that may wait are on a book |
| `ApiServerProofs.TradesStayAccounted`, `RecordsNeverOvercount` | `server` | each trade is in one place, and counts once at most |
| `ApiServerProofs.PointsStayExplained` | `server` | the history in memory explains the points |
| `ApiServerProofs.OrdersStayProven`, `SubscribersStayInformed` | `server` | orders are for proven accounts; subscribers see the book |
| `TradingBotProofs.WatchedIsOnTheBook` | `bot` | the swing engine's position and the executor's book agree |
| `TradingBotProofs.StrategiesKeepToTheirLimits` | `bot` | no strategy holds more positions than it may |
| `TradingBotProofs.DisabledStayOff`, `PausesAreKept` | `bot` | the two action properties of switching off and pausing |
| `WebClientProofs.PaperMoneyAccounted`, `LegsLeaveTogether` | `web` | the paper account accounts for its money; pairs leave together |
| `WebClientProofs.PositionsSurviveReload` | `web` | a reload discards no account with free money or a position |
| `WebClientProofs.MessagesSentInOrder` | `web` | messages leave in the order they were given |
| `TimelockRouterProofs.MarksNeverJump` | `keepers` | no mark moves further at once than the router allows |

**`SumTheorems`.** What a sum becomes when the function changes at one place or loses one,
that it is monotone and a natural number, and that no term exceeds a sum of naturals; and the same of sums over finite
sets (`SumOver`), which the folds of the community modules compute, in whatever order they choose the members. A fold over a
sequence is a recursive function on the sets of its indices: that it exists is proved (`FoldExists`), and that it stays in a
set which each of its steps keeps (`FoldStays`). `OnlyIn`, the filter of a list, keeps the others' order (`OnlyIn…`). The prover has no
induction over an operator; each induction is carried by the *set* of the numbers for which
the statement holds, which contains 0 and the successor of each member (`NatSets`).

**`PerpVaultProofs`.** The inductive invariant is `TypeOK /\ BooksBalance /\ Solvent`.
None of the three is inductive alone: `totalDeposits` stays a natural number
on a withdrawal only because it is the sum of balances, one of which covers the amount; a
withdrawal keeps the vault solvent only because total and balances move together. A transfer
is one lemma about `Transferred` (both sums kept, nothing below zero), a batch an induction over its legs.
`Refinement` maps each action to one of `Custody` or to a stutter.

**`EngineProofs`**, of the engine. The inductive invariant `Inv` is `TypeOK`, `OpenInterestConsistent`,
`ActiveListsExact`, and two clauses the code relies on without stating them:

- `VersionsExist`: the tier version a position was opened under is in the history of its market. Without it
  the margin of an open position has no type, and `ParametersProspective` no proof.
- `MarketsFirst`: only markets that were added hold positions. `addMarket` writes open interest 0, which
  would forget what positions there are; it does not check that there are none.

Types and books need one another: `UpdateOpenInterest` subtracts what a position was, and open interest stays a
natural number only because it is a sum with that position in it. (Below zero Solidity would revert, and the
position could be neither closed nor liquidated.) `ActiveListsExact` carries the list and its index
through swap-and-pop (`RemoveExact`).

A handler passes through states that break the invariant: the position is written, the open interest not yet. The
proof follows the scratch states of the module. `Good(s)` is their type; `Tied(s)` that the books agree
in `s`; `Paid`, `Works`, `Served` and their like say what a helper, begun in a good and tied state, ends
in, what it changed and what it left alone: whose position, whose balance, by how much. There is a lemma for
each helper (transfer, payout, reward, funding, close, open, liquidation round, sweep), in the order in which they call one
another, then one for each handler, then `StepKeeps` over `[Next]_vars`. The two loops of the code, over the chunks
of a liquidation and over an account's list, are recursive functions; what holds after each round goes by
`NatSets`. Each handler's lemma also gives its `Effects`, from which the action properties follow:
who may have lost, and that exposure grew only in an open market.

**`EngineProofs`**, of settlement, reuses the engine's lemmas for the two legs of a trade. `NoOverfill` is not
inductive: what keeps an order from being filled again is its nonce. `SettlementInv` adds `NoncesSpent`, a
filled order has its nonce used, to `Inv`, the types, `NoOverfill` and `LegsBalance`. A batch is a recursive function over
its trades; `SettledWell` is what holds after each of them as long as none reverted. `LegsBalance` needs the exact
effect of `openPosition` on one position (`sizeDelta`, and no other size), liquidation not being a call of this contract.

**`TimelockRouterProofs`**, of the timelock. `NeverTwice` is not inductive, as nothing in the queue says that
an executed transaction cannot be queued again. What does is time: an executed transaction has an eta that
is past, a new one has an eta in the future, as the delay is at least `MinDelay > 0`. The
invariant is `TypeOK`, `NeverTwice`, "what is executed is past", and "an eta is its
announcement plus a delay between `MinDelay` and `MaxDelay`"; the last gives `Announced`.

**`TimelockRouterProofs`**, of the router. The invariant is the type of what sources, updates under way and router hold. A push moves the mark
by no more than the allowed change, or not at all (`PushedSound`). A batch is a fold over the list of markets; as no market is in it twice, each mark is
moved by one of the steps at most (`BatchSound`, by induction on how many markets are done). `OracleSpec` is the part of `Keepers` that
follows prices: while `part = "prices"` a step of `Keepers` is one of `OracleNext`, and otherwise it leaves `oracleVars` alone.

**`TwinEnginesProofs`.** `LevelsExact` says which orders the index finds; the inductive `Sound` says so level by level, with the
types of the queues, so that a level can be replaced together with the part of the index that leads to it (`LevelPlaced`, on which
placing, cancelling and filling rest). Its flag `shows` says whether visible sizes agree too: they do in the API, and
not in Rust, where a fill leaves them. The totals are kept with a subtraction that stops at zero; it never stops, as no order has more
left than its level (`QueueTotals`). The best price exists because ids, and so prices on the book, are finitely many
(`PricesBounded`). `BooksSound` adds that ids on the books were given out, so a new order's is fresh. Matching is a recursive function over
rounds; `RoundsKeep` carries `Running` through it: a sound book, no order that was not there, no more left of the taker than it came with.
That is also all `AnswersTrue` needs.

The refinement needs more: that all rounds together are one step of `AbstractBook`, where an order takes from everything it reaches at
once. `BooksFair` adds to `BooksSound` that every queue is in the order of arrival (`TimeOrdered`), without which the front
of the best level need not be who comes first, and that the trades recorded are trades. The proof goes in four steps.

1. What an order takes, for any set `S` of resting orders (`Listing`): `TakenFrom`, `LeftOver`, `TradesOf`, `MakersLeft` say what
   `AbstractBook` says, with sums over sets. `ServedMore` is the heart: an order that takes from whoever comes first
   and then goes on with what is left of itself and of `S` takes in the end what it would have taken all at once.
2. What a book lists (`Listed`), and that placing, taking out and filling in part change the list at one order (`PlacedJoins`,
   `OutLeaves`, `FillLeaves`) and keep the queues in turn. `FrontComesFirst`: the front of the best level precedes everything else within reach.
3. So a round serves whoever comes first (`RoundServes`), the rounds play the whole order (`RoundsPlay`), and they end because each
   that trades without exhausting the order empties a place, and there are as many rounds as places (`RoundsDeliver`, `MatchedDelivers`).
4. The checks before matching: `WouldMatchTells`, and for fill-or-kill `RustFills` and `ApiFills`: what the engine counts, level by level,
   is no more than what the order reaches, so an order that passes is filled. The API may count too little (only what is shown, only the
   first `Depth` levels) and kill what could be filled; `AbstractBook` allows that, and `TwinsAgree` tells when the engines differ.
5. `PortAgrees` compares two books that list the same (`SameFront`: the front is the one listed order that precedes all
   others on its side), so every round trades with the same maker for the same quantity (`RoundsTwin`), and there are as many rounds. The refinement alone would
   not do: it has trades as a set, `TwinsAgree` in their order. A fill-or-kill order is decided alike because, with nothing
   hidden and no more levels than `Depth`, both checks count exactly what is within reach (`AllCounted`, `AllLevelsSeen`). `TwinsAgree` speaks of hidden orders
   of the Rust book only; the invariant `HiddenInBoth` says that the other has the same under the same ids.

Each engine has the operators of `PriceLevels` under its own name; the `Same…` lemmas say they are the same.

**`ApiServerProofs`.** `ServerInv` has a part for each component, and only the confirmation of a batch ties two of them.

- The pipeline. `TradesAccounted` needs that no trade is twice in the queue or in one batch, or a batch taken apart
  would leave half of a trade behind. `ReceiptsTrue` is what `NeverOvercounted` rests on: a batch that waits for a hash waits for a
  transaction with exactly its trades, so a receipt of success means that they were executed. Retries give a
  batch a new hash while the transaction under the old one may still be mined; the clause is about the
  hash the batch has now, and about what has been settled, whichever transaction did it. What goes back to the queue
  after a failure (`PutBack`) is an induction over the items, and keeps their trades apart.
- The points. That no record counts too much is not inductive: a record says nothing of awards under way. `Room`
  is: what a record counts, with the awards of its trader that have not loaded it, is at most the number of the trader's confirmed
  trades. It holds of the stored record and of each copy a call carries, so it does not matter
  which of two overlapping awards writes last. There is one award for a side of a trade (`OneEach`), as a trade is confirmed
  once, and the two sides differ, as the contract refuses a trade of a trader with itself. `PointsExplained` compares points with a sum over the
  calls under way (`EarnedBy`); the lemmas take one call out of such a sum and show that the order of adding does not matter.
- The gateway. `ClientsProven`: a connection that counts as authenticated has proven *that* account; a
  verification that ends after the connection is closed or was authenticated anew breaks nothing. Subscribers are sent the book only if an
  order traded or rests, so the proof shows that rounds of matching without a trade leave the book as it was (`RoundsTrade`).

**`TradingBotProofs`.** Nothing in it types the numbers of the book: positions enter and leave as a whole, and what is proved is which of
them are there. One invariant is for each engine, as an instance runs one of them.

- The swing engine. `SwingGuarded` is not inductive live, where entries and several closes of one position may be answered in any order, and each
  answer takes a position from the book by its id. `SwingSound` adds that the positions being entered have ids of their own,
  that no order to close carries (`EntriesApart`): so an answer to a close never removes what the answer to an entry makes the engine watch.
  It needs that ids are given out upwards (`Numbered`). On paper nothing is under way and the two copies are equal (`OnPaper`).
- The scalp engine. A handler runs through some ten strategies and three loops (positions to close, a grid, trades to
  record), so the proof follows relations on the working record instead of states: `Enters(w, r, E)`, from `w` to `r` positions were closed,
  or opened for strategies of `E`, and no limit is passed; `Granted(w, r, e)`, the strategy `e` is on and its breaker and the regime's pause let it
  enter; `Passes(w, r)`, every position that is new was granted. There is a lemma for each strategy and each part of a turn,
  and they compose (`EntersMore`, `PassesBeside`). The loops are folds of which each round `Passes`. `Kept` is the inductive invariant of
  all three theorems: the book within its limits and numbered, lists of the flights, breaker and memory in shape. The limits hold
  because each entry asks the book it is about to change, also the one that is decided before a wait.

**`WebClientProofs`.**

- The feed. `FeedInOrder` says that everything waiting was given after everything sent, and that nothing waits while the
  current socket is open. The second is why a message that is sent at once cannot overtake; it has to survive each replacement
  of a socket, where the old one still has events to come.
- The account. `PaperFundsAccounted` needs `Sound`: the types, that a market without a position holds no margin, which opening would
  overwrite, and that an open position has a cost, which is what `ReloadKeepsPositions` needs of the saved copy. Fees and the tiers' margins are quotients, so nothing cancels by itself; each operation's lemma says what it adds to `realized`,
  `charged` and `dropped` (`Became`), and the sum over markets changes at one place. Filling the waiting orders and the exits of a price
  are folds over lists taken before the first of them changes the account; each step keeps `Sound`, and an order is looked up again by its name, which
  no other has (`NamedUpTo`).
- The pairs. `GroupsLeaveTogether` speaks of the step, and a reload replaces the account by the saved copy; the invariant relates the two
  (`LeaveTogether`): a group is in the copy as a whole or not at all.

**Only model-checked.** `FundingNeutral`,
`RemovalKeepsMaintenance` and `MatchedTradesQueued` are false of the code. `PoolBacksPositions`
relates products of sizes and prices and the rounding of their quotients over sums of positions: only model-checked. Out of the prover's reach altogether: liveness under fairness (`TradesLeave`,
`LiquidatedInTheEnd`, `PricesArrive`, `FundingCatchesUp`), `ENABLED`. What a recursive function computes is proved where an induction over a set of numbers carries it (the sums, the folds, the rounds of
matching); a `RECURSIVE` operator is out of reach. Modules with theorems, and those they use,
declare no `RECURSIVE` operator.

## What is not modelled

- In `PerpEngine`: changes of owner and operators, and of the addresses of the fee recipient,
  the insurance fund and the funding pool, which are constants; events and `lastUpdated`;
  the impact exponent, which the code stores and does not use.
- In `OrderSettlement`: changes of owner, operators and fee recipient, and the batch counter,
  which nothing reads. Signature checking is the identity of an order.
- In the matching engines: events, fees, trade ids, counters and time stamps, which nothing reads
  back. Self-trades are matched, as in the code. The run sends
  market orders as the Rust constructor builds them (immediate, no price); the API
  accepts others, whose rest is answered `open` though it waits nowhere (`RestStatus`).
- Reentrancy: USDC calls nobody back, and the contracts' guards forbid it.
- Overflow of 256-bit integers, which in Solidity 0.8 reverts, as the disabled
  steps do: nothing in the instances comes near.
- In the trading bot: the computation of indicators and of the structure levels (their outcomes are inputs), the
  strategies that nothing calls (scalp, momentum, trend follow), tuning of parameters other than switching off, reports.
  Amounts are units, an engine's stop and take profit fixed distances.
- In the web client: pages and charts, what the server's messages change in the display, deposits on chain.
- In the API: routes, account details, indexer, database other than the points' tables; the nonce manager, which nothing imports.
- In `OracleRouter`: staleness and confidence (a source without a price), the sequencer check, single pushes, setters of its parameters.
- Liquidator, InsuranceFund, AutoDeleveraging, CollateralManager, TradingVault, A2ADarkPool: contracts on top of engine and vault.
  Each would add the state of the engine to its own; the engine's instance is already at the size a run can hold.
- Components marked `not_modelled` in `PROJECT.json`, each with its reason: adapters, displays, services that
  only read, the backtester, scripts, and the two Solidity libraries that no contract imports. They hold no state others depend on.

## Plan

1. Done: vault with its abstract custody, engine, settlement, timelock; proofs of vault and timelock.
2. Done: the two matching engines against an abstract book.
3. Done: settlement pipeline, points and gateway of the API server; the three keepers with the router's push path; the
   trading bot; the web client.
4. Open: the contracts on top of the engine (`Liquidator` with `InsuranceFund`, `CollateralManager`, then `TradingVault` and
   `A2ADarkPool`), each against an abstract engine that keeps only what they read.
5. Done: proofs of the engine, of settlement, of both matching engines (books, answers, and the refinement of the abstract book), of the API server,
   of the trading bot, of the web client, and of the router's price breaker: every safety property of the passing runs but `PoolBacksPositions`. Liveness stays with TLC.
