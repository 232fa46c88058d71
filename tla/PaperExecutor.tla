----------------------------- MODULE PaperExecutor -----------------------------
(***************************************************************************)
(* The trading bot's book of positions: simulated trading, and the         *)
(* internal tracking of live trading, which inherits it.  Prices and       *)
(* distances are ticks, a position is one unit, and an engine's stop, take *)
(* profit and liquidation lie at fixed distances from the entry.           *)
(***************************************************************************)
EXTENDS Sums, Sequences, SequencesExt

CONSTANTS
  StartingCapital,
  Fee,                \* fees of opening and closing together
  StopAt, TakeAt,     \* [engine -> ticks]; a take profit of 0 is none
  LiquidateAt,        \* [engine -> ticks], 90 / leverage^2 percent in the code
  TrailAfter,         \* profit that activates the trailing stop
  TrailBack,          \* callback from the best price
  MinProfit,          \* the profit lock
  MinHold,            \* time before the trailing stop may close
  ExecutorDay,        \* length of the executor's own day
  MaxDailyLossPaper   \* loss that trips the executor's breaker

Sign(side) == IF side = "LONG" THEN 1 ELSE -1

\* What the position would be ahead of its entry at a price, before fees.
Ahead(p, price) == Sign(p.side) * (price - p.entry)
NetPnl(p, price) == Ahead(p, price) - Fee

NewBook(t) ==
  [capital |-> StartingCapital, dailyPnl |-> 0, dayStart |-> t,
   open |-> <<>>, closed |-> <<>>, tripped |-> FALSE]

OpenPosition(book, p) == [book EXCEPT !.open = Append(@, p)]

HeldBy(book, e) == OnlyIn(book.open, {p \in Range(book.open) : p.engine = e})
IsOpen(book, id) == \E i \in DOMAIN book.open : book.open[i].id = id

\* The daily loss is put back to zero after the closing trade was added to it.
CheckCircuitBreakers(book, t) ==
  LET new   == t - book.dayStart > ExecutorDay
      fresh == IF new THEN [book EXCEPT !.dailyPnl = 0, !.dayStart = t] ELSE book
      lost  == \/ fresh.dailyPnl <= -MaxDailyLossPaper
               \/ fresh.capital - StartingCapital <= -2 * MaxDailyLossPaper
  IN [fresh EXCEPT !.tripped = @ \/ lost]

ClosePosition(book, p, price, reason, t) ==
  LET net == NetPnl(p, price) IN
  CheckCircuitBreakers(
    [book EXCEPT !.capital = @ + net, !.dailyPnl = @ + net,
                 !.open = OnlyIn(@, {q \in Range(@) : q.id # p.id}),
                 !.closed = Append(@, [id |-> p.id, engine |-> p.engine, side |-> p.side,
                                       pnl |-> net, reason |-> reason, at |-> t])],
    t)

(* One price update: stop, take profit, trailing stop and liquidation, in that
   order; only a position that met neither of the first two moves its trail. *)
HitsStop(p, price) == Ahead(p, price) <= -StopAt[p.engine]
HitsTake(p, price) == TakeAt[p.engine] > 0 /\ Ahead(p, price) >= TakeAt[p.engine]

Trailed(p, price) ==
  IF p.trail THEN [p EXCEPT !.best = IF @ < Ahead(p, price) THEN Ahead(p, price) ELSE @]
  ELSE IF Ahead(p, price) >= TrailAfter
       THEN [p EXCEPT !.trail = TRUE, !.best = Ahead(p, price)]
       ELSE p

\* The later of the callback and the profit lock, from below: either closes.
HitsTrail(p, price, t) ==
  /\ p.trail
  /\ t - p.at >= MinHold
  /\ \/ Ahead(p, price) <= p.best - TrailBack
     \/ Ahead(p, price) <= MinProfit

Liquidated(p, price) == Ahead(p, price) < 0 /\ -Ahead(p, price) >= LiquidateAt[p.engine]

Moved(p, price) ==
  IF HitsStop(p, price) \/ HitsTake(p, price) THEN p ELSE Trailed(p, price)

Reason(p, price, t) ==
  CASE HitsStop(p, price) -> "SL"
    [] ~HitsStop(p, price) /\ HitsTake(p, price) -> "TP"
    [] OTHER -> IF HitsTrail(Moved(p, price), price, t) THEN "TRAILING"
                ELSE IF Liquidated(p, price) THEN "LIQUIDATION" ELSE "none"

UpdatePositions(book, price) ==
  [book EXCEPT !.open = [i \in DOMAIN @ |-> Moved(@[i], price)]]

ToClose(book, price, t) ==
  LET hit == OnlyIn(book.open, {p \in Range(book.open) : Reason(p, price, t) # "none"})
  IN [i \in DOMAIN hit |-> [position |-> Moved(hit[i], price), reason |-> Reason(hit[i], price, t)]]
================================================================================
