------------------------------ MODULE PaperTrading ------------------------------
(***************************************************************************)
(* Paper trading in the web client: an account a and what each action of   *)
(* the store makes of it.  A position is kept per market (the store never  *)
(* has two) with its cost, size times entry price.  Amounts are integers;  *)
(* quotients are rounded down where the store's are fractions.             *)
(***************************************************************************)
EXTENDS Sums, Sequences, SequencesExt

CONSTANTS
  Markets,
  Tiers,              \* <<[max, part]>>: margin is a part-th of a tier's notional; max 0: no end
  FeePart,            \* the fee is a FeePart-th of the notional
  Dust,               \* a size that is not worth keeping: 0.00001 in the store
  InitialWallet, InitialBalance

ASSUME PaperAssumption ==
  /\ IsFiniteSet(Markets)
  /\ Tiers \in Seq([max : Nat, part : Nat \ {0}])
  /\ FeePart \in Nat \ {0}
  /\ Dust \in Nat
  /\ InitialWallet \in Int /\ InitialBalance \in Int

Least(x, y) == IF x < y THEN x ELSE y
Most(x, y) == IF x < y THEN y ELSE x

NoPosition == [size |-> 0, long |-> TRUE, cost |-> 0, margin |-> 0, tp |-> 0, sl |-> 0]

\* realized and charged are the sums of results and of fees since the reset,
\* dropped the sum of the margins that were given up with a rest of Dust.
NewAccount ==
  [wallet |-> InitialWallet, balance |-> InitialBalance, orders |-> <<>>,
   positions |-> [m \in Markets |-> NoPosition], realized |-> 0, charged |-> 0, dropped |-> 0]

TieredMargin(notional) ==
  LET Slice(acc, t) ==
        LET size == IF t.max = 0 THEN acc.left ELSE Least(acc.left, t.max - acc.prev)
        IN [left |-> acc.left - size, prev |-> t.max, sum |-> acc.sum + size \div t.part]
  IN FoldLeft(Slice, [left |-> notional, prev |-> 0, sum |-> 0], Tiers).sum

Fee(notional) == notional \div FeePart

(* --- positions --- *)

Pnl(p, size, price) ==
  (IF p.long THEN 1 ELSE -1) * (price * size - (p.cost * size) \div p.size)

\* Faulty form: a reduced position keeps its whole margin.
ShrunkInSize(p, size) ==
  IF p.size - size <= Dust THEN NoPosition
  ELSE [p EXCEPT !.size = @ - size, !.cost = @ - (@ * size) \div p.size]

\* A rest of Dust or less is not kept: the whole position goes.
Shrunk(p, size) ==
  IF p.size - size <= Dust THEN NoPosition
  ELSE [p EXCEPT !.size = @ - size, !.cost = @ - (@ * size) \div p.size,
                 !.margin = @ - (@ * size) \div p.size]

\* Only the margin of what was closed comes back, also when the rest goes with it.
Freed(p, size) == (p.margin * size) \div p.size

Settled(a, m, size, price) ==
  LET p == a.positions[m] IN
  [a EXCEPT !.balance = @ + Freed(p, size) + Pnl(p, size, price) - Fee(price * size),
            !.positions[m] = Shrunk(p, size),
            !.realized = @ + Pnl(p, size, price), !.charged = @ + Fee(price * size),
            !.dropped = @ + IF p.size - size <= Dust THEN p.margin - Freed(p, size) ELSE 0]

Opened(a, o, size, price, margin) ==
  [a EXCEPT !.balance = @ - margin - Fee(price * size), !.charged = @ + Fee(price * size),
            !.positions[o.market] = [size |-> size, long |-> o.side = "buy", cost |-> price * size,
                                     margin |-> margin, tp |-> o.tp, sl |-> o.sl]]

Grown(p, size, price, margin) ==
  [p EXCEPT !.size = @ + size, !.cost = @ + price * size, !.margin = @ + margin]

Merged(a, o, price, margin) ==
  [a EXCEPT !.balance = @ - margin - Fee(price * o.size), !.charged = @ + Fee(price * o.size),
            !.positions[o.market] = Grown(@, o.size, price, margin)]

\* An opposite position is reduced first; what the order has left, if it is more
\* than Dust, opens the other side if the balance carries it, without the tiers' margin.
Reversed(a, o, price) ==
  LET size   == Least(a.positions[o.market].size, o.size)
      rest   == o.size - size
      margin == (price * rest) \div o.leverage
      a1     == Settled(a, o.market, size, price)
  IN IF rest > Dust /\ margin + Fee(price * rest) <= a1.balance
     THEN Opened(a1, o, rest, price, margin) ELSE a1

\* The whole order must be affordable, also the part that only reduces.
MarketOrder(a, o, price) ==
  LET p      == a.positions[o.market]
      margin == Most(TieredMargin(price * o.size), (price * o.size) \div o.leverage)
  IN CASE margin + Fee(price * o.size) > a.balance -> a
       [] margin + Fee(price * o.size) <= a.balance /\ p.size > 0 ->
            IF p.long = (o.side = "buy") THEN Merged(a, o, price, margin) ELSE Reversed(a, o, price)
       [] OTHER -> Opened(a, o, o.size, price, margin)

ClosePosition(a, m, price) ==
  IF a.positions[m].size = 0 THEN a ELSE Settled(a, m, a.positions[m].size, price)

UpdateTpSl(a, m, tp, sl) ==
  IF a.positions[m].size = 0 THEN a
  ELSE [a EXCEPT !.positions[m].tp = tp, !.positions[m].sl = sl]

(* --- resting orders --- *)

\* Margin is reserved at the order's own price, without fee and without tiers.
Reserved(o) == ((IF o.type = "stopMarket" THEN o.stop ELSE o.price) * o.size) \div o.leverage
ReservedBy(orders) == SumTo([i \in DOMAIN orders |-> Reserved(orders[i])], Len(orders))

LimitOrder(a, o, mark) ==
  LET atOnce == /\ o.type = "limit" /\ mark > 0 /\ o.price > 0
                /\ IF o.side = "buy" THEN o.price >= mark ELSE o.price <= mark
  IN IF atOnce \/ Reserved(o) > a.balance THEN a
     ELSE [a EXCEPT !.balance = @ - Reserved(o), !.orders = Append(@, o)]

\* group 0 is no group.
Siblings(a, o) ==
  OnlyIn(a.orders, {q \in Range(a.orders) : q.id # o.id /\ o.group # 0 /\ q.group = o.group})

\* Faulty form: the other leg stays when one of a pair fills.
WithoutAlone(a, o) ==
  [a EXCEPT !.balance = @ + Reserved(o),
            !.orders = OnlyIn(@, {q \in Range(@) : q.id # o.id})]

\* The order and its group leave and give their margins back.
Without(a, o) ==
  [a EXCEPT !.balance = @ + Reserved(o) + ReservedBy(Siblings(a, o)),
            !.orders = OnlyIn(@, {q \in Range(@) :
                                    q.id # o.id /\ (o.group = 0 \/ q.group # o.group)})]

CancelOrder(a, o) == Without(a, o)

\* Then it is a market order, which may be refused: the order is gone.
FillLimit(a, o, price) ==
  IF \E i \in DOMAIN a.orders : a.orders[i].id = o.id
    THEN MarketOrder(Without(a, o), o, price) ELSE a

(* --- money in and out, reset and reload --- *)

Deposit(a, amount) ==
  LET amt == Least(amount, a.wallet) IN
  IF amt <= 0 THEN a ELSE [a EXCEPT !.wallet = @ - amt, !.balance = @ + amt]

Withdraw(a, amount) ==
  LET amt == Least(amount, a.balance) IN
  IF amt <= 0 THEN a ELSE [a EXCEPT !.wallet = @ + amt, !.balance = @ - amt]

\* A saved position without an entry price makes the whole save invalid.
ValidSave(saved) ==
  \A m \in Markets : saved.positions[m].size > 0 => saved.positions[m].cost > 0

\* No free money and no position, whatever is reserved in orders.
TakenForEmpty(saved) ==
  saved.wallet <= 0 /\ saved.balance <= 0 /\ \A m \in Markets : saved.positions[m].size = 0

\* The page starts over from a save that is invalid or taken for empty.
Load(saved) == IF ValidSave(saved) /\ ~TakenForEmpty(saved) THEN saved ELSE NewAccount

(* --- the effects of a new price: one price, whatever the market --- *)

Triggered(o, mark) ==
  LET stopped == IF o.side = "buy" THEN mark >= o.stop ELSE mark <= o.stop
      reached == IF o.side = "buy" THEN mark <= o.price ELSE mark >= o.price
  IN CASE o.type = "stopMarket" -> stopped
       [] o.type = "stopLimit" -> stopped /\ reached
       [] OTHER -> reached

FillOrders(a, mark) ==
  FoldLeft(LAMBDA acc, o : IF Triggered(o, mark)
                           THEN FillLimit(acc, o, IF o.type = "stopMarket" THEN mark ELSE o.price)
                           ELSE acc,
           a, a.orders)

\* The take profit is looked at first; each closes at its own price.
ExitPrice(p, mark) ==
  LET up(x) == IF p.long THEN mark >= x ELSE mark <= x
      down(x) == IF p.long THEN mark <= x ELSE mark >= x
  IN CASE p.size > 0 /\ p.tp > 0 /\ up(p.tp) -> p.tp
       [] p.size > 0 /\ ~(p.tp > 0 /\ up(p.tp)) /\ p.sl > 0 /\ down(p.sl) -> p.sl
       [] OTHER -> 0

CheckTpSl(a, mark) ==
  LET Exit(acc, m) == IF ExitPrice(acc.positions[m], mark) > 0
                      THEN ClosePosition(acc, m, ExitPrice(acc.positions[m], mark)) ELSE acc
  IN FoldLeft(Exit, a, SetToSeq(Markets))
================================================================================
