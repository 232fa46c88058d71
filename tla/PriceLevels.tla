---------------------------- MODULE PriceLevels -----------------------------
(***************************************************************************)
(* The order book that both matching engines keep: engine/src/orderbook.rs  *)
(* and its port in api/src/engine/matching.ts.  On each side of a market      *)
(* there is a level for every price with orders, a queue in order of arrival *)
(* with running totals of what it holds and of what it shows; an index finds  *)
(* the level of an order.  The operators take a book and give the next one.   *)
(***************************************************************************)
EXTENDS Integers, Sequences, FiniteSets, Functions, Sums

Sides == {"buy", "sell"}
Opposite(side) == IF side = "buy" THEN "sell" ELSE "buy"

\* An order: id, side, type, price (0 for a market order), quantity, tif, hidden, and
\* what remains of it.  A level: its orders, their total and their visible quantity.
EmptyBook == [levels |-> [side \in Sides |-> <<>>], index |-> <<>>]

SaturatingSub(x, y) == IF x > y THEN x - y ELSE 0
MinQty(x, y) == IF x < y THEN x ELSE y

\* What an order shows to the public.
Shown(o, qty) == IF o.hidden THEN 0 ELSE qty

LevelAt(b, side, price) ==
    IF price \in DOMAIN b.levels[side]
    THEN b.levels[side][price]
    ELSE [orders |-> <<>>, total |-> 0, visible |-> 0]

\* A level put into the book, or taken out of it when no order is left.
WithLevel(b, side, price, level) ==
    [b EXCEPT !.levels[side] =
        IF level.orders = <<>>
        THEN Restrict(@, DOMAIN @ \ {price})
        ELSE [p \in DOMAIN @ \union {price} |-> IF p = price THEN level ELSE @[p]]]

Indexed(b, o) ==
    [b EXCEPT !.index = [id \in DOMAIN @ \union {o.id} |->
                            IF id = o.id THEN [side |-> o.side, price |-> o.price] ELSE @[id]]]

Unindexed(b, id) == [b EXCEPT !.index = Restrict(@, DOMAIN @ \ {id})]

\* Faulty form of Queued: the newest order is served first.
QueuedFirst(orders, o) == <<o>> \o orders

Queued(orders, o) == Append(orders, o)

\* place_order: at the back of its level.
Placed(b, o) ==
    LET level == LevelAt(b, o.side, o.price)
    IN  WithLevel(Indexed(b, o), o.side, o.price,
                  [orders |-> Queued(level.orders, o),
                   total |-> level.total + o.remaining,
                   visible |-> level.visible + Shown(o, o.remaining)])

Present(b, id) == id \in DOMAIN b.index

\* The place of an order in its queue, and the queue without its i-th order.
PlaceOf(orders, id) == CHOOSE i \in 1..Len(orders) : orders[i].id = id
Removed(orders, i) == SubSeq(orders, 1, i - 1) \o SubSeq(orders, i + 1, Len(orders))

\* Faulty form of Cancelled: the totals are left as they were.
CancelledFromQueue(b, id) ==
    LET place == b.index[id]
        level == LevelAt(b, place.side, place.price)
    IN  WithLevel(Unindexed(b, id), place.side, place.price,
                  [level EXCEPT !.orders = Removed(@, PlaceOf(@, id))])

\* cancel_order, for an order that is present.
Cancelled(b, id) ==
    LET place == b.index[id]
        level == LevelAt(b, place.side, place.price)
        i == PlaceOf(level.orders, id)
        o == level.orders[i]
    IN  WithLevel(Unindexed(b, id), place.side, place.price,
                  [orders |-> Removed(level.orders, i),
                   total |-> SaturatingSub(level.total, o.remaining),
                   visible |-> SaturatingSub(level.visible, Shown(o, o.remaining))])

Better(side, p, q) == IF side = "buy" THEN p > q ELSE p < q

HasOrders(b, side) == DOMAIN b.levels[side] # {}

\* The highest bid, the lowest ask.
BestPrice(b, side) ==
    CHOOSE p \in DOMAIN b.levels[side] :
        \A q \in DOMAIN b.levels[side] : p = q \/ Better(side, p, q)

\* The oldest order at the best price.
Front(b, side) == Head(b.levels[side][BestPrice(b, side)].orders)

\* fill_best_bid and fill_best_ask: qty off the front order, which goes when nothing remains,
\* and off what its level shows if the engine does so.
FrontFilled(b, side, qty, fillsShow) ==
    LET price == BestPrice(b, side)
        level == b.levels[side][price]
        front == Front(b, side)
        rest == SaturatingSub(front.remaining, qty)
        shown == IF fillsShow THEN Shown(front, qty) ELSE 0
        left == [orders |-> IF rest = 0 THEN Tail(level.orders)
                            ELSE [level.orders EXCEPT ![1].remaining = rest],
                 total |-> SaturatingSub(level.total, qty),
                 visible |-> SaturatingSub(level.visible, shown)]
    IN  WithLevel(IF rest = 0 THEN Unindexed(b, front.id) ELSE b, side, price, left)

\* Whether an order may trade at a price.
Reaches(o, price) ==
    o.type = "market" \/ (IF o.side = "buy" THEN o.price >= price ELSE o.price <= price)

\* One trade of a taker with the front order of the other side, at the maker's price, if the
\* taker wants more and reaches that price.
MatchRound(t, taker, fillsShow) ==
    LET side == Opposite(taker.side)
        maker == Front(t.book, side)
        qty == MinQty(t.remaining, maker.remaining)
    IN  IF t.remaining = 0 \/ ~HasOrders(t.book, side)
           \/ ~Reaches(taker, BestPrice(t.book, side))
        THEN t
        ELSE [book |-> FrontFilled(t.book, side, qty, fillsShow),
              remaining |-> t.remaining - qty,
              trades |-> Append(t.trades, [maker |-> maker.id, taker |-> taker.id,
                                           price |-> maker.price, quantity |-> qty])]

\* match_buy and match_sell: rounds until none changes anything; every round but the
\* last takes an order off the book, so there are no more of them than orders.
Matched(b, taker, fillsShow) ==
    LET after[i \in 0..Cardinality(DOMAIN b.index)] ==
            IF i = 0 THEN [book |-> b, remaining |-> taker.remaining, trades |-> <<>>]
            ELSE MatchRound(after[i - 1], taker, fillsShow)
    IN  after[Cardinality(DOMAIN b.index)]

-----------------------------------------------------------------------------
(* What is in a book *)

Remainders(orders) == [i \in 1..Len(orders) |-> orders[i].remaining]
Visibles(orders) == [i \in 1..Len(orders) |-> Shown(orders[i], orders[i].remaining)]

RemainingOf(orders) == SumTo(Remainders(orders), Len(orders))
ShownOf(orders) == SumTo(Visibles(orders), Len(orders))

RemainingAt(b, side, price) == RemainingOf(b.levels[side][price].orders)

OrdersAt(b, side, price) == Range(b.levels[side][price].orders)

OrdersIn(b) ==
    UNION {UNION {OrdersAt(b, side, price) : price \in DOMAIN b.levels[side]} : side \in Sides}
=============================================================================
