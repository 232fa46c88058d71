-------------------------- MODULE ApiMatchingEngine --------------------------
(***************************************************************************)
(* api/src/engine/matching.ts: the engine the API server runs, a port of the *)
(* Rust one.  The book is the same but for what a level shows, which follows  *)
(* the fills here; the checks before matching and the answers are its own.    *)
(***************************************************************************)
EXTENDS Integers, Sequences

CONSTANTS MinSize, LotSize, TickSize,
          Depth     \* 100: how many levels the fill-or-kill check looks at

VARIABLES
    book,
    allTrades,
    result      \* what the last submission was answered: id, status, remaining

vars == <<book, allTrades, result>>

INSTANCE PriceLevels

\* fillBestBid and fillBestAsk take a fill off the visible quantity of the level.
FillsShow == TRUE

Init ==
    /\ book = EmptyBook
    /\ allTrades = <<>>
    /\ result = [id |-> 0, status |-> "none", remaining |-> 0]

\* validate: there is no largest size.
Valid(o) ==
    /\ o.quantity # 0
    /\ o.type = "limit" => o.price # 0
    /\ o.quantity >= MinSize
    /\ o.quantity % LotSize = 0
    /\ o.type = "limit" => o.price % TickSize = 0

\* Faulty form of WouldMatch: an equal price is overlooked.
WouldMatchBeyond(o) ==
    /\ HasOrders(book, Opposite(o.side))
    /\ LET best == BestPrice(book, Opposite(o.side))
       IN  IF o.side = "buy" THEN o.price > best ELSE o.price < best

\* wouldMatch: market orders too are compared by their price.
WouldMatch(o) ==
    /\ HasOrders(book, Opposite(o.side))
    /\ LET best == BestPrice(book, Opposite(o.side))
       IN  IF o.side = "buy" THEN o.price >= best ELSE o.price <= best

\* topBids and topAsks: the best levels with something visible.
TopLevels(side) ==
    LET shown == {p \in DOMAIN book.levels[side] : book.levels[side][p].visible > 0}
    IN  {p \in shown : Cardinality({q \in shown : Better(side, q, p)}) < Depth}

\* Faulty form of CanFillEntirely: the limit of the order is forgotten.
CanFillAtAnyPrice(o) ==
    LET side == Opposite(o.side)
    IN  SumFunctionOnSet([p \in TopLevels(side) |-> book.levels[side][p].visible],
                         TopLevels(side)) >= o.remaining

\* canFillEntirely: what the levels within reach show.
CanFillEntirely(o) ==
    LET side == Opposite(o.side)
        within == {p \in TopLevels(side) : Reaches(o, p)}
    IN  SumFunctionOnSet([p \in within |-> book.levels[side][p].visible], within)
            >= o.remaining

Answer(o, status, remaining) == result' = [id |-> o.id, status |-> status,
                                           remaining |-> remaining]

Refused(o) == ~Valid(o) \/ (o.tif = "PostOnly" /\ WouldMatch(o))

Reject(o) ==
    /\ Refused(o)
    /\ Answer(o, "rejected", o.remaining)
    /\ UNCHANGED <<book, allTrades>>

Kill(o) ==
    /\ ~Refused(o)
    /\ o.tif = "FOK" /\ ~CanFillEntirely(o)
    /\ Answer(o, "cancelled", o.remaining)
    /\ UNCHANGED <<book, allTrades>>

\* The rest of an immediate order that traded is called partially filled, though it is
\* nowhere on the book; that of a market order to be kept is called open.
RestStatus(o, remaining) ==
    IF remaining = 0 THEN "filled"
    ELSE IF o.tif \in {"GTC", "PostOnly"} /\ o.type = "market" THEN "open"
    ELSE IF remaining < o.quantity THEN "partiallyFilled"
    ELSE IF o.tif \in {"GTC", "PostOnly"} THEN "open" ELSE "cancelled"

Rests(o, remaining) == remaining # 0 /\ o.tif \in {"GTC", "PostOnly"} /\ o.type = "limit"

Match(o) ==
    /\ ~Refused(o)
    /\ o.tif = "FOK" => CanFillEntirely(o)
    /\ LET t == Matched(book, o, FillsShow)
       IN  /\ book' = IF Rests(o, t.remaining)
                      THEN Placed(t.book, [o EXCEPT !.remaining = t.remaining])
                      ELSE t.book
           /\ allTrades' = allTrades \o t.trades
           /\ Answer(o, RestStatus(o, t.remaining), t.remaining)

SubmitOrder(o) == Reject(o) \/ Kill(o) \/ Match(o)

CancelOrder(id) ==
    /\ Present(book, id)
    /\ book' = Cancelled(book, id)
    /\ UNCHANGED <<allTrades, result>>
=============================================================================
