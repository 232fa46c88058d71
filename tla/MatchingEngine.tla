--------------------------- MODULE MatchingEngine ---------------------------
(***************************************************************************)
(* engine/src/matching.rs: the matching engine of one market, in Rust.  A    *)
(* call runs to its end, so every action is one call.  A fill takes nothing   *)
(* off the visible quantity of a level.                                      *)
(***************************************************************************)
EXTENDS Integers, Sequences

CONSTANTS MinQuantity, MaxQuantity, LotSize, TickSize

VARIABLES
    book,
    trades,     \* all trades so far
    result      \* what the last submission was answered: id, status, remaining

vars == <<book, trades, result>>

INSTANCE PriceLevels

\* fill_best_bid and fill_best_ask leave the visible quantity of the level as it was.
FillsShow == FALSE

Init ==
    /\ book = EmptyBook
    /\ trades = <<>>
    /\ result = [id |-> 0, status |-> "none", remaining |-> 0]

\* validate_order
Valid(o) ==
    /\ o.quantity # 0
    /\ o.type = "limit" => o.price # 0
    /\ o.quantity >= MinQuantity
    /\ o.quantity <= MaxQuantity
    /\ o.quantity % LotSize = 0
    /\ o.type = "limit" => o.price % TickSize = 0

\* would_match: a market order to sell is compared by its price, which is 0.
WouldMatch(o) ==
    /\ HasOrders(book, Opposite(o.side))
    /\ LET best == BestPrice(book, Opposite(o.side))
       IN  IF o.side = "buy" THEN Reaches(o, best) ELSE o.price <= best

\* can_fill_entirely: everything within reach, hidden or not.
CanFillEntirely(o) ==
    LET side == Opposite(o.side)
        within == {p \in DOMAIN book.levels[side] : Reaches(o, p)}
    IN  SumFunctionOnSet([p \in within |-> RemainingAt(book, side, p)], within) >= o.remaining

Answer(o, status, remaining) == result' = [id |-> o.id, status |-> status,
                                           remaining |-> remaining]

Refused(o) == ~Valid(o) \/ (o.tif = "PostOnly" /\ WouldMatch(o))

Reject(o) ==
    /\ Refused(o)
    /\ Answer(o, "rejected", o.remaining)
    /\ UNCHANGED <<book, trades>>

\* A fill-or-kill order that cannot be filled is not matched at all.
Kill(o) ==
    /\ ~Refused(o)
    /\ o.tif = "FOK" /\ ~CanFillEntirely(o)
    /\ Answer(o, "cancelled", o.remaining)
    /\ UNCHANGED <<book, trades>>

\* Faulty form of RestStatus: immediate orders are called cancelled even when filled.
RestStatusByForce(o, remaining) ==
    IF o.tif \in {"IOC", "FOK"} THEN "cancelled"
    ELSE IF remaining = 0 THEN "filled"
    ELSE IF remaining < o.quantity THEN "partiallyFilled" ELSE "open"

\* What is left of an order that is good till cancelled goes on the book; of any other
\* it is cancelled.
RestStatus(o, remaining) ==
    IF remaining = 0 THEN "filled"
    ELSE IF o.tif \in {"IOC", "FOK"} THEN "cancelled"
    ELSE IF remaining < o.quantity /\ o.type = "limit" THEN "partiallyFilled"
    ELSE "open"

Rests(o, remaining) == remaining # 0 /\ o.tif \in {"GTC", "PostOnly"} /\ o.type = "limit"

Match(o) ==
    /\ ~Refused(o)
    /\ o.tif = "FOK" => CanFillEntirely(o)
    /\ LET t == Matched(book, o, FillsShow)
       IN  /\ book' = IF Rests(o, t.remaining)
                      THEN Placed(t.book, [o EXCEPT !.remaining = t.remaining])
                      ELSE t.book
           /\ trades' = trades \o t.trades
           /\ Answer(o, RestStatus(o, t.remaining), t.remaining)

SubmitOrder(o) == Reject(o) \/ Kill(o) \/ Match(o)

CancelOrder(id) ==
    /\ Present(book, id)
    /\ book' = Cancelled(book, id)
    /\ UNCHANGED <<trades, result>>
=============================================================================
