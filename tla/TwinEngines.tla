---------------------------- MODULE TwinEngines -----------------------------
(***************************************************************************)
(* The Rust engine and its port side by side, fed with the same orders and   *)
(* the same cancellations.  Each is held to AbstractBook, and the port to     *)
(* the original.                                                            *)
(***************************************************************************)
EXTENDS Integers, Sequences, FiniteSets

CONSTANTS
    Kinds,          \* the orders traders send, as the order constructors build them
    MinQuantity, MaxQuantity, LotSize, TickSize,    \* the configuration of the market
    Depth,
    MaxOrders       \* bound on the orders submitted

ASSUME MarketAssumption ==
    /\ {MinQuantity, MaxQuantity, Depth, MaxOrders} \subseteq Nat
    /\ {LotSize, TickSize} \subseteq Nat \ {0}
    /\ Kinds \subseteq [side : {"buy", "sell"}, type : {"limit", "market"}, price : Nat,
                        quantity : Nat, tif : {"GTC", "IOC", "FOK", "PostOnly"},
                        hidden : BOOLEAN]
    /\ \A kind \in Kinds : kind.type = "market" => kind.price = 0 /\ kind.tif = "IOC"

VARIABLES
    last,           \* the order submitted last; ids count from 1
    rustBook, rustTrades, rustResult,
    apiBook, apiTrades, apiResult

rustVars == <<rustBook, rustTrades, rustResult>>
apiVars == <<apiBook, apiTrades, apiResult>>
vars == <<last, rustVars, apiVars>>

Rust == INSTANCE MatchingEngine
            WITH book <- rustBook, trades <- rustTrades, result <- rustResult
Api == INSTANCE ApiMatchingEngine
            WITH book <- apiBook, allTrades <- apiTrades, result <- apiResult,
                 MinSize <- MinQuantity

NoKind == [side |-> "buy", type |-> "limit", price |-> 0, quantity |-> 0, tif |-> "GTC",
           hidden |-> FALSE]

Init ==
    /\ last = [id |-> 0, kind |-> NoKind]
    /\ Rust!Init
    /\ Api!Init

\* A new order, with an id no order had before.
NewOrder(kind) ==
    [id |-> last.id + 1, side |-> kind.side, type |-> kind.type, price |-> kind.price,
     quantity |-> kind.quantity, remaining |-> kind.quantity, tif |-> kind.tif,
     hidden |-> kind.hidden]

Submit(kind) ==
    /\ last.id < MaxOrders
    /\ last' = [id |-> last.id + 1, kind |-> kind]
    /\ Rust!SubmitOrder(NewOrder(kind))
    /\ Api!SubmitOrder(NewOrder(kind))

\* A cancellation reaches both; an engine without the order answers that it has none.
Cancel(id) ==
    /\ IF Rust!Present(rustBook, id) THEN Rust!CancelOrder(id) ELSE UNCHANGED rustVars
    /\ IF Api!Present(apiBook, id) THEN Api!CancelOrder(id) ELSE UNCHANGED apiVars
    /\ UNCHANGED last

Next ==
    \/ \E kind \in Kinds : Submit(kind)
    \/ \E id \in 1..last.id : Cancel(id)

Spec == Init /\ [][Next]_vars

-----------------------------------------------------------------------------
(* Properties *)

Orders == [id : 1..MaxOrders, side : {"buy", "sell"}, type : {"limit"}, price : Nat \ {0},
           quantity : Nat \ {0}, remaining : Nat \ {0}, tif : {"GTC", "PostOnly"},
           hidden : BOOLEAN]

\* Only orders that may wait are on the books, and something of each of them is left.
TypeOK ==
    /\ last.id \in 0..MaxOrders
    /\ \A o \in Rust!OrdersIn(rustBook) \union Api!OrdersIn(apiBook) :
           o \in Orders /\ o.id <= last.id /\ o.remaining <= o.quantity

\* A level for each price with orders and no other, an index entry for each order and no
\* other, at its place, no order twice in a queue, and the running total of a level what
\* its orders add up to.
IndexAndTotalsExact(b) ==
    /\ \A side \in {"buy", "sell"} : \A price \in DOMAIN b.levels[side] :
           LET level == b.levels[side][price]
           IN  /\ level.orders # <<>>
               /\ level.total = Rust!RemainingOf(level.orders)
               /\ \A i, j \in 1..Len(level.orders) :
                      level.orders[i].id = level.orders[j].id => i = j
               /\ \A o \in Rust!OrdersAt(b, side, price) :
                      /\ o.id \in DOMAIN b.index
                      /\ b.index[o.id] = [side |-> side, price |-> price]
                      /\ o.side = side /\ o.price = price
    /\ DOMAIN b.index = {o.id : o \in Rust!OrdersIn(b)}

\* The books of both engines stay consistent through partial fills, sweeps over several
\* levels and cancellations from the middle of a queue; and what the API publishes as the
\* size of a level is what its visible orders have left.
LevelsExact ==
    /\ IndexAndTotalsExact(rustBook)
    /\ IndexAndTotalsExact(apiBook)
    /\ \A side \in {"buy", "sell"} : \A price \in DOMAIN apiBook.levels[side] :
           LET level == apiBook.levels[side][price]
           IN  level.visible = Api!ShownOf(level.orders)

Resting(b) ==
    {[id |-> o.id, side |-> o.side, price |-> o.price, remaining |-> o.remaining] :
        o \in Rust!OrdersIn(b)}

TradeSet(trades) == {trades[i] : i \in DOMAIN trades}

Originals == INSTANCE AbstractBook
                 WITH Ids <- 1..MaxOrders, Acceptable <- {kind \in Kinds : Rust!Valid(kind)},
                      resting <- Resting(rustBook), trades <- TradeSet(rustTrades)
Ports == INSTANCE AbstractBook
                 WITH Ids <- 1..MaxOrders, Acceptable <- {kind \in Kinds : Api!Valid(kind)},
                      resting <- Resting(apiBook), trades <- TradeSet(apiTrades)

\* The Rust engine gives price-time priority, and every order what it asked for.
RustImplementsBook == Originals!Spec

\* So does the engine of the API.
ApiImplementsBook == Ports!Spec

\* What an answer says of an order, in an engine with these statuses for one that waits.
AnswerTells(answer, b, waiting) ==
    /\ answer.status # "rejected" => (answer.status = "filled") = (answer.remaining = 0)
    /\ (answer.status \in waiting) => Rust!Present(b, answer.id)
    /\ (answer.status \notin waiting \union {"partiallyFilled"}) => ~Rust!Present(b, answer.id)

\* The answer to a submission tells what became of the order: one that the trader was told
\* waits can be cancelled, one refused, killed or filled is not on the book, and it is called
\* filled just when nothing is left.  The API calls an immediate order that traded partially
\* filled, which says nothing about waiting.
AnswersTrue ==
    [][ last'.id # last.id
            => /\ AnswerTells(rustResult', rustBook', {"open", "partiallyFilled"})
               /\ AnswerTells(apiResult', apiBook', {"open"}) ]_vars

Alike == Resting(rustBook) = Resting(apiBook) /\ rustTrades = apiTrades

\* The port does with an order what the original does, as long as it shares its books: unless
\* the order is larger than the market allows, which the port does not check, or it is
\* fill-or-kill and the port, which looks at what the best levels show, may overlook something.
TwinsAgree ==
    [][ (/\ Alike
         /\ last'.id # last.id
         /\ last'.kind.quantity <= MaxQuantity
         /\ last'.kind.tif = "FOK"
                => /\ \A o \in Rust!OrdersIn(rustBook) : ~o.hidden
                   /\ \A side \in {"buy", "sell"} :
                          Cardinality(DOMAIN rustBook.levels[side]) <= Depth) => Alike' ]_vars
=============================================================================
