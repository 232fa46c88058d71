---------------------------- MODULE AbstractBook -----------------------------
(***************************************************************************)
(* What a matching engine promises to traders: price-time priority, trades   *)
(* at the maker's price and within every limit, nothing filled twice, and     *)
(* what a time in force says.  There are no levels, queues, loops or indices  *)
(* here: an order that comes in takes from every order it reaches what those  *)
(* ahead of it leave over, all at once.  A fill-or-kill order may be killed,   *)
(* and an order that only wants to make refused when it would take.           *)
(***************************************************************************)
EXTENDS Integers, FiniteSets, Functions

CONSTANTS
    Kinds,      \* the orders that may come in, but for their ids
    Acceptable, \* those of them that the rules of the market allow
    Ids         \* numbers, given in the order of arrival

VARIABLES
    resting,    \* what waits: id, side, price and remaining quantity
    trades,     \* the trades made so far
    last        \* the kind of the order that came last, and its id

vars == <<resting, trades, last>>

Init == resting = {} /\ trades = {} /\ last.id = 0

Reaches(o, price) ==
    o.type = "market" \/ (IF o.side = "buy" THEN price <= o.price ELSE price >= o.price)

\* Everything an order could trade with.
Reachable(o) == {m \in resting : m.side # o.side /\ Reaches(o, m.price)}

Quantity(S) == SumFunctionOnSet([m \in S |-> m.remaining], S)

\* x goes before y: a better price for whoever takes it, or the same price and earlier.
Ahead(x, y) ==
    \/ IF x.side = "buy" THEN x.price > y.price ELSE x.price < y.price
    \/ x.price = y.price /\ x.id < y.id

\* What o takes from m: what is left of o after everything ahead of m.
Take(o, m) ==
    LET ahead == Quantity({x \in Reachable(o) : Ahead(x, m)})
        left == IF ahead < o.quantity THEN o.quantity - ahead ELSE 0
    IN  IF left < m.remaining THEN left ELSE m.remaining

Left(o) == LET q == Quantity(Reachable(o)) IN IF q < o.quantity THEN o.quantity - q ELSE 0

Trades(o) ==
    {[maker |-> m.id, taker |-> o.id, price |-> m.price, quantity |-> Take(o, m)] :
        m \in {x \in Reachable(o) : Take(o, x) > 0}}

MakersAfter(o) ==
    {m \in {[x EXCEPT !.remaining = @ - (IF x \in Reachable(o) THEN Take(o, x) ELSE 0)]
               : x \in resting} : m.remaining > 0}

Rest(o) ==
    IF Left(o) > 0 /\ o.type = "limit" /\ o.tif \in {"GTC", "PostOnly"}
    THEN {[id |-> o.id, side |-> o.side, price |-> o.price, remaining |-> Left(o)]}
    ELSE {}

Accept(o) ==
    /\ o.tif = "FOK" => Left(o) = 0
    /\ o.tif = "PostOnly" => Reachable(o) = {}
    /\ resting' = MakersAfter(o) \union Rest(o)
    /\ trades' = trades \union Trades(o)

Refuse(o) ==
    /\ o.tif = "FOK" \/ (o.tif = "PostOnly" /\ Reachable(o) # {})
    /\ UNCHANGED <<resting, trades>>

Order(kind, id) ==
    [id |-> id, side |-> kind.side, type |-> kind.type, price |-> kind.price,
     quantity |-> kind.quantity, tif |-> kind.tif]

Arrive(kind, id) ==
    /\ id > last.id
    /\ last' = [id |-> id, kind |-> kind]
    /\ IF kind \in Acceptable
       THEN Accept(Order(kind, id)) \/ Refuse(Order(kind, id))
       ELSE UNCHANGED <<resting, trades>>

Withdraw(m) ==
    /\ resting' = resting \ {m}
    /\ UNCHANGED <<trades, last>>

Next ==
    \/ \E kind \in Kinds, id \in Ids : Arrive(kind, id)
    \/ \E m \in resting : Withdraw(m)

Spec == Init /\ [][Next]_vars
=============================================================================
