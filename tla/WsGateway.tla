------------------------------- MODULE WsGateway -------------------------------
(***************************************************************************)
(* api/src/ws/server.ts: the connections of the server, what each has      *)
(* proven and asked to be told, and the orders they place on the engine of *)
(* a market.  A signature is verified while other messages are handled.    *)
(***************************************************************************)
EXTENDS Integers, Sequences, FiniteSets, SequencesExt

CONSTANTS
    Clients,            \* the connections there will be: 1, 2, ...
    Accounts,
    Requests,           \* the orders that are sent: trader, id, terms, and well for their form
    MinSize, LotSize, TickSize, Depth,
    SnapshotDepth,      \* 20: how many levels of a side a snapshot shows
    MaxConnections,
    MaxMessages,        \* MAX_MESSAGES_PER_SEC
    MaxLapses,          \* bound: how many windows of the rate limiter end
    MaxReceived,        \* bound: how many messages are handled
    NoTrader

\* createOrder: all of a new order remains.
ASSUME RequestsAssumption ==
    \A o \in Requests : o.quantity \in Nat /\ o.remaining = o.quantity

VARIABLES
    clients,            \* the clients, of the connections that are open
    gone,               \* the connections that were closed or turned away
    windows,            \* the rate limiter: messages of each connection in its window
    lapses,
    received,
    verifying,          \* signatures being verified
    proven,             \* history: the accounts each connection has proven
    accepted,           \* history: the connection and the order of everything submitted
    seen,               \* the last book each connection was sent
    book, allTrades, result,
    given               \* the trades handed to the pipeline
gatewayVars == <<clients, gone, windows, lapses, received, verifying, proven, accepted, seen,
                 book, allTrades, result, given>>
engineVars == <<book, allTrades, result>>

Engine == INSTANCE ApiMatchingEngine

Better(side, p, q) == IF side = "buy" THEN p > q ELSE p < q

\* topBids, topAsks: the best levels that show anything.
Top(b, side) ==
    LET shown == {p \in DOMAIN b.levels[side] : b.levels[side][p].visible > 0}
    IN  {p \in shown : Cardinality({q \in shown : Better(side, q, p)}) < SnapshotDepth}

\* snapshot: what they show.
Snapshot(b) == [side \in {"buy", "sell"} |-> [p \in Top(b, side) |-> b.levels[side][p].visible]]

GatewayInit ==
    /\ received = 0 /\ clients = <<>> /\ gone = {} /\ windows = [c \in Clients |-> 0] /\ lapses = 0
    /\ verifying = {} /\ proven = [c \in Clients |-> {}] /\ accepted = {}
    /\ seen = [c \in Clients |-> Snapshot(Engine!EmptyBook)]
    /\ Engine!Init
    /\ given = <<>>

Open == DOMAIN clients
With(c, client) == [d \in Open \union {c} |-> IF d = c THEN client ELSE clients[d]]
Without(c) == [d \in Open \ {c} |-> clients[d]]

\* handleConnection: clients are numbered as they come; no more than MaxConnections.
Connects(c) ==
    /\ c = Cardinality(Open \union gone) + 1
    /\ IF Cardinality(Open) >= MaxConnections
       THEN gone' = gone \union {c} /\ UNCHANGED clients
       ELSE /\ clients' = With(c, [trader |-> NoTrader, authenticated |-> FALSE, subscribed |-> FALSE])
            /\ UNCHANGED gone
    /\ UNCHANGED <<windows, lapses, received, verifying, proven, accepted, seen, engineVars, given>>

\* What it was sent, and its window, which a sweep removes, no longer matter.
Closes(c) ==
    /\ c \in Open
    /\ clients' = Without(c)
    /\ gone' = gone \union {c}
    /\ windows' = [windows EXCEPT ![c] = 0]
    /\ seen' = [seen EXCEPT ![c] = Snapshot(Engine!EmptyBook)]
    /\ UNCHANGED <<lapses, received, verifying, proven, accepted, engineVars, given>>

\* RateLimiter: every connection has a window of its own, from its first message on.
Counted(c) ==
    /\ c \in Open
    /\ windows[c] < MaxMessages /\ received < MaxReceived
    /\ received' = received + 1
    /\ windows' = [windows EXCEPT ![c] = @ + 1]

WindowEnds(c) ==
    /\ windows[c] > 0
    /\ lapses < MaxLapses
    /\ lapses' = lapses + 1
    /\ windows' = [windows EXCEPT ![c] = 0]
    /\ UNCHANGED <<received, clients, gone, verifying, proven, accepted, seen, engineVars, given>>

\* Faulty form of Asks: the client counts as its account while the signature is verified.
AsksAndIs(c, a, genuine) ==
    /\ verifying' = verifying \union {[client |-> c, account |-> a, genuine |-> genuine]}
    /\ clients' = [clients EXCEPT ![c].authenticated = TRUE, ![c].trader = a]

\* handleAuthenticate up to its wait, for a message of the last five minutes.
Asks(c, a, genuine) ==
    /\ verifying' = verifying \union {[client |-> c, account |-> a, genuine |-> genuine]}
    /\ UNCHANGED clients

Authenticate(c, a, genuine) ==
    /\ Counted(c)
    /\ Asks(c, a, genuine)
    /\ UNCHANGED <<gone, lapses, proven, accepted, seen, engineVars, given>>

\* The rest of it, whenever the verification ends; the connection may be closed by then.
Verified(v) ==
    /\ verifying' = verifying \ {v}
    /\ clients' = IF v.genuine /\ v.client \in Open
                  THEN [clients EXCEPT ![v.client].authenticated = TRUE,
                                       ![v.client].trader = v.account]
                  ELSE clients
    /\ proven' = IF v.genuine THEN [proven EXCEPT ![v.client] = @ \union {v.account}] ELSE proven
    /\ UNCHANGED <<gone, windows, lapses, received, accepted, seen, engineVars, given>>

\* A subscription to the book is answered with the book.
Subscribe(c) ==
    /\ Counted(c)
    /\ clients' = [clients EXCEPT ![c].subscribed = TRUE]
    /\ seen' = [seen EXCEPT ![c] = Snapshot(book)]
    /\ UNCHANGED <<gone, lapses, verifying, proven, accepted, engineVars, given>>

Unsubscribe(c) ==
    /\ Counted(c)
    /\ clients' = [clients EXCEPT ![c].subscribed = FALSE]
    /\ UNCHANGED <<gone, lapses, verifying, proven, accepted, seen, engineVars, given>>

\* broadcastToChannel, of the book as it is then.
BookSent == seen' = [c \in Clients |-> IF c \in Open /\ clients[c].subscribed
                                       THEN Snapshot(book') ELSE seen[c]]

\* findOrderById finds nothing.
FindOrderById(id) == {}

\* The trades of a submission that are handed to the pipeline.
Queued(trades) == SelectSeq(trades, LAMBDA t : FindOrderById(t.maker) # {})

\* Faulty form of Told: an order that rests without trading is not shown.
ToldOfTrades(trades, status) == trades # <<>>

\* Whether the subscribers are sent the book after a submission.
Told(trades, status) == trades # <<>> \/ status = "open"

\* handleSubmitOrder: for the account of the client, and for an order in good form.
SubmitOrder(c, o) ==
    LET trades == SubSeq(allTrades', Len(allTrades) + 1, Len(allTrades'))
    IN  /\ Counted(c)
        /\ clients[c].authenticated
        /\ o.trader = clients[c].trader /\ o.well
        /\ \A x \in accepted : x.order # o
        /\ Engine!SubmitOrder(o)
        /\ accepted' = accepted \union {[client |-> c, order |-> o]}
        /\ given' = given \o Queued(trades)
        /\ IF Told(trades, result'.status) THEN BookSent ELSE UNCHANGED seen
        /\ UNCHANGED <<clients, gone, lapses, verifying, proven>>

\* handleCancelOrder: of any order on the book, for any authenticated client.
CancelOrder(c, id) ==
    /\ Counted(c)
    /\ clients[c].authenticated
    /\ Engine!CancelOrder(id)
    /\ BookSent
    /\ UNCHANGED <<clients, gone, lapses, verifying, proven, accepted, given>>

GatewayNext ==
    \/ \E c \in Clients :
        \/ Connects(c) \/ Closes(c) \/ WindowEnds(c) \/ Subscribe(c) \/ Unsubscribe(c)
        \/ \E a \in Accounts, genuine \in BOOLEAN : Authenticate(c, a, genuine)
        \/ \E o \in Requests : SubmitOrder(c, o)
        \/ \E o \in Requests : CancelOrder(c, o.id)
    \/ \E v \in verifying : Verified(v)

\* An order reaches the engine only from a connection that has proven, by then, to hold the
\* key of its trader, in whatever order signatures are verified (handleAuthenticate,
\* handleSubmitOrder).
OrdersProven == \A x \in accepted : x.order.trader \in proven[x.client]

\* Who subscribed to the book has been sent the top of the book as it is: no submission or cancellation
\* changes it without a message to them (handleSubmitOrder, handleCancelOrder).
SubscribersSeeTheBook == \A c \in Open : clients[c].subscribed => seen[c] = Snapshot(book)

\* Every trade the engine makes is queued for settlement, as server.ts:409 says of it and
\* pipeline.ts:7-8 of the flow; findOrderById never finds the maker.
MatchedTradesQueued == Len(given) = Len(allTrades)
================================================================================
