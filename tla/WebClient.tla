------------------------------- MODULE WebClient -------------------------------
(***************************************************************************)
(* The trading page: in paper mode orders go to the store's own account,   *)
(* which effects fill when the price moves and save to the browser; live,  *)
(* orders are signed and sent to the server.  The mode is fixed in a       *)
(* behaviour: what the other mode would do is left at rest.                *)
(***************************************************************************)
EXTENDS PaperTrading, TradingFeed

CONSTANTS
  Prices,
  Tickets,            \* orders a user may fill in: market and resting ones
  Pairs,              \* one-cancels-the-other pairs, as two tickets
  Amounts,
  MaxOps, MaxSockets, MaxGiven   \* bounds

\* An order as the form gives it: not named yet, and in no group.
OrderForms ==
  [id : {0}, market : Markets, side : {"buy", "sell"}, type : {"market", "limit", "stopMarket", "stopLimit"},
   price : Nat, stop : Nat, size : Nat \ {0}, leverage : Nat \ {0}, tp : Nat, sl : Nat, group : {0}]

\* The panel lets no limit order without a price through.
Priced(o) == o.type \in {"limit", "stopLimit"} => o.price > 0

ASSUME FormAssumption ==
  /\ Prices \subseteq Nat /\ Amounts \subseteq Int
  /\ Tickets \subseteq {t \in OrderForms : Priced(t)}
  /\ Pairs \subseteq {t \in OrderForms : Priced(t) /\ t.type # "market"}
               \X {t \in OrderForms : Priced(t) /\ t.type # "market"}

VARIABLES
  paperMode,
  mark,               \* the one mark price of the store, 0 before the first
  seen,               \* the price the effects last ran for
  account, saved,     \* the store's account and the browser's copy of it
  ops,                \* what the user has done so far; names the orders
  feed, selected

paperVars == <<mark, seen, account, saved, ops>>
vars == <<paperMode, mark, seen, account, saved, ops, feed, selected>>

Init ==
  /\ paperMode \in BOOLEAN
  /\ mark = 0 /\ seen = 0 /\ account = NewAccount /\ saved = NewAccount /\ ops = 0
  /\ selected \in Markets /\ feed = NewFeed(selected)

(* --- paper mode --- *)

\* A price of any feed: the server's trades and books, or the external stream.
UpdateMarkPrice ==
  /\ paperMode
  /\ mark' \in Prices
  /\ UNCHANGED <<paperMode, seen, account, saved, ops, feed, selected>>

\* After a render the account is saved as it was rendered, then the effects run.
Effects ==
  /\ paperMode
  /\ saved # account \/ seen # mark
  /\ saved' = account /\ seen' = mark
  /\ account' = IF seen = mark \/ mark = 0 THEN account
                ELSE CheckTpSl(FillOrders(account, mark), mark)
  /\ UNCHANGED <<paperMode, mark, ops, feed, selected>>

UserDoes(a) ==
  /\ paperMode /\ ops < MaxOps
  /\ ops' = ops + 1
  /\ account' = a
  /\ UNCHANGED <<paperMode, mark, seen, saved, feed, selected>>

Named(ticket, leg) == [ticket EXCEPT !.id = 2 * ops + leg]

\* Without a mark price an order fills at what stands in the form, 0 for nothing;
\* a book that has a middle has set the mark price (updateOrderbook).
FillPrice(typed) == IF mark > 0 THEN mark ELSE typed

\* Faulty form: an order is taken also when there is no price at all.
SubmitMarketUnpriced ==
  \E t \in Tickets, typed \in Prices \union {0} :
    t.type = "market" /\ UserDoes(MarketOrder(account, t, FillPrice(typed)))

SubmitMarket ==
  \E t \in Tickets, typed \in Prices \union {0} :
    t.type = "market" /\ FillPrice(typed) > 0 /\ UserDoes(MarketOrder(account, t, FillPrice(typed)))

SubmitResting ==
  \E t \in Tickets : t.type # "market" /\ UserDoes(LimitOrder(account, Named(t, 1), mark))

\* The two legs are two orders: one may be refused and the other stay alone.
SubmitOco ==
  \E pair \in Pairs :
    LET Leg(n) == [Named(pair[n], n) EXCEPT !.group = 2 * ops + 1]
    IN UserDoes(LimitOrder(LimitOrder(account, Leg(1), mark), Leg(2), mark))

Cancel == \E i \in DOMAIN account.orders : UserDoes(CancelOrder(account, account.orders[i]))
Close  == \E m \in Markets : mark > 0 /\ account.positions[m].size > 0
                             /\ UserDoes(ClosePosition(account, m, mark))
SetTpSl == \E m \in Markets, tp \in Prices, sl \in Prices :
             account.positions[m].size > 0 /\ UserDoes(UpdateTpSl(account, m, tp, sl))
MoveMoney == \E amount \in Amounts : \/ UserDoes(Deposit(account, amount))
                                     \/ UserDoes(Withdraw(account, amount))
Reset  == UserDoes(NewAccount)

\* The page is opened again: the price is unknown, the account is the saved one.
Reload ==
  /\ paperMode /\ ops < MaxOps
  /\ ops' = ops + 1
  /\ account' = Load(saved) /\ saved' = account' /\ mark' = 0 /\ seen' = 0
  /\ UNCHANGED <<paperMode, feed, selected>>

(* --- live --- *)

FeedStep(c) == /\ ~paperMode
               /\ feed' = c
               /\ UNCHANGED <<paperMode, paperVars>>

SocketOpens == \E i \in DOMAIN feed.sockets :
  /\ feed.sockets[i].state = "connecting" /\ FeedStep(Opens(feed, i)) /\ UNCHANGED selected

SocketCloses == \E i \in DOMAIN feed.sockets :
  /\ feed.sockets[i].state \in {"open", "closing"} /\ FeedStep(Closes(feed, i)) /\ UNCHANGED selected

SocketFails == \E i \in DOMAIN feed.sockets :
  /\ feed.sockets[i].state = "connecting" /\ FeedStep(Fails(feed, i)) /\ UNCHANGED selected

RetryFires ==
  /\ feed.timers # <<>> /\ Len(feed.sockets) < MaxSockets
  /\ FeedStep(Connect([feed EXCEPT !.timers = Tail(@)], Head(feed.timers)))
  /\ UNCHANGED selected

Switch ==
  /\ Len(feed.sockets) < MaxSockets /\ feed.given + 1 < MaxGiven
  /\ selected' \in Markets \ {selected}
  /\ FeedStep(SwitchMarket(feed, selected'))

SubmitLive ==
  /\ Len(feed.signing) < 2 /\ feed.nonce + Len(feed.signing) < MaxGiven
  /\ FeedStep(StartSigning(feed)) /\ UNCHANGED selected

SignatureGiven ==
  /\ feed.signing # <<>> /\ feed.given < MaxGiven
  /\ FeedStep(Signed(feed)) /\ UNCHANGED selected

WindowPasses == /\ feed.count > 0
                /\ FeedStep([feed EXCEPT !.count = 0]) /\ UNCHANGED selected

Next == \/ UpdateMarkPrice \/ Effects \/ SubmitMarket \/ SubmitResting \/ SubmitOco \/ Cancel
        \/ Close \/ SetTpSl \/ MoveMoney \/ Reset \/ Reload
        \/ SocketOpens \/ SocketCloses \/ SocketFails \/ RetryFires \/ Switch
        \/ SubmitLive \/ SignatureGiven \/ WindowPasses

Spec == Init /\ [][Next]_vars

(* --- properties --- *)

MarginOf(a) == SumFunction([m \in Markets |-> a.positions[m].margin])

\* However orders are reserved, merged, reduced, flipped, cancelled in pairs or
\* refused on filling, what is in the account is what it began with and the
\* results less the fees, but for the margins of rests of at most Dust, which
\* go with their positions (paperMarketOrder).  A reset, and a reload that
\* starts over, begin another account.
PaperFundsAccounted ==
  account.wallet + account.balance + MarginOf(account) + ReservedBy(account.orders) + account.dropped
    = InitialWallet + InitialBalance + account.realized - account.charged

\* A reload gives back what was saved as long as there was free money or a
\* position in it: however positions were opened, merged, reduced and flipped,
\* none is ever saved with an entry price that would discard the whole account.
ReloadKeepsPositions ==
  [][Reload /\ ~TakenForEmpty(saved) => account' = saved]_vars

\* The legs of a pair leave the book in the same step, whichever fills, is
\* cancelled or is refused, so that never both are executed.
GroupsLeaveTogether ==
  [][LET Kept == {account'.orders[i].id : i \in DOMAIN account'.orders} IN
     \A i, j \in DOMAIN account.orders :
       LET o == account.orders[i] q == account.orders[j] IN
       o.group # 0 /\ o.group = q.group => (o.id \in Kept <=> q.id \in Kept)]_vars

\* Messages to the server leave in the order they were given, none twice,
\* although sockets are replaced and what was queued leaves with the first to open.
SentInOrder ==
  \A i, j \in DOMAIN feed.sent : i < j => feed.sent[i] < feed.sent[j]
================================================================================
