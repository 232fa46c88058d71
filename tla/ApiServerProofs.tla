---------------------------- MODULE ApiServerProofs ----------------------------
(***************************************************************************)
(* What the API server keeps, for any trades, traders, orders and          *)
(* connections: the invariants of the settlement pipeline, of the points   *)
(* engine and of the gateway, and that every step of the server keeps them.*)
(***************************************************************************)
EXTENDS ApiServer, SumTheorems, SequenceTheorems, FiniteSetTheorems

-----------------------------------------------------------------------------
(* The invariant of the pipeline *)

Items == [trade : Trades, requeues : Nat]

Distinct(items) == \A i, j \in 1..Len(items) : items[i].trade = items[j].trade => i = j

Flights == [items : Seq(Items), phase : {"submit", "receipt"}, tries : Nat, hash : Nat,
            receipt : {"none", "success", "reverted"}]

Transactions == [trades : SUBSET Trades, hash : Nat]

PipelineTypeOK ==
    /\ pending \in Seq(Items)
    /\ flights \in SUBSET Flights
    /\ queued \in SUBSET Trades /\ IsFiniteSet(queued)
    /\ mempool \in Seq(Transactions)
    /\ sent \in Nat
    /\ settled \in SUBSET Trades

\* No trade waits twice in the queue or in one batch.
BatchesDistinct == Distinct(pending) /\ \A f \in flights : Distinct(f.items)

\* The trades that left because a receipt said that they were executed.
ConfirmedTrades == {t \in DOMAIN ended : ended[t] = "confirmed"}

\* The chain has this transaction, of trades that were queued, under a hash that was given.
SentInDue(tx) == tx.hash \in 1..sent /\ tx.trades \subseteq queued

\* The hash that a batch waits for is that of a transaction with its trades, and a receipt of
\* success says the truth.
Backed(f) ==
    /\ f.hash <= sent
    /\ \A i \in 1..Len(mempool) :
           mempool[i].hash = f.hash => mempool[i].trades = TradesOf(f.items)
    /\ f.receipt = "success" => TradesOf(f.items) \subseteq settled

ReceiptsTrue ==
    /\ \A i \in 1..Len(mempool) : SentInDue(mempool[i])
    /\ \A f \in flights : Backed(f)
    /\ settled \subseteq queued
    /\ ConfirmedTrades \subseteq settled

PipelineInv == PipelineTypeOK /\ BatchesDistinct /\ TradesAccounted /\ ReceiptsTrue

-----------------------------------------------------------------------------
(* The invariant of the points *)

Records == [points : Int, volume : Nat, trades : Nat, streak : Nat, last : Int]

Calls == [trade : Trades, trader : Traders, of : Traders, volume : Nat,
          at : {"load", "save", "history"}, rec : Records, earned : Int]

PointsTypeOK ==
    /\ durable \in BOOLEAN
    /\ DOMAIN store \subseteq Traders
    /\ \A t \in DOMAIN store : store[t] \in Records
    /\ history \in [Traders -> Int]
    /\ DOMAIN referrals \subseteq Traders
    /\ \A t \in DOMAIN referrals : referrals[t] \in Traders \ {t}
    /\ calls \in SUBSET Calls /\ IsFiniteSet(calls)
    /\ today \in Nat

\* The trades of these in which a trader is a side, and its awards that have not loaded its
\* record.
SidedWith(trades, trader) == {t \in trades : trader \in {t.makerTrader, t.takerTrader}}
Awaiting(cs, trader) == {c \in cs : c.trader = trader /\ c.of = trader /\ c.at = "load"}

\* A record of a trader that counts n trades leaves room for the awards still to be made.
Room(cs, trades, trader, n) ==
    n + Cardinality(Awaiting(cs, trader)) <= Cardinality(SidedWith(trades, trader))

\* That holds of the record of every trader, and of every copy that is yet to be saved.
CountsBounded ==
    /\ \A t \in Traders : Room(calls, ConfirmedTrades, t, RecordOf(t).trades)
    /\ \A c \in calls : c.at = "save" => Room(calls, ConfirmedTrades, c.trader, c.rec.trades)

\* There is one award for a side of a trade, of a trade that was confirmed.
OneEach(cs) == \A c, d \in cs : c.trade = d.trade /\ c.of = d.of => c = d
AllDue(cs, trades) ==
    \A c \in cs : c.trade \in trades /\ c.of \in {c.trade.makerTrader, c.trade.takerTrader}
CallsDistinct == OneEach(calls) /\ AllDue(calls, ConfirmedTrades)

PointsInv == PointsTypeOK /\ CallsDistinct /\ CountsBounded /\ PointsExplained

-----------------------------------------------------------------------------
(* The invariant of the gateway *)

\* A connection that counts as authenticated has proven its account.
ClientsProven == \A c \in Open : clients[c].authenticated => clients[c].trader \in proven[c]

\* A sequence, whatever it holds.
IsSequence(s) == \E S : s \in Seq(S)

\* A book has finitely many orders.
Shape(b) == DOMAIN b = {"levels", "index"} /\ IsFiniteSet(DOMAIN b.index)

\* Rounds of matching that made no trade have changed nothing.
Traded(t, b, taker) ==
    /\ IsSequence(t.trades) /\ Shape(t.book)
    /\ t.trades = <<>> => t.book = b /\ t.remaining = taker.remaining

\* What the server knows of a client.
ClientRecords == [trader : Accounts \union {NoTrader}, authenticated : BOOLEAN, subscribed : BOOLEAN]

GatewayTypeOK ==
    /\ Open \subseteq Clients /\ \A c \in Open : clients[c] \in ClientRecords
    /\ verifying \subseteq [client : Clients, account : Accounts, genuine : BOOLEAN]
    /\ proven \in [Clients -> SUBSET Accounts]
    /\ accepted \subseteq [client : Clients, order : Requests]
    /\ DOMAIN seen = Clients
    /\ Shape(book) /\ IsSequence(allTrades)

GatewayInv == GatewayTypeOK /\ ClientsProven /\ OrdersProven /\ SubscribersSeeTheBook

-----------------------------------------------------------------------------
(* What goes back to the queue *)

\* again[i] is what goes back of the first i items.
GoesBack(again, n, items) ==
    again = [i \in 0..n |->
                IF i = 0 THEN <<>>
                ELSE IF items[i].requeues < MaxRequeue
                     THEN Append(again[i - 1], [items[i] EXCEPT !.requeues = @ + 1])
                     ELSE again[i - 1]]

LEMMA GoesBackExists ==
    ASSUME NEW items, NEW n \in Nat
    PROVE  \E again : GoesBack(again, n, items)
<1> DEFINE Next1(r, i) == IF items[i].requeues < MaxRequeue
                          THEN Append(r, [items[i] EXCEPT !.requeues = @ + 1]) ELSE r
           Is(f, m) == f = [i \in 0..m |-> IF i = 0 THEN <<>> ELSE Next1(f[i - 1], i)]
           S == {m \in Nat : \E f : Is(f, m)}
<1>1. 0 \in S
    <2> DEFINE f == [i \in 0..0 |-> <<>>]
    <2>1. \A i \in 0..0 : i = 0
        OBVIOUS
    <2> HIDE DEF Next1
    <2>2. Is(f, 0)
        BY <2>1
    <2> HIDE DEF f, Is
    <2> QED
        BY <2>2
<1>2. ASSUME NEW m \in Nat, m \in S PROVE m + 1 \in S
    <2>1. PICK f : Is(f, m)
        BY <1>2
    <2> HIDE DEF Next1
    <2> DEFINE g == [i \in 0..m + 1 |-> IF i <= m THEN f[i] ELSE Next1(f[m], i)]
    <2>2. ASSUME NEW i \in 0..m PROVE f[i] = IF i = 0 THEN <<>> ELSE Next1(f[i - 1], i)
        BY <2>1
    <2>3. ASSUME NEW i \in 0..m + 1
          PROVE  g[i] = IF i = 0 THEN <<>> ELSE Next1(g[i - 1], i)
        <3>1. CASE i <= m
            <4>1. i \in 0..m
                BY <3>1
            <4>2. g[i] = f[i] /\ (i # 0 => g[i - 1] = f[i - 1])
                BY <4>1
            <4> HIDE DEF g
            <4> QED
                BY <2>2, <4>1, <4>2
        <3>2. CASE i = m + 1
            <4>1. g[i] = Next1(f[m], i) /\ g[i - 1] = f[m] /\ i # 0
                BY <3>2
            <4> HIDE DEF g
            <4> QED
                BY <4>1
        <3> QED
            BY <3>1, <3>2
    <2>4. g = [i \in 0..m + 1 |-> g[i]]
        OBVIOUS
    <2> HIDE DEF g
    <2>5. Is(g, m + 1)
        BY <2>3, <2>4
    <2> HIDE DEF Is
    <2> QED
        BY <2>5
<1> HIDE DEF S
<1>3. n \in S
    BY <1>1, <1>2, NatSets
<1>4. PICK f : Is(f, n)
    BY <1>3 DEF S
<1> QED
    BY <1>4 DEF GoesBack

\* The items r are some of the first m of these, each of them once.
Kept(r, items, m) ==
    /\ r \in Seq(Items)
    /\ Distinct(r)
    /\ \A i \in 1..Len(r) : \E j \in 1..m : r[i].trade = items[j].trade

(* A batch that failed goes back to the queue in part, no trade of it twice. *)
LEMMA PutBackKeeps ==
    ASSUME NEW items \in Seq(Items), Distinct(items)
    PROVE  /\ PutBack(items) \in Seq(Items)
           /\ Distinct(PutBack(items))
           /\ TradesOf(PutBack(items)) \subseteq TradesOf(items)
<1> DEFINE n == Len(items)
           again == CHOOSE f : GoesBack(f, n, items)
           S == {m \in Nat : m <= n => Kept(again[m], items, m)}
<1>1. n \in Nat
    OBVIOUS
<1>2. PutBack(items) = again[n]
    BY DEF PutBack, GoesBack
<1> HIDE DEF n
<1>3. GoesBack(again, n, items)
    BY <1>1, GoesBackExists
<1> HIDE DEF again
<1>4. ASSUME NEW i \in 0..n
      PROVE  again[i] = IF i = 0 THEN <<>>
                        ELSE IF items[i].requeues < MaxRequeue
                             THEN Append(again[i - 1], [items[i] EXCEPT !.requeues = @ + 1])
                             ELSE again[i - 1]
    BY <1>3 DEF GoesBack
<1>5. 0 \in S
    <2>1. 0 \in 0..n
        BY <1>1
    <2>2. again[0] = <<>>
        BY <1>4, <2>1, Zenon
    <2>3. Kept(<<>>, items, 0)
        BY DEF Kept, Distinct
    <2> QED
        BY <2>2, <2>3
<1>6. ASSUME NEW m \in Nat, m \in S PROVE m + 1 \in S
    <2>1. SUFFICES ASSUME m + 1 <= n PROVE Kept(again[m + 1], items, m + 1)
        OBVIOUS
    <2> DEFINE r == again[m]
               x == [items[m + 1] EXCEPT !.requeues = @ + 1]
    <2>2. Kept(r, items, m)
        BY <1>1, <1>6, <2>1
    <2>3. again[m + 1] = IF items[m + 1].requeues < MaxRequeue THEN Append(r, x) ELSE r
        BY <1>1, <1>4, <2>1
    <2>4. items[m + 1] \in Items
        BY <1>1, <2>1 DEF n
    <2>5. x \in Items /\ x.trade = items[m + 1].trade
        BY <2>4 DEF Items
    <2> HIDE DEF r, x
    <2>6. Kept(r, items, m + 1)
        BY <2>2 DEF Kept
    <2>7. Kept(Append(r, x), items, m + 1)
        <3>1. /\ Append(r, x) \in Seq(Items) /\ Len(Append(r, x)) = Len(r) + 1
              /\ \A i \in 1..Len(r) : Append(r, x)[i] = r[i]
              /\ Append(r, x)[Len(r) + 1] = x
              /\ Len(r) \in Nat
            BY <2>2, <2>5 DEF Kept
        <3> DEFINE a == Append(r, x)
        <3> HIDE DEF a
        <3>2. ASSUME NEW i \in 1..Len(r) PROVE r[i].trade # x.trade
            <4>1. PICK j \in 1..m : r[i].trade = items[j].trade
                BY <2>2 DEF Kept
            <4> QED
                BY <1>1, <2>1, <2>5, <4>1 DEF Distinct, n
        <3>3. Distinct(a)
            <4>1. SUFFICES ASSUME NEW i \in 1..Len(a), NEW j \in 1..Len(a), a[i].trade = a[j].trade
                           PROVE  i = j
                BY DEF Distinct
            <4>2. CASE i \in 1..Len(r) /\ j \in 1..Len(r)
                BY <2>2, <3>1, <4>1, <4>2 DEF Kept, Distinct, a
            <4>3. CASE i = Len(r) + 1 /\ j \in 1..Len(r)
                BY <3>1, <3>2, <4>1, <4>3 DEF a
            <4>4. CASE i \in 1..Len(r) /\ j = Len(r) + 1
                BY <3>1, <3>2, <4>1, <4>4 DEF a
            <4>5. i \in 1..Len(r) + 1 /\ j \in 1..Len(r) + 1
                BY <3>1 DEF a
            <4> QED
                BY <3>1, <4>2, <4>3, <4>4, <4>5
        <3>4. ASSUME NEW i \in 1..Len(a) PROVE \E j \in 1..m + 1 : a[i].trade = items[j].trade
            <4>1. CASE i \in 1..Len(r)
                BY <2>2, <3>1, <4>1 DEF Kept, a
            <4>2. CASE i = Len(r) + 1
                BY <2>5, <3>1, <4>2 DEF a
            <4>3. i \in 1..Len(r) + 1
                BY <3>1 DEF a
            <4> QED
                BY <3>1, <4>1, <4>2, <4>3
        <3> QED
            BY <3>1, <3>3, <3>4 DEF Kept, a
    <2> QED
        BY <2>3, <2>6, <2>7
<1> HIDE DEF S
<1>7. n \in S
    BY <1>1, <1>5, <1>6, NatSets
<1>8. Kept(again[n], items, n)
    BY <1>1, <1>7 DEF S
<1>9. DOMAIN items = 1..n /\ DOMAIN again[n] = 1..Len(again[n])
    BY <1>1, <1>8 DEF n, Kept
<1> QED
    BY <1>2, <1>8, <1>9 DEF Kept, TradesOf

-----------------------------------------------------------------------------
(* Where the trades are *)

\* The trades in some batches.
Held(fl) == UNION {TradesOf(f.items) : f \in fl}

\* Every trade of q is once in the queue p, in one batch of fl, or gone, in d.
Accounted(p, fl, q, d) ==
    /\ q = TradesOf(p) \union Held(fl) \union d
    /\ Distinct(p) /\ \A f \in fl : Distinct(f.items)
    /\ \A f, g \in fl : f = g \/ TradesOf(f.items) \intersect TradesOf(g.items) = {}
    /\ \A f \in fl : TradesOf(p) \intersect TradesOf(f.items) = {}
    /\ \A f \in fl : d \intersect TradesOf(f.items) = {}
    /\ d \intersect TradesOf(p) = {}

\* TradesAccounted and BatchesDistinct, of a queue, some batches, and the rest.
InPlace(p, fl, q, d) ==
    /\ q = TradesOf(p) \union Held(fl) \union d
    /\ \A i, j \in DOMAIN p : p[i].trade = p[j].trade => i = j
    /\ \A f, g \in fl : f = g \/ TradesOf(f.items) \intersect TradesOf(g.items) = {}
    /\ TradesOf(p) \intersect Held(fl) = {}
    /\ d \intersect (TradesOf(p) \union Held(fl)) = {}

AllDistinct(p, fl) == Distinct(p) /\ \A f \in fl : Distinct(f.items)

LEMMA AccountedAs ==
    ASSUME NEW p \in Seq(Items), NEW fl, NEW q, NEW d
    PROVE  AllDistinct(p, fl) /\ InPlace(p, fl, q, d) <=> Accounted(p, fl, q, d)
<1>1. DOMAIN p = 1..Len(p)
    OBVIOUS
<1>2. TradesOf(p) \intersect Held(fl) = {}
          <=> \A f \in fl : TradesOf(p) \intersect TradesOf(f.items) = {}
    BY DEF Held
<1>3. d \intersect (TradesOf(p) \union Held(fl)) = {}
          <=> /\ \A f \in fl : d \intersect TradesOf(f.items) = {}
              /\ d \intersect TradesOf(p) = {}
    BY DEF Held
<1>4. (\A i, j \in DOMAIN p : p[i].trade = p[j].trade => i = j) <=> Distinct(p)
    BY <1>1 DEF Distinct
<1> HIDE DEF Distinct
<1> QED
    BY <1>2, <1>3, <1>4 DEF Accounted, AllDistinct, InPlace

LEMMA AccountedIs ==
    /\ pending \in Seq(Items) =>
           (BatchesDistinct /\ TradesAccounted
                <=> Accounted(pending, flights, queued, DOMAIN ended))
    /\ pending' \in Seq(Items) =>
           (BatchesDistinct' /\ TradesAccounted'
                <=> Accounted(pending', flights', queued', DOMAIN ended'))
<1>1. InFlight = Held(flights) /\ InFlight' = Held(flights')
    BY DEF InFlight, Held
<1>2. ASSUME pending \in Seq(Items)
      PROVE  BatchesDistinct /\ TradesAccounted
                 <=> Accounted(pending, flights, queued, DOMAIN ended)
    <2>1. TradesAccounted <=> InPlace(pending, flights, queued, DOMAIN ended)
        BY <1>1 DEF TradesAccounted, InPlace
    <2>2. BatchesDistinct <=> AllDistinct(pending, flights)
        BY DEF BatchesDistinct, AllDistinct
    <2> QED
        BY <1>2, <2>1, <2>2, AccountedAs
<1>3. ASSUME pending' \in Seq(Items)
      PROVE  BatchesDistinct' /\ TradesAccounted'
                 <=> Accounted(pending', flights', queued', DOMAIN ended')
    <2>1. TradesAccounted' <=> InPlace(pending', flights', queued', DOMAIN ended')
        BY <1>1 DEF TradesAccounted, InPlace
    <2>2. BatchesDistinct' <=> AllDistinct(pending', flights')
        BY DEF BatchesDistinct, AllDistinct
    <2> QED
        BY <1>3, <2>1, <2>2, AccountedAs
<1> QED
    BY <1>2, <1>3

\* The trades of two queues in a row.
LEMMA TradesTogether ==
    ASSUME NEW r \in Seq(Items), NEW s \in Seq(Items)
    PROVE  /\ r \o s \in Seq(Items)
           /\ TradesOf(r \o s) = TradesOf(r) \union TradesOf(s)
           /\ Distinct(r) /\ Distinct(s) /\ TradesOf(r) \intersect TradesOf(s) = {}
                  => Distinct(r \o s)
<1> DEFINE w == r \o s
           n == Len(r)
           m == Len(s)
<1>1. /\ w \in Seq(Items) /\ n \in Nat /\ m \in Nat /\ Len(w) = n + m
      /\ DOMAIN w = 1..n + m /\ DOMAIN r = 1..n /\ DOMAIN s = 1..m
      /\ \A i \in 1..n : w[i] = r[i]
      /\ \A i \in 1..m : w[n + i] = s[i]
    OBVIOUS
<1> HIDE DEF w, n, m
<1>2. ASSUME NEW i \in 1..n + m
      PROVE  \/ i \in 1..n /\ w[i] = r[i]
             \/ i - n \in 1..m /\ w[i] = s[i - n]
    <2>1. CASE i <= n
        BY <1>1, <2>1
    <2>2. CASE i > n
        <3>1. i - n \in 1..m /\ n + (i - n) = i
            BY <1>1, <2>2
        <3> QED
            BY <1>1, <3>1
    <2> QED
        BY <1>1, <2>1, <2>2
<1>3. TradesOf(w) = TradesOf(r) \union TradesOf(s)
    <2>1. ASSUME NEW t \in TradesOf(w) PROVE t \in TradesOf(r) \union TradesOf(s)
        <3>1. PICK i \in 1..n + m : t = w[i].trade
            BY <1>1 DEF TradesOf
        <3> QED
            BY <1>1, <1>2, <3>1 DEF TradesOf
    <2>2. ASSUME NEW i \in 1..n PROVE r[i].trade \in TradesOf(w)
        <3>1. i \in 1..n + m
            BY <1>1
        <3> QED
            BY <1>1, <3>1 DEF TradesOf
    <2>3. ASSUME NEW i \in 1..m PROVE s[i].trade \in TradesOf(w)
        <3>1. n + i \in 1..n + m
            BY <1>1
        <3> QED
            BY <1>1, <3>1 DEF TradesOf
    <2>4. TradesOf(r) \subseteq TradesOf(w)
        BY <1>1, <2>2 DEF TradesOf
    <2>5. TradesOf(s) \subseteq TradesOf(w)
        BY <1>1, <2>3 DEF TradesOf
    <2> QED
        BY <2>1, <2>4, <2>5
<1>4. ASSUME Distinct(r), Distinct(s), TradesOf(r) \intersect TradesOf(s) = {}
      PROVE  Distinct(w)
    <2>1. SUFFICES ASSUME NEW i \in 1..n + m, NEW j \in 1..n + m, w[i].trade = w[j].trade
                   PROVE  i = j
        BY <1>1 DEF Distinct
    <2>2. ASSUME NEW k \in 1..n, NEW l \in 1..m PROVE r[k].trade # s[l].trade
        BY <1>1, <1>4 DEF TradesOf
    <2>3. CASE i \in 1..n /\ j \in 1..n
        BY <1>1, <1>4, <2>1, <2>3 DEF Distinct, n
    <2>4. CASE i \in 1..n /\ j - n \in 1..m /\ w[j] = s[j - n]
        BY <1>1, <2>1, <2>2, <2>4
    <2>5. CASE j \in 1..n /\ i - n \in 1..m /\ w[i] = s[i - n]
        BY <1>1, <2>1, <2>2, <2>5
    <2>6. CASE /\ i - n \in 1..m /\ w[i] = s[i - n]
               /\ j - n \in 1..m /\ w[j] = s[j - n]
        <3>1. i - n = j - n
            BY <1>4, <2>1, <2>6 DEF Distinct, m
        <3> QED
            BY <1>1, <3>1
    <2> QED
        BY <1>2, <2>3, <2>4, <2>5, <2>6
<1> QED
    BY <1>1, <1>3, <1>4 DEF w

\* A queue of one.
LEMMA TradesOfOne ==
    ASSUME NEW x \in Items
    PROVE  <<x>> \in Seq(Items) /\ Distinct(<<x>>) /\ TradesOf(<<x>>) = {x.trade}
BY DEF Distinct, TradesOf

LEMMA TradesOfNone == <<>> \in Seq(Items) /\ Distinct(<<>>) /\ TradesOf(<<>>) = {}
BY DEF Distinct, TradesOf

(* A new trade at the end of the queue. *)
LEMMA TradeAdded ==
    ASSUME NEW p \in Seq(Items), NEW fl, NEW q, NEW d, Accounted(p, fl, q, d),
           NEW x \in Items, x.trade \notin q
    PROVE  Append(p, x) \in Seq(Items) /\ Accounted(Append(p, x), fl, q \union {x.trade}, d)
<1>1. Append(p, x) = p \o <<x>>
    OBVIOUS
<1>2. TradesOf(p) \intersect {x.trade} = {} /\ Distinct(p)
    BY DEF Accounted
<1>3. /\ Append(p, x) \in Seq(Items) /\ Distinct(Append(p, x))
      /\ TradesOf(Append(p, x)) = TradesOf(p) \union {x.trade}
    <2> DEFINE s == <<x>>
    <2>1. s \in Seq(Items) /\ Distinct(s) /\ TradesOf(s) = {x.trade}
        BY TradesOfOne
    <2> HIDE DEF s, Distinct
    <2>2. TradesOf(p) \intersect TradesOf(s) = {}
        BY <1>2, <2>1
    <2>3. /\ p \o s \in Seq(Items) /\ TradesOf(p \o s) = TradesOf(p) \union TradesOf(s)
          /\ Distinct(p \o s)
        BY <1>2, <2>1, <2>2, TradesTogether
    <2> QED
        BY <1>1, <2>1, <2>3 DEF s
<1> HIDE DEF Distinct
<1>4. \A f \in fl : x.trade \notin TradesOf(f.items)
    BY DEF Accounted, Held
<1>5. x.trade \notin d
    BY DEF Accounted
<1> QED
    BY <1>3, <1>4, <1>5 DEF Accounted

(* The whole queue becomes a batch. *)
LEMMA QueueTaken ==
    ASSUME NEW p, NEW fl, NEW q, NEW d, Accounted(p, fl, q, d)
    PROVE  Accounted(<<>>, fl \union {Flight(p)}, q, d)
<1>1. Flight(p).items = p
    BY DEF Flight
<1>2. Held(fl \union {Flight(p)}) = Held(fl) \union TradesOf(p)
    BY <1>1 DEF Held
<1> QED
    BY <1>1, <1>2, TradesOfNone DEF Accounted

(* Batches change, but not what is in them. *)
LEMMA BatchesChange ==
    ASSUME NEW p, NEW fl, NEW q, NEW d, Accounted(p, fl, q, d),
           NEW next, DOMAIN next = fl, \A f \in fl : next[f].items = f.items
    PROVE  Accounted(p, {next[f] : f \in fl}, q, d)
<1> DEFINE gl == {next[f] : f \in fl}
<1>1. \A g \in gl : \E f \in fl : g = next[f] /\ g.items = f.items
    OBVIOUS
<1>2. \A f \in fl : \E g \in gl : g.items = f.items
    OBVIOUS
<1>3. \A g, h \in gl : g = h \/ TradesOf(g.items) \intersect TradesOf(h.items) = {}
    BY <1>1 DEF Accounted
<1> HIDE DEF gl
<1>4. Held(fl) = Held(gl)
    BY <1>1, <1>2 DEF Held
<1> QED
    BY <1>1, <1>3, <1>4 DEF Accounted, gl

(* A batch leaves: some of it, r, goes back to the queue, and the rest is gone. *)
LEMMA BatchLeaves ==
    ASSUME NEW p \in Seq(Items), NEW fl, NEW q, NEW d, Accounted(p, fl, q, d),
           NEW f \in fl, NEW r \in Seq(Items), Distinct(r), TradesOf(r) \subseteq TradesOf(f.items)
    PROVE  /\ p \o r \in Seq(Items)
           /\ Accounted(p \o r, fl \ {f}, q, d \union (TradesOf(f.items) \ TradesOf(r)))
<1>1. TradesOf(p) \intersect TradesOf(r) = {} /\ Distinct(p)
    BY DEF Accounted
<1>2. /\ p \o r \in Seq(Items) /\ Distinct(p \o r)
      /\ TradesOf(p \o r) = TradesOf(p) \union TradesOf(r)
    BY <1>1, TradesTogether
<1>3. Held(fl) = Held(fl \ {f}) \union TradesOf(f.items)
    BY DEF Held
<1>4. \A g \in fl \ {f} : TradesOf(g.items) \intersect TradesOf(f.items) = {}
    BY DEF Accounted
<1> HIDE DEF Distinct
<1> QED
    BY <1>2, <1>3, <1>4 DEF Accounted

(* The process dies with all it held. *)
LEMMA AllLost ==
    ASSUME NEW p, NEW fl, NEW q, NEW d, Accounted(p, fl, q, d)
    PROVE  Accounted(<<>>, {}, q, d \union (TradesOf(p) \union Held(fl)))
<1>1. Held({}) = {}
    BY DEF Held
<1> QED
    BY <1>1, TradesOfNone DEF Accounted

-----------------------------------------------------------------------------
(* The steps of the pipeline *)

LEMMA PipelineParts ==
    ASSUME PipelineInv
    PROVE  PipelineTypeOK /\ Accounted(pending, flights, queued, DOMAIN ended) /\ ReceiptsTrue
BY AccountedIs DEF PipelineInv, PipelineTypeOK

LEMMA PipelineWhole ==
    ASSUME PipelineTypeOK', Accounted(pending', flights', queued', DOMAIN ended'), ReceiptsTrue'
    PROVE  PipelineInv'
BY AccountedIs DEF PipelineInv, PipelineTypeOK

LEMMA TradesTyped ==
    ASSUME NEW items \in Seq(Items)
    PROVE  TradesOf(items) \in SUBSET Trades
<1>1. DOMAIN items = 1..Len(items)
    OBVIOUS
<1>2. \A i \in 1..Len(items) : items[i].trade \in Trades
    <2>1. \A i \in 1..Len(items) : items[i] \in Items
        OBVIOUS
    <2> QED
        BY <2>1 DEF Items
<1> QED
    BY <1>1, <1>2 DEF TradesOf

(* It starts with nothing. *)
LEMMA PipelineStarts ==
    ASSUME PipelineInit
    PROVE  PipelineInv
<1> USE DEF PipelineInit
<1>1. IsFiniteSet({})
    BY FS_EmptySet
<1>2. PipelineTypeOK
    BY <1>1 DEF PipelineTypeOK
<1>3. DOMAIN ended = {}
    OBVIOUS
<1>4. Held({}) = {}
    BY DEF Held
<1>5. Accounted(pending, flights, queued, DOMAIN ended)
    BY <1>3, <1>4, TradesOfNone DEF Accounted
<1>6. ReceiptsTrue
    BY <1>3 DEF ReceiptsTrue, ConfirmedTrades
<1> QED
    BY <1>2, <1>5, <1>6, AccountedIs DEF PipelineInv, PipelineTypeOK

LEMMA FlightTyped ==
    ASSUME NEW items \in Seq(Items)
    PROVE  /\ Flight(items) \in Flights
           /\ Flight(items).hash = 0 /\ Flight(items).receipt = "none"
BY DEF Flight, Flights

\* A batch that was not sent waits for no transaction.
LEMMA FreshBacked ==
    ASSUME PipelineTypeOK, ReceiptsTrue, NEW f, f.hash = 0, f.receipt = "none"
    PROVE  Backed(f)
<1>1. \A i \in 1..Len(mempool) : mempool[i].hash # 0
    BY DEF ReceiptsTrue, SentInDue
<1> QED
    BY <1>1 DEF Backed, PipelineTypeOK

\* The chain is as before: what was backed is.
LEMMA BackedStays ==
    ASSUME UNCHANGED chainVars, NEW f, Backed(f)
    PROVE  Backed(f)'
BY DEF Backed, chainVars

(* A trade is queued, and the queue may be taken. *)
LEMMA QueueTradeKeeps ==
    ASSUME PipelineInv, NEW t \in Trades, QueueTrade(t)
    PROVE  PipelineInv' /\ ConfirmedTrades' = ConfirmedTrades
<1> DEFINE x == [trade |-> t, requeues |-> 0]
           items == Append(pending, x)
<1>1. PipelineTypeOK /\ Accounted(pending, flights, queued, DOMAIN ended) /\ ReceiptsTrue
    BY PipelineParts
<1>2. /\ t \notin queued /\ queued' = queued \union {t}
      /\ ended' = ended /\ UNCHANGED chainVars
      /\ \/ pending' = <<>> /\ flights' = flights \union {Flight(items)}
         \/ pending' = items /\ flights' = flights
    BY DEF QueueTrade, Taken
<1>3. x \in Items /\ x.trade = t /\ pending \in Seq(Items)
    BY <1>1 DEF Items, PipelineTypeOK
<1> HIDE DEF x
<1>4. items \in Seq(Items) /\ Accounted(items, flights, queued', DOMAIN ended)
    BY <1>1, <1>2, <1>3, TradeAdded
<1> HIDE DEF items
<1>5. Accounted(pending', flights', queued', DOMAIN ended')
    BY <1>2, <1>4, QueueTaken
<1>6. Flight(items) \in Flights /\ Backed(Flight(items))
    BY <1>1, <1>4, FlightTyped, FreshBacked
<1>7. PipelineTypeOK'
    <2>1. pending' \in Seq(Items) /\ flights' \in SUBSET Flights
        <3>1. flights \in SUBSET Flights
            BY <1>1 DEF PipelineTypeOK
        <3>2. CASE pending' = <<>> /\ flights' = flights \union {Flight(items)}
            BY <1>6, <3>1, <3>2
        <3>3. CASE pending' = items /\ flights' = flights
            BY <1>4, <3>1, <3>3
        <3> QED
            BY <1>2, <3>2, <3>3
    <2>2. queued' \in SUBSET Trades /\ IsFiniteSet(queued')
        BY <1>1, <1>2, FS_AddElement DEF PipelineTypeOK
    <2> QED
        BY <1>1, <1>2, <2>1, <2>2 DEF PipelineTypeOK, chainVars
<1>8. ConfirmedTrades' = ConfirmedTrades
    BY <1>2 DEF ConfirmedTrades
<1>9. ReceiptsTrue'
    <2>1. \A f \in flights' : Backed(f)'
        BY <1>1, <1>2, <1>6, BackedStays DEF ReceiptsTrue
    <2>2. \A i \in 1..Len(mempool') : SentInDue(mempool[i])'
        BY <1>1, <1>2 DEF ReceiptsTrue, SentInDue, chainVars
    <2> QED
        BY <1>1, <1>2, <1>8, <2>1, <2>2 DEF ReceiptsTrue, chainVars
<1> QED
    BY <1>5, <1>7, <1>8, <1>9, PipelineWhole

(* The timer takes the queue. *)
LEMMA FlushTimerKeeps ==
    ASSUME PipelineInv, FlushTimer
    PROVE  PipelineInv' /\ ConfirmedTrades' = ConfirmedTrades
<1>1. PipelineTypeOK /\ Accounted(pending, flights, queued, DOMAIN ended) /\ ReceiptsTrue
    BY PipelineParts
<1>2. /\ pending' = <<>> /\ flights' = flights \union {Flight(pending)}
      /\ queued' = queued /\ ended' = ended /\ UNCHANGED chainVars
    BY DEF FlushTimer, Taken
<1>3. pending \in Seq(Items)
    BY <1>1 DEF PipelineTypeOK
<1>4. Accounted(pending', flights', queued', DOMAIN ended')
    BY <1>1, <1>2, QueueTaken
<1>5. Flight(pending) \in Flights /\ Backed(Flight(pending))
    BY <1>1, <1>3, FlightTyped, FreshBacked
<1>6. PipelineTypeOK'
    BY <1>1, <1>2, <1>5 DEF PipelineTypeOK, chainVars
<1>7. ConfirmedTrades' = ConfirmedTrades
    BY <1>2 DEF ConfirmedTrades
<1>8. ReceiptsTrue'
    <2>1. \A f \in flights' : Backed(f)'
        BY <1>1, <1>2, <1>5, BackedStays DEF ReceiptsTrue
    <2> QED
        BY <1>1, <1>2, <1>7, <2>1 DEF ReceiptsTrue, SentInDue, chainVars
<1> QED
    BY <1>4, <1>6, <1>7, <1>8, PipelineWhole

\* None of these trades has left.
Here(trades) == trades \intersect DOMAIN ended = {}

\* What leaves for a reason is gone, and confirmed if that is the reason.
Gone(trades, how) ==
    /\ DOMAIN ended' = DOMAIN ended \union trades
    /\ ConfirmedTrades' = IF how = "confirmed" THEN ConfirmedTrades \union trades
                          ELSE ConfirmedTrades

LEMMA EndedGrows ==
    ASSUME NEW trades, NEW how, ended' = Ended(trades, how), Here(trades)
    PROVE  Gone(trades, how)
<1>1. /\ DOMAIN ended' = DOMAIN ended \union trades
      /\ \A t \in DOMAIN ended \union trades : ended'[t] = IF t \in trades THEN how ELSE ended[t]
    BY DEF Ended
<1>2. ConfirmedTrades' = {t \in DOMAIN ended' : ended'[t] = "confirmed"}
    BY DEF ConfirmedTrades
<1>3. \A t \in trades : t \notin DOMAIN ended
    BY DEF Here
<1>4. CASE how = "confirmed"
    BY <1>1, <1>2, <1>3, <1>4 DEF ConfirmedTrades, Gone
<1>5. CASE how # "confirmed"
    BY <1>1, <1>2, <1>3, <1>5 DEF ConfirmedTrades, Gone
<1> QED
    BY <1>4, <1>5

\* A batch goes on with the same trades.
LEMMA BecomesKeeps ==
    ASSUME Accounted(pending, flights, queued, DOMAIN ended), NEW f \in flights,
           NEW g, g.items = f.items, Becomes(f, g), UNCHANGED <<pending, queued, ended>>
    PROVE  Accounted(pending', flights', queued', DOMAIN ended')
<1> DEFINE next == [h \in flights |-> IF h = f THEN g ELSE h]
<1>1. DOMAIN next = flights /\ \A h \in flights : next[h].items = h.items
    OBVIOUS
<1>2. {next[h] : h \in flights} = (flights \ {f}) \union {g}
    OBVIOUS
<1> HIDE DEF next
<1>3. Accounted(pending, {next[h] : h \in flights}, queued, DOMAIN ended)
    BY <1>1, BatchesChange
<1> QED
    BY <1>2, <1>3 DEF Becomes

\* A batch that is given up goes back in part, and the rest is dropped.
LEMMA GivesUpKeeps ==
    ASSUME PipelineTypeOK, Accounted(pending, flights, queued, DOMAIN ended),
           NEW f \in flights, GivesUp(f), queued' = queued
    PROVE  /\ pending' \in Seq(Items) /\ flights' = flights \ {f}
           /\ Accounted(pending', flights', queued', DOMAIN ended')
           /\ ConfirmedTrades' = ConfirmedTrades
<1> DEFINE again == PutBack(f.items)
           dropped == TradesOf(f.items) \ TradesOf(again)
<1>1. /\ flights' = flights \ {f} /\ pending' = pending \o again
      /\ ended' = Ended(dropped, "dropped")
    BY DEF GivesUp, Leaves
<1>2. /\ pending \in Seq(Items) /\ f.items \in Seq(Items) /\ Distinct(f.items)
      /\ DOMAIN ended \intersect TradesOf(f.items) = {}
    BY DEF PipelineTypeOK, Flights, Accounted
<1>3. again \in Seq(Items) /\ Distinct(again) /\ TradesOf(again) \subseteq TradesOf(f.items)
    BY <1>2, PutBackKeeps
<1> HIDE DEF again
<1>4. DOMAIN ended' = DOMAIN ended \union dropped /\ ConfirmedTrades' = ConfirmedTrades
    <2>1. Here(dropped)
        BY <1>2 DEF Here
    <2> HIDE DEF dropped
    <2>2. Gone(dropped, "dropped")
        BY <1>1, <2>1, EndedGrows
    <2> QED
        BY <2>2 DEF Gone
<1>5. /\ pending \o again \in Seq(Items)
      /\ Accounted(pending \o again, flights \ {f}, queued, DOMAIN ended \union dropped)
    BY <1>2, <1>3, BatchLeaves
<1> QED
    BY <1>1, <1>4, <1>5

\* What a failure leaves of the batches is like what they were.
Likewise(g, h) == g.items = h.items /\ g.hash = h.hash /\ g.receipt = h.receipt

LEMMA ThrowsKeeps ==
    ASSUME PipelineTypeOK, Accounted(pending, flights, queued, DOMAIN ended),
           NEW f \in flights, NEW tries, Throws(f, tries), queued' = queued
    PROVE  /\ pending' \in Seq(Items) /\ flights' \in SUBSET Flights
           /\ Accounted(pending', flights', queued', DOMAIN ended')
           /\ ConfirmedTrades' = ConfirmedTrades
           /\ \A g \in flights' : \E h \in flights : Likewise(g, h)
<1>1. flights \in SUBSET Flights /\ pending \in Seq(Items)
    BY DEF PipelineTypeOK
<1>2. CASE Becomes(f, [f EXCEPT !.tries = @ + 1]) /\ UNCHANGED <<pending, ended>>
    <2> DEFINE g == [f EXCEPT !.tries = @ + 1]
    <2>1. g \in Flights /\ Likewise(g, f)
        BY <1>1 DEF Flights, Likewise
    <2>2. flights' = (flights \ {f}) \union {g}
        BY <1>2 DEF Becomes
    <2> HIDE DEF g
    <2>3. Accounted(pending', flights', queued', DOMAIN ended')
        <3>1. g.items = f.items
            BY <2>1 DEF Likewise
        <3> QED
            BY <1>2, <3>1, BecomesKeeps DEF g
    <2>4. \A h \in flights : Likewise(h, h)
        BY DEF Likewise
    <2> QED
        BY <1>1, <1>2, <2>1, <2>2, <2>3, <2>4 DEF ConfirmedTrades
<1>3. CASE GivesUp(f)
    <2>1. \A h \in flights : Likewise(h, h)
        BY DEF Likewise
    <2>2. /\ pending' \in Seq(Items) /\ flights' = flights \ {f}
          /\ Accounted(pending', flights', queued', DOMAIN ended')
          /\ ConfirmedTrades' = ConfirmedTrades
        BY <1>3, GivesUpKeeps
    <2> QED
        BY <1>1, <2>1, <2>2
<1> QED
    BY <1>2, <1>3 DEF Throws

\* What becomes of the truth of the receipts when a batch is sent.
LEMMA SendsKeeps ==
    ASSUME PipelineTypeOK, ReceiptsTrue, Accounted(pending, flights, queued, DOMAIN ended),
           NEW f \in flights, Sends(f), queued' = queued
    PROVE  /\ mempool' \in Seq(Transactions) /\ sent' = sent + 1 /\ settled' = settled
           /\ \A i \in 1..Len(mempool') : SentInDue(mempool[i])'
           /\ \A g \in Flights : Backed(g) => Backed(g)'
           /\ \A g \in Flights : g.hash = sent + 1 /\ g.items = f.items /\ g.receipt = f.receipt
                                     => Backed(g)'
<1> DEFINE tx == [trades |-> TradesOf(f.items), hash |-> sent + 1]
<1>1. sent' = sent + 1 /\ settled' = settled /\ mempool' = Append(mempool, tx)
    BY DEF Sends
<1>2. /\ mempool \in Seq(Transactions) /\ sent \in Nat /\ f \in Flights /\ f.items \in Seq(Items)
      /\ Backed(f)
    BY DEF PipelineTypeOK, Flights, ReceiptsTrue
<1>3. tx \in Transactions /\ tx.trades = TradesOf(f.items) /\ tx.hash = sent + 1
    BY <1>2, TradesTyped DEF Transactions
<1> HIDE DEF tx
<1>4. /\ mempool' \in Seq(Transactions) /\ Len(mempool) \in Nat
      /\ Len(mempool') = Len(mempool) + 1 /\ mempool'[Len(mempool) + 1] = tx
      /\ \A i \in 1..Len(mempool) : mempool'[i] = mempool[i]
    BY <1>1, <1>2, <1>3
<1>5. \A i \in 1..Len(mempool') : i \in 1..Len(mempool) \/ i = Len(mempool) + 1
    BY <1>4
<1>6. \A i \in 1..Len(mempool') : SentInDue(mempool[i])'
    <2>1. tx.trades \subseteq queued
        BY <1>3 DEF Accounted, Held
    <2>2. \A i \in 1..Len(mempool) : mempool[i].hash \in 1..sent /\ mempool[i].trades \subseteq queued
        BY DEF ReceiptsTrue, SentInDue
    <2>3. \A i \in 1..Len(mempool') :
              mempool'[i].hash \in 1..sent + 1 /\ mempool'[i].trades \subseteq queued
        BY <1>2, <1>3, <1>4, <1>5, <2>1, <2>2
    <2> QED
        BY <1>1, <2>3 DEF SentInDue
<1>7. ASSUME NEW g \in Flights, Backed(g) PROVE Backed(g)'
    <2>1. /\ g.hash \in Nat /\ g.hash <= sent
          /\ \A i \in 1..Len(mempool) :
                 mempool[i].hash = g.hash => mempool[i].trades = TradesOf(g.items)
          /\ g.receipt = "success" => TradesOf(g.items) \subseteq settled
        BY <1>7 DEF Flights, Backed
    <2>2. g.hash # sent + 1 /\ g.hash <= sent + 1
        BY <1>2, <2>1
    <2> QED
        BY <1>1, <1>3, <1>4, <1>5, <2>1, <2>2 DEF Backed
<1>8. ASSUME NEW g \in Flights, g.hash = sent + 1, g.items = f.items, g.receipt = f.receipt
      PROVE  Backed(g)'
    <2>1. \A i \in 1..Len(mempool) : mempool[i].hash # sent + 1
        BY <1>2 DEF ReceiptsTrue, SentInDue
    <2>2. f.receipt = "success" => TradesOf(f.items) \subseteq settled
        BY <1>2 DEF Backed
    <2>3. sent + 1 <= sent + 1
        BY <1>2
    <2> QED
        BY <1>1, <1>3, <1>4, <1>5, <1>8, <2>1, <2>2, <2>3 DEF Backed
<1> QED
    BY <1>1, <1>4, <1>6, <1>7, <1>8

(* A batch is sent, and the answer of the node comes. *)
LEMMA SubmitSentKeeps ==
    ASSUME PipelineInv, NEW f \in flights, SubmitSent(f)
    PROVE  PipelineInv' /\ ConfirmedTrades' = ConfirmedTrades
<1>0. PICK g : g = [f EXCEPT !.phase = "receipt", !.tries = 0, !.hash = sent + 1]
    OBVIOUS
<1>1. PipelineTypeOK /\ Accounted(pending, flights, queued, DOMAIN ended) /\ ReceiptsTrue
    BY PipelineParts
<1>2. Sends(f) /\ Becomes(f, g) /\ UNCHANGED <<pending, queued, ended>>
    BY <1>0 DEF SubmitSent
<1>3. flights \in SUBSET Flights /\ sent \in Nat
    BY <1>1 DEF PipelineTypeOK
<1>4. g \in Flights /\ g.items = f.items /\ g.hash = sent + 1 /\ g.receipt = f.receipt
    <2> DEFINE a == [f EXCEPT !.phase = "receipt"]
               b == [a EXCEPT !.tries = 0]
    <2>1. a \in Flights /\ a.items = f.items /\ a.receipt = f.receipt
        BY <1>3 DEF Flights
    <2> HIDE DEF a
    <2>2. b \in Flights /\ b.items = f.items /\ b.receipt = f.receipt
        BY <2>1 DEF Flights
    <2>3. g = [b EXCEPT !.hash = sent + 1]
        BY <1>0 DEF a
    <2> HIDE DEF b
    <2> QED
        BY <1>3, <2>2, <2>3 DEF Flights
<1>5. flights' = (flights \ {f}) \union {g}
    BY <1>2 DEF Becomes
<1>6. Accounted(pending', flights', queued', DOMAIN ended')
    BY <1>1, <1>2, <1>4, BecomesKeeps
<1>7. /\ mempool' \in Seq(Transactions) /\ sent' = sent + 1 /\ settled' = settled
      /\ \A i \in 1..Len(mempool') : SentInDue(mempool[i])'
      /\ \A h \in flights' : Backed(h)'
    <2>1. /\ mempool' \in Seq(Transactions) /\ sent' = sent + 1 /\ settled' = settled
          /\ \A i \in 1..Len(mempool') : SentInDue(mempool[i])'
          /\ \A h \in Flights : Backed(h) => Backed(h)'
          /\ Backed(g)'
        BY <1>1, <1>2, <1>4, SendsKeeps
    <2>2. \A h \in flights : Backed(h)
        BY <1>1 DEF ReceiptsTrue
    <2> QED
        BY <1>3, <1>5, <2>1, <2>2
<1>8. ConfirmedTrades' = ConfirmedTrades
    BY <1>2 DEF ConfirmedTrades
<1>9. PipelineTypeOK'
    BY <1>1, <1>2, <1>3, <1>4, <1>5, <1>7 DEF PipelineTypeOK
<1>10. ReceiptsTrue'
    BY <1>1, <1>2, <1>7, <1>8 DEF ReceiptsTrue
<1> QED
    BY <1>6, <1>8, <1>9, <1>10, PipelineWhole

\* Batches that are like those before are backed as they were.
LEMMA LikewiseBacked ==
    ASSUME NEW g, NEW h, Likewise(g, h), Backed(h)'
    PROVE  Backed(g)'
BY DEF Likewise, Backed

(* It is sent, and the answer is lost. *)
LEMMA SubmitAnswerLostKeeps ==
    ASSUME PipelineInv, NEW f \in flights, SubmitAnswerLost(f)
    PROVE  PipelineInv' /\ ConfirmedTrades' = ConfirmedTrades
<1>1. PipelineTypeOK /\ Accounted(pending, flights, queued, DOMAIN ended) /\ ReceiptsTrue
    BY PipelineParts
<1>2. Sends(f) /\ Throws(f, SubmitTries) /\ queued' = queued
    BY DEF SubmitAnswerLost
<1>3. /\ pending' \in Seq(Items) /\ flights' \in SUBSET Flights
      /\ Accounted(pending', flights', queued', DOMAIN ended')
      /\ ConfirmedTrades' = ConfirmedTrades
      /\ \A g \in flights' : \E h \in flights : Likewise(g, h)
    BY <1>1, <1>2, ThrowsKeeps
<1>4. /\ mempool' \in Seq(Transactions) /\ sent' = sent + 1 /\ settled' = settled
      /\ \A i \in 1..Len(mempool') : SentInDue(mempool[i])'
      /\ \A h \in Flights : Backed(h) => Backed(h)'
    BY <1>1, <1>2, SendsKeeps
<1>5. PipelineTypeOK'
    BY <1>1, <1>2, <1>3, <1>4 DEF PipelineTypeOK
<1>6. ASSUME NEW g \in flights' PROVE Backed(g)'
    <2>1. PICK h \in flights : Likewise(g, h)
        BY <1>3
    <2>2. Backed(h)'
        BY <1>1, <1>4 DEF ReceiptsTrue, PipelineTypeOK
    <2> QED
        BY <2>1, <2>2, LikewiseBacked
<1>7. ReceiptsTrue'
    BY <1>1, <1>2, <1>3, <1>4, <1>6 DEF ReceiptsTrue
<1> QED
    BY <1>3, <1>5, <1>7, PipelineWhole

\* A call fails and the chain does nothing.
LEMMA FailureKeeps ==
    ASSUME PipelineInv, NEW f \in flights, NEW tries, Throws(f, tries),
           queued' = queued, UNCHANGED chainVars
    PROVE  PipelineInv' /\ ConfirmedTrades' = ConfirmedTrades
<1>1. PipelineTypeOK /\ Accounted(pending, flights, queued, DOMAIN ended) /\ ReceiptsTrue
    BY PipelineParts
<1>2. /\ pending' \in Seq(Items) /\ flights' \in SUBSET Flights
      /\ Accounted(pending', flights', queued', DOMAIN ended')
      /\ ConfirmedTrades' = ConfirmedTrades
      /\ \A g \in flights' : \E h \in flights : Likewise(g, h)
    BY <1>1, ThrowsKeeps
<1>3. PipelineTypeOK'
    BY <1>1, <1>2 DEF PipelineTypeOK, chainVars
<1>4. ASSUME NEW g \in flights' PROVE Backed(g)'
    <2>1. PICK h \in flights : Likewise(g, h)
        BY <1>2
    <2>2. Backed(h)'
        BY <1>1, BackedStays DEF ReceiptsTrue
    <2> QED
        BY <2>1, <2>2, LikewiseBacked
<1>5. ReceiptsTrue'
    BY <1>1, <1>2, <1>4 DEF ReceiptsTrue, SentInDue, chainVars
<1> QED
    BY <1>2, <1>3, <1>5, PipelineWhole

(* The chain executes its next transaction. *)
LEMMA MineKeeps ==
    ASSUME PipelineInv, NEW success \in BOOLEAN, Mine(success)
    PROVE  PipelineInv' /\ ConfirmedTrades' = ConfirmedTrades
<1> DEFINE tx == Head(mempool)
           receipt == IF success THEN "success" ELSE "reverted"
<1>0. PICK next : next = [f \in flights |-> IF f.hash = tx.hash
                                             THEN [f EXCEPT !.receipt = receipt] ELSE f]
    OBVIOUS
<1>1. PipelineTypeOK /\ Accounted(pending, flights, queued, DOMAIN ended) /\ ReceiptsTrue
    BY PipelineParts
<1>2. /\ mempool # <<>> /\ mempool' = Tail(mempool)
      /\ settled' = IF success THEN settled \union tx.trades ELSE settled
      /\ UNCHANGED <<pending, queued, ended, sent>>
    BY DEF Mine
<1>3. flights' = {next[f] : f \in flights}
    BY <1>0 DEF Mine
<1>4. /\ mempool \in Seq(Transactions) /\ flights \in SUBSET Flights /\ settled \in SUBSET Trades
    BY <1>1 DEF PipelineTypeOK
<1>5. /\ mempool' \in Seq(Transactions) /\ Len(mempool) \in Nat /\ 1 \in 1..Len(mempool)
      /\ tx = mempool[1] /\ tx \in Transactions
      /\ \A i \in 1..Len(mempool') : i + 1 \in 1..Len(mempool) /\ mempool'[i] = mempool[i + 1]
    BY <1>2, <1>4
<1>6. SentInDue(tx)
    BY <1>1, <1>5 DEF ReceiptsTrue
<1> HIDE DEF tx
<1>7. receipt \in {"none", "success", "reverted"} /\ (receipt = "success" => success)
    OBVIOUS
<1>8. ASSUME NEW f \in flights
      PROVE  /\ next[f] \in Flights /\ next[f].items = f.items /\ next[f].hash = f.hash
             /\ next[f].receipt = IF f.hash = tx.hash THEN receipt ELSE f.receipt
    <2>1. f \in Flights
        BY <1>4
    <2>2. next[f] = IF f.hash = tx.hash THEN [f EXCEPT !.receipt = receipt] ELSE f
        BY <1>0
    <2> HIDE DEF receipt
    <2>3. CASE f.hash = tx.hash
        <3>1. next[f] = [f EXCEPT !.receipt = receipt]
            BY <2>2, <2>3
        <3> QED
            BY <1>7, <2>1, <2>3, <3>1 DEF Flights
    <2>4. CASE f.hash # tx.hash
        <3>1. next[f] = f
            BY <2>2, <2>4
        <3> QED
            BY <2>1, <2>4, <3>1
    <2> QED
        BY <2>3, <2>4
<1>9. DOMAIN next = flights
    BY <1>0
<1> HIDE DEF receipt
<1>10. Accounted(pending', flights', queued', DOMAIN ended')
    <2>1. \A f \in flights : next[f].items = f.items
        BY <1>8
    <2> QED
        BY <1>1, <1>2, <1>3, <1>9, <2>1, BatchesChange
<1>11. PipelineTypeOK'
    <2>1. flights' \in SUBSET Flights
        BY <1>3, <1>8
    <2>2. settled' \in SUBSET Trades
        BY <1>2, <1>4, <1>5 DEF Transactions
    <2> QED
        BY <1>1, <1>2, <1>5, <2>1, <2>2 DEF PipelineTypeOK
<1>12. ConfirmedTrades' = ConfirmedTrades
    BY <1>2 DEF ConfirmedTrades
<1>13. ASSUME NEW f \in flights PROVE Backed(next[f])'
    <2>1. /\ f.hash <= sent
          /\ \A i \in 1..Len(mempool) :
                 mempool[i].hash = f.hash => mempool[i].trades = TradesOf(f.items)
          /\ f.receipt = "success" => TradesOf(f.items) \subseteq settled
        BY <1>1 DEF ReceiptsTrue, Backed
    <2>2. next[f].receipt = "success" => TradesOf(f.items) \subseteq settled'
        <3>1. CASE f.hash = tx.hash
            BY <1>2, <1>5, <1>7, <1>8, <2>1, <3>1
        <3>2. CASE f.hash # tx.hash
            BY <1>2, <1>8, <2>1, <3>2
        <3> QED
            BY <3>1, <3>2
    <2>3. \A i \in 1..Len(mempool') :
              mempool'[i].hash = f.hash => mempool'[i].trades = TradesOf(f.items)
        BY <1>5, <2>1
    <2> QED
        BY <1>2, <1>8, <2>1, <2>2, <2>3 DEF Backed
<1>14. ReceiptsTrue'
    <2>1. \A f \in flights' : Backed(f)'
        BY <1>3, <1>13
    <2>2. \A i \in 1..Len(mempool') : SentInDue(mempool[i])'
        BY <1>1, <1>2, <1>5 DEF ReceiptsTrue, SentInDue
    <2>3. settled' \subseteq queued' /\ ConfirmedTrades' \subseteq settled'
        BY <1>1, <1>2, <1>6, <1>12 DEF ReceiptsTrue, SentInDue
    <2> QED
        BY <2>1, <2>2, <2>3 DEF ReceiptsTrue
<1> QED
    BY <1>10, <1>11, <1>12, <1>14, PipelineWhole

\* A batch leaves with a receipt: what left before is as it was, and no trade had left before.
LEMMA AllGoneKeeps ==
    ASSUME PipelineInv, NEW f \in flights, Leaves(f), NEW how, ended' = Ended(TradesOf(f.items), how),
           UNCHANGED <<pending, queued, chainVars>>,
           how = "confirmed" => f.receipt = "success"
    PROVE  /\ PipelineInv'
           /\ TradesOf(f.items) \intersect DOMAIN ended = {}
           /\ TradesOf(f.items) \in SUBSET Trades
           /\ IF how = "confirmed" THEN ConfirmedTrades' = ConfirmedTrades \union TradesOf(f.items)
              ELSE ConfirmedTrades' = ConfirmedTrades
<1>1. PipelineTypeOK /\ Accounted(pending, flights, queued, DOMAIN ended) /\ ReceiptsTrue
    BY PipelineParts
<1>2. /\ pending \in Seq(Items) /\ f.items \in Seq(Items) /\ flights' = flights \ {f}
      /\ TradesOf(f.items) \intersect DOMAIN ended = {}
    BY <1>1 DEF PipelineTypeOK, Flights, Accounted, Leaves
<1>3. /\ DOMAIN ended' = DOMAIN ended \union TradesOf(f.items)
      /\ IF how = "confirmed" THEN ConfirmedTrades' = ConfirmedTrades \union TradesOf(f.items)
         ELSE ConfirmedTrades' = ConfirmedTrades
    <2>1. Here(TradesOf(f.items))
        BY <1>2 DEF Here
    <2>2. Gone(TradesOf(f.items), how)
        BY <2>1, EndedGrows
    <2> QED
        BY <2>2 DEF Gone
<1>4. Accounted(pending', flights', queued', DOMAIN ended')
    <2>1. Accounted(pending \o <<>>, flights \ {f}, queued,
                    DOMAIN ended \union (TradesOf(f.items) \ TradesOf(<<>>)))
        BY <1>1, <1>2, BatchLeaves, TradesOfNone
    <2>2. pending \o <<>> = pending /\ TradesOf(f.items) \ TradesOf(<<>>) = TradesOf(f.items)
        BY <1>2, TradesOfNone
    <2> QED
        BY <1>2, <1>3, <2>1, <2>2
<1>5. PipelineTypeOK'
    BY <1>1, <1>2 DEF PipelineTypeOK, chainVars
<1>6. ReceiptsTrue'
    <2>1. Backed(f) /\ \A g \in flights' : Backed(g)'
        BY <1>1, <1>2, BackedStays DEF ReceiptsTrue
    <2>2. ConfirmedTrades' \subseteq settled
        BY <1>1, <1>3, <2>1 DEF ReceiptsTrue, Backed
    <2> QED
        BY <1>1, <2>1, <2>2 DEF ReceiptsTrue, SentInDue, chainVars
<1>7. TradesOf(f.items) \in SUBSET Trades
    BY <1>2, TradesTyped
<1> QED
    BY <1>2, <1>3, <1>4, <1>5, <1>6, <1>7, PipelineWhole

(* The process restarts with nothing. *)
LEMMA RestartKeeps ==
    ASSUME PipelineInv, Restart
    PROVE  PipelineInv' /\ ConfirmedTrades' = ConfirmedTrades
<1> DEFINE lost == TradesOf(pending) \union InFlight
<1>1. PipelineTypeOK /\ Accounted(pending, flights, queued, DOMAIN ended) /\ ReceiptsTrue
    BY PipelineParts
<1>2. /\ ended' = Ended(lost, "lost") /\ pending' = <<>> /\ flights' = {}
      /\ queued' = queued /\ UNCHANGED chainVars
    BY DEF Restart
<1>3. lost = TradesOf(pending) \union Held(flights)
    BY DEF InFlight, Held
<1> HIDE DEF lost
<1>4. Here(lost)
    BY <1>1, <1>3 DEF Accounted, Held, Here
<1>5. DOMAIN ended' = DOMAIN ended \union lost /\ ConfirmedTrades' = ConfirmedTrades
    <2>1. Gone(lost, "lost")
        BY <1>2, <1>4, EndedGrows
    <2> QED
        BY <2>1 DEF Gone
<1>6. Accounted(pending', flights', queued', DOMAIN ended')
    BY <1>1, <1>2, <1>3, <1>5, AllLost
<1>7. PipelineTypeOK'
    BY <1>1, <1>2 DEF PipelineTypeOK, chainVars
<1>8. ReceiptsTrue'
    BY <1>1, <1>2, <1>5 DEF ReceiptsTrue, SentInDue, chainVars
<1> QED
    BY <1>5, <1>6, <1>7, <1>8, PipelineWhole

(* Any step of a batch but its confirmation. *)
LEMMA FliesKeeps ==
    ASSUME PipelineInv, NEW f \in flights, Flies(f)
    PROVE  PipelineInv' /\ ConfirmedTrades' = ConfirmedTrades
<1>1. CASE SubmitSent(f)
    BY <1>1, SubmitSentKeeps
<1>2. CASE SubmitAnswerLost(f)
    BY <1>2, SubmitAnswerLostKeeps
<1>3. CASE SubmitRefused(f)
    BY <1>3, FailureKeeps DEF SubmitRefused
<1>4. CASE Reverted(f)
    <2>1. Leaves(f) /\ ended' = Ended(TradesOf(f.items), "reverted")
          /\ UNCHANGED <<pending, queued, chainVars>>
        BY <1>4 DEF Reverted
    <2>2. "reverted" # "confirmed"
        OBVIOUS
    <2> QED
        BY <2>1, <2>2, AllGoneKeeps
<1>5. CASE ReceiptLate(f)
    BY <1>5, FailureKeeps DEF ReceiptLate
<1> QED
    BY <1>1, <1>2, <1>3, <1>4, <1>5 DEF Flies

-----------------------------------------------------------------------------
(* Sums over the awards *)

\* What the awards of S have earned, and that they have earned whole amounts.
Worth(S) == [c \in S |-> c.earned]
EarnedBy(S) == SumOver(Worth(S), S)
Earning(S) == IsFiniteSet(S) /\ \A c \in S : c.earned \in Int

LEMMA EarningWeighs ==
    ASSUME NEW S, Earning(S), NEW T \in SUBSET S
    PROVE  /\ Earning(T) /\ Weighs(Worth(S), T) /\ IsFiniteSet(T)
           /\ SumOver(Worth(S), T) = EarnedBy(T) /\ EarnedBy(T) \in Int
<1>1. IsFiniteSet(T) /\ \A c \in T : c.earned \in Int
    BY FS_Subset DEF Earning
<1>2. \A c \in T : Worth(S)[c] = c.earned /\ Worth(T)[c] = c.earned
    BY DEF Worth
<1>3. Weighs(Worth(S), T)
    BY <1>1, <1>2 DEF Weighs
<1>4. SumOver(Worth(S), T) = SumOver(Worth(T), T)
    BY <1>1, <1>2, SumsAgree
<1> QED
    BY <1>1, <1>3, <1>4, SumOverInt DEF Earning, EarnedBy

LEMMA EarnedNone == EarnedBy({}) = 0
BY SumOfNone DEF EarnedBy

\* One award less, and one more.
LEMMA EarnedTakesOut ==
    ASSUME NEW S, Earning(S), NEW y \in S
    PROVE  EarnedBy(S) = y.earned + EarnedBy(S \ {y})
<1>1. Weighs(Worth(S), S) /\ EarnedBy(S) = SumOver(Worth(S), S)
    BY EarningWeighs
<1>2. EarnedBy(S \ {y}) = SumOver(Worth(S), S \ {y})
    BY EarningWeighs
<1>3. TakenOut(Worth(S), S, y)
    BY <1>1, SumTakesOut
<1>4. Worth(S)[y] = y.earned
    BY DEF Worth
<1> QED
    BY <1>1, <1>2, <1>3, <1>4 DEF TakenOut

LEMMA EarnedGrows ==
    ASSUME NEW S, NEW y, Earning(S), y \notin S, y.earned \in Int
    PROVE  Earning(S \union {y}) /\ EarnedBy(S \union {y}) = y.earned + EarnedBy(S)
<1>1. Earning(S \union {y})
    BY FS_AddElement DEF Earning
<1>2. y \in S \union {y} /\ (S \union {y}) \ {y} = S
    OBVIOUS
<1> QED
    BY <1>1, <1>2, EarnedTakesOut

\* What is on its way is such a sum, of these awards.
Waiting(cs, trader) == {c \in cs : c.trader = trader /\ c.at \in {"save", "history"}}

LEMMA OnTheWayIs ==
    ASSUME NEW trader
    PROVE  /\ OnTheWay(trader) = EarnedBy(Waiting(calls, trader))
           /\ OnTheWay(trader)' = EarnedBy(Waiting(calls', trader))
<1> DEFINE Adds(h, S) ==
               h = [s \in SUBSET S |->
                       IF s = {} THEN 0
                       ELSE LET x == CHOOSE c \in s : TRUE IN x.earned + h[s \ {x}]]
<1>1. ASSUME NEW S PROVE EarnedBy(S) = LET h == CHOOSE h : Adds(h, S) IN h[S]
    <2>1. ASSUME NEW h PROVE Adds(h, S) <=> AddsUp(h, Worth(S), S)
        <3>1. ASSUME NEW s \in SUBSET S, s # {}
              PROVE  Worth(S)[CHOOSE c \in s : TRUE] = (CHOOSE c \in s : TRUE).earned
            BY <3>1 DEF Worth
        <3> QED
            BY <3>1 DEF AddsUp
    <2> HIDE DEF Adds
    <2> QED
        BY <2>1 DEF EarnedBy, SumOver
<1>2. OnTheWay(trader) = EarnedBy(Waiting(calls, trader))
    BY <1>1 DEF OnTheWay, MapThenFoldSet, Waiting
<1>3. OnTheWay(trader)' = EarnedBy(Waiting(calls', trader))
    BY <1>1 DEF OnTheWay, MapThenFoldSet, Waiting
<1> QED
    BY <1>2, <1>3

-----------------------------------------------------------------------------
(* What a trade makes of a record *)

(* A finite set of natural numbers has a largest. *)
LEMMA LargestExists ==
    ASSUME NEW S, S \subseteq Nat, IsFiniteSet(S), S # {}
    PROVE  Max(S) \in S
<1> DEFINE Has(T) == \E m \in T : \A y \in T : m >= y
           N == {n \in Nat : \A T : T \subseteq Nat /\ IsFiniteSet(T) /\ T # {} /\ Cardinality(T) = n
                                       => Has(T)}
<1>1. 0 \in N
    BY FS_EmptySet
<1>2. ASSUME NEW n \in Nat, n \in N PROVE n + 1 \in N
    <2>1. ASSUME NEW T, T \subseteq Nat, IsFiniteSet(T), T # {}, Cardinality(T) = n + 1 PROVE Has(T)
        <3>1. PICK x \in T : TRUE
            BY <2>1
        <3>2. IsFiniteSet(T \ {x}) /\ Cardinality(T \ {x}) = n /\ T \ {x} \subseteq Nat
            <4>1. IsFiniteSet(T \ {x}) /\ Cardinality(T \ {x}) = Cardinality(T) - 1
                BY <2>1, OneLess
            <4> QED
                BY <2>1, <4>1
        <3>3. CASE T \ {x} = {}
            <4>1. T = {x} /\ x \in Nat
                BY <2>1, <3>3
            <4> QED
                BY <4>1
        <3>4. CASE T \ {x} # {}
            <4>1. Has(T \ {x})
                <5> HIDE DEF Has
                <5> QED
                    BY <1>2, <3>2, <3>4
            <4>2. PICK m \in T \ {x} : \A y \in T \ {x} : m >= y
                BY <4>1
            <4>3. CASE m >= x
                BY <4>2, <4>3
            <4>4. CASE x >= m
                BY <2>1, <4>2, <4>4
            <4> QED
                BY <2>1, <4>2, <4>3, <4>4
        <3> QED
            BY <3>3, <3>4
    <2> HIDE DEF Has
    <2> QED
        BY <2>1
<1> HIDE DEF N
<1>3. Cardinality(S) \in N
    BY <1>1, <1>2, NatSets, FS_CardinalityType
<1>4. Has(S)
    BY <1>3 DEF N
<1> QED
    BY <1>4 DEF Max

LEMMA LesserOfTwo ==
    ASSUME NEW a \in Nat, NEW b \in Nat
    PROVE  Min({a, b}) \in Nat
<1>1. \E x \in {a, b} : \A y \in {a, b} : x =< y
    OBVIOUS
<1>2. Min({a, b}) \in {a, b}
    BY <1>1 DEF Min
<1> QED
    BY <1>2

LEMMA TierIsNat ==
    ASSUME NEW volume \in Nat
    PROVE  Tier(volume) \in Nat
<1> DEFINE reached == {u \in Tiers : volume >= u[1]}
           rates == {t[2] : t \in reached}
           f == [t \in reached |-> t[2]]
<1>1. IsFiniteSet(reached) /\ reached # {} /\ \A t \in reached : t[2] \in Nat
    <2>1. reached \in SUBSET Tiers /\ IsFiniteSet(Tiers)
        BY PointsAssumption
    <2>2. PICK t \in Tiers : t[1] = 0
        BY PointsAssumption
    <2>3. t \in reached
        BY <2>2
    <2>4. ASSUME NEW u \in reached PROVE u[2] \in Nat
        BY PointsAssumption
    <2> HIDE DEF reached
    <2> QED
        BY <2>1, <2>3, <2>4, FS_Subset
<1> HIDE DEF reached
<1>2. f \in Surjection(reached, rates)
    BY DEF Surjection
<1>3. rates \subseteq Nat /\ rates # {}
    BY <1>1
<1> HIDE DEF f
<1>4. IsFiniteSet(rates)
    <2> HIDE DEF rates
    <2> QED
        BY <1>1, <1>2, FS_Surjection
<1>5. Max(rates) \in rates
    <2> HIDE DEF rates
    <2> QED
        BY <1>3, <1>4, LargestExists
<1>6. Max(rates) = Tier(volume)
    BY DEF Tier, reached
<1> QED
    BY <1>3, <1>5, <1>6

LEMMA RecordGrows ==
    ASSUME NEW rec \in Records, NEW volume \in Nat, today \in Nat
    PROVE  /\ WithTrade(rec, volume) \in Records
           /\ WithTrade(rec, volume).trades = rec.trades + 1
<1>1. rec.points \in Int /\ rec.volume \in Nat /\ rec.trades \in Nat /\ rec.streak \in Nat /\ rec.last \in Int
    BY DEF Records
<1>2. rec.volume + volume \in Nat
    BY <1>1
<1>3. Tier(rec.volume + volume) \in Nat
    BY <1>2, TierIsNat
<1>4. Streak(rec) \in Nat
    BY <1>1, LesserOfTwo, PointsAssumption DEF Streak
<1>5. StreakMultiplier(Streak(rec)) \in Nat
    BY <1>4, LesserOfTwo, PointsAssumption DEF StreakMultiplier
<1>6. rec.points + volume * Tier(rec.volume + volume) * StreakMultiplier(Streak(rec)) * 10 \in Int
    <2> DEFINE a == Tier(rec.volume + volume)
               b == StreakMultiplier(Streak(rec))
    <2>1. a \in Int /\ b \in Int
        BY <1>3, <1>5
    <2> HIDE DEF a, b
    <2>2. volume * a \in Int
        BY <2>1
    <2>3. volume * a * b \in Int
        BY <2>1, <2>2
    <2>4. volume * a * b * 10 \in Int
        BY <2>3
    <2> QED
        BY <1>1, <2>4 DEF a, b
<1> HIDE DEF Tier, Streak, StreakMultiplier
<1> QED
    BY <1>1, <1>2, <1>4, <1>6 DEF WithTrade, Records

-----------------------------------------------------------------------------
(* Room for the awards *)

LEMMA AwaitingFinite ==
    ASSUME NEW cs, IsFiniteSet(cs), NEW trader
    PROVE  /\ IsFiniteSet(Awaiting(cs, trader))
           /\ Cardinality(Awaiting(cs, trader)) \in Nat
<1>1. Awaiting(cs, trader) \in SUBSET cs
    BY DEF Awaiting
<1> QED
    BY <1>1, FS_Subset, FS_CardinalityType

LEMMA SidedFinite ==
    ASSUME NEW trades, IsFiniteSet(trades), NEW trader
    PROVE  /\ IsFiniteSet(SidedWith(trades, trader))
           /\ Cardinality(SidedWith(trades, trader)) \in Nat
<1>1. SidedWith(trades, trader) \in SUBSET trades
    BY DEF SidedWith
<1> QED
    BY <1>1, FS_Subset, FS_CardinalityType

\* No award of a trader waits that did not wait before.
NoMoreWait(cs, ds, trader) ==
    IsFiniteSet(cs) /\ Awaiting(ds, trader) \subseteq Awaiting(cs, trader)

(* Room stays when no more awards wait, and for a record that counts less. *)
LEMMA RoomStays ==
    ASSUME NEW cs, NEW ds, NEW trades, IsFiniteSet(trades), NEW trader,
           NoMoreWait(cs, ds, trader),
           NEW n \in Nat, NEW m \in 0..n, Room(cs, trades, trader, n)
    PROVE  Room(ds, trades, trader, m)
<1>1. Cardinality(Awaiting(ds, trader)) <= Cardinality(Awaiting(cs, trader))
      /\ IsFiniteSet(Awaiting(ds, trader))
    BY AwaitingFinite, FS_Subset DEF NoMoreWait
<1>2. Cardinality(Awaiting(ds, trader)) \in Nat /\ Cardinality(Awaiting(cs, trader)) \in Nat
    BY <1>1, AwaitingFinite, FS_CardinalityType DEF NoMoreWait
<1>3. Cardinality(SidedWith(trades, trader)) \in Nat
    BY SidedFinite
<1> QED
    BY <1>1, <1>2, <1>3 DEF Room

(* An award that waits no longer has had its room. *)
LEMMA RoomUsed ==
    ASSUME NEW cs, NEW ds, NEW trades, IsFiniteSet(trades), NEW trader,
           NoMoreWait(cs, ds, trader),
           NEW c, c \in Awaiting(cs, trader), c \notin Awaiting(ds, trader),
           NEW n \in Nat, Room(cs, trades, trader, n)
    PROVE  Room(ds, trades, trader, n + 1)
<1> DEFINE A == Awaiting(cs, trader)
           B == Awaiting(ds, trader)
<1>1. IsFiniteSet(A) /\ B \in SUBSET (A \ {c}) /\ c \in A
    BY AwaitingFinite DEF NoMoreWait
<1>2. n + Cardinality(A) <= Cardinality(SidedWith(trades, trader))
    BY DEF Room
<1>3. Cardinality(SidedWith(trades, trader)) \in Nat
    BY SidedFinite
<1> HIDE DEF A
<1>4. IsFiniteSet(A \ {c}) /\ Cardinality(A \ {c}) = Cardinality(A) - 1 /\ Cardinality(A) \in Nat
    BY <1>1, OneLess
<1> HIDE DEF B
<1>5. IsFiniteSet(B) /\ Cardinality(B) <= Cardinality(A \ {c})
    BY <1>1, <1>4, FS_Subset
<1>6. Cardinality(B) \in Nat
    BY <1>5, FS_CardinalityType
<1> QED
    BY <1>2, <1>3, <1>4, <1>5, <1>6 DEF Room, B

\* The awards that a confirmed batch starts.
Awards(trades) == UNION {{Award(t, t.makerTrader), Award(t, t.takerTrader)} : t \in trades}

LEMMA AwardsOf ==
    ASSUME NEW trades, NEW c
    PROVE  c \in Awards(trades) <=>
               \E t \in trades : \E side \in {t.makerTrader, t.takerTrader} : c = Award(t, side)
BY DEF Awards

(* Confirmed trades bring as much room as awards. *)
LEMMA RoomAdded ==
    ASSUME NEW cs, IsFiniteSet(cs), NEW trades, IsFiniteSet(trades),
           NEW more, IsFiniteSet(more), trades \intersect more = {}, NEW trader,
           NEW n \in Nat, Room(cs, trades, trader, n)
    PROVE  Room(cs \union Awards(more), trades \union more, trader, n)
<1> DEFINE new == {Award(t, trader) : t \in SidedWith(more, trader)}
           f == [t \in SidedWith(more, trader) |-> Award(t, trader)]
           A == Awaiting(cs, trader)
           B == SidedWith(trades, trader)
           C == SidedWith(more, trader)
<1>1. Awaiting(cs \union Awards(more), trader) = A \union new
    <2>1. ASSUME NEW c \in Awaiting(Awards(more), trader) PROVE c \in new
        <3>1. c \in Awards(more) /\ c.trader = trader
            BY DEF Awaiting
        <3>2. PICK t \in more : \E side \in {t.makerTrader, t.takerTrader} : c = Award(t, side)
            BY <3>1, AwardsOf
        <3>3. PICK side \in {t.makerTrader, t.takerTrader} : c = Award(t, side)
            BY <3>2
        <3>4. side = trader
            BY <3>1, <3>3 DEF Award
        <3> QED
            BY <3>3, <3>4 DEF SidedWith
    <2>2. ASSUME NEW c \in new PROVE c \in Awaiting(Awards(more), trader)
        <3>1. PICK t \in SidedWith(more, trader) : c = Award(t, trader)
            BY <2>2
        <3>2. t \in more /\ trader \in {t.makerTrader, t.takerTrader}
            BY DEF SidedWith
        <3>3. c \in Awards(more)
            BY <3>1, <3>2 DEF Awards
        <3>4. c.trader = trader /\ c.of = trader /\ c.at = "load"
            BY <3>1 DEF Award
        <3> QED
            BY <3>3, <3>4 DEF Awaiting
    <2>3. Awaiting(cs \union Awards(more), trader) = A \union Awaiting(Awards(more), trader)
        BY DEF Awaiting
    <2> HIDE DEF new, A
    <2> QED
        BY <2>1, <2>2, <2>3
<1>2. SidedWith(trades \union more, trader) = B \union C /\ B \intersect C = {}
    BY DEF SidedWith
<1>3. /\ IsFiniteSet(A) /\ Cardinality(A) \in Nat /\ IsFiniteSet(B) /\ Cardinality(B) \in Nat
      /\ IsFiniteSet(C) /\ Cardinality(C) \in Nat
    BY AwaitingFinite, SidedFinite
<1>4. f \in Surjection(C, new)
    BY DEF Surjection
<1>5. n + Cardinality(A) <= Cardinality(B)
    BY DEF Room
<1> HIDE DEF A, B, C, new, f
<1>6. IsFiniteSet(new) /\ Cardinality(new) <= Cardinality(C) /\ Cardinality(new) \in Nat
    BY <1>3, <1>4, FS_Surjection, FS_CardinalityType
<1>7. /\ Cardinality(A \union new) = Cardinality(A) + Cardinality(new) - Cardinality(A \intersect new)
      /\ IsFiniteSet(A \intersect new) /\ Cardinality(A \intersect new) \in Nat
    BY <1>3, <1>6, FS_Union, FS_Intersection, FS_CardinalityType
<1>8. Cardinality(B \union C) = Cardinality(B) + Cardinality(C)
    <2>1. Cardinality(B \union C) = Cardinality(B) + Cardinality(C) - Cardinality(B \intersect C)
        BY <1>3, FS_Union
    <2>2. Cardinality(B \intersect C) = 0
        BY <1>2, FS_EmptySet
    <2> QED
        BY <1>3, <2>1, <2>2
<1>9. n + Cardinality(A \union new) <= Cardinality(B \union C)
    BY <1>3, <1>5, <1>6, <1>7, <1>8
<1> QED
    BY <1>1, <1>2, <1>9 DEF Room

-----------------------------------------------------------------------------
(* The steps of the points engine *)

LEMMA ConfirmedFinite ==
    ASSUME PipelineInv
    PROVE  IsFiniteSet(ConfirmedTrades) /\ ConfirmedTrades \subseteq Trades
<1>1. ConfirmedTrades \in SUBSET queued /\ IsFiniteSet(queued) /\ queued \subseteq Trades
    BY DEF PipelineInv, PipelineTypeOK, ReceiptsTrue
<1> QED
    BY <1>1, FS_Subset

LEMMA PointsStart ==
    ASSUME PointsInit, PipelineInit
    PROVE  PointsInv
<1>1. DOMAIN store = {} /\ calls = {} /\ DOMAIN referrals = {} /\ ConfirmedTrades = {}
      /\ history = [t \in Traders |-> 0] /\ durable \in BOOLEAN /\ today = 0
    BY DEF PointsInit, PipelineInit, ConfirmedTrades
<1>2. PointsTypeOK
    BY <1>1, FS_EmptySet DEF PointsTypeOK
<1>3. CallsDistinct
    BY <1>1 DEF CallsDistinct, OneEach, AllDue
<1>4. ASSUME NEW t \in Traders
      PROVE  /\ RecordOf(t) = NewRecord /\ Awaiting(calls, t) = {} /\ Waiting(calls, t) = {}
             /\ SidedWith(ConfirmedTrades, t) = {}
    BY <1>1 DEF RecordOf, Awaiting, Waiting, SidedWith
<1>5. CountsBounded
    <2>1. ASSUME NEW t \in Traders PROVE Room(calls, ConfirmedTrades, t, RecordOf(t).trades)
        <3>1. RecordOf(t).trades = 0
            BY <1>4 DEF NewRecord
        <3> QED
            BY <1>4, <3>1, FS_EmptySet DEF Room
    <2> QED
        BY <1>1, <2>1 DEF CountsBounded
<1>6. PointsExplained
    <2>1. ASSUME NEW t \in Traders PROVE RecordOf(t).points = history[t] + OnTheWay(t)
        <3>1. OnTheWay(t) = 0
            BY <1>4, OnTheWayIs, EarnedNone
        <3> QED
            BY <1>1, <1>4, <3>1 DEF NewRecord
    <2> QED
        BY <2>1 DEF PointsExplained
<1> QED
    BY <1>2, <1>3, <1>5, <1>6 DEF PointsInv

LEMMA PointsStay ==
    ASSUME PointsInv, UNCHANGED pointsVars, ConfirmedTrades' = ConfirmedTrades
    PROVE  PointsInv'
<1>1. /\ durable' = durable /\ store' = store /\ history' = history /\ referrals' = referrals
      /\ calls' = calls /\ today' = today
    BY DEF pointsVars
<1>2. PointsTypeOK'
    BY <1>1 DEF PointsInv, PointsTypeOK
<1>3. CallsDistinct'
    BY <1>1 DEF PointsInv, CallsDistinct
<1>4. \A t : RecordOf(t)' = RecordOf(t)
    BY <1>1 DEF RecordOf
<1>5. CountsBounded'
    BY <1>1, <1>4 DEF PointsInv, CountsBounded
<1>6. PointsExplained'
    <2>1. \A t : OnTheWay(t)' = OnTheWay(t)
        BY <1>1, OnTheWayIs
    <2> QED
        BY <1>1, <1>4, <2>1 DEF PointsInv, PointsExplained
<1> QED
    BY <1>2, <1>3, <1>5, <1>6 DEF PointsInv

LEMMA RecordTyped ==
    ASSUME PointsTypeOK, NEW t \in Traders
    PROVE  /\ RecordOf(t) \in Records
           /\ RecordOf(t).trades \in Nat /\ RecordOf(t).points \in Int
<1>1. NewRecord \in Records
    BY DEF NewRecord, Records
<1>2. RecordOf(t) \in Records
    BY <1>1 DEF RecordOf, PointsTypeOK
<1> QED
    BY <1>2 DEF Records

LEMMA CallTyped ==
    ASSUME PointsTypeOK, NEW c \in calls
    PROVE  /\ c \in Calls /\ c.trade \in Trades /\ c.trader \in Traders /\ c.of \in Traders
           /\ c.volume \in Nat /\ c.rec \in Records /\ c.earned \in Int
           /\ c.rec.trades \in Nat
<1>1. c \in Calls
    BY DEF PointsTypeOK
<1> QED
    BY <1>1 DEF Calls, Records

LEMMA StoredIs ==
    ASSUME PointsTypeOK, NEW trader \in Traders, NEW rec \in Records, store' = Stored(trader, rec)
    PROVE  /\ DOMAIN store' \subseteq Traders
           /\ \A t \in DOMAIN store' : store'[t] \in Records
           /\ \A t \in Traders : RecordOf(t)' = IF t = trader THEN rec ELSE RecordOf(t)
<1>1. DOMAIN store' = DOMAIN store \union {trader}
    BY DEF Stored
<1>2. \A t \in DOMAIN store' : store'[t] = IF t = trader THEN rec ELSE store[t]
    BY DEF Stored
<1>3. \A t \in Traders : RecordOf(t)' = IF t = trader THEN rec ELSE RecordOf(t)
    BY <1>1, <1>2 DEF RecordOf
<1> QED
    BY <1>1, <1>2, <1>3 DEF PointsTypeOK

\* The next state of a call: of the same side of the same trade.
Follows(call, next) ==
    /\ next \in Calls
    /\ next.trade = call.trade /\ next.of = call.of
    /\ next.at # "load" \/ next.of # next.trader

LEMMA CallGoesOn ==
    ASSUME PointsInv, NEW call \in calls, NEW next, Follows(call, next), Proceeds(call, next)
    PROVE  /\ calls' \in SUBSET Calls /\ IsFiniteSet(calls')
           /\ OneEach(calls') /\ AllDue(calls', ConfirmedTrades)
           /\ next \notin calls \ {call}
           /\ \A t : NoMoreWait(calls, calls', t)
<1>1. /\ calls \in SUBSET Calls /\ IsFiniteSet(calls)
      /\ OneEach(calls) /\ AllDue(calls, ConfirmedTrades)
    BY DEF PointsInv, PointsTypeOK, CallsDistinct
<1>2. calls' = (calls \ {call}) \union {next}
    BY DEF Proceeds
<1>3. calls' \in SUBSET Calls /\ IsFiniteSet(calls')
    <2>1. IsFiniteSet(calls \ {call})
        BY <1>1, FS_Subset
    <2>2. IsFiniteSet((calls \ {call}) \union {next})
        BY <2>1, FS_AddElement
    <2> QED
        BY <1>1, <1>2, <2>2 DEF Follows
<1>4. next \notin calls \ {call} /\ OneEach(calls')
    BY <1>1, <1>2 DEF OneEach, Follows
<1>5. AllDue(calls', ConfirmedTrades)
    BY <1>1, <1>2 DEF AllDue, Follows
<1>6. ASSUME NEW t PROVE NoMoreWait(calls, calls', t)
    BY <1>1, <1>2 DEF NoMoreWait, Awaiting, Follows
<1> QED
    BY <1>3, <1>4, <1>5, <1>6

LEMMA CallEnds ==
    ASSUME PointsInv, NEW call \in calls, Ends(call)
    PROVE  /\ calls' \in SUBSET Calls /\ IsFiniteSet(calls')
           /\ OneEach(calls') /\ AllDue(calls', ConfirmedTrades)
           /\ \A t : NoMoreWait(calls, calls', t)
<1>1. /\ calls \in SUBSET Calls /\ IsFiniteSet(calls)
      /\ OneEach(calls) /\ AllDue(calls, ConfirmedTrades)
    BY DEF PointsInv, PointsTypeOK, CallsDistinct
<1>2. calls' \in SUBSET calls
    BY DEF Ends
<1>3. IsFiniteSet(calls')
    BY <1>1, <1>2, FS_Subset
<1>4. ASSUME NEW t PROVE NoMoreWait(calls, calls', t)
    BY <1>1, <1>2 DEF NoMoreWait, Awaiting
<1> QED
    BY <1>1, <1>2, <1>3, <1>4 DEF OneEach, AllDue

LEMMA CreditIs ==
    ASSUME PointsTypeOK, NEW call \in calls
    PROVE  /\ Credit(call, RecordOf(call.trader)) \in Records
           /\ Credit(call, RecordOf(call.trader)).trades
                  = RecordOf(call.trader).trades + (IF call.of = call.trader THEN 1 ELSE 0)
<1> DEFINE rec == RecordOf(call.trader)
<1>1. rec \in Records /\ call.volume \in Nat /\ call.earned \in Int /\ today \in Nat
    BY CallTyped, RecordTyped DEF PointsTypeOK
<1> HIDE DEF rec
<1>2. CASE call.of = call.trader
    <2>1. Credit(call, rec) = WithTrade(rec, call.volume)
        BY <1>2 DEF Credit
    <2>2. WithTrade(rec, call.volume) \in Records /\ WithTrade(rec, call.volume).trades = rec.trades + 1
        BY <1>1, RecordGrows
    <2> QED
        BY <1>2, <2>1, <2>2 DEF rec
<1>3. CASE call.of # call.trader
    <2>1. Credit(call, rec) = [rec EXCEPT !.points = @ + call.earned]
        BY <1>3 DEF Credit
    <2>2. Credit(call, rec) \in Records /\ Credit(call, rec).trades = rec.trades + 0
        BY <1>1, <2>1 DEF Records
    <2> QED
        BY <1>3, <2>2 DEF rec
<1> QED
    BY <1>2, <1>3

\* A call is added to those whose earnings wait for the history of its trader.
LEMMA MoreOnTheWay ==
    ASSUME PointsInv, NEW call \in calls, NEW next, Follows(call, next), Proceeds(call, next),
           call.at = "load", next.at = "save", next.trader = call.trader
    PROVE  \A t \in Traders :
               /\ OnTheWay(t) \in Int
               /\ OnTheWay(t)' = OnTheWay(t) + (IF t = call.trader THEN next.earned ELSE 0)
<1> SUFFICES ASSUME NEW t \in Traders
             PROVE  /\ OnTheWay(t) \in Int
                    /\ OnTheWay(t)' = OnTheWay(t) + (IF t = call.trader THEN next.earned ELSE 0)
    OBVIOUS
<1> DEFINE W == Waiting(calls, t)
<1>1. calls' = (calls \ {call}) \union {next} /\ next \notin calls \ {call} /\ next.earned \in Int
    BY CallGoesOn DEF Proceeds, Follows, Calls
<1>2. Earning(W)
    <2>1. W \in SUBSET calls /\ IsFiniteSet(calls)
        BY DEF Waiting, PointsInv, PointsTypeOK
    <2>2. \A c \in calls : c.earned \in Int
        BY CallTyped DEF PointsInv
    <2> HIDE DEF W
    <2> QED
        BY <2>1, <2>2, FS_Subset DEF Earning
<1>3. OnTheWay(t) = EarnedBy(W) /\ OnTheWay(t)' = EarnedBy(Waiting(calls', t)) /\ EarnedBy(W) \in Int
    BY <1>2, OnTheWayIs, EarningWeighs
<1>4. next \notin W
    BY <1>1 DEF Waiting
<1>5. CASE t = call.trader
    <2>1. Waiting(calls', t) = W \union {next}
        BY <1>1, <1>5 DEF Waiting
    <2> HIDE DEF W
    <2>2. EarnedBy(W \union {next}) = next.earned + EarnedBy(W)
        BY <1>1, <1>2, <1>4, EarnedGrows
    <2>3. EarnedBy(Waiting(calls', t)) = next.earned + EarnedBy(W)
        BY <2>1, <2>2, Zenon
    <2> QED
        BY <1>1, <1>3, <1>5, <2>3
<1>6. CASE t # call.trader
    <2>1. Waiting(calls', t) = W
        BY <1>1, <1>6 DEF Waiting
    <2> QED
        BY <1>3, <1>6, <2>1
<1> QED
    BY <1>5, <1>6

LEMMA LoadKeeps ==
    ASSUME PipelineInv, PointsInv, NEW call \in calls, Load(call), ConfirmedTrades' = ConfirmedTrades
    PROVE  PointsInv'
<1> DEFINE trader == call.trader
           old == RecordOf(trader)
           rec == Credit(call, old)
           kept == IF durable THEN old ELSE rec
           copy == IF durable THEN rec ELSE NewRecord
           next == [call EXCEPT !.at = "save", !.rec = copy, !.earned = rec.points - old.points]
<1>1. PointsTypeOK /\ IsFiniteSet(ConfirmedTrades)
    BY ConfirmedFinite DEF PointsInv
<1>2. trader \in Traders /\ call \in Calls /\ old \in Records /\ rec \in Records
      /\ rec.trades = old.trades + (IF call.of = trader THEN 1 ELSE 0)
    BY <1>1, CallTyped, RecordTyped, CreditIs
<1>3. call.at = "load" /\ store' = Stored(trader, kept) /\ Proceeds(call, next)
      /\ UNCHANGED <<durable, history, referrals, today>>
    BY DEF Load
<1> HIDE DEF rec, old
<1>4. kept \in Records /\ copy \in Records
    BY <1>2 DEF NewRecord, Records
<1>5. /\ next \in Calls /\ next.trade = call.trade /\ next.of = call.of /\ next.at = "save"
      /\ next.trader = trader /\ next.rec = copy /\ next.earned = rec.points - old.points
    <2>1. rec.points - old.points \in Int
        BY <1>2 DEF Records
    <2> HIDE DEF copy
    <2> QED
        BY <1>2, <1>4, <2>1 DEF Calls
<1> HIDE DEF next, kept, copy
<1>6. Follows(call, next)
    BY <1>5 DEF Follows
<1>7. /\ calls' \in SUBSET Calls /\ IsFiniteSet(calls')
      /\ OneEach(calls') /\ AllDue(calls', ConfirmedTrades)
      /\ \A t : NoMoreWait(calls, calls', t)
    BY <1>3, <1>6, CallGoesOn
<1>8. /\ DOMAIN store' \subseteq Traders
      /\ \A t \in DOMAIN store' : store'[t] \in Records
      /\ \A t \in Traders : RecordOf(t)' = IF t = trader THEN kept ELSE RecordOf(t)
    BY <1>1, <1>2, <1>3, <1>4, StoredIs
<1>9. PointsTypeOK'
    BY <1>1, <1>3, <1>7, <1>8 DEF PointsTypeOK
<1>10. CallsDistinct'
    BY <1>7 DEF CallsDistinct
<1>11. CountsBounded'
    <2>1. old.trades \in Nat /\ rec.trades \in Nat /\ old.trades \in 0..rec.trades
        BY <1>2 DEF Records
    <2>2. Room(calls, ConfirmedTrades, trader, old.trades)
        BY <1>2 DEF PointsInv, CountsBounded, old
    <2>3. Room(calls', ConfirmedTrades, trader, rec.trades)
        <3>1. CASE call.of = trader
            <4>1. call \in Awaiting(calls, trader)
                BY <1>3, <3>1 DEF Awaiting
            <4>2. call \notin Awaiting(calls', trader)
                BY <1>3, <1>5 DEF Awaiting, Proceeds
            <4>3. Room(calls', ConfirmedTrades, trader, old.trades + 1)
                BY <1>1, <1>7, <2>1, <2>2, <4>1, <4>2, RoomUsed
            <4> QED
                BY <1>2, <3>1, <4>3
        <3>2. CASE call.of # trader
            <4>1. rec.trades = old.trades /\ rec.trades \in 0..old.trades
                BY <1>2, <2>1, <3>2
            <4> QED
                BY <1>1, <1>7, <2>1, <2>2, <4>1, RoomStays
        <3> QED
            BY <3>1, <3>2
    <2>4. ASSUME NEW n \in 0..rec.trades PROVE Room(calls', ConfirmedTrades, trader, n)
        <3>1. NoMoreWait(calls', calls', trader)
            BY <1>7 DEF NoMoreWait
        <3> QED
            BY <1>1, <2>1, <2>3, <3>1, RoomStays
    <2>5. kept.trades \in 0..rec.trades /\ copy.trades \in 0..rec.trades
        BY <2>1 DEF kept, copy, NewRecord
    <2>6. ASSUME NEW t \in Traders PROVE Room(calls', ConfirmedTrades, t, RecordOf(t)'.trades)
        <3>1. CASE t = trader
            BY <1>8, <2>4, <2>5, <3>1
        <3>2. CASE t # trader
            <4>1. RecordOf(t)' = RecordOf(t) /\ RecordOf(t).trades \in Nat
                  /\ RecordOf(t).trades \in 0..RecordOf(t).trades
                BY <1>1, <1>8, <3>2, RecordTyped
            <4>2. Room(calls, ConfirmedTrades, t, RecordOf(t).trades)
                BY DEF PointsInv, CountsBounded
            <4> QED
                BY <1>1, <1>7, <4>1, <4>2, RoomStays
        <3> QED
            BY <3>1, <3>2
    <2>7. ASSUME NEW c \in calls', c.at = "save"
          PROVE  Room(calls', ConfirmedTrades, c.trader, c.rec.trades)
        <3>1. CASE c = next
            BY <1>5, <2>4, <2>5, <3>1
        <3>2. CASE c \in calls
            <4>1. c.rec.trades \in Nat /\ c.rec.trades \in 0..c.rec.trades
                BY <1>1, <3>2, CallTyped
            <4>2. Room(calls, ConfirmedTrades, c.trader, c.rec.trades)
                BY <2>7, <3>2 DEF PointsInv, CountsBounded
            <4> QED
                BY <1>1, <1>7, <4>1, <4>2, RoomStays
        <3> QED
            BY <1>3, <3>1, <3>2 DEF Proceeds
    <2> QED
        BY <2>6, <2>7 DEF CountsBounded
<1>12. PointsExplained'
    <2>1. ASSUME ~durable, NEW t \in Traders PROVE RecordOf(t)'.points = history[t] + OnTheWay(t)'
        <3>1. RecordOf(t).points = history[t] + OnTheWay(t) /\ history[t] \in Int
            BY <1>1, <2>1 DEF PointsInv, PointsExplained, PointsTypeOK
        <3>2. OnTheWay(t) \in Int
              /\ OnTheWay(t)' = OnTheWay(t) + (IF t = trader THEN next.earned ELSE 0)
            BY <1>3, <1>5, <1>6, MoreOnTheWay
        <3>3. RecordOf(t)' = IF t = trader THEN rec ELSE RecordOf(t)
            BY <1>8, <2>1 DEF kept
        <3>4. rec.points \in Int /\ old.points \in Int
            BY <1>2 DEF Records
        <3>5. CASE t = trader
            <4>1. RecordOf(t) = old /\ RecordOf(t)' = rec
                BY <3>3, <3>5 DEF old
            <4> QED
                BY <1>5, <3>1, <3>2, <3>4, <3>5, <4>1
        <3>6. CASE t # trader
            <4>1. RecordOf(t)' = RecordOf(t) /\ OnTheWay(t)' = OnTheWay(t)
                BY <3>2, <3>3, <3>6
            <4> QED
                BY <3>1, <4>1
        <3> QED
            BY <3>5, <3>6
    <2> QED
        BY <1>3, <2>1 DEF PointsExplained
<1> QED
    BY <1>9, <1>10, <1>11, <1>12 DEF PointsInv

LEMMA WaitingEarns ==
    ASSUME PointsTypeOK, NEW t
    PROVE  Earning(Waiting(calls, t))
<1>1. Waiting(calls, t) \in SUBSET calls /\ IsFiniteSet(calls)
    BY DEF Waiting, PointsTypeOK
<1>2. \A c \in calls : c.earned \in Int
    BY CallTyped
<1> QED
    BY <1>1, <1>2, FS_Subset DEF Earning

(* Rooms that stay, for the records and the copies of them. *)
LEMMA CountsStay ==
    ASSUME PipelineInv, PointsInv, ConfirmedTrades' = ConfirmedTrades,
           \A t : NoMoreWait(calls, calls', t),
           \A t \in Traders : \/ RecordOf(t)' = RecordOf(t)
                             \/ \E c \in calls : c.at = "save" /\ c.trader = t /\ RecordOf(t)' = c.rec,
           \A c \in calls' : c.at = "save" => c \in calls
    PROVE  CountsBounded'
<1>1. PointsTypeOK /\ IsFiniteSet(ConfirmedTrades)
    BY ConfirmedFinite DEF PointsInv
<1>2. ASSUME NEW c \in calls, c.at = "save"
      PROVE  Room(calls', ConfirmedTrades, c.trader, c.rec.trades)
    <2>1. c.rec.trades \in Nat /\ c.rec.trades \in 0..c.rec.trades
        BY <1>1, CallTyped
    <2>2. Room(calls, ConfirmedTrades, c.trader, c.rec.trades)
        BY <1>2 DEF PointsInv, CountsBounded
    <2> QED
        BY <1>1, <2>1, <2>2, RoomStays
<1>3. ASSUME NEW t \in Traders PROVE Room(calls', ConfirmedTrades, t, RecordOf(t)'.trades)
    <2>1. CASE RecordOf(t)' = RecordOf(t)
        <3>1. RecordOf(t).trades \in Nat /\ RecordOf(t).trades \in 0..RecordOf(t).trades
            BY <1>1, RecordTyped
        <3>2. Room(calls, ConfirmedTrades, t, RecordOf(t).trades)
            BY DEF PointsInv, CountsBounded
        <3>3. Room(calls', ConfirmedTrades, t, RecordOf(t).trades)
            BY <1>1, <3>1, <3>2, RoomStays
        <3> QED
            BY <2>1, <3>3
    <2>2. CASE \E c \in calls : c.at = "save" /\ c.trader = t /\ RecordOf(t)' = c.rec
        BY <1>2, <2>2
    <2> QED
        BY <2>1, <2>2
<1> QED
    BY <1>2, <1>3 DEF CountsBounded

LEMMA SaveRecordKeeps ==
    ASSUME PipelineInv, PointsInv, NEW call \in calls, SaveRecord(call),
           ConfirmedTrades' = ConfirmedTrades
    PROVE  PointsInv'
<1> DEFINE trader == call.trader
           next == [call EXCEPT !.at = "history", !.rec = NewRecord]
<1>1. PointsTypeOK
    BY DEF PointsInv
<1>2. trader \in Traders /\ call \in Calls /\ call.rec \in Records /\ call.earned \in Int
    BY <1>1, CallTyped
<1>3. /\ call.at = "save" /\ Proceeds(call, next)
      /\ store' = store \/ (durable /\ store' = Stored(trader, call.rec))
      /\ UNCHANGED <<durable, history, referrals, today>>
    BY DEF SaveRecord
<1>4. /\ next \in Calls /\ next.trade = call.trade /\ next.of = call.of /\ next.at = "history"
      /\ next.trader = trader /\ next.earned = call.earned
    <2>1. NewRecord \in Records
        BY DEF NewRecord, Records
    <2> QED
        BY <1>2, <2>1 DEF Calls
<1> HIDE DEF next
<1>5. Follows(call, next) /\ calls' = (calls \ {call}) \union {next}
    BY <1>3, <1>4 DEF Follows, Proceeds
<1>6. /\ calls' \in SUBSET Calls /\ IsFiniteSet(calls')
      /\ OneEach(calls') /\ AllDue(calls', ConfirmedTrades) /\ next \notin calls \ {call}
      /\ \A t : NoMoreWait(calls, calls', t)
    BY <1>3, <1>5, CallGoesOn
<1>7. /\ DOMAIN store' \subseteq Traders
      /\ \A t \in DOMAIN store' : store'[t] \in Records
      /\ \A t \in Traders : \/ RecordOf(t)' = RecordOf(t)
                            \/ durable /\ t = trader /\ RecordOf(t)' = call.rec
    <2>1. CASE store' = store
        BY <1>1, <2>1 DEF PointsTypeOK, RecordOf
    <2>2. CASE durable /\ store' = Stored(trader, call.rec)
        <3>1. /\ DOMAIN store' \subseteq Traders
              /\ \A t \in DOMAIN store' : store'[t] \in Records
              /\ \A t \in Traders : RecordOf(t)' = IF t = trader THEN call.rec ELSE RecordOf(t)
            BY <1>1, <1>2, <2>2, StoredIs
        <3> QED
            BY <2>2, <3>1
    <2> QED
        BY <1>3, <2>1, <2>2
<1>8. PointsTypeOK'
    BY <1>1, <1>3, <1>6, <1>7 DEF PointsTypeOK
<1>9. CallsDistinct'
    BY <1>6 DEF CallsDistinct
<1>10. CountsBounded'
    <2>1. \A t \in Traders : \/ RecordOf(t)' = RecordOf(t)
                            \/ \E c \in calls : c.at = "save" /\ c.trader = t /\ RecordOf(t)' = c.rec
        BY <1>3, <1>7
    <2>2. \A c \in calls' : c.at = "save" => c \in calls
        BY <1>4, <1>5
    <2> QED
        BY <1>6, <2>1, <2>2, CountsStay
<1>11. PointsExplained'
    <2>1. ASSUME ~durable, NEW t \in Traders PROVE RecordOf(t)'.points = history[t] + OnTheWay(t)'
        <3>1. RecordOf(t).points = history[t] + OnTheWay(t)
            BY <2>1 DEF PointsInv, PointsExplained
        <3>2. RecordOf(t)' = RecordOf(t)
            BY <1>7, <2>1
        <3> DEFINE W == Waiting(calls, t)
        <3>3. Earning(W) /\ OnTheWay(t) = EarnedBy(W) /\ OnTheWay(t)' = EarnedBy(Waiting(calls', t))
            BY <1>1, WaitingEarns, OnTheWayIs
        <3>4. CASE t = trader
            <4>1. Waiting(calls', t) = (W \ {call}) \union {next} /\ call \in W /\ next \notin W \ {call}
                BY <1>3, <1>4, <1>5, <1>6, <3>4 DEF Waiting
            <4> HIDE DEF W
            <4>2. Earning(W \ {call})
                BY <3>3, FS_Subset DEF Earning
            <4>3. EarnedBy((W \ {call}) \union {next}) = next.earned + EarnedBy(W \ {call})
                BY <1>2, <1>4, <4>1, <4>2, EarnedGrows
            <4>4. EarnedBy(W) = call.earned + EarnedBy(W \ {call})
                BY <3>3, <4>1, EarnedTakesOut
            <4>5. EarnedBy(Waiting(calls', t)) = EarnedBy(W)
                BY <1>4, <4>1, <4>3, <4>4
            <4> QED
                BY <3>1, <3>2, <3>3, <4>5
        <3>5. CASE t # trader
            <4>1. Waiting(calls', t) = W
                BY <1>4, <1>5, <3>5 DEF Waiting
            <4> QED
                BY <3>1, <3>2, <3>3, <4>1
        <3> QED
            BY <3>4, <3>5
    <2> QED
        BY <1>3, <2>1 DEF PointsExplained
<1> QED
    BY <1>8, <1>9, <1>10, <1>11 DEF PointsInv

LEMMA SaveHistoryKeeps ==
    ASSUME PipelineInv, PointsInv, NEW call \in calls, SaveHistory(call),
           ConfirmedTrades' = ConfirmedTrades
    PROVE  PointsInv'
<1> DEFINE trader == call.trader
           goesOn == call.of = call.trader /\ call.of \in DOMAIN referrals
           next == [call EXCEPT !.at = "load", !.trader = referrals[call.of],
                                !.earned = @ \div 10]
           W(t) == Waiting(calls, t)
<1>1. PointsTypeOK
    BY DEF PointsInv
<1>2. /\ trader \in Traders /\ call \in Calls /\ call.earned \in Int
      /\ call.at = "history" /\ UNCHANGED <<durable, store, referrals, today>>
      /\ history' = IF durable THEN history
                    ELSE [history EXCEPT ![trader] = history[trader] + call.earned]
    BY <1>1, CallTyped DEF SaveHistory
<1>3. /\ calls' \in SUBSET Calls /\ IsFiniteSet(calls')
      /\ OneEach(calls') /\ AllDue(calls', ConfirmedTrades)
      /\ \A t : NoMoreWait(calls, calls', t)
      /\ \A c \in calls' : c.at = "save" => c \in calls
      /\ \A t : Waiting(calls', t) = W(t) \ {call}
    <2>1. CASE goesOn
        <3>1. referrals[call.of] \in Traders /\ referrals[call.of] # call.of
            BY <1>1, <2>1 DEF PointsTypeOK
        <3>2. /\ next \in Calls /\ next.trade = call.trade /\ next.of = call.of /\ next.at = "load"
              /\ next.trader = referrals[call.of]
            <4>1. call.earned \div 10 \in Int
                BY <1>2
            <4> QED
                BY <1>2, <3>1, <4>1 DEF Calls
        <3>3. Proceeds(call, next)
            BY <2>1 DEF SaveHistory
        <3> HIDE DEF next
        <3>4. Follows(call, next) /\ calls' = (calls \ {call}) \union {next}
            BY <3>1, <3>2, <3>3 DEF Follows, Proceeds
        <3>5. /\ calls' \in SUBSET Calls /\ IsFiniteSet(calls')
              /\ OneEach(calls') /\ AllDue(calls', ConfirmedTrades)
              /\ \A t : NoMoreWait(calls, calls', t)
            BY <3>3, <3>4, CallGoesOn
        <3>6. \A c \in calls' : c.at = "save" => c \in calls
            BY <3>2, <3>4
        <3>7. ASSUME NEW t PROVE Waiting(calls', t) = W(t) \ {call}
            BY <3>2, <3>4 DEF Waiting
        <3> QED
            BY <3>5, <3>6, <3>7
    <2>2. CASE ~goesOn
        <3>1. Ends(call)
            BY <2>2 DEF SaveHistory
        <3>2. /\ calls' \in SUBSET Calls /\ IsFiniteSet(calls')
              /\ OneEach(calls') /\ AllDue(calls', ConfirmedTrades)
              /\ \A t : NoMoreWait(calls, calls', t)
            BY <3>1, CallEnds
        <3>3. \A c \in calls' : c.at = "save" => c \in calls
            BY <3>1 DEF Ends
        <3>4. ASSUME NEW t PROVE Waiting(calls', t) = W(t) \ {call}
            BY <3>1 DEF Waiting, Ends
        <3> QED
            BY <3>2, <3>3, <3>4
    <2> QED
        BY <2>1, <2>2
<1>4. \A t \in Traders : RecordOf(t)' = RecordOf(t)
    BY <1>2 DEF RecordOf
<1>5. PointsTypeOK'
    BY <1>1, <1>2, <1>3 DEF PointsTypeOK
<1>6. CallsDistinct'
    BY <1>3 DEF CallsDistinct
<1>7. CountsBounded'
    BY <1>3, <1>4, CountsStay
<1>8. PointsExplained'
    <2>1. ASSUME ~durable, NEW t \in Traders PROVE RecordOf(t)'.points = history'[t] + OnTheWay(t)'
        <3>1. RecordOf(t).points = history[t] + OnTheWay(t) /\ history[t] \in Int
            BY <1>1, <2>1 DEF PointsInv, PointsExplained, PointsTypeOK
        <3>2. Earning(W(t)) /\ OnTheWay(t) = EarnedBy(W(t)) /\ OnTheWay(t)' = EarnedBy(Waiting(calls', t))
            BY <1>1, WaitingEarns, OnTheWayIs
        <3>3. EarnedBy(Waiting(calls', t)) = EarnedBy(W(t) \ {call})
            BY <1>3
        <3>4. history'[t] = IF t = trader THEN history[t] + call.earned ELSE history[t]
            BY <1>1, <1>2, <2>1 DEF PointsTypeOK
        <3>5. CASE t = trader
            <4>1. call \in W(t)
                BY <1>2, <3>5 DEF Waiting
            <4> HIDE DEF W
            <4>2. EarnedBy(W(t)) = call.earned + EarnedBy(W(t) \ {call})
                BY <3>2, <4>1, EarnedTakesOut
            <4>3. EarnedBy(W(t)) \in Int /\ EarnedBy(W(t) \ {call}) \in Int
                <5>1. Earning(W(t) \ {call})
                    BY <3>2, FS_Subset DEF Earning
                <5> QED
                    BY <3>2, <5>1, EarningWeighs
            <4>4. RecordOf(t)' = RecordOf(t)
                BY <1>4
            <4> QED
                BY <1>2, <3>1, <3>2, <3>3, <3>4, <3>5, <4>2, <4>3, <4>4
        <3>6. CASE t # trader
            <4>1. W(t) \ {call} = W(t)
                BY <3>6 DEF Waiting
            <4> QED
                BY <1>4, <3>1, <3>2, <3>3, <3>4, <3>6, <4>1
        <3> QED
            BY <3>5, <3>6
    <2> QED
        BY <1>2, <2>1 DEF PointsExplained
<1> QED
    BY <1>5, <1>6, <1>7, <1>8 DEF PointsInv

LEMMA RegisterReferralKeeps ==
    ASSUME PointsInv, NEW l \in Links, RegisterReferral(l[1], l[2]), ConfirmedTrades' = ConfirmedTrades
    PROVE  PointsInv'
<1>1. l[1] \in Traders /\ l[2] \in Traders /\ l[1] # l[2]
    BY PointsAssumption DEF RegisterReferral
<1>2. /\ durable' = durable /\ store' = store /\ history' = history /\ calls' = calls /\ today' = today
      /\ referrals' = [t \in DOMAIN referrals \union {l[2]} |->
                          IF t = l[2] THEN l[1] ELSE referrals[t]]
    BY DEF RegisterReferral
<1>3. PointsTypeOK'
    BY <1>1, <1>2 DEF PointsInv, PointsTypeOK
<1>4. CallsDistinct'
    BY <1>2 DEF PointsInv, CallsDistinct
<1>5. \A t : RecordOf(t)' = RecordOf(t) /\ OnTheWay(t)' = OnTheWay(t)
    BY <1>2, OnTheWayIs DEF RecordOf
<1>6. CountsBounded' /\ PointsExplained'
    BY <1>2, <1>5 DEF PointsInv, CountsBounded, PointsExplained
<1> QED
    BY <1>3, <1>4, <1>6 DEF PointsInv

LEMMA NextDayKeeps ==
    ASSUME PointsInv, NextDay, ConfirmedTrades' = ConfirmedTrades
    PROVE  PointsInv'
<1>1. /\ durable' = durable /\ store' = store /\ history' = history /\ calls' = calls
      /\ referrals' = referrals /\ today' = today + 1
    BY DEF NextDay
<1>2. PointsTypeOK'
    BY <1>1 DEF PointsInv, PointsTypeOK
<1>3. CallsDistinct'
    BY <1>1 DEF PointsInv, CallsDistinct
<1>4. \A t : RecordOf(t)' = RecordOf(t) /\ OnTheWay(t)' = OnTheWay(t)
    BY <1>1, OnTheWayIs DEF RecordOf
<1>5. CountsBounded' /\ PointsExplained'
    BY <1>1, <1>4 DEF PointsInv, CountsBounded, PointsExplained
<1> QED
    BY <1>2, <1>3, <1>5 DEF PointsInv

\* Confirmed trades are new, and awards for both of their sides begin.
Begins(more) ==
    /\ more \subseteq Trades /\ IsFiniteSet(more) /\ ConfirmedTrades \intersect more = {}
    /\ ConfirmedTrades' = ConfirmedTrades \union more
    /\ calls' = calls \union Awards(more)

LEMMA AwardsTyped ==
    ASSUME NEW more, more \subseteq Trades, IsFiniteSet(more)
    PROVE  /\ IsFiniteSet(Awards(more)) /\ OneEach(Awards(more)) /\ AllDue(Awards(more), more)
           /\ Awards(more) \subseteq Calls /\ \A c \in Awards(more) : c.at = "load"
<1> DEFINE makers == {Award(t, t.makerTrader) : t \in more}
           takers == {Award(t, t.takerTrader) : t \in more}
           f == [t \in more |-> Award(t, t.makerTrader)]
           g == [t \in more |-> Award(t, t.takerTrader)]
<1>1. IsFiniteSet(Awards(more))
    <2>1. f \in Surjection(more, makers) /\ g \in Surjection(more, takers)
        BY DEF Surjection
    <2>2. Awards(more) = makers \union takers
        BY DEF Awards
    <2> HIDE DEF makers, takers, f, g
    <2>3. IsFiniteSet(makers) /\ IsFiniteSet(takers)
        BY <2>1, FS_Surjection
    <2> QED
        BY <2>2, <2>3, FS_Union
<1>2. ASSUME NEW c \in Awards(more)
      PROVE  /\ c \in Calls /\ c.trade \in more /\ c.of \in {c.trade.makerTrader, c.trade.takerTrader}
             /\ c = Award(c.trade, c.of) /\ c.at = "load"
    <2>1. PICK t \in more : \E side \in {t.makerTrader, t.takerTrader} : c = Award(t, side)
        BY <1>2, AwardsOf
    <2>2. PICK side \in {t.makerTrader, t.takerTrader} : c = Award(t, side)
        BY <2>1
    <2>3. c.trade = t /\ c.of = side /\ c.at = "load"
        BY <2>2 DEF Award
    <2>4. side \in Traders /\ t \in Trades /\ t.volume \in Nat
        BY TradesAssumption
    <2>5. NewRecord \in Records
        BY DEF NewRecord, Records
    <2>6. c \in Calls
        BY <2>2, <2>4, <2>5 DEF Award, Calls
    <2> QED
        BY <2>2, <2>3, <2>6
<1>3. OneEach(Awards(more))
    BY <1>2, Zenon DEF OneEach
<1> QED
    BY <1>1, <1>2, <1>3 DEF AllDue

LEMMA AwardsKeep ==
    ASSUME PipelineInv, PointsInv, NEW more, Begins(more),
           UNCHANGED <<durable, store, history, referrals, today>>
    PROVE  PointsInv'
<1> DEFINE new == Awards(more)
           C == ConfirmedTrades
<1>1. PointsTypeOK /\ IsFiniteSet(C)
    BY ConfirmedFinite DEF PointsInv
<1>2. /\ calls \in SUBSET Calls /\ IsFiniteSet(calls) /\ OneEach(calls) /\ AllDue(calls, C)
    BY DEF PointsInv, PointsTypeOK, CallsDistinct
<1>3. /\ more \subseteq Trades /\ IsFiniteSet(more) /\ C \intersect more = {}
      /\ ConfirmedTrades' = C \union more /\ calls' = calls \union new
    BY DEF Begins
<1>4. /\ IsFiniteSet(new) /\ OneEach(new) /\ AllDue(new, more)
      /\ new \subseteq Calls /\ \A c \in new : c.at = "load"
    BY <1>3, AwardsTyped
<1>5. /\ durable' = durable /\ store' = store /\ history' = history /\ referrals' = referrals
      /\ today' = today /\ \A t : RecordOf(t)' = RecordOf(t)
    BY DEF RecordOf
<1>6. PointsTypeOK'
    <2>1. calls' \in SUBSET Calls /\ IsFiniteSet(calls')
        BY <1>2, <1>3, <1>4, FS_Union
    <2> QED
        BY <1>1, <1>5, <2>1 DEF PointsTypeOK
<1>7. CallsDistinct'
    <2> HIDE DEF new, C
    <2>1. OneEach(calls')
        BY <1>2, <1>3, <1>4 DEF OneEach, AllDue
    <2>2. AllDue(calls', ConfirmedTrades')
        BY <1>2, <1>3, <1>4 DEF AllDue
    <2> QED
        BY <2>1, <2>2 DEF CallsDistinct
<1>8. CountsBounded'
    <2>1. ASSUME NEW t, NEW n \in Nat, Room(calls, C, t, n)
          PROVE  Room(calls', ConfirmedTrades', t, n)
        <3>1. Room(calls \union Awards(more), C \union more, t, n)
            <4> HIDE DEF C
            <4> QED
                BY <1>1, <1>2, <1>3, <2>1, RoomAdded
        <3> QED
            BY <1>3, <3>1
    <2>2. ASSUME NEW t \in Traders PROVE Room(calls', ConfirmedTrades', t, RecordOf(t)'.trades)
        <3>1. RecordOf(t).trades \in Nat /\ Room(calls, C, t, RecordOf(t).trades)
            BY <1>1, RecordTyped DEF PointsInv, CountsBounded
        <3>2. Room(calls', ConfirmedTrades', t, RecordOf(t).trades)
            BY <2>1, <3>1
        <3> QED
            BY <1>5, <3>2
    <2>3. ASSUME NEW c \in calls', c.at = "save"
          PROVE  Room(calls', ConfirmedTrades', c.trader, c.rec.trades)
        <3>1. c \in calls
            BY <1>3, <1>4, <2>3
        <3>2. c.rec.trades \in Nat /\ Room(calls, C, c.trader, c.rec.trades)
            BY <1>1, <2>3, <3>1, CallTyped DEF PointsInv, CountsBounded
        <3> QED
            BY <2>1, <3>2
    <2> QED
        BY <2>2, <2>3 DEF CountsBounded
<1>9. PointsExplained'
    <2>1. ASSUME NEW t \in Traders PROVE OnTheWay(t)' = OnTheWay(t)
        <3>1. Waiting(calls', t) = Waiting(calls, t)
            BY <1>3, <1>4 DEF Waiting
        <3> QED
            BY <3>1, OnTheWayIs
    <2> QED
        BY <1>5, <2>1 DEF PointsInv, PointsExplained
<1> QED
    BY <1>6, <1>7, <1>8, <1>9 DEF PointsInv

LEMMA ConfirmKeeps ==
    ASSUME PipelineInv, PointsInv, NEW f \in flights, Confirm(f)
    PROVE  PipelineInv' /\ PointsInv'
<1> DEFINE more == TradesOf(f.items)
<1>1. /\ f.receipt = "success" /\ Leaves(f) /\ ended' = Ended(more, "confirmed")
      /\ UNCHANGED <<pending, queued, chainVars>>
    BY DEF Confirm, Confirmed, ReceiptConfirms
<1>2. /\ PipelineInv' /\ more \intersect DOMAIN ended = {} /\ more \subseteq Trades
      /\ ConfirmedTrades' = ConfirmedTrades \union more
    BY <1>1, AllGoneKeeps
<1>3. IsFiniteSet(more)
    <2>1. more \in SUBSET queued /\ IsFiniteSet(queued)
        BY DEF PipelineInv, PipelineTypeOK, TradesAccounted, InFlight
    <2> HIDE DEF more
    <2> QED
        BY <2>1, FS_Subset
<1>4. calls' = calls \union Awards(more) /\ UNCHANGED <<durable, store, history, referrals, today>>
    BY DEF Confirm, Awards
<1>5. ConfirmedTrades \intersect more = {}
    BY <1>2 DEF ConfirmedTrades
<1> HIDE DEF more
<1>6. Begins(more)
    BY <1>2, <1>3, <1>4, <1>5 DEF Begins
<1>7. PointsInv'
    BY <1>4, <1>6, AwardsKeep
<1> QED
    BY <1>2, <1>7

LEMMA ServerRestartKeeps ==
    ASSUME PipelineInv, PointsInv, ServerRestart
    PROVE  PipelineInv' /\ PointsInv'
<1>1. PipelineInv' /\ ConfirmedTrades' = ConfirmedTrades
    BY RestartKeeps DEF ServerRestart
<1>2. PointsTypeOK /\ IsFiniteSet(ConfirmedTrades)
    BY ConfirmedFinite DEF PointsInv
<1>3. /\ calls' = {} /\ durable' = durable /\ today' = today
      /\ durable => store' = store /\ history' = history /\ referrals' = referrals
      /\ ~durable => store' = <<>> /\ history' = [t \in Traders |-> 0] /\ referrals' = <<>>
    BY DEF ServerRestart
<1>4. PointsTypeOK'
    <2>1. calls' \in SUBSET Calls /\ IsFiniteSet(calls')
        BY <1>3, FS_EmptySet
    <2>2. CASE durable
        BY <1>2, <1>3, <2>1, <2>2 DEF PointsTypeOK
    <2>3. CASE ~durable
        <3>1. DOMAIN store' = {} /\ DOMAIN referrals' = {} /\ history' \in [Traders -> Int]
            BY <1>3, <2>3
        <3> QED
            BY <1>2, <1>3, <2>1, <3>1 DEF PointsTypeOK
    <2> QED
        BY <2>2, <2>3
<1>5. CallsDistinct'
    BY <1>3 DEF CallsDistinct, OneEach, AllDue
<1>6. ASSUME NEW t \in Traders PROVE RecordOf(t)' = IF durable THEN RecordOf(t) ELSE NewRecord
    BY <1>3 DEF RecordOf
<1>7. CountsBounded'
    <2>1. ASSUME NEW t \in Traders PROVE Room(calls', ConfirmedTrades, t, RecordOf(t)'.trades)
        <3>1. NoMoreWait(calls, calls', t)
            BY <1>2, <1>3 DEF NoMoreWait, Awaiting, PointsTypeOK
        <3>2. RecordOf(t).trades \in Nat /\ Room(calls, ConfirmedTrades, t, RecordOf(t).trades)
            BY <1>2, RecordTyped DEF PointsInv, CountsBounded
        <3>3. RecordOf(t)'.trades \in 0..RecordOf(t).trades
            <4>1. NewRecord.trades = 0
                BY DEF NewRecord
            <4> QED
                BY <1>6, <3>2, <4>1
        <3> QED
            BY <1>2, <3>1, <3>2, <3>3, RoomStays
    <2> QED
        BY <1>1, <1>3, <2>1 DEF CountsBounded
<1>8. PointsExplained'
    <2>1. ASSUME ~durable, NEW t \in Traders PROVE RecordOf(t)'.points = history'[t] + OnTheWay(t)'
        <3>1. Waiting(calls', t) = {}
            BY <1>3 DEF Waiting
        <3>2. OnTheWay(t)' = 0
            BY <3>1, OnTheWayIs, EarnedNone
        <3> QED
            BY <1>3, <1>6, <2>1, <3>2 DEF NewRecord
    <2> QED
        BY <1>3, <2>1 DEF PointsExplained
<1> QED
    BY <1>1, <1>4, <1>5, <1>7, <1>8 DEF PointsInv

-----------------------------------------------------------------------------
(* The engine behind the gateway *)

LEMMA LevelShape ==
    ASSUME NEW b, Shape(b), NEW side, NEW price, NEW level
    PROVE  Shape(Engine!WithLevel(b, side, price, level))
BY DEF Engine!WithLevel, Shape

LEMMA UnindexedShape ==
    ASSUME NEW b, Shape(b), NEW id
    PROVE  Shape(Engine!Unindexed(b, id))
<1> DEFINE index == Engine!Restrict(b.index, DOMAIN b.index \ {id})
<1>1. DOMAIN index = DOMAIN b.index \ {id}
    BY DEF Engine!Restrict
<1>2. IsFiniteSet(DOMAIN index)
    BY <1>1, FS_RemoveElement DEF Shape
<1>3. Engine!Unindexed(b, id) = [b EXCEPT !.index = index]
    BY DEF Engine!Unindexed
<1> HIDE DEF index
<1> QED
    BY <1>2, <1>3 DEF Shape

LEMMA IndexedShape ==
    ASSUME NEW b, Shape(b), NEW o
    PROVE  Shape(Engine!Indexed(b, o))
<1> DEFINE index == [id \in DOMAIN b.index \union {o.id} |->
                        IF id = o.id THEN [side |-> o.side, price |-> o.price] ELSE b.index[id]]
<1>1. DOMAIN index = DOMAIN b.index \union {o.id}
    OBVIOUS
<1>2. IsFiniteSet(DOMAIN index)
    BY <1>1, FS_AddElement DEF Shape
<1>3. Engine!Indexed(b, o) = [b EXCEPT !.index = index]
    BY DEF Engine!Indexed
<1> HIDE DEF index
<1> QED
    BY <1>2, <1>3 DEF Shape

LEMMA PlacedShape ==
    ASSUME NEW b, Shape(b), NEW o
    PROVE  Shape(Engine!Placed(b, o))
BY IndexedShape, LevelShape DEF Engine!Placed

LEMMA CancelledShape ==
    ASSUME NEW b, Shape(b), NEW id
    PROVE  Shape(Engine!Cancelled(b, id))
BY UnindexedShape, LevelShape DEF Engine!Cancelled

LEMMA FilledShape ==
    ASSUME NEW b, Shape(b), NEW side, NEW qty, NEW shows
    PROVE  Shape(Engine!FrontFilled(b, side, qty, shows))
BY UnindexedShape, LevelShape DEF Engine!FrontFilled

LEMMA OneMore ==
    ASSUME NEW s, IsSequence(s), NEW x
    PROVE  IsSequence(Append(s, x)) /\ Append(s, x) # <<>>
<1>1. PICK S : s \in Seq(S)
    BY DEF IsSequence
<1>2. s \in Seq(S \union {x}) /\ x \in S \union {x}
    BY <1>1, SeqMonotonic
<1>3. Append(s, x) \in Seq(S \union {x}) /\ Append(s, x) # <<>>
    BY <1>2, AppendProperties
<1> QED
    BY <1>3 DEF IsSequence

LEMMA RoundTrades ==
    ASSUME NEW t, NEW b, NEW taker, NEW shows, Traded(t, b, taker)
    PROVE  Traded(Engine!MatchRound(t, taker, shows), b, taker)
<1> DEFINE side == Engine!Opposite(taker.side)
           maker == Engine!Front(t.book, side)
           qty == Engine!MinQty(t.remaining, maker.remaining)
           stops == \/ t.remaining = 0 \/ ~Engine!HasOrders(t.book, side)
                    \/ ~Engine!Reaches(taker, Engine!BestPrice(t.book, side))
           trade == [maker |-> maker.id, taker |-> taker.id, price |-> maker.price, quantity |-> qty]
           next == [book |-> Engine!FrontFilled(t.book, side, qty, shows),
                    remaining |-> t.remaining - qty, trades |-> Append(t.trades, trade)]
<1>1. Engine!MatchRound(t, taker, shows) = IF stops THEN t ELSE next
    BY DEF Engine!MatchRound
<1> HIDE DEF side, maker, qty, stops, trade
<1>2. Shape(Engine!FrontFilled(t.book, side, qty, shows))
    BY FilledShape DEF Traded
<1>3. IsSequence(Append(t.trades, trade)) /\ Append(t.trades, trade) # <<>>
    BY OneMore DEF Traded
<1>4. Traded(next, b, taker)
    BY <1>2, <1>3 DEF Traded
<1> HIDE DEF next
<1> QED
    BY <1>1, <1>4

\* after[i] is what i rounds make of the book and the taker.
Rounds(after, n, b, taker, shows) ==
    after = [i \in 0..n |->
                IF i = 0 THEN [book |-> b, remaining |-> taker.remaining, trades |-> <<>>]
                ELSE Engine!MatchRound(after[i - 1], taker, shows)]

LEMMA RoundsExist ==
    ASSUME NEW b, NEW taker, NEW shows, NEW n \in Nat
    PROVE  \E after : Rounds(after, n, b, taker, shows)
<1> DEFINE start == [book |-> b, remaining |-> taker.remaining, trades |-> <<>>]
           S == {m \in Nat : \E f : Rounds(f, m, b, taker, shows)}
<1>1. 0 \in S
    <2> DEFINE f == [i \in 0..0 |-> start]
    <2>1. Rounds(f, 0, b, taker, shows)
        <3>1. \A i \in 0..0 : i = 0
            OBVIOUS
        <3> HIDE DEF start
        <3>2. f = [i \in 0..0 |-> IF i = 0 THEN start ELSE Engine!MatchRound(f[i - 1], taker, shows)]
            BY <3>1
        <3> HIDE DEF f
        <3> QED
            BY <3>2 DEF Rounds, start
    <2> HIDE DEF f
    <2> QED
        BY <2>1
<1>2. ASSUME NEW m \in Nat, m \in S PROVE m + 1 \in S
    <2>1. PICK f : Rounds(f, m, b, taker, shows)
        BY <1>2
    <2> DEFINE g == [i \in 0..m + 1 |->
                       IF i <= m THEN f[i] ELSE Engine!MatchRound(f[m], taker, shows)]
    <2>2. ASSUME NEW i \in 0..m
          PROVE  f[i] = IF i = 0 THEN start ELSE Engine!MatchRound(f[i - 1], taker, shows)
        BY <2>1 DEF Rounds
    <2> HIDE DEF start
    <2>3. ASSUME NEW i \in 0..m + 1
          PROVE  g[i] = IF i = 0 THEN start ELSE Engine!MatchRound(g[i - 1], taker, shows)
        <3>1. CASE i <= m
            <4>1. i \in 0..m
                BY <3>1
            <4>2. g[i] = f[i] /\ (i # 0 => g[i - 1] = f[i - 1])
                BY <4>1
            <4> HIDE DEF g
            <4> QED
                BY <2>2, <4>1, <4>2
        <3>2. CASE i = m + 1
            <4>1. g[i] = Engine!MatchRound(f[m], taker, shows) /\ g[i - 1] = f[m] /\ i # 0
                BY <3>2
            <4> HIDE DEF g
            <4> QED
                BY <4>1
        <3> QED
            BY <3>1, <3>2
    <2>4. g = [i \in 0..m + 1 |->
                  IF i = 0 THEN start ELSE Engine!MatchRound(g[i - 1], taker, shows)]
        <3>1. g = [i \in 0..m + 1 |-> g[i]]
            OBVIOUS
        <3> HIDE DEF g
        <3> QED
            BY <2>3, <3>1
    <2>5. Rounds(g, m + 1, b, taker, shows)
        BY <2>4 DEF Rounds, start
    <2> HIDE DEF g
    <2> QED
        BY <2>5
<1> HIDE DEF S
<1>3. n \in S
    BY <1>1, <1>2, NatSets
<1> QED
    BY <1>3 DEF S

LEMMA RoundsTrade ==
    ASSUME NEW b, NEW taker, NEW shows, Shape(b), NEW n \in Nat,
           NEW after, Rounds(after, n, b, taker, shows)
    PROVE  Traded(after[n], b, taker)
<1> DEFINE start == [book |-> b, remaining |-> taker.remaining, trades |-> <<>>]
           S == {m \in Nat : m <= n => Traded(after[m], b, taker)}
<1>1. ASSUME NEW i \in 0..n
      PROVE  after[i] = IF i = 0 THEN start ELSE Engine!MatchRound(after[i - 1], taker, shows)
    BY DEF Rounds
<1>2. Traded(start, b, taker)
    <2>1. IsSequence(<<>>)
        BY EmptySeq DEF IsSequence
    <2> QED
        BY <2>1 DEF Traded
<1> HIDE DEF start
<1>3. 0 \in S
    <2>1. after[0] = start
        BY <1>1
    <2> QED
        BY <1>2, <2>1
<1>4. ASSUME NEW m \in Nat, m \in S PROVE m + 1 \in S
    <2>1. SUFFICES ASSUME m + 1 <= n PROVE Traded(after[m + 1], b, taker)
        OBVIOUS
    <2>2. Traded(after[m], b, taker)
        BY <1>4, <2>1
    <2>3. after[m + 1] = Engine!MatchRound(after[m], taker, shows)
        BY <1>1, <2>1
    <2> QED
        BY <2>2, <2>3, RoundTrades
<1> HIDE DEF S
<1>5. n \in S
    BY <1>3, <1>4, NatSets
<1> QED
    BY <1>5 DEF S

(* Matching that makes no trade leaves the book and the taker as they were. *)
LEMMA MatchedTrades ==
    ASSUME NEW b, NEW taker, NEW shows, Shape(b)
    PROVE  Traded(Engine!Matched(b, taker, shows), b, taker)
<1> DEFINE n == Cardinality(DOMAIN b.index)
           after == CHOOSE f : Rounds(f, n, b, taker, shows)
<1>1. n \in Nat
    BY FS_CardinalityType DEF Shape
<1>2. Engine!Matched(b, taker, shows) = after[n]
    <2>1. Engine!Cardinality(DOMAIN b.index) = n
        BY DEF Engine!Cardinality, Cardinality
    <2> QED
        BY <2>1 DEF Engine!Matched, Rounds
<1> HIDE DEF n
<1>3. Rounds(after, n, b, taker, shows)
    BY <1>1, RoundsExist
<1> HIDE DEF after
<1> QED
    BY <1>1, <1>2, <1>3, RoundsTrade

-----------------------------------------------------------------------------
(* The steps of the gateway *)

LEMMA GatewayStarts ==
    ASSUME GatewayInit
    PROVE  GatewayInv
<1>1. /\ Open = {} /\ verifying = {} /\ proven = [c \in Clients |-> {}] /\ accepted = {}
      /\ DOMAIN seen = Clients /\ book = Engine!EmptyBook /\ allTrades = <<>>
    BY DEF GatewayInit, Open, Engine!Init
<1>2. Shape(book) /\ IsSequence(allTrades)
    <2>1. DOMAIN book = {"levels", "index"} /\ book.index = <<>>
        BY <1>1 DEF Engine!EmptyBook
    <2> QED
        BY <1>1, <2>1, FS_EmptySet, EmptySeq DEF Shape, IsSequence
<1> QED
    BY <1>1, <1>2 DEF GatewayInv, GatewayTypeOK, ClientsProven, OrdersProven, SubscribersSeeTheBook

LEMMA GatewayStays ==
    ASSUME GatewayInv, UNCHANGED <<clients, verifying, proven, accepted, seen, engineVars>>
    PROVE  GatewayInv'
BY DEF GatewayInv, GatewayTypeOK, ClientsProven, OrdersProven, SubscribersSeeTheBook, engineVars, Open

\* The engine and the book stay as they are.
EngineStays == book' = book /\ allTrades' = allTrades

LEMMA ConnectsKeeps ==
    ASSUME GatewayInv, NEW c \in Clients, Connects(c)
    PROVE  GatewayInv'
<1> DEFINE new == [trader |-> NoTrader, authenticated |-> FALSE, subscribed |-> FALSE]
<1>1. /\ verifying' = verifying /\ proven' = proven /\ accepted' = accepted /\ seen' = seen
      /\ EngineStays
      /\ clients' = clients \/ clients' = With(c, new)
    BY DEF Connects, engineVars, EngineStays
<1>2. /\ Open' \subseteq Open \union {c}
      /\ \A d \in Open' : (clients'[d] = clients[d] /\ d \in Open) \/ clients'[d] = new
    BY <1>1 DEF With, Open
<1>3. new \in ClientRecords /\ ~new.authenticated /\ ~new.subscribed
    BY DEF ClientRecords
<1> HIDE DEF new
<1>4. GatewayTypeOK'
    BY <1>1, <1>2, <1>3 DEF GatewayInv, GatewayTypeOK, EngineStays
<1>5. ClientsProven' /\ OrdersProven' /\ SubscribersSeeTheBook'
    BY <1>1, <1>2, <1>3 DEF GatewayInv, ClientsProven, OrdersProven, SubscribersSeeTheBook, EngineStays
<1> QED
    BY <1>4, <1>5 DEF GatewayInv

LEMMA ClosesKeeps ==
    ASSUME GatewayInv, NEW c \in Clients, Closes(c)
    PROVE  GatewayInv'
<1>1. /\ verifying' = verifying /\ proven' = proven /\ accepted' = accepted
      /\ EngineStays /\ clients' = Without(c)
      /\ DOMAIN seen' = DOMAIN seen /\ \A d \in DOMAIN seen : d # c => seen'[d] = seen[d]
    BY DEF Closes, engineVars, EngineStays
<1>2. Open' = Open \ {c} /\ \A d \in Open' : clients'[d] = clients[d]
    BY <1>1 DEF Without, Open
<1>3. GatewayTypeOK'
    BY <1>1, <1>2 DEF GatewayInv, GatewayTypeOK, EngineStays
<1>4. ClientsProven' /\ OrdersProven' /\ SubscribersSeeTheBook'
    BY <1>1, <1>2 DEF GatewayInv, GatewayTypeOK, ClientsProven, OrdersProven, SubscribersSeeTheBook,
                      EngineStays
<1> QED
    BY <1>3, <1>4 DEF GatewayInv

LEMMA AuthenticateKeeps ==
    ASSUME GatewayInv, NEW c \in Clients, NEW a \in Accounts, NEW genuine \in BOOLEAN,
           Authenticate(c, a, genuine)
    PROVE  GatewayInv'
<1>1. /\ proven' = proven /\ accepted' = accepted /\ seen' = seen /\ clients' = clients
      /\ EngineStays
      /\ verifying' = verifying \union {[client |-> c, account |-> a, genuine |-> genuine]}
    BY DEF Authenticate, Asks, engineVars, EngineStays
<1> QED
    BY <1>1 DEF GatewayInv, GatewayTypeOK, ClientsProven, OrdersProven, SubscribersSeeTheBook,
                EngineStays, Open

LEMMA VerifiedKeeps ==
    ASSUME GatewayInv, NEW v \in verifying, Verified(v)
    PROVE  GatewayInv'
<1>1. /\ accepted' = accepted /\ seen' = seen /\ EngineStays /\ verifying' = verifying \ {v}
      /\ clients' = IF v.genuine /\ v.client \in Open
                    THEN [clients EXCEPT ![v.client].authenticated = TRUE,
                                         ![v.client].trader = v.account]
                    ELSE clients
      /\ proven' = IF v.genuine THEN [proven EXCEPT ![v.client] = @ \union {v.account}] ELSE proven
    BY DEF Verified, engineVars, EngineStays
<1>2. v.client \in Clients /\ v.account \in Accounts /\ v.genuine \in BOOLEAN
    BY DEF GatewayInv, GatewayTypeOK
<1>3. /\ proven' \in [Clients -> SUBSET Accounts]
      /\ \A d \in Clients : proven[d] \subseteq proven'[d]
      /\ v.genuine => v.account \in proven'[v.client]
    BY <1>1, <1>2 DEF GatewayInv, GatewayTypeOK
<1>4. /\ Open' = Open
      /\ \A d \in Open : \/ clients'[d] = clients[d]
                         \/ /\ d = v.client /\ v.genuine /\ clients'[d] \in ClientRecords
                            /\ clients'[d].trader = v.account
                            /\ clients'[d].subscribed = clients[d].subscribed
    <2>1. CASE v.genuine /\ v.client \in Open
        <3> DEFINE client == [[clients[v.client] EXCEPT !.authenticated = TRUE] EXCEPT !.trader = v.account]
        <3>1. clients' = [clients EXCEPT ![v.client] = client]
            BY <1>1, <2>1 DEF Open
        <3>2. clients[v.client] \in ClientRecords
            BY <2>1 DEF GatewayInv, GatewayTypeOK
        <3>3. client \in ClientRecords /\ client.trader = v.account
              /\ client.subscribed = clients[v.client].subscribed
            BY <1>2, <3>2 DEF ClientRecords
        <3> HIDE DEF client
        <3> QED
            BY <2>1, <3>1, <3>3 DEF Open
    <2>2. CASE ~(v.genuine /\ v.client \in Open)
        BY <1>1, <2>2 DEF Open
    <2> QED
        BY <2>1, <2>2
<1>5. GatewayTypeOK'
    BY <1>1, <1>3, <1>4 DEF GatewayInv, GatewayTypeOK, EngineStays
<1>6. ClientsProven'
    BY <1>1, <1>3, <1>4 DEF GatewayInv, GatewayTypeOK, ClientsProven
<1>7. OrdersProven'
    BY <1>1, <1>3 DEF GatewayInv, GatewayTypeOK, OrdersProven
<1>8. SubscribersSeeTheBook'
    BY <1>1, <1>4 DEF GatewayInv, SubscribersSeeTheBook, EngineStays
<1> QED
    BY <1>5, <1>6, <1>7, <1>8 DEF GatewayInv

\* A client that subscribes, or no longer does, is who it was.
LEMMA SubscriptionIs ==
    ASSUME GatewayInv, NEW c \in Open, NEW wish \in BOOLEAN,
           clients' = [clients EXCEPT ![c].subscribed = wish]
    PROVE  /\ Open' = Open /\ \A d \in Open : d # c => clients'[d] = clients[d]
           /\ clients'[c] \in ClientRecords /\ clients'[c].subscribed = wish
           /\ clients'[c].trader = clients[c].trader
           /\ clients'[c].authenticated = clients[c].authenticated
<1>1. clients[c] \in ClientRecords
    BY DEF GatewayInv, GatewayTypeOK
<1>2. /\ [clients[c] EXCEPT !.subscribed = wish] \in ClientRecords
      /\ [clients[c] EXCEPT !.subscribed = wish].subscribed = wish
      /\ [clients[c] EXCEPT !.subscribed = wish].trader = clients[c].trader
      /\ [clients[c] EXCEPT !.subscribed = wish].authenticated = clients[c].authenticated
    BY <1>1 DEF ClientRecords
<1>3. /\ DOMAIN clients' = DOMAIN clients /\ \A d \in Open : d # c => clients'[d] = clients[d]
      /\ clients'[c] = [clients[c] EXCEPT !.subscribed = wish]
    BY DEF Open
<1> QED
    BY <1>2, <1>3 DEF Open

LEMMA SubscribeKeeps ==
    ASSUME GatewayInv, NEW c \in Clients, Subscribe(c)
    PROVE  GatewayInv'
<1>1. /\ c \in Open /\ clients' = [clients EXCEPT ![c].subscribed = TRUE]
      /\ seen' = [seen EXCEPT ![c] = Snapshot(book)] /\ EngineStays
      /\ verifying' = verifying /\ proven' = proven /\ accepted' = accepted
    BY DEF Subscribe, Counted, engineVars, EngineStays
<1>2. /\ Open' = Open /\ \A d \in Open : d # c => clients'[d] = clients[d]
      /\ clients'[c] \in ClientRecords
      /\ clients'[c].trader = clients[c].trader
      /\ clients'[c].authenticated = clients[c].authenticated
    BY <1>1, SubscriptionIs
<1>3. DOMAIN seen = Clients /\ Open \subseteq Clients
    BY DEF GatewayInv, GatewayTypeOK
<1>4. DOMAIN seen' = Clients /\ \A d \in Open : seen'[d] = IF d = c THEN Snapshot(book) ELSE seen[d]
    BY <1>1, <1>3
<1>5. GatewayTypeOK'
    BY <1>1, <1>2, <1>4 DEF GatewayInv, GatewayTypeOK, EngineStays
<1>6. ClientsProven' /\ OrdersProven'
    BY <1>1, <1>2 DEF GatewayInv, ClientsProven, OrdersProven
<1>7. SubscribersSeeTheBook'
    BY <1>1, <1>2, <1>4 DEF GatewayInv, SubscribersSeeTheBook, EngineStays, Snapshot
<1> QED
    BY <1>5, <1>6, <1>7 DEF GatewayInv

LEMMA UnsubscribeKeeps ==
    ASSUME GatewayInv, NEW c \in Clients, Unsubscribe(c)
    PROVE  GatewayInv'
<1>1. /\ c \in Open /\ clients' = [clients EXCEPT ![c].subscribed = FALSE]
      /\ seen' = seen /\ EngineStays
      /\ verifying' = verifying /\ proven' = proven /\ accepted' = accepted
    BY DEF Unsubscribe, Counted, engineVars, EngineStays
<1>2. /\ Open' = Open /\ \A d \in Open : d # c => clients'[d] = clients[d]
      /\ clients'[c] \in ClientRecords /\ clients'[c].subscribed = FALSE
      /\ clients'[c].trader = clients[c].trader
      /\ clients'[c].authenticated = clients[c].authenticated
    BY <1>1, SubscriptionIs
<1>3. GatewayTypeOK'
    BY <1>1, <1>2 DEF GatewayInv, GatewayTypeOK, EngineStays
<1>4. ClientsProven' /\ OrdersProven'
    BY <1>1, <1>2 DEF GatewayInv, ClientsProven, OrdersProven
<1>5. SubscribersSeeTheBook'
    BY <1>1, <1>2 DEF GatewayInv, SubscribersSeeTheBook, EngineStays
<1> QED
    BY <1>3, <1>4, <1>5 DEF GatewayInv

LEMMA BookSentIs ==
    ASSUME GatewayInv, BookSent, clients' = clients
    PROVE  DOMAIN seen' = Clients /\ SubscribersSeeTheBook'
<1>1. DOMAIN seen' = Clients
    BY DEF BookSent
<1>2. ASSUME NEW d \in Open, clients[d].subscribed PROVE seen'[d] = Snapshot(book')
    <2>1. d \in Clients
        BY DEF GatewayInv, GatewayTypeOK
    <2> QED
        BY <1>2, <2>1 DEF BookSent
<1>3. SubscribersSeeTheBook' = \A d \in Open : clients[d].subscribed => seen'[d] = Snapshot(book')
    BY DEF SubscribersSeeTheBook, Open, Snapshot
<1> QED
    BY <1>1, <1>2, <1>3

LEMMA CancelOrderKeeps ==
    ASSUME GatewayInv, NEW c \in Clients, NEW id, CancelOrder(c, id)
    PROVE  GatewayInv'
<1>1. /\ clients' = clients /\ verifying' = verifying /\ proven' = proven /\ accepted' = accepted
      /\ BookSent /\ book' = Engine!Cancelled(book, id) /\ allTrades' = allTrades
    BY DEF CancelOrder, Engine!CancelOrder
<1>2. Shape(book')
    BY <1>1, CancelledShape DEF GatewayInv, GatewayTypeOK
<1>3. DOMAIN seen' = Clients /\ SubscribersSeeTheBook'
    BY <1>1, BookSentIs
<1>4. GatewayTypeOK' /\ ClientsProven' /\ OrdersProven'
    BY <1>1, <1>2, <1>3 DEF GatewayInv, GatewayTypeOK, ClientsProven, OrdersProven, Open
<1> QED
    BY <1>3, <1>4 DEF GatewayInv

LEMMA Joined ==
    ASSUME NEW s, IsSequence(s), NEW r, IsSequence(r)
    PROVE  /\ IsSequence(s \o r)
           /\ SubSeq(s \o r, Len(s) + 1, Len(s \o r)) = <<>> => r = <<>>
<1>1. PICK S : s \in Seq(S)
    BY DEF IsSequence
<1>2. PICK R : r \in Seq(R)
    BY DEF IsSequence
<1> DEFINE T == S \union R
<1>3. s \in Seq(T) /\ r \in Seq(T)
    BY <1>1, <1>2, SeqMonotonic
<1> HIDE DEF T
<1>4. s \o r \in Seq(T) /\ Len(s \o r) = Len(s) + Len(r) /\ Len(s) \in Nat /\ Len(r) \in Nat
    BY <1>3, ConcatProperties, LenProperties
<1>5. ASSUME r # <<>> PROVE SubSeq(s \o r, Len(s) + 1, Len(s \o r)) # <<>>
    <2> DEFINE all == s \o r
               m == Len(s) + 1
               n == Len(s \o r)
    <2>1. Len(r) \in Nat \ {0}
        BY <1>3, <1>5, EmptySeq
    <2>2. m \in Int /\ n \in Int /\ m <= n /\ \A i \in m..n : all[i] \in T
        <3>1. ASSUME NEW i \in m..n PROVE all[i] \in T
            <4>1. i \in 1..Len(all)
                BY <1>4
            <4> HIDE DEF all
            <4> QED
                BY <1>4, <4>1, ElementOfSeq DEF all
        <3> QED
            BY <1>4, <2>1, <3>1
    <2> HIDE DEF all, m, n
    <2>3. Len(SubSeq(all, m, n)) = n - m + 1
        BY <2>2, SubSeqProperties
    <2>4. Len(SubSeq(all, m, n)) # 0
        BY <2>2, <2>3
    <2>5. SubSeq(all, m, n) # <<>>
        BY <2>4, EmptySeq
    <2> QED
        BY <2>5 DEF all, m, n
<1> QED
    BY <1>4, <1>5 DEF IsSequence

LEMMA SubmitOrderKeeps ==
    ASSUME GatewayInv, NEW c \in Clients, NEW o \in Requests, SubmitOrder(c, o)
    PROVE  GatewayInv'
<1> DEFINE trades == SubSeq(allTrades', Len(allTrades) + 1, Len(allTrades'))
           t == Engine!Matched(book, o, Engine!FillsShow)
<1>1. /\ c \in Open /\ clients[c].authenticated /\ o.trader = clients[c].trader
      /\ Engine!SubmitOrder(o) /\ accepted' = accepted \union {[client |-> c, order |-> o]}
      /\ IF Told(trades, result'.status) THEN BookSent ELSE UNCHANGED seen
      /\ clients' = clients /\ verifying' = verifying /\ proven' = proven
    BY DEF SubmitOrder, Counted
<1>2. Shape(book) /\ IsSequence(allTrades) /\ DOMAIN seen = Clients
    BY DEF GatewayInv, GatewayTypeOK
<1>3. Traded(t, book, o)
    BY <1>2, MatchedTrades
<1>4. \/ book' = book /\ allTrades' = allTrades
      \/ /\ book' = IF Engine!Rests(o, t.remaining)
                    THEN Engine!Placed(t.book, [o EXCEPT !.remaining = t.remaining]) ELSE t.book
         /\ allTrades' = allTrades \o t.trades
         /\ result'.status = Engine!RestStatus(o, t.remaining)
    BY <1>1 DEF Engine!SubmitOrder, Engine!Reject, Engine!Kill, Engine!Match, Engine!Answer
<1> HIDE DEF t
<1>5. Shape(book') /\ IsSequence(allTrades')
    BY <1>2, <1>3, <1>4, PlacedShape, Joined DEF Traded
<1>6. ASSUME ~Told(trades, result'.status) PROVE book' = book
    <2>1. trades = <<>> /\ result'.status # "open"
        BY <1>6 DEF Told
    <2>2. CASE /\ book' = IF Engine!Rests(o, t.remaining)
                          THEN Engine!Placed(t.book, [o EXCEPT !.remaining = t.remaining]) ELSE t.book
               /\ allTrades' = allTrades \o t.trades
               /\ result'.status = Engine!RestStatus(o, t.remaining)
        <3>1. t.trades = <<>>
            BY <1>2, <1>3, <2>1, <2>2, Joined DEF Traded
        <3>2. t.book = book /\ t.remaining = o.remaining
            BY <1>3, <3>1 DEF Traded
        <3>3. o.quantity \in Nat /\ o.remaining = o.quantity
            BY RequestsAssumption
        <3>4. ~Engine!Rests(o, t.remaining)
            BY <2>1, <2>2, <3>2, <3>3 DEF Engine!Rests, Engine!RestStatus
        <3> QED
            BY <2>2, <3>2, <3>4
    <2> QED
        BY <1>4, <2>2
<1>7. DOMAIN seen' = Clients /\ SubscribersSeeTheBook'
    <2>1. CASE Told(trades, result'.status)
        BY <1>1, <2>1, BookSentIs
    <2>2. CASE ~Told(trades, result'.status)
        <3>1. book' = book /\ seen' = seen
            BY <1>1, <1>6, <2>2
        <3> QED
            BY <1>1, <1>2, <3>1 DEF GatewayInv, SubscribersSeeTheBook, Open
    <2> QED
        BY <2>1, <2>2
<1>8. GatewayTypeOK' /\ ClientsProven'
    <2>1. accepted' \subseteq [client : Clients, order : Requests]
        BY <1>1 DEF GatewayInv, GatewayTypeOK
    <2> QED
        BY <1>1, <1>5, <1>7, <2>1 DEF GatewayInv, GatewayTypeOK, ClientsProven, Open
<1>9. OrdersProven'
    <2>1. o.trader \in proven[c]
        BY <1>1 DEF GatewayInv, ClientsProven
    <2>2. ASSUME NEW x \in accepted' PROVE x.order.trader \in proven[x.client]
        <3>1. CASE x \in accepted
            BY <3>1 DEF GatewayInv, OrdersProven
        <3>2. CASE x = [client |-> c, order |-> o]
            BY <2>1, <3>2
        <3> QED
            BY <1>1, <3>1, <3>2
    <2> QED
        BY <1>1, <2>2 DEF OrdersProven
<1> QED
    BY <1>7, <1>8, <1>9 DEF GatewayInv

LEMMA GatewayNextKeeps ==
    ASSUME GatewayInv, GatewayNext
    PROVE  GatewayInv'
<1>1. CASE \E c \in Clients : Connects(c) \/ Closes(c) \/ Subscribe(c) \/ Unsubscribe(c)
    BY <1>1, ConnectsKeeps, ClosesKeeps, SubscribeKeeps, UnsubscribeKeeps
<1>2. CASE \E c \in Clients : \E a \in Accounts, genuine \in BOOLEAN : Authenticate(c, a, genuine)
    BY <1>2, AuthenticateKeeps
<1>3. CASE \E c \in Clients : \E o \in Requests : SubmitOrder(c, o)
    BY <1>3, SubmitOrderKeeps
<1>4. CASE \E c \in Clients : \E o \in Requests : CancelOrder(c, o.id)
    BY <1>4, CancelOrderKeeps
<1>5. CASE \E v \in verifying : Verified(v)
    BY <1>5, VerifiedKeeps
<1>6. ASSUME NEW c \in Clients, WindowEnds(c)
      PROVE  GatewayInv'
    BY <1>6, GatewayStays DEF WindowEnds
<1> QED
    BY <1>1, <1>2, <1>3, <1>4, <1>5, <1>6 DEF GatewayNext

-----------------------------------------------------------------------------
(* The server *)

\* The gateway keeps its part whatever the settlement does, and the points theirs with the
\* pipeline.
ServerInv == PipelineInv /\ PointsInv /\ GatewayInv

LEMMA PipelineStays ==
    ASSUME PipelineInv, UNCHANGED pipelineVars
    PROVE  PipelineInv' /\ ConfirmedTrades' = ConfirmedTrades
BY DEF PipelineInv, PipelineTypeOK, BatchesDistinct, TradesAccounted, InFlight, ReceiptsTrue, Backed,
       SentInDue, ConfirmedTrades, pipelineVars

LEMMA PointsStepKeeps ==
    ASSUME PipelineInv, PointsInv, PointsStep, UNCHANGED pipelineVars
    PROVE  PipelineInv' /\ PointsInv'
<1>1. PipelineInv' /\ ConfirmedTrades' = ConfirmedTrades
    BY PipelineStays
<1>2. CASE CallProceeds
    BY <1>1, <1>2, LoadKeeps, SaveRecordKeeps, SaveHistoryKeeps DEF CallProceeds
<1>3. CASE \E l \in Links : RegisterReferral(l[1], l[2])
    BY <1>1, <1>3, RegisterReferralKeeps
<1>4. CASE NextDay
    BY <1>1, <1>4, NextDayKeeps
<1> QED
    BY <1>1, <1>2, <1>3, <1>4 DEF PointsStep

LEMMA SettlementKeeps ==
    ASSUME PipelineInv, PointsInv, Settlement
    PROVE  PipelineInv' /\ PointsInv'
<1>1. CASE Timer
    BY <1>1, FlushTimerKeeps, PointsStay DEF Timer
<1>2. CASE BatchProceeds
    BY <1>2, ConfirmKeeps, FliesKeeps, PointsStay DEF BatchProceeds
<1>3. CASE ServerRestart
    BY <1>3, ServerRestartKeeps
<1>4. CASE \E t \in Trades : QueueTrade(t) /\ UNCHANGED pointsVars
    BY <1>4, QueueTradeKeeps, PointsStay
<1>5. CASE \E success \in BOOLEAN : Mine(success) /\ UNCHANGED pointsVars
    BY <1>5, MineKeeps, PointsStay
<1>6. CASE PointsStep /\ UNCHANGED pipelineVars
    BY <1>6, PointsStepKeeps
<1> QED
    BY <1>1, <1>2, <1>3, <1>4, <1>5, <1>6 DEF Settlement

LEMMA ServerStarts ==
    ASSUME Init
    PROVE  ServerInv
BY PipelineStarts, PointsStart, GatewayStarts DEF Init, ServerInv

LEMMA ServerKeeps ==
    ASSUME ServerInv, [Next]_vars
    PROVE  ServerInv'
<1>1. CASE Settlement /\ UNCHANGED gatewayVars
    <2>1. PipelineInv' /\ PointsInv'
        BY <1>1, SettlementKeeps DEF ServerInv
    <2>2. GatewayInv'
        BY <1>1, GatewayStays DEF ServerInv, gatewayVars, engineVars
    <2> QED
        BY <2>1, <2>2 DEF ServerInv
<1>2. CASE GatewayNext /\ UNCHANGED <<pipelineVars, pointsVars>>
    <2>1. PipelineInv' /\ PointsInv'
        BY <1>2, PipelineStays, PointsStay DEF ServerInv
    <2>2. GatewayInv'
        BY <1>2, GatewayNextKeeps DEF ServerInv
    <2> QED
        BY <2>1, <2>2 DEF ServerInv
<1>3. CASE UNCHANGED vars
    <2>1. PipelineInv' /\ PointsInv'
        BY <1>3, PipelineStays, PointsStay DEF ServerInv, vars
    <2>2. GatewayInv'
        BY <1>3, GatewayStays DEF ServerInv, vars, gatewayVars, engineVars
    <2> QED
        BY <2>1, <2>2 DEF ServerInv
<1> QED
    BY <1>1, <1>2, <1>3 DEF Next

(* Whatever fails, is lost, or restarts, the pipeline, the points and the gateway of the server *)
(* keep their invariants: where each trade is, what each record counts, who has proven what.    *)
THEOREM AlwaysInvariant == Spec => []ServerInv
<1>1. Init => ServerInv
    BY ServerStarts
<1>2. ServerInv /\ [Next]_vars => ServerInv'
    BY ServerKeeps
<1> QED
    BY <1>1, <1>2, PTL DEF Spec

(* Every trade that was queued is in exactly one place: in the queue, in one batch, or gone,    *)
(* for any number of trades, tries and requeues (queueTrade, flushBatch).                       *)
THEOREM TradesStayAccounted == Spec => []TradesAccounted
<1>1. ServerInv => TradesAccounted
    BY DEF ServerInv, PipelineInv
<1> QED
    BY <1>1, AlwaysInvariant, PTL

(* No record counts more trades of its trader than the chain has executed, though answers are   *)
(* lost, batches are sent again and awards overwrite one another (flushBatch,                   *)
(* calculatePointsForTrade).                                                                    *)
THEOREM RecordsNeverOvercount == Spec => []NeverOvercounted
<1>1. ASSUME ServerInv PROVE NeverOvercounted
    <2>1. SUFFICES ASSUME NEW trader \in DOMAIN store
                   PROVE  store[trader].trades
                              <= Cardinality({t \in settled : trader \in {t.makerTrader, t.takerTrader}})
        BY DEF NeverOvercounted
    <2> DEFINE executed == {t \in settled : trader \in {t.makerTrader, t.takerTrader}}
               n == store[trader].trades
               C == SidedWith(ConfirmedTrades, trader)
               A == Awaiting(calls, trader)
    <2>2. IsFiniteSet(ConfirmedTrades) /\ IsFiniteSet(calls) /\ PointsTypeOK /\ trader \in Traders
        BY <1>1, ConfirmedFinite DEF ServerInv, PointsInv, PointsTypeOK
    <2>3. n = RecordOf(trader).trades /\ n \in Nat
        BY <2>2, RecordTyped DEF RecordOf
    <2>4. n + Cardinality(A) <= Cardinality(C) /\ Cardinality(A) \in Nat /\ Cardinality(C) \in Nat
        <3>1. Room(calls, ConfirmedTrades, trader, n)
            BY <1>1, <2>2, <2>3 DEF ServerInv, PointsInv, CountsBounded
        <3> QED
            BY <2>2, <3>1, AwaitingFinite, SidedFinite DEF Room
    <2>5. IsFiniteSet(executed) /\ C \in SUBSET executed
        <3>1. /\ settled \in SUBSET queued /\ IsFiniteSet(queued)
              /\ ConfirmedTrades \subseteq settled /\ executed \in SUBSET settled
            BY <1>1 DEF ServerInv, PipelineInv, PipelineTypeOK, ReceiptsTrue
        <3>2. C \in SUBSET executed
            BY <3>1 DEF SidedWith
        <3> HIDE DEF executed
        <3> QED
            BY <3>1, <3>2, FS_Subset
    <2> HIDE DEF executed, C, A, n
    <2>6. Cardinality(C) <= Cardinality(executed) /\ Cardinality(executed) \in Nat
        BY <2>5, FS_Subset, FS_CardinalityType
    <2>7. n <= Cardinality(executed)
        BY <2>3, <2>4, <2>6
    <2> QED
        BY <2>7 DEF executed, n
<1> QED
    BY <1>1, AlwaysInvariant, PTL

(* While the store is in memory, the history and what is on its way to it explain the points of *)
(* every trader, for any interleaving of awards and referral credits (calculatePointsForTrade,  *)
(* creditReferralPoints).                                                                       *)
THEOREM PointsStayExplained == Spec => []PointsExplained
<1>1. ServerInv => PointsExplained
    BY DEF ServerInv, PointsInv
<1> QED
    BY <1>1, AlwaysInvariant, PTL

(* An order reaches the engine only from a connection that has proven to hold the key of its    *)
(* trader, in whatever order signatures are verified (handleAuthenticate, handleSubmitOrder).   *)
THEOREM OrdersStayProven == Spec => []OrdersProven
<1>1. ServerInv => OrdersProven
    BY DEF ServerInv, GatewayInv
<1> QED
    BY <1>1, AlwaysInvariant, PTL

(* Whoever subscribed to the book has been sent the book as it is, for any orders and any       *)
(* number of connections (handleSubmitOrder, handleCancelOrder).                                *)
THEOREM SubscribersStayInformed == Spec => []SubscribersSeeTheBook
<1>1. ServerInv => SubscribersSeeTheBook
    BY DEF ServerInv, GatewayInv
<1> QED
    BY <1>1, AlwaysInvariant, PTL

================================================================================
