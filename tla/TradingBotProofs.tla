--------------------------- MODULE TradingBotProofs ---------------------------
(***************************************************************************)
(* Proofs about the trading bot, for all strategies, prices, limits and    *)
(* numbers of positions.                                                   *)
(*                                                                         *)
(* Nothing here types the numbers of the book: what is proved depends on   *)
(* which positions are on it, and a position enters and leaves the book    *)
(* as a whole.                                                             *)
(***************************************************************************)
EXTENDS TradingBot, SumTheorems

\* Bounds of the state's lists: every list is a sequence of its own members.
IsList(s) == s \in Seq(Members(s))

LEMMA ListMore ==
    ASSUME NEW s, IsList(s), NEW x
    PROVE  /\ IsList(Append(s, x))
           /\ Members(Append(s, x)) = Members(s) \union {x}
<1> DEFINE T == Members(s) \union {x}
<1>1. s \in Seq(T) /\ x \in T
    <2> HIDE DEF T
    <2>1. Members(s) \subseteq T /\ s \in Seq(Members(s)) /\ x \in T
        BY DEF T, IsList
    <2> QED
        BY <2>1
<1>2. Members(Append(s, x)) = Members(s) \union {x}
    <2> HIDE DEF T
    <2> QED
        BY <1>1, MembersMore
<1>3. Append(s, x) \in Seq(T)
    BY <1>1
<1> QED
    BY <1>2, <1>3 DEF IsList

LEMMA ListOnly ==
    ASSUME NEW s, IsList(s), NEW S
    PROVE  /\ IsList(OnlyIn(s, S))
           /\ Members(OnlyIn(s, S)) = Members(s) \cap S
<1> DEFINE T == Members(s)
           r == OnlyIn(s, S)
<1>1. s \in Seq(T)
    BY DEF IsList
<1>2. r \in Seq(T) /\ Members(r) = Members(s) \cap S
    BY <1>1, OnlyInType
<1>3. \A i \in 1..Len(r) : r[i] \in Members(r)
    BY DEF Members
<1>4. r \in Seq(Members(r))
    <2> HIDE DEF r, T
    <2> QED
        BY <1>2, <1>3
<1> QED
    BY <1>2, <1>4 DEF IsList

LEMMA NoList == IsList(<<>>) /\ Members(<<>>) = {}
BY NoMembers DEF IsList

LEMMA RangeOfList ==
    ASSUME NEW s, IsList(s)
    PROVE  Range(s) = Members(s)
BY DEF IsList, Range, Members

LEMMA ListEntries ==
    ASSUME NEW s, IsList(s), NEW i \in DOMAIN s
    PROVE  s[i] \in Members(s) /\ i \in 1..Len(s)
BY DEF IsList, Members

\* A list without one of its entries.
LEMMA ListWithout ==
    ASSUME NEW s, IsList(s), NEW i \in DOMAIN s
    PROVE  IsList(RemoveAt(s, i)) /\ Members(RemoveAt(s, i)) \subseteq Members(s)
<1> DEFINE T == Members(s)
           r == RemoveAt(s, i)
<1>1. s \in Seq(T) /\ i \in 1..Len(s) /\ Len(s) \in Nat
    BY DEF IsList
<1>2. SubSeq(s, 1, i - 1) \in Seq(T) /\ SubSeq(s, i + 1, Len(s)) \in Seq(T)
    <2> HIDE DEF T
    <2> QED
        BY <1>1, SubSeqProperties
<1>3. r \in Seq(T)
    <2> HIDE DEF T
    <2> QED
        BY <1>2 DEF RemoveAt
<1>4. Members(r) \subseteq T
    <2> HIDE DEF T, r
    <2> QED
        BY <1>3 DEF Members
<1>5. r \in Seq(Members(r))
    <2> HIDE DEF T, r
    <2>1. \A j \in 1..Len(r) : r[j] \in Members(r)
        BY DEF Members
    <2> QED
        BY <1>3, <2>1
<1> QED
    BY <1>4, <1>5 DEF IsList

-----------------------------------------------------------------------------
(* The book *)

\* The book's positions.
Held(d) == Members(d.book.open)
Others(d, id) == {q \in Held(d) : q.id # id}

LEMMA OpenedBook ==
    ASSUME NEW b, "open" \in DOMAIN b, NEW p
    PROVE  /\ "open" \in DOMAIN OpenPosition(b, p)
           /\ OpenPosition(b, p).open = Append(b.open, p)
           /\ "closed" \in DOMAIN b => /\ "closed" \in DOMAIN OpenPosition(b, p)
                                       /\ OpenPosition(b, p).closed = b.closed
BY DEF OpenPosition

LEMMA ClosedBook ==
    ASSUME NEW b, "open" \in DOMAIN b, IsList(b.open), NEW p, NEW px, NEW reason, NEW t
    PROVE  /\ "open" \in DOMAIN ClosePosition(b, p, px, reason, t)
           /\ ClosePosition(b, p, px, reason, t).open
                = OnlyIn(b.open, {q \in Members(b.open) : q.id # p.id})
<1> DEFINE rest == OnlyIn(b.open, {q \in Range(b.open) : q.id # p.id})
           c == [b EXCEPT !.capital = @ + NetPnl(p, px), !.dailyPnl = @ + NetPnl(p, px),
                          !.open = rest,
                          !.closed = Append(@, [id |-> p.id, engine |-> p.engine, side |-> p.side,
                                                pnl |-> NetPnl(p, px), reason |-> reason, at |-> t])]
<1>1. "open" \in DOMAIN c /\ c.open = rest
    <2> HIDE DEF rest
    <2> QED
        OBVIOUS
<1>2. ClosePosition(b, p, px, reason, t) = CheckCircuitBreakers(c, t)
    BY DEF ClosePosition
<1>3. /\ "open" \in DOMAIN CheckCircuitBreakers(c, t)
      /\ CheckCircuitBreakers(c, t).open = c.open
    <2> HIDE DEF c
    <2> QED
        BY <1>1 DEF CheckCircuitBreakers
<1>4. rest = OnlyIn(b.open, {q \in Members(b.open) : q.id # p.id})
    BY RangeOfList
<1> QED
    <2> HIDE DEF c, rest
    <2> QED
        BY <1>1, <1>2, <1>3, <1>4

\* The trade is added to those closed.
LEMMA ClosedTrades ==
    ASSUME NEW b, "closed" \in DOMAIN b, IsList(b.closed), NEW p, NEW px, NEW reason, NEW at
    PROVE  /\ "closed" \in DOMAIN ClosePosition(b, p, px, reason, at)
           /\ IsList(ClosePosition(b, p, px, reason, at).closed)
<1> DEFINE rest == OnlyIn(b.open, {q \in Range(b.open) : q.id # p.id})
           trade == [id |-> p.id, engine |-> p.engine, side |-> p.side,
                     pnl |-> NetPnl(p, px), reason |-> reason, at |-> at]
           more == Append(b.closed, trade)
           c == [b EXCEPT !.capital = @ + NetPnl(p, px), !.dailyPnl = @ + NetPnl(p, px),
                          !.open = rest, !.closed = more]
<1>1. IsList(more)
    <2> HIDE DEF trade
    <2> QED
        BY ListMore
<1>2. "closed" \in DOMAIN c /\ c.closed = more
    <2> HIDE DEF rest, more
    <2> QED
        OBVIOUS
<1>3. ClosePosition(b, p, px, reason, at) = CheckCircuitBreakers(c, at)
    BY DEF ClosePosition
<1>4. /\ "closed" \in DOMAIN CheckCircuitBreakers(c, at)
      /\ CheckCircuitBreakers(c, at).closed = c.closed
    <2> HIDE DEF c
    <2> QED
        BY <1>2 DEF CheckCircuitBreakers
<1> QED
    <2> HIDE DEF c, rest, more
    <2> QED
        BY <1>1, <1>2, <1>3, <1>4

\* On the book: the same as being one of its members.
LEMMA OpenIsHeld ==
    ASSUME NEW b, IsList(b.open), NEW id
    PROVE  IsOpen(b, id) <=> \E p \in Members(b.open) : p.id = id
BY DEF IsOpen, IsList, Members

-----------------------------------------------------------------------------
(* The swing engine: the position it watches, and the book *)

SwingShape(d) ==
    /\ {"book", "entering", "flights", "pos"} \subseteq DOMAIN d
    /\ "open" \in DOMAIN d.book
    /\ IsList(d.book.open)
    /\ IsList(d.flights)

\* On paper nothing is on the way, and the two copies agree.
OnPaper(d) ==
    /\ d.entering = {} /\ d.flights = <<>>
    /\ d.book.open = IF d.pos = NoPosition THEN <<>> ELSE <<d.pos>>

\* Live: an entry on the way is on the book under an id of its own, that no
\* order to close has; so an answer to a closing never takes the position that
\* the answer to an entry will give the engine to watch.
EntriesApart(d, n) ==
    /\ \A p \in d.entering :
          /\ p.id \in 1..n
          /\ p.id # d.pos.id
          /\ \E q \in Held(d) : q.id = p.id
          /\ \A f \in Members(d.flights) : f.pos.id # p.id
    /\ \A p, q \in d.entering : p.id = q.id => p = q

Numbered(d, n) ==
    /\ d.pos.id \in 0..n
    /\ \A f \in Members(d.flights) : f.pos.id \in 0..n

Watched(d) == d.pos # NoPosition => \E q \in Held(d) : q.id = d.pos.id

SwingSound(d, n, l) ==
    /\ SwingShape(d)
    /\ ~l => OnPaper(d)
    /\ l => EntriesApart(d, n) /\ Numbered(d, n) /\ Watched(d)

\* What the engine remembers beside its positions does not matter here.
SamePositions(d, c) ==
    /\ {"book", "entering", "flights", "pos"} \subseteq DOMAIN c
    /\ c.book = d.book /\ c.entering = d.entering /\ c.flights = d.flights /\ c.pos = d.pos

LEMMA SameSound ==
    ASSUME NEW d, NEW c, NEW n, NEW l, SwingSound(d, n, l), SamePositions(d, c)
    PROVE  SwingSound(c, n, l)
BY DEF SwingSound, SamePositions, SwingShape, OnPaper, EntriesApart, Numbered, Watched, Held

LEMMA FreshSound ==
    ASSUME NEW n \in Nat, NEW l
    PROVE  SwingSound(NewSwing, n, l)
<1>1. /\ {"book", "entering", "flights", "pos"} \subseteq DOMAIN NewSwing
      /\ NewSwing.book = NewBook(now) /\ NewSwing.entering = {} /\ NewSwing.flights = <<>>
      /\ NewSwing.pos = NoPosition
    BY DEF NewSwing
<1>2. "open" \in DOMAIN NewBook(now) /\ NewBook(now).open = <<>>
    BY DEF NewBook
<1>3. NoPosition.id = 0 /\ 0 \in 0..n
    BY DEF NoPosition
<1> QED
    BY <1>1, <1>2, <1>3, NoList
    DEF SwingSound, SwingShape, OnPaper, EntriesApart, Numbered, Watched

\* A new position: on paper the engine watches it at once, live it is booked
\* and on the way.
LEMMA OpenTradeSound ==
    ASSUME NEW d, opened \in Nat, SwingSound(d, opened, live), Flat(d), NEW side
    PROVE  SwingSound(OpenTrade(d, side), opened + 1, live)
<1> DEFINE p == [id |-> opened + 1, engine |-> "SWING", side |-> side, entry |-> price,
                 trail |-> FALSE, best |-> 0, at |-> now]
           b == OpenPosition(d.book, p)
           c == [d EXCEPT !.book = OpenPosition(@, p)]
           r == OpenTrade(d, side)
<1>1. SwingShape(d) /\ d.pos = NoPosition
    BY DEF SwingSound, Flat
<1>2. p.id = opened + 1 /\ p # NoPosition
    <2>1. p.id = opened + 1 /\ NoPosition.id = 0 /\ opened + 1 # 0
        BY DEF NoPosition
    <2> QED
        BY <2>1
<1> HIDE DEF p
<1>3. /\ "open" \in DOMAIN b /\ b.open = Append(d.book.open, p)
      /\ IsList(b.open) /\ Members(b.open) = Members(d.book.open) \union {p}
    <2>1. "open" \in DOMAIN b /\ b.open = Append(d.book.open, p)
        BY <1>1, OpenedBook DEF SwingShape
    <2>2. IsList(Append(d.book.open, p))
          /\ Members(Append(d.book.open, p)) = Members(d.book.open) \union {p}
        BY <1>1, ListMore DEF SwingShape
    <2> HIDE DEF b, c, r
    <2> QED
        BY <2>1, <2>2
<1>4. /\ DOMAIN c = DOMAIN d
      /\ c.book = b /\ c.entering = d.entering /\ c.flights = d.flights /\ c.pos = d.pos
    <2> HIDE DEF b
    <2>1. c = [d EXCEPT !.book = b]
        BY DEF b
    <2> HIDE DEF c
    <2> QED
        BY <1>1, <2>1 DEF SwingShape
<1>5. r = IF live THEN [c EXCEPT !.entering = @ \cup {p}] ELSE Holds(c, p)
    BY DEF OpenTrade, p
<1> HIDE DEF b, c, r
<1>6. CASE live
    <2>1. /\ DOMAIN r = DOMAIN d
          /\ r.book = b /\ r.entering = d.entering \cup {p} /\ r.flights = d.flights
          /\ r.pos = NoPosition
        BY <1>1, <1>4, <1>5, <1>6 DEF SwingShape
    <2>2. EntriesApart(d, opened) /\ Numbered(d, opened)
        BY <1>6 DEF SwingSound
    <2>3. SwingShape(r)
        BY <1>1, <1>3, <2>1 DEF SwingShape
    <2>4. Numbered(r, opened + 1) /\ Watched(r)
        BY <2>1, <2>2, <1>1 DEF Numbered, Watched
    <2>5. ASSUME NEW q \in r.entering
          PROVE  /\ q.id \in 1..opened + 1 /\ q.id # r.pos.id
                 /\ \E h \in Held(r) : h.id = q.id
                 /\ \A f \in Members(r.flights) : f.pos.id # q.id
        <3>1. r.pos.id = 0
            BY <2>1 DEF NoPosition
        <3>2. CASE q = p
            <4>1. q.id = opened + 1 /\ q.id \in 1..opened + 1 /\ q.id # 0
                BY <1>2, <3>2
            <4>2. q \in Held(r)
                BY <1>3, <2>1, <3>2 DEF Held
            <4>3. ASSUME NEW f \in Members(r.flights) PROVE f.pos.id # q.id
                <5>1. f.pos.id \in 0..opened
                    BY <2>1, <2>2 DEF Numbered
                <5> QED
                    BY <4>1, <5>1
            <4> QED
                BY <3>1, <4>1, <4>2, <4>3
        <3>3. CASE q \in d.entering
            <4>1. /\ q.id \in 1..opened
                  /\ \E h \in Held(d) : h.id = q.id
                  /\ \A f \in Members(d.flights) : f.pos.id # q.id
                BY <2>2, <3>3 DEF EntriesApart
            <4>2. q.id \in 1..opened + 1 /\ q.id # 0
                BY <4>1
            <4>3. Held(d) \subseteq Held(r)
                BY <1>3, <2>1 DEF Held
            <4> QED
                BY <2>1, <3>1, <4>1, <4>2, <4>3
        <3> QED
            BY <2>1, <3>2, <3>3
    <2>6. \A q, h \in r.entering : q.id = h.id => q = h
        BY <1>2, <2>1, <2>2 DEF EntriesApart
    <2> QED
        BY <1>6, <2>3, <2>4, <2>5, <2>6 DEF SwingSound, EntriesApart, r
<1>7. CASE ~live
    <2>1. /\ DOMAIN r = DOMAIN d
          /\ r.book = b /\ r.entering = d.entering /\ r.flights = d.flights /\ r.pos = p
        BY <1>1, <1>4, <1>5, <1>7 DEF SwingShape, Holds
    <2>2. OnPaper(d)
        BY <1>7 DEF SwingSound
    <2>3. SwingShape(r)
        BY <1>1, <1>3, <2>1 DEF SwingShape
    <2>4. r.book.open = <<p>>
        BY <2>1, <2>2, <1>1, <1>3 DEF OnPaper
    <2>5. OnPaper(r)
        BY <1>2, <2>1, <2>2, <2>4 DEF OnPaper
    <2> QED
        BY <1>7, <2>3, <2>5 DEF SwingSound, r
<1> QED
    BY <1>6, <1>7 DEF r

\* The parts of the memory after a closing was booked.
LEMMA SwingBookedParts ==
    ASSUME NEW d, SwingShape(d), NEW p, NEW px, NEW reason,
           NEW r, r = SwingBooked(d, p, px, reason)
    PROVE  /\ SwingShape(r)
           /\ r.entering = d.entering /\ r.flights = d.flights /\ r.pos = NoPosition
           /\ Held(r) = Others(d, p.id)
<1> DEFINE b == ClosePosition(d.book, p, px, reason, now)
           k == RecordTrade(d.breaker, "SWING", Ahead(p, px), reason, now)
           Rest == Others(d, p.id)
<1>1. "open" \in DOMAIN b /\ b.open = OnlyIn(d.book.open, Rest)
    BY ClosedBook DEF SwingShape, Held, Others
<1>2. IsList(b.open) /\ Members(b.open) = Rest
    BY <1>1, ListOnly DEF SwingShape, Held, Others
<1>3. r = [d EXCEPT !.book = b, !.breaker = k, !.lastSignal = now, !.pos = NoPosition]
    BY DEF SwingBooked
<1> HIDE DEF b, k, Rest
<1>4. /\ DOMAIN r = DOMAIN d
      /\ r.book = b /\ r.entering = d.entering /\ r.flights = d.flights /\ r.pos = NoPosition
    BY <1>3 DEF SwingShape
<1> QED
    BY <1>1, <1>2, <1>4 DEF SwingShape, Held, Rest

LEMMA SwingClosedSound ==
    ASSUME NEW d, NEW n \in Nat, SwingSound(d, n, live), ~Flat(d), NEW px, NEW reason
    PROVE  SwingSound(SwingClosed(d, px, reason), n, live)
<1> DEFINE r == SwingClosed(d, px, reason)
           order == [pos |-> d.pos, price |-> px, reason |-> reason]
<1>1. SwingShape(d)
    BY DEF SwingSound
<1>2. CASE live
    <2>1. r = [d EXCEPT !.flights = Append(@, order)]
        BY <1>2 DEF SwingClosed
    <2>2. order.pos = d.pos
        OBVIOUS
    <2> HIDE DEF r, order
    <2>3. /\ DOMAIN r = DOMAIN d
          /\ r.book = d.book /\ r.entering = d.entering /\ r.flights = Append(d.flights, order)
          /\ r.pos = d.pos
        BY <1>1, <2>1 DEF SwingShape
    <2>4. IsList(r.flights) /\ Members(r.flights) = Members(d.flights) \union {order}
        BY <1>1, <2>3, ListMore DEF SwingShape
    <2>5. EntriesApart(d, n) /\ Numbered(d, n) /\ Watched(d)
        BY <1>2 DEF SwingSound
    <2>6. SwingShape(r)
        BY <1>1, <2>3, <2>4 DEF SwingShape
    <2>7. Numbered(r, n) /\ Watched(r)
        BY <2>2, <2>3, <2>4, <2>5 DEF Numbered, Watched, Held
    <2>8. EntriesApart(r, n)
        BY <2>2, <2>3, <2>4, <2>5 DEF EntriesApart, Held
    <2> QED
        BY <1>2, <2>6, <2>7, <2>8 DEF SwingSound, r
<1>3. CASE ~live
    <2>1. r = SwingBooked(d, d.pos, px, reason)
        BY <1>3 DEF SwingClosed
    <2>2. OnPaper(d) /\ d.book.open = <<d.pos>>
        BY <1>3 DEF SwingSound, OnPaper, Flat
    <2>3. Members(<<d.pos>>) = {d.pos}
        BY DEF Members
    <2>4. /\ SwingShape(r)
          /\ r.entering = d.entering /\ r.flights = d.flights /\ r.pos = NoPosition
          /\ Held(r) = Others(d, d.pos.id)
        <3> DEFINE p == d.pos
        <3> HIDE DEF r, p
        <3>1. r = SwingBooked(d, p, px, reason)
            BY <2>1 DEF p
        <3>2. /\ SwingShape(r)
              /\ r.entering = d.entering /\ r.flights = d.flights /\ r.pos = NoPosition
              /\ Held(r) = Others(d, p.id)
            BY <1>1, <3>1, SwingBookedParts
        <3> QED
            BY <3>2 DEF p
    <2> HIDE DEF r
    <2>5. Members(r.book.open) = {}
        BY <2>2, <2>3, <2>4 DEF Held, Others
    <2>6. r.book.open = <<>>
        <3> DEFINE s == r.book.open
        <3>1. s \in Seq(Members(s)) /\ Members(s) = {}
            BY <2>4, <2>5 DEF SwingShape, IsList
        <3> HIDE DEF s
        <3>2. ASSUME NEW i \in 1..Len(s) PROVE FALSE
            BY <3>1, <3>2 DEF Members
        <3>3. Len(s) = 0
            BY <3>1, <3>2
        <3>4. s = <<>>
            BY <3>1, <3>3
        <3> QED
            BY <3>4 DEF s
    <2> QED
        BY <1>3, <2>2, <2>4, <2>6 DEF SwingSound, OnPaper, r
<1> QED
    BY <1>2, <1>3

LEMMA CheckExitsSound ==
    ASSUME NEW d, NEW n \in Nat, SwingSound(d, n, live), NEW candle
    PROVE  SwingSound(CheckExits(d, candle), n, live)
<1>1. CASE Flat(d)
    BY <1>1 DEF CheckExits
<1>2. CASE ~Flat(d)
    <2>1. \/ CheckExits(d, candle) = d
          \/ \E reason \in {"SL", "TP"} :
                CheckExits(d, candle) = SwingClosed(d, candle.close, reason)
        BY <1>2 DEF CheckExits
    <2> QED
        BY <1>2, <2>1, SwingClosedSound
<1> QED
    BY <1>1, <1>2

LEMMA EvaluateAndTradeSound ==
    ASSUME opened \in Nat, SwingSound(desk, opened, live), NEW view, NEW block
    PROVE  LET r == EvaluateAndTrade(view, block) IN
           r.opened \in Nat /\ SwingSound(r.desk, r.opened, live)
<1> DEFINE asked == [desk EXCEPT !.breaker = Asked(@, "SWING", now)]
           r == EvaluateAndTrade(view, block)
<1>1. SamePositions(desk, asked)
    BY DEF SwingSound, SwingShape, SamePositions
<1>2. SwingSound(asked, opened, live)
    <2> HIDE DEF asked
    <2> QED
        BY <1>1, SameSound
<1>3. asked.pos = desk.pos
    BY <1>1 DEF SamePositions
<1>4. \/ r = [desk |-> desk, opened |-> opened]
      \/ r = [desk |-> asked, opened |-> opened]
      \/ Flat(desk) /\ \E side : r = [desk |-> OpenTrade(asked, side), opened |-> opened + 1]
    <2> HIDE DEF asked
    <2> QED
        BY DEF EvaluateAndTrade, asked
<1> HIDE DEF asked, r
<1>5. CASE r = [desk |-> desk, opened |-> opened]
    BY <1>5 DEF r
<1>6. CASE r = [desk |-> asked, opened |-> opened]
    BY <1>2, <1>6 DEF r
<1>7. ASSUME Flat(desk), NEW side, r = [desk |-> OpenTrade(asked, side), opened |-> opened + 1]
      PROVE  r.opened \in Nat /\ SwingSound(r.desk, r.opened, live)
    <2>1. Flat(asked)
        BY <1>3, <1>7 DEF Flat
    <2>2. SwingSound(OpenTrade(asked, side), opened + 1, live)
        BY <1>2, <2>1, OpenTradeSound
    <2> QED
        BY <1>7, <2>2
<1> QED
    BY <1>4, <1>5, <1>6, <1>7 DEF r

\* The engine watches the position whose entry was answered.
LEMMA HoldsSound ==
    ASSUME NEW n \in Nat, SwingSound(desk, n, live), NEW p \in desk.entering
    PROVE  SwingSound(Holds([desk EXCEPT !.entering = @ \ {p}], p), n, live)
<1> DEFINE c == [desk EXCEPT !.entering = @ \ {p}]
           r == Holds(c, p)
<1>1. SwingShape(desk) /\ desk.entering # {}
    BY DEF SwingSound
<1>2. live /\ EntriesApart(desk, n) /\ Numbered(desk, n)
    BY <1>1 DEF SwingSound, OnPaper
<1>3. /\ DOMAIN c = DOMAIN desk
      /\ c.book = desk.book /\ c.entering = desk.entering \ {p} /\ c.flights = desk.flights
    BY <1>1 DEF SwingShape
<1>4. r = [c EXCEPT !.pos = p, !.lastSignal = now]
    BY DEF Holds
<1> HIDE DEF c, r
<1>5. /\ DOMAIN r = DOMAIN desk
      /\ r.book = desk.book /\ r.entering = desk.entering \ {p} /\ r.flights = desk.flights
      /\ r.pos = p
    BY <1>1, <1>3, <1>4 DEF SwingShape
<1>6. SwingShape(r)
    BY <1>1, <1>5 DEF SwingShape
<1>7. EntriesApart(r, n)
    BY <1>2, <1>5 DEF EntriesApart, Held
<1>8. Numbered(r, n) /\ Watched(r)
    <2>1. p.id \in 0..n /\ \E q \in Held(desk) : q.id = p.id
        BY <1>2 DEF EntriesApart
    <2> QED
        BY <1>2, <1>5, <2>1 DEF Numbered, Watched, Held
<1> QED
    BY <1>2, <1>6, <1>7, <1>8 DEF SwingSound, r, c

\* The answer to a closing: whatever the engine watches meanwhile is forgotten.
LEMMA SwingAnswerSound ==
    ASSUME NEW n \in Nat, SwingSound(desk, n, live), NEW i \in DOMAIN desk.flights,
           NEW px, NEW reason
    PROVE  SwingSound(SwingBooked([desk EXCEPT !.flights = RemoveAt(@, i)],
                                  desk.flights[i].pos, px, reason), n, live)
<1> DEFINE c == [desk EXCEPT !.flights = RemoveAt(@, i)]
           f == desk.flights[i]
           p == f.pos
           r == SwingBooked(c, p, px, reason)
<1>1. SwingShape(desk)
    BY DEF SwingSound
<1>2. f \in Members(desk.flights)
    BY <1>1, ListEntries DEF SwingShape
<1>3. live
    <2>1. desk.flights # <<>>
        BY <1>2, NoMembers
    <2> QED
        BY <2>1 DEF SwingSound, OnPaper
<1>4. EntriesApart(desk, n)
    BY <1>3 DEF SwingSound
<1>5. /\ DOMAIN c = DOMAIN desk
      /\ c.book = desk.book /\ c.entering = desk.entering
      /\ c.flights = RemoveAt(desk.flights, i)
    BY <1>1 DEF SwingShape
<1>6. IsList(RemoveAt(desk.flights, i)) /\ Members(RemoveAt(desk.flights, i)) \subseteq Members(desk.flights)
    BY <1>1, ListWithout DEF SwingShape
<1>7. Numbered(desk, n)
    BY <1>3 DEF SwingSound
<1> HIDE DEF c, f
<1>8. SwingShape(c)
    BY <1>1, <1>5, <1>6 DEF SwingShape
<1>9. /\ SwingShape(r)
      /\ r.entering = c.entering /\ r.flights = c.flights /\ r.pos = NoPosition
      /\ Held(r) = Others(c, p.id)
    <2> HIDE DEF p
    <2>1. r = SwingBooked(c, p, px, reason)
        OBVIOUS
    <2> HIDE DEF r
    <2> QED
        BY <1>8, <2>1, SwingBookedParts
<1> HIDE DEF r
<1>10. NoPosition.id = 0
    BY DEF NoPosition
<1>11. Numbered(r, n) /\ Watched(r)
    BY <1>5, <1>6, <1>7, <1>9, <1>10 DEF Numbered, Watched
<1>12. EntriesApart(r, n)
    <2>1. ASSUME NEW e \in desk.entering
          PROVE  /\ e.id \in 1..n /\ e.id # r.pos.id
                 /\ \E q \in Held(r) : q.id = e.id
                 /\ \A g \in Members(r.flights) : g.pos.id # e.id
        <3>1. e.id \in 1..n /\ e.id # 0
            BY <1>4 DEF EntriesApart
        <3>2. p.id # e.id /\ \A g \in Members(r.flights) : g.pos.id # e.id
            BY <1>2, <1>4, <1>5, <1>6, <1>9 DEF EntriesApart
        <3>3. PICK q \in Held(desk) : q.id = e.id
            BY <1>4 DEF EntriesApart
        <3>4. q \in Held(r)
            BY <1>5, <1>9, <3>2, <3>3 DEF Held, Others
        <3> QED
            BY <1>9, <1>10, <3>1, <3>2, <3>3, <3>4
    <2> QED
        BY <1>4, <1>5, <1>9, <2>1 DEF EntriesApart
<1> QED
    BY <1>3, <1>9, <1>11, <1>12 DEF SwingSound, r, c, f

\* The invariant of a bot that was started with the swing engine.
SwingInv == engine = "swing" => opened \in Nat /\ SwingSound(desk, opened, live)

LEMMA SwingInvInit == Init => SwingInv
<1>1. ASSUME SwingInit PROVE SwingInv
    <2>1. desk = NewSwing /\ opened = 0 /\ 0 \in Nat
        BY <1>1 DEF SwingInit, InitBot
    <2>2. SwingSound(NewSwing, 0, live)
        BY FreshSound
    <2> QED
        BY <2>1, <2>2 DEF SwingInv
<1>2. ASSUME ScalpInit PROVE SwingInv
    BY <1>2 DEF ScalpInit, SwingInv
<1> QED
    BY <1>1, <1>2 DEF Init

LEMMA SwingInvStep == SwingInv /\ [Next]_botVars => SwingInv'
<1> SUFFICES ASSUME SwingInv, [Next]_botVars PROVE SwingInv'
    OBVIOUS
<1>1. CASE OnCandle1m
    <2>1. PICK candle \in Candles : desk' = CheckExits(desk, candle)
        BY <1>1 DEF OnCandle1m
    <2>2. engine = "swing" /\ engine' = engine /\ live' = live /\ opened' = opened
        BY <1>1 DEF OnCandle1m
    <2>3. opened \in Nat /\ SwingSound(desk, opened, live)
        BY <2>2 DEF SwingInv
    <2>4. SwingSound(CheckExits(desk, candle), opened, live)
        BY <2>3, CheckExitsSound
    <2>5. SwingSound(desk', opened', live')
        BY <2>1, <2>2, <2>4
    <2> QED
        BY <2>2, <2>3, <2>5 DEF SwingInv
<1>2. CASE OnCandle5m
    <2>1. PICK s \in Signals : LET r == EvaluateAndTrade(SwingView(s.f), s.block)
                               IN desk' = r.desk /\ opened' = r.opened
        BY <1>2 DEF OnCandle5m
    <2>2. engine = "swing" /\ engine' = engine /\ live' = live
        BY <1>2 DEF OnCandle5m
    <2>3. opened \in Nat /\ SwingSound(desk, opened, live)
        BY <2>2 DEF SwingInv
    <2> DEFINE view == SwingView(s.f)
               block == s.block
               r == EvaluateAndTrade(view, block)
    <2>4. desk' = r.desk /\ opened' = r.opened
        BY <2>1
    <2> HIDE DEF view, block
    <2>5. r.opened \in Nat /\ SwingSound(r.desk, r.opened, live)
        BY <2>3, EvaluateAndTradeSound
    <2> HIDE DEF r
    <2>6. SwingSound(desk', opened', live')
        BY <2>2, <2>4, <2>5
    <2> QED
        BY <2>4, <2>5, <2>6 DEF SwingInv
<1>3. CASE SwingEntryAnswered
    <2>1. PICK p \in desk.entering : desk' = Holds([desk EXCEPT !.entering = @ \ {p}], p)
        BY <1>3 DEF SwingEntryAnswered, SwingEntryReported
    <2>2. engine = "swing" /\ engine' = engine /\ live' = live /\ opened' = opened
        BY <1>3 DEF SwingEntryAnswered, SwingEntryReported
    <2>3. opened \in Nat /\ SwingSound(desk, opened, live)
        BY <2>2 DEF SwingInv
    <2>4. SwingSound(Holds([desk EXCEPT !.entering = @ \ {p}], p), opened, live)
        BY <2>3, HoldsSound
    <2>5. SwingSound(desk', opened', live')
        BY <2>1, <2>2, <2>4
    <2> QED
        BY <2>2, <2>3, <2>5 DEF SwingInv
<1>4. CASE SwingCloseAnswered
    <2>1. PICK i \in DOMAIN desk.flights :
             desk' = SwingBooked([desk EXCEPT !.flights = RemoveAt(@, i)],
                                 desk.flights[i].pos, desk.flights[i].price, desk.flights[i].reason)
        BY <1>4 DEF SwingCloseAnswered, SwingCloseReported
    <2>2. engine = "swing" /\ engine' = engine /\ live' = live /\ opened' = opened
        BY <1>4 DEF SwingCloseAnswered, SwingCloseReported
    <2>3. opened \in Nat /\ SwingSound(desk, opened, live)
        BY <2>2 DEF SwingInv
    <2>4. SwingSound(SwingBooked([desk EXCEPT !.flights = RemoveAt(@, i)],
                                 desk.flights[i].pos, desk.flights[i].price, desk.flights[i].reason),
                     opened, live)
        BY <2>3, SwingAnswerSound
    <2>5. SwingSound(desk', opened', live')
        BY <2>1, <2>2, <2>4
    <2> QED
        BY <2>2, <2>3, <2>5 DEF SwingInv
<1>5. CASE SwingRestart
    <2>1. desk' = NewSwing /\ engine = "swing" /\ live' = live /\ opened' = opened
        BY <1>5 DEF SwingRestart
    <2>2. opened \in Nat
        BY <2>1 DEF SwingInv
    <2>3. SwingSound(NewSwing, opened, live)
        BY <2>2, FreshSound
    <2>4. SwingSound(desk', opened', live')
        BY <2>1, <2>3
    <2> QED
        BY <2>1, <2>2, <2>4 DEF SwingInv
<1>6. ASSUME UNCHANGED <<engine, live, desk, opened>> PROVE SwingInv'
    BY <1>6 DEF SwingInv
<1>7. ASSUME engine' = engine, engine # "swing" PROVE SwingInv'
    BY <1>7 DEF SwingInv
<1>8. CASE OnPrice
    BY <1>6, <1>8 DEF OnPrice
<1>9. CASE Tick
    BY <1>6, <1>9 DEF Tick
<1>10. CASE UNCHANGED botVars
    BY <1>6, <1>10 DEF botVars
<1>11. CASE ScalpNext
    <2>1. engine = "scalp" /\ engine' = engine
        BY <1>11 DEF ScalpNext, HandleKline1m, HandleKline5m, HandleTicker, EvaluateV4,
                     EntryAnswered, EntryReported, CloseAnswered, CloseReported, Restart
    <2> QED
        BY <1>7, <2>1
<1> QED
    BY <1>1, <1>2, <1>3, <1>4, <1>5, <1>8, <1>9, <1>10, <1>11 DEF Next, SwingNext

\* On paper the swing engine's own position and the executor's book agree, and
\* live the position it watches is always on the book, although entries and two
\* closings of one position may be on the way at once: what an answer to a
\* closing takes from the book is never what an entry on the way has put there.
THEOREM WatchedIsOnTheBook == Spec => []SwingGuarded
<1>1. SwingInv => SwingGuarded
    <2> SUFFICES ASSUME SwingInv, engine = "swing"
                 PROVE  /\ ~live => desk.book.open = IF desk.pos = NoPosition THEN <<>> ELSE <<desk.pos>>
                        /\ desk.pos # NoPosition => IsOpen(desk.book, desk.pos.id)
        BY DEF SwingGuarded
    <2>1. SwingSound(desk, opened, live)
        BY DEF SwingInv
    <2>2. ASSUME ~live
          PROVE desk.book.open = IF desk.pos = NoPosition THEN <<>> ELSE <<desk.pos>>
        BY <2>1, <2>2 DEF SwingSound, OnPaper
    <2>3. ASSUME desk.pos # NoPosition PROVE \E q \in Held(desk) : q.id = desk.pos.id
        <3>1. CASE live
            BY <2>1, <2>3, <3>1 DEF SwingSound, Watched
        <3>2. CASE ~live
            <4>1. desk.book.open = <<desk.pos>>
                BY <2>2, <2>3, <3>2
            <4>2. desk.pos \in Members(<<desk.pos>>)
                BY DEF Members
            <4> QED
                BY <4>1, <4>2 DEF Held
        <3> QED
            BY <3>1, <3>2
    <2>4. ASSUME desk.pos # NoPosition PROVE IsOpen(desk.book, desk.pos.id)
        <3> DEFINE b == desk.book
                   id == desk.pos.id
        <3>1. IsList(b.open) /\ \E q \in Members(b.open) : q.id = id
            BY <2>1, <2>3, <2>4 DEF SwingSound, SwingShape, Held
        <3> HIDE DEF b, id
        <3>2. IsOpen(b, id)
            BY <3>1, OpenIsHeld
        <3> QED
            BY <3>2 DEF b, id
    <2> QED
        BY <2>2, <2>4
<1> QED
    BY <1>1, SwingInvInit, SwingInvStep, PTL DEF Spec

-----------------------------------------------------------------------------
(* How many positions a strategy holds *)

Of(s, e) == {p \in Range(s) : p.engine = e}
Count(s, e) == Len(OnlyIn(s, Of(s, e)))

LEMMA CountNone == \A e : Count(<<>>, e) = 0
BY OnlyInNone DEF Count

LEMMA CountMore ==
    ASSUME NEW s, IsList(s), NEW p, NEW e
    PROVE  /\ Count(s, e) \in Nat
           /\ Count(Append(s, p), e) = IF p.engine = e THEN Count(s, e) + 1 ELSE Count(s, e)
<1> DEFINE r == Append(s, p)
           T == Members(s) \union {p}
           A == Of(s, e)
           B == Of(r, e)
<1>1. IsList(r) /\ Members(r) = T
    BY ListMore
<1>2. Range(s) = Members(s) /\ Range(r) = T
    BY <1>1, RangeOfList
<1>3. s \in Seq(T) /\ p \in T
    <2> HIDE DEF T
    <2>1. s \in Seq(Members(s)) /\ Members(s) \subseteq T /\ p \in T
        BY DEF IsList, T
    <2> QED
        BY <2>1
<1>4. Members(s) \cap A = Members(s) \cap B
    BY <1>2 DEF Of
<1>5. p \in B <=> p.engine = e
    BY <1>2 DEF Of
<1> HIDE DEF r, T, A, B
<1>6. OnlyIn(s, A) = OnlyIn(s, B)
    BY <1>3, <1>4, OnlyInAgree
<1>7. OnlyIn(r, B) = IF p \in B THEN Append(OnlyIn(s, B), p) ELSE OnlyIn(s, B)
    BY <1>3, OnlyInMore DEF r
<1>8. OnlyIn(s, B) \in Seq(T)
    BY <1>3, OnlyInType
<1>9. Len(OnlyIn(s, B)) \in Nat /\ Len(Append(OnlyIn(s, B), p)) = Len(OnlyIn(s, B)) + 1
    BY <1>3, <1>8
<1> QED
    BY <1>5, <1>6, <1>7, <1>9 DEF Count, A, B, r

LEMMA CountLess ==
    ASSUME NEW s, IsList(s), NEW S, NEW e
    PROVE  Count(OnlyIn(s, S), e) \in Nat /\ Count(OnlyIn(s, S), e) <= Count(s, e)
<1> DEFINE r == OnlyIn(s, S)
           T == Members(s)
           A == Of(s, e)
           B == Of(r, e)
<1>1. IsList(r) /\ Members(r) = T \cap S
    BY ListOnly
<1>2. Range(s) = T /\ Range(r) = Members(r)
    BY <1>1, RangeOfList
<1>3. s \in Seq(T) /\ r \in Seq(T)
    <2>1. s \in Seq(T)
        BY DEF IsList
    <2> HIDE DEF T
    <2> QED
        BY <2>1, OnlyInType
<1>4. Members(r) \cap A = Members(r) \cap B
    BY <1>1, <1>2 DEF Of
<1> HIDE DEF r, T, A, B
<1>5. OnlyIn(r, A) = OnlyIn(r, B)
    BY <1>3, <1>4, OnlyInAgree
<1>6. Len(OnlyIn(r, A)) \in Nat /\ Len(OnlyIn(r, A)) <= Len(OnlyIn(s, A))
    BY <1>3, OnlyInFewer DEF r
<1> QED
    BY <1>5, <1>6 DEF Count, A, B, r

\* As many, if the entries are the same strategies' one by one.
LEMMA CountSame ==
    ASSUME NEW s, IsList(s), NEW r, IsList(r), Len(s) = Len(r),
           \A i \in 1..Len(s) : r[i].engine = s[i].engine, NEW e
    PROVE  Count(s, e) = Count(r, e)
<1> DEFINE T == Members(s) \union Members(r)
           A == Of(s, e)
           B == Of(r, e)
           C == A \union B
<1>1. Range(s) = Members(s) /\ Range(r) = Members(r)
    BY RangeOfList
<1>2. s \in Seq(T) /\ r \in Seq(T)
    <2> HIDE DEF T
    <2>1. Members(s) \subseteq T /\ Members(r) \subseteq T
        BY DEF T
    <2> QED
        BY <2>1 DEF IsList
<1>3. Members(s) \cap A = Members(s) \cap C /\ Members(r) \cap B = Members(r) \cap C
    BY <1>1 DEF Of
<1>4. \A i \in 1..Len(s) : s[i] \in C <=> r[i] \in C
    <2>1. \A i \in 1..Len(s) : s[i] \in Members(s) /\ r[i] \in Members(r)
        BY DEF Members
    <2> QED
        BY <1>1, <2>1 DEF Of
<1> HIDE DEF T, A, B, C
<1>5. OnlyIn(s, A) = OnlyIn(s, C) /\ OnlyIn(r, B) = OnlyIn(r, C)
    BY <1>2, <1>3, OnlyInAgree
<1>6. Len(OnlyIn(s, C)) = Len(OnlyIn(r, C))
    BY <1>2, <1>4, OnlyInSameLength
<1> QED
    BY <1>5, <1>6 DEF Count, A, B

-----------------------------------------------------------------------------
(* The loops of the scalping engine, one step after another *)

\* The three loops: what a step makes of x with one entry of the list.
StepOf(loop, x, item) ==
    CASE loop = "close" -> CloseOne(x.w, x.flight, item)
      [] loop = "grid"  -> ClosedInTurn(x, <<[position |-> item, reason |-> "REGIME_CHANGE"]>>)
      [] OTHER -> RecordTrade(x, item.engine, item.pnl, item.reason, now)

LoopFrom(h, loop, base, seq, n) ==
    h = [s \in SUBSET (1..n) |->
            IF s = {} THEN base ELSE StepOf(loop, h[s \ {Max(s)}], seq[Max(s)])]

Solvable(loop, base, seq, n) == \E h : LoopFrom(h, loop, base, seq, n)

LEMMA MaxIn ==
    ASSUME NEW n \in Nat, NEW s \in SUBSET (1..n), s # {}
    PROVE  Max(s) \in s /\ \A y \in s : Max(s) >= y
<1>1. Max(s) = Highest(s)
    BY DEF Max, Highest
<1> QED
    BY <1>1, HighestIn

LEMMA LoopExists ==
    ASSUME NEW loop, NEW base, NEW seq
    PROVE  \A n \in Nat : Solvable(loop, base, seq, n)
<1> DEFINE S == {m \in Nat : Solvable(loop, base, seq, m)}
<1>1. 0 \in S
    <2> DEFINE h == [s \in SUBSET (1..0) |-> base]
    <2>1. 1..0 = {}
        OBVIOUS
    <2>2. \A s \in SUBSET (1..0) : s = {}
        BY <2>1
    <2>3. LoopFrom(h, loop, base, seq, 0)
        BY <2>2 DEF LoopFrom
    <2> HIDE DEF h
    <2> QED
        BY <2>3 DEF Solvable
<1>2. ASSUME NEW m \in Nat, m \in S PROVE m + 1 \in S
    <2>1. PICK k : LoopFrom(k, loop, base, seq, m)
        BY <1>2 DEF Solvable
    <2> HIDE DEF S
    <2> DEFINE h == [s \in SUBSET (1..m + 1) |->
                        IF m + 1 \in s THEN StepOf(loop, k[s \ {m + 1}], seq[m + 1]) ELSE k[s]]
    <2>2. ASSUME NEW s \in SUBSET (1..m + 1)
          PROVE  h[s] = IF s = {} THEN base ELSE StepOf(loop, h[s \ {Max(s)}], seq[Max(s)])
        <3>1. CASE m + 1 \in s
            <4>1. s # {} /\ s \ {m + 1} \in SUBSET (1..m) /\ m + 1 \notin s \ {m + 1}
                BY <3>1
            <4>2. Max(s) = m + 1
                <5>1. Max(s) \in s /\ Max(s) >= m + 1
                    <6>1. m + 1 \in Nat
                        OBVIOUS
                    <6> HIDE DEF h
                    <6> QED
                        BY <3>1, <4>1, <6>1, MaxIn
                <5>2. Max(s) \in 1..m + 1
                    BY <5>1
                <5> HIDE DEF h
                <5> QED
                    BY <5>1, <5>2
            <4>3. h[s] = StepOf(loop, k[s \ {m + 1}], seq[m + 1]) /\ h[s \ {m + 1}] = k[s \ {m + 1}]
                BY <3>1, <4>1
            <4> HIDE DEF h
            <4> QED
                BY <4>1, <4>2, <4>3
        <3>2. CASE m + 1 \notin s
            <4>1. s \in SUBSET (1..m) /\ s \ {Max(s)} \in SUBSET (1..m)
                  /\ s \ {Max(s)} \in SUBSET (1..m + 1) /\ m + 1 \notin s \ {Max(s)}
                <5>1. s \in SUBSET (1..m)
                    BY <3>2
                <5> HIDE DEF h
                <5> QED
                    BY <5>1, <3>2
            <4>2. h[s] = k[s] /\ h[s \ {Max(s)}] = k[s \ {Max(s)}]
                BY <3>2, <4>1
            <4>3. k[s] = IF s = {} THEN base ELSE StepOf(loop, k[s \ {Max(s)}], seq[Max(s)])
                BY <4>1, <2>1 DEF LoopFrom
            <4> HIDE DEF h
            <4> QED
                BY <4>2, <4>3
        <3> QED
            BY <3>1, <3>2
    <2>3. LoopFrom(h, loop, base, seq, m + 1)
        <3>1. h = [s \in SUBSET (1..m + 1) |-> h[s]]
            OBVIOUS
        <3> HIDE DEF h
        <3> QED
            BY <2>2, <3>1 DEF LoopFrom
    <2> HIDE DEF h
    <2>4. Solvable(loop, base, seq, m + 1)
        BY <2>3 DEF Solvable
    <2> QED
        BY <2>4 DEF S
<1>3. Nat \subseteq S
    <2> HIDE DEF S
    <2> QED
        BY <1>1, <1>2, NatSets
<1> QED
    BY <1>3

\* After k steps of the loop.
After(loop, base, seq, n) ==
    LET h == CHOOSE g : LoopFrom(g, loop, base, seq, n)
    IN  [k \in 0..n |-> h[1..k]]

LEMMA AfterSteps ==
    ASSUME NEW loop, NEW base, NEW seq, NEW n \in Nat
    PROVE  /\ After(loop, base, seq, n)[0] = base
           /\ \A k \in 1..n : After(loop, base, seq, n)[k]
                                = StepOf(loop, After(loop, base, seq, n)[k - 1], seq[k])
<1> DEFINE h == CHOOSE g : LoopFrom(g, loop, base, seq, n)
           a == After(loop, base, seq, n)
<1>1. LoopFrom(h, loop, base, seq, n)
    <2>1. \E g : LoopFrom(g, loop, base, seq, n)
        BY LoopExists DEF Solvable
    <2> QED
        BY <2>1
<1> HIDE DEF h
<1>2. \A k \in 0..n : a[k] = h[1..k]
    BY DEF After, h
<1> HIDE DEF a
<1>3. a[0] = base
    <2>1. 1..0 = {} /\ 0 \in 0..n /\ {} \in SUBSET (1..n)
        OBVIOUS
    <2>2. h[{}] = base
        BY <1>1, <2>1 DEF LoopFrom
    <2>3. a[0] = h[1..0]
        BY <1>2, <2>1
    <2> QED
        BY ONLY <2>1, <2>2, <2>3
<1>4. ASSUME NEW k \in 1..n PROVE a[k] = StepOf(loop, a[k - 1], seq[k])
    <2>1. 1..k \in SUBSET (1..n) /\ k \in 1..k /\ k \in Nat /\ k # 0 /\ k - 1 \in 0..n /\ k \in 0..n
        OBVIOUS
    <2>2. Highest(1..k) = k /\ (1..k) \ {k} = 1..(k - 1)
        BY <2>1, HighestOfRange
    <2>3. Max(1..k) = k
        BY <2>2 DEF Highest, Max
    <2>4. h[1..k] = StepOf(loop, h[1..(k - 1)], seq[k])
        BY <1>1, <2>1, <2>2, <2>3 DEF LoopFrom
    <2> QED
        BY <1>2, <2>1, <2>4
<1> QED
    BY <1>3, <1>4 DEF a

\* What is in W at the start and stays there is there in the end.
LEMMA StaysAfter ==
    ASSUME NEW n \in Nat, NEW a, NEW W, a[0] \in W,
           \A k \in 1..n : a[k - 1] \in W => a[k] \in W
    PROVE  a[n] \in W
<1> DEFINE S == {m \in Nat : m <= n => a[m] \in W}
<1>1. 0 \in S
    OBVIOUS
<1>2. ASSUME NEW m \in Nat, m \in S PROVE m + 1 \in S
    <2>1. SUFFICES ASSUME m + 1 <= n PROVE a[m + 1] \in W
        OBVIOUS
    <2>2. m + 1 \in 1..n /\ (m + 1) - 1 = m
        BY <2>1
    <2>3. a[m] \in W
        BY <1>2, <2>1
    <2> QED
        BY <2>2, <2>3
<1>3. n \in S
    <2> HIDE DEF S
    <2> QED
        BY <1>1, <1>2, NatSets
<1> QED
    BY <1>3

LEMMA ClosedInTurnIs ==
    ASSUME NEW w, NEW items, NEW n \in Nat, DOMAIN items = 1..n,
           NEW x, x = After("close", [w |-> w, flight |-> NoFlight], items, n)[n]
    PROVE  ClosedInTurn(w, items) = IF x.flight.pos.id = 0 THEN x.w
                                    ELSE [x.w EXCEPT !.desk.flights = Append(@, x.flight)]
<1> DEFINE base == [w |-> w, flight |-> NoFlight]
           h == CHOOSE g : LoopFrom(g, "close", base, items, n)
           f == FoldLeft(LAMBDA acc, item : CloseOne(acc.w, acc.flight, item), base, items)
<1>1. f = h[1..n]
    BY DEF FoldLeft, MapThenFoldSet, LoopFrom, StepOf
<1>2. After("close", base, items, n)[n] = h[1..n]
    BY DEF After
<1>3. ClosedInTurn(w, items) = IF f.flight.pos.id = 0 THEN f.w
                               ELSE [f.w EXCEPT !.desk.flights = Append(@, f.flight)]
    BY DEF ClosedInTurn
<1> QED
    <2> HIDE DEF f, h, base
    <2> QED
        BY <1>1, <1>2, <1>3 DEF base

-----------------------------------------------------------------------------
(* The scalping engine: what a work record keeps *)

DeskFields == {"book", "breaker", "entering", "flights", "cool", "lastSwing", "stops", "pauseUntil",
               "recorded", "view", "lastAnalysis", "age", "lastRun", "pending"}

\* Orders on the way carry lists of what is to be closed after them.
FlightsFit(d) == IsList(d.flights) /\ \A f \in Members(d.flights) : "rest" \in DOMAIN f /\ IsList(f.rest)

WithinLimits(s) == \A e \in Engines : Count(s, e) <= Limit[e]

\* Positions are numbered as they are opened, and no strategy has too many.
BookFit(b, n) ==
    /\ {"open", "closed"} \subseteq DOMAIN b
    /\ IsList(b.open)
    /\ IsList(b.closed)
    /\ \A p \in Members(b.open) : {"id", "engine"} \subseteq DOMAIN p /\ p.id \in 1..n
    /\ WithinLimits(b.open)

DeskFit(d, n) ==
    /\ DeskFields \subseteq DOMAIN d
    /\ BookFit(d.book, n)
    /\ FlightsFit(d)
    /\ d.recorded \in Nat

Fit(w) ==
    /\ {"desk", "memory", "opened", "price"} \subseteq DOMAIN w
    /\ "enabled" \in DOMAIN w.memory
    /\ w.opened \in Nat
    /\ DeskFit(w.desk, w.opened)

\* From w to r, positions are closed, or opened for the strategies E only, and
\* no strategy is turned on or off.
Enters(w, r, E) ==
    /\ Fit(r)
    /\ r.opened >= w.opened
    /\ \A p \in Held(r.desk) : p \in Held(w.desk) \/ (p.id > w.opened /\ p.engine \in E)
    /\ r.memory.enabled = w.memory.enabled

SameBreaker(w, r) == r.desk.breaker = w.desk.breaker

LEMMA EntersNone ==
    ASSUME NEW w, Fit(w), NEW E
    PROVE  Enters(w, w, E)
BY DEF Enters, Fit

LEMMA EntersBoth ==
    ASSUME NEW w, NEW r, NEW s, NEW E, NEW F, Fit(w), Enters(w, r, E), Enters(r, s, F)
    PROVE  Enters(w, s, E \union F)
<1>1. w.opened \in Nat /\ r.opened \in Nat /\ s.opened \in Nat
    BY DEF Fit, Enters
<1>2. s.opened >= w.opened
    BY <1>1 DEF Enters
<1>3. ASSUME NEW p \in Held(s.desk)
      PROVE  p \in Held(w.desk) \/ (p.id > w.opened /\ p.engine \in E \union F)
    <2>1. CASE p \in Held(r.desk)
        BY <2>1 DEF Enters
    <2>2. CASE p.id > r.opened /\ p.engine \in F
        <3>1. p.id \in Nat
            BY DEF Enters, Fit, DeskFit, BookFit, Held
        <3> QED
            BY <1>1, <2>2, <3>1 DEF Enters
    <2> QED
        BY <2>1, <2>2 DEF Enters
<1> QED
    BY <1>2, <1>3 DEF Enters

LEMMA EntersMore ==
    ASSUME NEW w, NEW r, NEW E, NEW F, Enters(w, r, E), E \subseteq F
    PROVE  Enters(w, r, F)
BY DEF Enters

\* What only touches other parts of the memory.
LEMMA EntersSame ==
    ASSUME NEW w, Fit(w), NEW r,
           {"desk", "memory", "opened", "price"} \subseteq DOMAIN r, r.memory = w.memory,
           r.opened = w.opened, DeskFields \subseteq DOMAIN r.desk, r.desk.book = w.desk.book,
           r.desk.flights = w.desk.flights, r.desk.recorded = w.desk.recorded, NEW E
    PROVE  Enters(w, r, E)
BY DEF Enters, Fit, DeskFit, FlightsFit, Held

\* One position more.
LEMMA OpenedEnters ==
    ASSUME NEW w, Fit(w), Limit \in [Engines -> Nat], NEW e, Len(HeldBy(w.desk.book, e)) < Limit[e],
           NEW side, NEW entry, NEW r, r = Opened(w, e, side, entry)
    PROVE  Enters(w, r, {e}) /\ SameBreaker(w, r)
<1> DEFINE p == [id |-> w.opened + 1, engine |-> e, side |-> side, entry |-> entry,
                 trail |-> FALSE, best |-> 0, at |-> now]
           b == OpenPosition(w.desk.book, p)
           sent == IF live THEN w.desk.entering \cup {[id |-> p.id, side |-> side]} ELSE w.desk.entering
           d == [w.desk EXCEPT !.book = b, !.entering = sent]
           n == w.opened + 1
           c == [w EXCEPT !.opened = n, !.desk = d]
<1>1. p.id = w.opened + 1 /\ p.engine = e /\ {"id", "engine"} \subseteq DOMAIN p
    OBVIOUS
<1>2. r = IF w.opened = MaxOpens THEN w ELSE c
    BY DEF Opened
<1> HIDE DEF p
<1>3. /\ DeskFields \subseteq DOMAIN w.desk /\ BookFit(w.desk.book, w.opened)
      /\ FlightsFit(w.desk) /\ w.desk.recorded \in Nat
    BY DEF Fit, DeskFit
<1>4. /\ {"open", "closed"} \subseteq DOMAIN b
      /\ b.open = Append(w.desk.book.open, p) /\ b.closed = w.desk.book.closed
    BY <1>3, OpenedBook DEF BookFit
<1> HIDE DEF b, sent
<1>5. /\ DeskFields \subseteq DOMAIN d /\ d.book = b /\ d.flights = w.desk.flights
      /\ d.breaker = w.desk.breaker /\ d.recorded = w.desk.recorded
    BY <1>3 DEF DeskFields
<1> HIDE DEF d, n
<1>6. /\ {"desk", "memory", "opened", "price"} \subseteq DOMAIN c
      /\ c.opened = n /\ c.desk = d /\ c.memory = w.memory
    BY DEF Fit
<1> HIDE DEF c
<1>7. IsList(b.open) /\ Members(b.open) = Members(w.desk.book.open) \union {p}
    BY <1>3, <1>4, ListMore DEF BookFit
<1>8. w.opened \in Nat /\ n = w.opened + 1
    BY DEF Fit, n
<1>9. \A q \in Members(b.open) : {"id", "engine"} \subseteq DOMAIN q /\ q.id \in 1..n
    <2>1. ASSUME NEW q \in Members(w.desk.book.open)
          PROVE  {"id", "engine"} \subseteq DOMAIN q /\ q.id \in 1..n
        BY <1>3, <1>8 DEF BookFit
    <2>2. p.id \in 1..n
        BY <1>1, <1>8
    <2> QED
        BY <1>1, <1>7, <2>1, <2>2
<1>10. WithinLimits(b.open)
    <2>1. SUFFICES ASSUME NEW f \in Engines PROVE Count(b.open, f) <= Limit[f]
        BY DEF WithinLimits
    <2>2. /\ Count(w.desk.book.open, f) \in Nat
          /\ Count(b.open, f) = IF e = f THEN Count(w.desk.book.open, f) + 1
                                ELSE Count(w.desk.book.open, f)
        BY <1>1, <1>3, <1>4, CountMore DEF BookFit
    <2>3. Count(w.desk.book.open, f) <= Limit[f] /\ Limit[f] \in Nat
        BY <1>3 DEF BookFit, WithinLimits
    <2>4. e = f => Count(w.desk.book.open, f) < Limit[f]
        BY DEF HeldBy, Count, Of
    <2> QED
        BY <2>2, <2>3, <2>4
<1>11. Fit(c)
    <2>1. BookFit(d.book, n)
        BY <1>3, <1>4, <1>5, <1>7, <1>9, <1>10 DEF BookFit
    <2>2. DeskFit(d, n)
        BY <1>3, <1>5, <2>1 DEF DeskFit, FlightsFit
    <2> QED
        BY <1>6, <1>8, <2>2 DEF Fit
<1>12. Enters(w, c, {e}) /\ SameBreaker(w, c)
    <2>1. \A q \in Held(c.desk) : q \in Held(w.desk) \/ (q.id > w.opened /\ q.engine \in {e})
        BY <1>1, <1>5, <1>6, <1>7, <1>8 DEF Held
    <2> QED
        BY <1>5, <1>6, <1>8, <1>11, <2>1 DEF Enters, SameBreaker
<1> QED
    BY <1>2, <1>12, EntersNone DEF SameBreaker

LEMMA EnteredEnters ==
    ASSUME NEW w, Fit(w), Limit \in [Engines -> Nat], NEW e, MayEnter(w, e),
           NEW side, NEW entry, NEW r, r = Entered(w, e, side, entry)
    PROVE  Enters(w, r, {e}) /\ SameBreaker(w, r)
<1> DEFINE c == Opened(w, e, side, entry)
           wait == [c.desk.cool EXCEPT ![e] = now + Cooldown[e]]
           d == [c.desk EXCEPT !.cool = wait]
<1>1. Enters(w, c, {e}) /\ SameBreaker(w, c)
    <2> HIDE DEF c
    <2>1. c = Opened(w, e, side, entry)
        BY DEF c
    <2>2. Len(HeldBy(w.desk.book, e)) < Limit[e]
        BY DEF MayEnter
    <2> QED
        BY <2>1, <2>2, OpenedEnters
<1>2. r = [c EXCEPT !.desk = d]
    BY DEF Entered
<1> HIDE DEF c, wait
<1>3. Fit(c)
    BY <1>1 DEF Enters
<1>4. /\ DeskFields \subseteq DOMAIN d /\ d.book = c.desk.book /\ d.flights = c.desk.flights
      /\ d.breaker = c.desk.breaker /\ d.recorded = c.desk.recorded
    BY <1>3 DEF DeskFields, Fit, DeskFit
<1> HIDE DEF d
<1>5. /\ {"desk", "memory", "opened", "price"} \subseteq DOMAIN r
      /\ r.opened = c.opened /\ r.desk = d /\ r.memory = c.memory
    BY <1>2, <1>3 DEF Fit
<1>6. Enters(c, r, {})
    BY <1>3, <1>4, <1>5, EntersSame
<1>7. Enters(w, r, {e} \union {})
    BY <1>1, <1>6, EntersBoth
<1> QED
    BY <1>1, <1>4, <1>5, <1>7 DEF SameBreaker

-----------------------------------------------------------------------------
(* Closing *)

LEMMA CloseBook ==
    ASSUME NEW b, NEW n, BookFit(b, n), NEW p, NEW px, NEW reason, NEW t
    PROVE  LET c == ClosePosition(b, p, px, reason, t)
           IN  BookFit(c, n) /\ Members(c.open) \subseteq Members(b.open)
<1> DEFINE c == ClosePosition(b, p, px, reason, t)
           S == {q \in Members(b.open) : q.id # p.id}
<1>0. "closed" \in DOMAIN c /\ IsList(c.closed)
    BY ClosedTrades DEF BookFit
<1>1. "open" \in DOMAIN c /\ c.open = OnlyIn(b.open, S)
    BY ClosedBook DEF BookFit
<1> HIDE DEF c, S
<1>2. IsList(c.open) /\ Members(c.open) = Members(b.open) \cap S
    BY <1>1, ListOnly DEF BookFit
<1>3. WithinLimits(c.open)
    <2>1. SUFFICES ASSUME NEW e \in Engines PROVE Count(c.open, e) <= Limit[e]
        BY DEF WithinLimits
    <2>2. Count(c.open, e) \in Nat /\ Count(c.open, e) <= Count(b.open, e)
        BY <1>1, CountLess DEF BookFit
    <2>3. Count(b.open, e) \in Nat
        BY CountMore DEF BookFit
    <2>4. Count(b.open, e) <= Limit[e]
        BY DEF BookFit, WithinLimits
    <2> QED
        BY <2>2, <2>3, <2>4, ScalpAssumption
<1> QED
    BY <1>0, <1>1, <1>2, <1>3 DEF BookFit, c

LEMMA BookedEnters ==
    ASSUME NEW w, Fit(w), NEW p, NEW px, NEW reason, NEW r, r = Booked(w, p, px, reason)
    PROVE  Enters(w, r, {}) /\ SameBreaker(w, r)
<1> DEFINE b == ClosePosition(w.desk.book, p, px, reason, now)
           m == RecordRow(w.memory, p, px)
           d == [w.desk EXCEPT !.book = b]
<1>1. r = [w EXCEPT !.desk = d, !.memory = m]
    BY DEF Booked
<1>2. DeskFit(w.desk, w.opened) /\ BookFit(w.desk.book, w.opened)
    BY DEF Fit, DeskFit
<1>3. BookFit(b, w.opened) /\ Members(b.open) \subseteq Members(w.desk.book.open)
    <2> DEFINE g == w.desk.book
               n == w.opened
    <2>1. BookFit(g, n)
        BY <1>2
    <2> HIDE DEF g, n
    <2>2. BookFit(ClosePosition(g, p, px, reason, now), n)
          /\ Members(ClosePosition(g, p, px, reason, now).open) \subseteq Members(g.open)
        BY <2>1, CloseBook
    <2> QED
        BY <2>2 DEF g, n
<1>4. "enabled" \in DOMAIN m /\ m.enabled = w.memory.enabled
    BY DEF Fit, RecordRow
<1> HIDE DEF b, m
<1>5. /\ DeskFields \subseteq DOMAIN d /\ d.book = b /\ d.flights = w.desk.flights
      /\ d.breaker = w.desk.breaker /\ d.recorded = w.desk.recorded
    BY <1>2 DEF DeskFit, DeskFields
<1> HIDE DEF d
<1>6. /\ {"desk", "memory", "opened", "price"} \subseteq DOMAIN r
      /\ r.opened = w.opened /\ r.desk = d /\ r.memory = m
    BY <1>1 DEF Fit
<1>7. DeskFit(d, w.opened)
    BY <1>2, <1>3, <1>5 DEF DeskFit, FlightsFit
<1>8. Fit(r)
    BY <1>4, <1>6, <1>7 DEF Fit
<1> QED
    BY <1>3, <1>4, <1>5, <1>6, <1>8 DEF Enters, SameBreaker, Held, Fit

LEMMA OnStopLossHitEnters ==
    ASSUME NEW w, Fit(w), NEW side, NEW r, r = [w EXCEPT !.desk = OnStopLossHit(@, side)]
    PROVE  Enters(w, r, {}) /\ SameBreaker(w, r)
<1> DEFINE d == OnStopLossHit(w.desk, side)
<1>1. DeskFields \subseteq DOMAIN w.desk
    BY DEF Fit, DeskFit
<1>2. \E x, y, z : d = [w.desk EXCEPT !.stops = x, !.pauseUntil = y, !.lastAnalysis = z]
    BY DEF OnStopLossHit
<1> HIDE DEF d
<1>3. /\ DeskFields \subseteq DOMAIN d /\ d.book = w.desk.book /\ d.flights = w.desk.flights
      /\ d.breaker = w.desk.breaker /\ d.recorded = w.desk.recorded
    BY <1>1, <1>2 DEF DeskFields
<1>4. r = [w EXCEPT !.desk = d]
    BY DEF d
<1>5. /\ {"desk", "memory", "opened", "price"} \subseteq DOMAIN r
      /\ r.opened = w.opened /\ r.desk = d /\ r.memory = w.memory
    BY <1>4 DEF Fit
<1>6. Enters(w, r, {})
    BY <1>3, <1>5, EntersSame
<1> QED
    BY <1>3, <1>5, <1>6 DEF SameBreaker

\* What the loop over the items to close carries along.
Carries(w, x) ==
    /\ Enters(w, x.w, {}) /\ SameBreaker(w, x.w)
    /\ "rest" \in DOMAIN x.flight /\ IsList(x.flight.rest)

LEMMA CloseOneCarries ==
    ASSUME NEW w, Fit(w), NEW x, Carries(w, x), NEW item
    PROVE  Carries(w, CloseOne(x.w, x.flight, item))
<1> DEFINE p == item.position
           v == x.w
           c == IF item.reason = "SL" THEN [v EXCEPT !.desk = OnStopLossHit(@, p.side)] ELSE v
           f == [x.flight EXCEPT !.rest = Append(@, item)]
           g == [pos |-> p, price |-> v.price, reason |-> item.reason, rest |-> <<>>]
           b == Booked(c, p, v.price, item.reason)
<1>1. Fit(v) /\ Enters(w, v, {}) /\ SameBreaker(w, v)
    BY DEF Carries, Enters
<1>2. Enters(v, c, {}) /\ SameBreaker(v, c)
    <2> DEFINE r == [v EXCEPT !.desk = OnStopLossHit(@, p.side)]
    <2>1. Enters(v, r, {}) /\ SameBreaker(v, r)
        <3> DEFINE side == p.side
        <3> HIDE DEF v, side
        <3>1. r = [v EXCEPT !.desk = OnStopLossHit(@, side)]
            BY DEF side
        <3> HIDE DEF r
        <3> QED
            BY <1>1, <3>1, OnStopLossHitEnters
    <2>2. c = r \/ c = v
        OBVIOUS
    <2> HIDE DEF v, r, c
    <2> QED
        BY <1>1, <2>1, <2>2, EntersNone DEF SameBreaker
<1>3. "rest" \in DOMAIN f /\ IsList(f.rest)
    <2>1. IsList(Append(x.flight.rest, item))
        BY ListMore DEF Carries
    <2> QED
        BY <2>1 DEF Carries
<1>4. "rest" \in DOMAIN g /\ IsList(g.rest)
    BY NoList
<1>5. Enters(c, b, {}) /\ SameBreaker(c, b)
    <2> DEFINE px == v.price
               reason == item.reason
    <2>1. Fit(c)
        BY <1>2 DEF Enters
    <2> HIDE DEF c, p, px, reason
    <2>2. b = Booked(c, p, px, reason)
        BY DEF px, reason
    <2> HIDE DEF b
    <2> QED
        BY <2>1, <2>2, BookedEnters
<1>6. \E y \in {[w |-> v, flight |-> f], [w |-> c, flight |-> x.flight], [w |-> c, flight |-> g],
                [w |-> b, flight |-> x.flight]} : CloseOne(x.w, x.flight, item) = y
    <2>1. CloseOne(x.w, x.flight, item)
            = IF x.flight.pos.id # 0 THEN [w |-> v, flight |-> f]
              ELSE IF ~IsOpen(v.desk.book, p.id) THEN [w |-> c, flight |-> x.flight]
              ELSE IF live THEN [w |-> c, flight |-> g]
              ELSE [w |-> b, flight |-> x.flight]
        BY DEF CloseOne
    <2> HIDE DEF v, c, f, g, b, p
    <2> QED
        BY <2>1
<1> HIDE DEF v, c, f, g, b, p
<1>7. Enters(w, c, {}) /\ SameBreaker(w, c)
    <2>1. Enters(w, c, {} \union {})
        BY <1>1, <1>2, EntersBoth
    <2> QED
        BY <1>1, <1>2, <2>1 DEF SameBreaker
<1>8. Enters(w, b, {}) /\ SameBreaker(w, b)
    <2>1. Enters(w, b, {} \union {})
        BY <1>5, <1>7, EntersBoth
    <2> QED
        BY <1>5, <1>7, <2>1 DEF SameBreaker
<1>9. "rest" \in DOMAIN x.flight /\ IsList(x.flight.rest)
    BY DEF Carries
<1> QED
    BY <1>1, <1>3, <1>4, <1>6, <1>7, <1>8, <1>9 DEF Carries

\* A list of items closed one after another opens nothing.
LEMMA ClosedInTurnEnters ==
    ASSUME NEW w, Fit(w), NEW items, IsList(items), NEW r, r = ClosedInTurn(w, items)
    PROVE  Enters(w, r, {}) /\ SameBreaker(w, r)
<1> DEFINE n == Len(items)
           base == [w |-> w, flight |-> NoFlight]
           a == After("close", base, items, n)
           W == {y \in {a[k] : k \in 0..n} : Carries(w, y)}
           x == a[n]
           c == x.w
           d == [c.desk EXCEPT !.flights = Append(@, x.flight)]
<1>1. n \in Nat /\ DOMAIN items = 1..n
    BY DEF IsList
<1>2. Carries(w, base)
    <2>1. "rest" \in DOMAIN NoFlight /\ IsList(NoFlight.rest)
        BY NoList DEF NoFlight
    <2>2. base.w = w /\ base.flight = NoFlight
        OBVIOUS
    <2> HIDE DEF base
    <2> QED
        BY <2>1, <2>2, EntersNone DEF Carries, SameBreaker
<1> HIDE DEF n, base, a
<1>3. a[0] = base /\ \A k \in 1..n : a[k] = StepOf("close", a[k - 1], items[k])
    BY <1>1, AfterSteps DEF a
<1>4. a[0] \in W
    BY <1>1, <1>2, <1>3
<1>5. ASSUME NEW k \in 1..n, a[k - 1] \in W PROVE a[k] \in W
    <2>1. Carries(w, a[k - 1])
        BY <1>5
    <2>2. a[k] = CloseOne(a[k - 1].w, a[k - 1].flight, items[k])
        BY <1>3 DEF StepOf
    <2>3. Carries(w, a[k])
        <3> DEFINE y == a[k - 1]
                   item == items[k]
        <3> HIDE DEF y, item
        <3>1. Carries(w, CloseOne(y.w, y.flight, item))
            BY <2>1, CloseOneCarries DEF y
        <3> QED
            BY <2>2, <3>1 DEF y, item
    <2> QED
        BY <1>1, <2>3
<1>6. Carries(w, x)
    <2>1. a[n] \in W
        <3> HIDE DEF W
        <3> QED
            BY <1>1, <1>4, <1>5, StaysAfter
    <2> QED
        BY <2>1
<1>7. r = IF x.flight.pos.id = 0 THEN c ELSE [c EXCEPT !.desk = d]
    <2> DEFINE z == After("close", [w |-> w, flight |-> NoFlight], items, n)[n]
    <2>1. z = x
        BY DEF a, base
    <2> HIDE DEF z, x
    <2>2. ClosedInTurn(w, items) = IF z.flight.pos.id = 0 THEN z.w
                                   ELSE [z.w EXCEPT !.desk.flights = Append(@, z.flight)]
        BY <1>1, ClosedInTurnIs DEF z
    <2>3. ClosedInTurn(w, items) = IF x.flight.pos.id = 0 THEN x.w
                                   ELSE [x.w EXCEPT !.desk.flights = Append(@, x.flight)]
        BY <2>1, <2>2
    <2> QED
        BY <2>3
<1> HIDE DEF x, W
<1>8. Enters(w, c, {}) /\ SameBreaker(w, c) /\ Fit(c)
    BY <1>6 DEF Carries, Enters
<1>9. ASSUME r = [c EXCEPT !.desk = d] PROVE Enters(w, r, {}) /\ SameBreaker(w, r)
    <2> HIDE DEF c
    <2>1. IsList(c.desk.flights) /\ DeskFields \subseteq DOMAIN c.desk
        BY <1>8 DEF Fit, DeskFit, FlightsFit
    <2>2. /\ DeskFields \subseteq DOMAIN d /\ d.book = c.desk.book
          /\ d.flights = Append(c.desk.flights, x.flight) /\ d.breaker = c.desk.breaker
          /\ d.recorded = c.desk.recorded
        BY <2>1 DEF DeskFields
    <2> HIDE DEF d
    <2>3. /\ {"desk", "memory", "opened", "price"} \subseteq DOMAIN r
          /\ r.opened = c.opened /\ r.desk = d /\ r.memory = c.memory
        BY <1>8, <1>9 DEF Fit
    <2>4. FlightsFit(d)
        <3>1. IsList(d.flights) /\ Members(d.flights) = Members(c.desk.flights) \union {x.flight}
            BY <2>1, <2>2, ListMore
        <3> QED
            BY <1>6, <1>8, <3>1 DEF Carries, Fit, DeskFit, FlightsFit
    <2>5. Fit(r)
        BY <1>8, <2>2, <2>3, <2>4 DEF Fit, DeskFit
    <2> QED
        BY <1>8, <2>2, <2>3, <2>5 DEF Enters, SameBreaker, Held
<1> QED
    BY <1>7, <1>8, <1>9

-----------------------------------------------------------------------------
(* The strategies *)

LEMMA BreakoutRetestEnters ==
    ASSUME NEW w, Fit(w), NEW s, NEW r, r = EvaluateBreakoutRetest(w, s)
    PROVE  Enters(w, r, {"BREAKOUT_RETEST"}) /\ SameBreaker(w, r)
<1> DEFINE side == s.retest
           entry == w.desk.close5
           c == Entered(w, "BREAKOUT_RETEST", side, entry)
<1>1. r = w \/ (MayEnter(w, "BREAKOUT_RETEST") /\ r = c)
    BY DEF EvaluateBreakoutRetest
<1> HIDE DEF side, entry
<1>2. ASSUME MayEnter(w, "BREAKOUT_RETEST"), r = c
      PROVE  Enters(w, r, {"BREAKOUT_RETEST"}) /\ SameBreaker(w, r)
    BY <1>2, EnteredEnters, ScalpAssumption
<1> QED
    BY <1>1, <1>2, EntersNone DEF SameBreaker

LEMMA SniperEnters ==
    ASSUME NEW w, Fit(w), NEW s, NEW r, r = EvaluateSniper(w, s)
    PROVE  Enters(w, r, {"SNIPER"}) /\ SameBreaker(w, r)
<1> DEFINE side == IF w.desk.view.regime = "UPTREND" THEN "LONG" ELSE "SHORT"
           entry == w.desk.close5
           c == Entered(w, "SNIPER", side, entry)
<1>1. r = w \/ (MayEnter(w, "SNIPER") /\ r = c)
    BY DEF EvaluateSniper
<1> HIDE DEF side, entry
<1>2. ASSUME MayEnter(w, "SNIPER"), r = c
      PROVE  Enters(w, r, {"SNIPER"}) /\ SameBreaker(w, r)
    BY <1>2, EnteredEnters, ScalpAssumption
<1> QED
    BY <1>1, <1>2, EntersNone DEF SameBreaker

LEMMA ReversalEnters ==
    ASSUME NEW w, Fit(w), NEW s, NEW r, r = EvaluateReversal(w, s)
    PROVE  Enters(w, r, {"REVERSAL"}) /\ SameBreaker(w, r)
<1> DEFINE side == ReversalSide(w.desk.view)
           entry == w.desk.close5
           c == Entered(w, "REVERSAL", side, entry)
<1>1. r = w \/ (MayEnter(w, "REVERSAL") /\ r = c)
    BY DEF EvaluateReversal
<1> HIDE DEF side, entry
<1>2. ASSUME MayEnter(w, "REVERSAL"), r = c
      PROVE  Enters(w, r, {"REVERSAL"}) /\ SameBreaker(w, r)
    BY <1>2, EnteredEnters, ScalpAssumption
<1> QED
    BY <1>1, <1>2, EntersNone DEF SameBreaker

LEMMA TrendRiderEnters ==
    ASSUME NEW w, Fit(w), NEW s, NEW r, r = EvaluateTrendRider(w, s)
    PROVE  Enters(w, r, {"TREND_RIDER"}) /\ SameBreaker(w, r)
<1> DEFINE side == s.rider
           entry == s.price
           c == Entered(w, "TREND_RIDER", side, entry)
<1>1. r = w \/ (MayEnter(w, "TREND_RIDER") /\ r = c)
    BY DEF EvaluateTrendRider
<1> HIDE DEF side, entry
<1>2. ASSUME MayEnter(w, "TREND_RIDER"), r = c
      PROVE  Enters(w, r, {"TREND_RIDER"}) /\ SameBreaker(w, r)
    BY <1>2, EnteredEnters, ScalpAssumption
<1> QED
    BY <1>1, <1>2, EntersNone DEF SameBreaker

\* The grid's loop.
GridClosed(w, held) ==
    FoldLeft(LAMBDA acc, p : ClosedInTurn(acc, <<[position |-> p, reason |-> "REGIME_CHANGE"]>>), w, held)

LEMMA GridCloses ==
    ASSUME NEW w, Fit(w), NEW held, IsList(held), NEW r, r = GridClosed(w, held)
    PROVE  Enters(w, r, {}) /\ SameBreaker(w, r)
<1> DEFINE n == Len(held)
           h == CHOOSE g : LoopFrom(g, "grid", w, held, n)
           a == After("grid", w, held, n)
           W == {y \in {a[k] : k \in 0..n} : Enters(w, y, {}) /\ SameBreaker(w, y)}
<1>1. n \in Nat /\ DOMAIN held = 1..n
    BY DEF IsList
<1>2. r = h[1..n]
    BY <1>1 DEF GridClosed, FoldLeft, MapThenFoldSet, LoopFrom, StepOf
<1>3. r = a[n]
    BY <1>1, <1>2 DEF After
<1> HIDE DEF n, a, h
<1>4. a[0] = w /\ \A k \in 1..n : a[k] = StepOf("grid", a[k - 1], held[k])
    BY <1>1, AfterSteps DEF a
<1>5. a[0] \in W
    BY <1>1, <1>4, EntersNone DEF SameBreaker
<1>6. ASSUME NEW k \in 1..n, a[k - 1] \in W PROVE a[k] \in W
    <2> DEFINE y == a[k - 1]
               z == a[k]
               items == <<[position |-> held[k], reason |-> "REGIME_CHANGE"]>>
    <2>1. Enters(w, y, {}) /\ SameBreaker(w, y)
        BY <1>6
    <2>2. z = ClosedInTurn(y, items)
        BY <1>4 DEF StepOf
    <2>3. IsList(items)
        <3> DEFINE i == [position |-> held[k], reason |-> "REGIME_CHANGE"]
        <3>1. i \in Members(<<i>>) /\ <<i>> \in Seq({i}) /\ Members(<<i>>) = {i}
            <4> HIDE DEF i
            <4> QED
                BY DEF Members
        <3> HIDE DEF i
        <3>2. IsList(<<i>>)
            BY <3>1 DEF IsList
        <3> QED
            BY <3>2 DEF i
    <2> HIDE DEF y, z, items, W
    <2>4. Fit(y)
        BY <2>1 DEF Enters
    <2>5. Enters(y, z, {}) /\ SameBreaker(y, z)
        BY <2>2, <2>3, <2>4, ClosedInTurnEnters
    <2>6. Enters(w, z, {} \union {})
        BY <2>1, <2>5, EntersBoth
    <2> QED
        BY <1>1, <2>1, <2>5, <2>6 DEF W, z, SameBreaker
<1>7. a[n] \in W
    <2> HIDE DEF W
    <2> QED
        BY <1>1, <1>5, <1>6, StaysAfter
<1> QED
    BY <1>3, <1>7

LEMMA HeldByList ==
    ASSUME NEW b, IsList(b.open), NEW e
    PROVE  IsList(HeldBy(b, e))
BY ListOnly DEF HeldBy

LEMMA GridEnters ==
    ASSUME NEW w, Fit(w), NEW s, NEW r, r = EvaluateGrid(w, s)
    PROVE  Enters(w, r, {"GRID"}) /\ SameBreaker(w, r)
<1> DEFINE side == s.grid
           entry == w.price
           c == Entered(w, "GRID", side, entry)
           held == HeldBy(w.desk.book, "GRID")
           f == GridClosed(w, held)
<1>1. r = w \/ r = f \/ (MayEnter(w, "GRID") /\ r = c)
    BY DEF EvaluateGrid, GridClosed
<1>2. IsList(held)
    <2>1. IsList(w.desk.book.open)
        BY DEF Fit, DeskFit, BookFit
    <2> QED
        BY <2>1, HeldByList
<1>3. ASSUME r = f PROVE Enters(w, r, {"GRID"}) /\ SameBreaker(w, r)
    <2> HIDE DEF held
    <2>1. Enters(w, r, {}) /\ SameBreaker(w, r)
        BY <1>2, <1>3, GridCloses
    <2> QED
        BY <2>1, EntersMore
<1> HIDE DEF side, entry, f
<1>4. ASSUME MayEnter(w, "GRID"), r = c PROVE Enters(w, r, {"GRID"}) /\ SameBreaker(w, r)
    BY <1>4, EnteredEnters, ScalpAssumption
<1> QED
    BY <1>1, <1>3, <1>4, EntersNone DEF SameBreaker

-----------------------------------------------------------------------------
(* The breaker *)

BreakerFit(cb) ==
    /\ {"today", "stops", "until", "dailyPnl", "dayStart", "globalPaused", "resumeAt"} \subseteq DOMAIN cb
    /\ Engines \subseteq DOMAIN cb.until

LEMMA NewBreakerFit == \A t : BreakerFit(NewBreaker(t))
BY DEF BreakerFit, NewBreaker

LEMMA DayResets ==
    ASSUME NEW cb, BreakerFit(cb), NEW t \in Nat
    PROVE  /\ BreakerFit(MaybeResetDay(cb, t))
           /\ MaybeResetDay(cb, t).until = cb.until
           /\ ~(GetDayStart(t) > MaybeResetDay(cb, t).dayStart)
<1>1. GetDayStart(t) \in Int /\ ~(GetDayStart(t) > GetDayStart(t))
    <2>1. GetDayStart(t) \in Int
        <3>1. DayLength \in Nat \ {0}
            BY BreakerAssumption
        <3>2. t \div DayLength \in Int
            BY <3>1
        <3> QED
            BY <3>1, <3>2 DEF GetDayStart
    <2> QED
        BY <2>1
<1>2. CASE GetDayStart(t) > cb.dayStart
    <2> DEFINE c == [cb EXCEPT !.dayStart = GetDayStart(t), !.dailyPnl = 0,
                               !.today = [e \in Engines |-> 0]]
    <2>1. DOMAIN c = DOMAIN cb /\ c.until = cb.until /\ c.dayStart = GetDayStart(t)
        BY DEF BreakerFit
    <2>2. MaybeResetDay(cb, t) = c
        BY <1>2 DEF MaybeResetDay
    <2> HIDE DEF c
    <2> QED
        BY <1>1, <2>1, <2>2 DEF BreakerFit
<1>3. CASE ~(GetDayStart(t) > cb.dayStart)
    BY <1>3 DEF MaybeResetDay
<1> QED
    BY <1>2, <1>3

LEMMA AskedFit ==
    ASSUME NEW cb, BreakerFit(cb), NEW e, NEW t \in Nat
    PROVE  BreakerFit(Asked(cb, e, t))
<1> DEFINE c == MaybeResetDay(cb, t)
           lifted == [c EXCEPT !.globalPaused = FALSE]
           all == [lifted EXCEPT !.until[e] = 0, !.stops[e] = <<>>]
<1>1. BreakerFit(c)
    BY DayResets
<1>2. Asked(cb, e, t) \in {c, lifted, all}
    BY DEF Asked
<1> HIDE DEF c
<1>3. BreakerFit(lifted)
    BY <1>1 DEF BreakerFit
<1> HIDE DEF lifted
<1>4. BreakerFit(all)
    BY <1>3 DEF BreakerFit
<1> QED
    BY <1>1, <1>2, <1>3, <1>4

\* Who may trade may still trade after the question was answered.
LEMMA AskedStill ==
    ASSUME NEW cb, BreakerFit(cb), NEW e \in Engines, NEW t \in Nat, CanTrade(cb, e, t)
    PROVE  CanTrade(Asked(cb, e, t), e, t)
<1> DEFINE c == MaybeResetDay(cb, t)
           lifted == [c EXCEPT !.globalPaused = FALSE]
           all == [lifted EXCEPT !.until[e] = 0, !.stops[e] = <<>>]
           r == Asked(cb, e, t)
<1>1. BreakerFit(c) /\ ~(GetDayStart(t) > c.dayStart)
    BY DayResets
<1>2. /\ ~GlobalPause(c, t) /\ ~EnginePause(c, e, t)
      /\ TradesToday(c) < MaxTradesPerDay /\ c.today[e] < MaxTradesPerEngine
    BY DEF CanTrade
<1>3. r = IF c.until[e] = 0 THEN lifted ELSE all
    BY <1>2 DEF Asked
<1> HIDE DEF c, r
<1>4. /\ lifted.until = c.until /\ lifted.today = c.today /\ lifted.dayStart = c.dayStart
      /\ lifted.globalPaused = FALSE /\ DOMAIN lifted = DOMAIN c
    BY <1>1 DEF BreakerFit
<1> HIDE DEF lifted
<1>5. /\ all.until = [lifted.until EXCEPT ![e] = 0] /\ all.today = lifted.today
      /\ all.dayStart = lifted.dayStart /\ all.globalPaused = FALSE
    BY <1>1, <1>4 DEF BreakerFit
<1>6. all.until[e] = 0
    BY <1>1, <1>4, <1>5 DEF BreakerFit
<1> HIDE DEF all
<1>7. r.today = c.today /\ r.dayStart = c.dayStart /\ r.globalPaused = FALSE /\ r.until[e] = 0
    BY <1>3, <1>4, <1>5, <1>6
<1>8. MaybeResetDay(r, t) = r
    BY <1>1, <1>7 DEF MaybeResetDay
<1>9. TradesToday(r) = TradesToday(c)
    BY <1>7 DEF TradesToday
<1> QED
    BY <1>2, <1>7, <1>8, <1>9 DEF CanTrade, GlobalPause, EnginePause, r

LEMMA RecordFit ==
    ASSUME NEW cb, BreakerFit(cb), NEW e, NEW pnl, NEW reason, NEW t \in Nat
    PROVE  BreakerFit(RecordTrade(cb, e, pnl, reason, t))
<1> DEFINE c == MaybeResetDay(cb, t)
           d == [c EXCEPT !.today[e] = @ + 1, !.dailyPnl = @ + pnl]
           f == WithStop(d, e, reason, t)
<1>1. BreakerFit(c)
    BY DayResets
<1>2. RecordTrade(cb, e, pnl, reason, t) = WithDrawdown(f)
    BY DEF RecordTrade
<1> HIDE DEF c
<1>3. BreakerFit(d)
    BY <1>1 DEF BreakerFit
<1> HIDE DEF d
<1>4. \E x, y : f = d \/ f = [d EXCEPT !.stops[e] = x, !.until[e] = y]
    BY DEF WithStop
<1> HIDE DEF f
<1>5. BreakerFit(f)
    BY <1>3, <1>4 DEF BreakerFit
<1> QED
    BY <1>2, <1>5 DEF WithDrawdown, BreakerFit

\* The loop that records the trades closed since the last candle.
TradesRecorded(cb, trades) ==
    FoldLeft(LAMBDA acc, t : RecordTrade(acc, t.engine, t.pnl, t.reason, now), cb, trades)

LEMMA TradesRecordedFit ==
    ASSUME NEW cb, BreakerFit(cb), now \in Nat, NEW trades, NEW n \in Nat, DOMAIN trades = 1..n,
           NEW r, r = TradesRecorded(cb, trades)
    PROVE  BreakerFit(r)
<1> DEFINE h == CHOOSE g : LoopFrom(g, "record", cb, trades, n)
           a == After("record", cb, trades, n)
           W == {y \in {a[k] : k \in 0..n} : BreakerFit(y)}
<1>1. r = h[1..n]
    BY DEF TradesRecorded, FoldLeft, MapThenFoldSet, LoopFrom, StepOf
<1>2. r = a[n]
    BY <1>1 DEF After
<1> HIDE DEF a, h
<1>3. a[0] = cb /\ \A k \in 1..n : a[k] = StepOf("record", a[k - 1], trades[k])
    BY AfterSteps DEF a
<1>4. a[0] \in W
    BY <1>3
<1>5. ASSUME NEW k \in 1..n, a[k - 1] \in W PROVE a[k] \in W
    <2> DEFINE y == a[k - 1]
               z == a[k]
               e == trades[k].engine
               pnl == trades[k].pnl
               reason == trades[k].reason
    <2>1. BreakerFit(y)
        BY <1>5
    <2>2. z = RecordTrade(y, e, pnl, reason, now)
        BY <1>3 DEF StepOf
    <2> HIDE DEF y, z, e, pnl, reason, W
    <2>3. BreakerFit(z)
        BY <2>1, <2>2, RecordFit
    <2> QED
        BY <2>3 DEF W, z
<1>6. a[n] \in W
    <2> HIDE DEF W
    <2> QED
        BY <1>4, <1>5, StaysAfter
<1> QED
    BY <1>2, <1>6

-----------------------------------------------------------------------------
(* The database *)

MemoryFit(m) ==
    /\ "enabled" \in DOMAIN m
    /\ Engines \subseteq DOMAIN m.enabled
    /\ "TREND_RIDER" \in Engines => m.enabled["TREND_RIDER"]

\* No strategy is turned on.
NoneRevived(m, k) == \A e \in Engines : ~m.enabled[e] => ~k.enabled[e]

LEMMA EmptyMemoryFit == /\ MemoryFit(InitDefaults(EmptyMemory))
                        /\ \A e \in Engines : InitDefaults(EmptyMemory).enabled[e]
<1> DEFINE f == [e \in Engines |-> e \in DOMAIN EmptyMemory.enabled => EmptyMemory.enabled[e]]
<1>1. "enabled" \in DOMAIN EmptyMemory /\ DOMAIN EmptyMemory.enabled = {}
    BY DEF EmptyMemory
<1>2. \A e \in Engines : e \in DOMAIN f /\ f[e]
    BY <1>1
<1> HIDE DEF f
<1>3. "enabled" \in DOMAIN InitDefaults(EmptyMemory) /\ InitDefaults(EmptyMemory).enabled = f
    BY <1>1 DEF InitDefaults, f
<1> QED
    BY <1>2, <1>3 DEF MemoryFit

LEMMA InitDefaultsKeeps ==
    ASSUME NEW m, MemoryFit(m)
    PROVE  MemoryFit(InitDefaults(m)) /\ NoneRevived(m, InitDefaults(m))
<1> DEFINE f == [e \in Engines |-> e \in DOMAIN m.enabled => m.enabled[e]]
<1>1. "enabled" \in DOMAIN InitDefaults(m) /\ InitDefaults(m).enabled = f
    BY DEF InitDefaults, MemoryFit
<1>2. \A e \in Engines : e \in DOMAIN f /\ (f[e] <=> m.enabled[e])
    BY DEF MemoryFit
<1> HIDE DEF f
<1> QED
    BY <1>1, <1>2 DEF MemoryFit, NoneRevived

LEMMA TrendRiderNeverStruggles == \A m : ~Struggles(m, "TREND_RIDER")
BY DEF Struggles

LEMMA CheckAutoDisableKeeps ==
    ASSUME NEW m, MemoryFit(m)
    PROVE  MemoryFit(CheckAutoDisable(m)) /\ NoneRevived(m, CheckAutoDisable(m))
<1> DEFINE f == [e \in Engines |-> m.enabled[e] /\ ~Struggles(m, e)]
           k == [m EXCEPT !.enabled = f]
<1>1. CheckAutoDisable(m) = m \/ CheckAutoDisable(m) = k
    BY DEF CheckAutoDisable
<1>2. \A e \in Engines : e \in DOMAIN f /\ (f[e] <=> m.enabled[e] /\ ~Struggles(m, e))
    OBVIOUS
<1> HIDE DEF f
<1>3. "enabled" \in DOMAIN k /\ k.enabled = f
    BY DEF MemoryFit
<1> HIDE DEF k
<1>4. MemoryFit(k) /\ NoneRevived(m, k)
    BY <1>2, <1>3, TrendRiderNeverStruggles DEF MemoryFit, NoneRevived
<1> QED
    BY <1>1, <1>4 DEF NoneRevived

-----------------------------------------------------------------------------
(* The evaluations *)

\* The strategies of E that the breaker lets trade.
Sure(r, E) == {e \in E : e \in Engines => CanTrade(r.desk.breaker, e, now)}

\* Only the breaker was asked.
LEMMA AskedWork ==
    ASSUME NEW w, Fit(w), BreakerFit(w.desk.breaker), now \in Nat, NEW e,
           NEW r, r = [w EXCEPT !.desk.breaker = Asked(@, e, now)]
    PROVE  /\ Enters(w, r, {}) /\ BreakerFit(r.desk.breaker)
           /\ r.desk.breaker = Asked(w.desk.breaker, e, now)
           /\ r.desk.book = w.desk.book /\ r.opened = w.opened
<1> DEFINE cb == Asked(w.desk.breaker, e, now)
           d == [w.desk EXCEPT !.breaker = cb]
<1>1. BreakerFit(cb)
    BY AskedFit
<1>2. r = [w EXCEPT !.desk = d]
    OBVIOUS
<1> HIDE DEF cb
<1>3. /\ DeskFields \subseteq DOMAIN d /\ d.book = w.desk.book /\ d.flights = w.desk.flights
      /\ d.recorded = w.desk.recorded /\ d.breaker = cb
    BY DEF Fit, DeskFit, DeskFields
<1> HIDE DEF d
<1>4. /\ {"desk", "memory", "opened", "price"} \subseteq DOMAIN r
      /\ r.opened = w.opened /\ r.desk = d /\ r.memory = w.memory
    BY <1>2 DEF Fit
<1>5. Enters(w, r, {})
    BY <1>3, <1>4, EntersSame
<1> QED
    BY <1>1, <1>3, <1>4, <1>5 DEF cb

LEMMA SwingEnters ==
    ASSUME NEW w, Fit(w), BreakerFit(w.desk.breaker), now \in Nat, NEW r, r = EvaluateSwing(w)
    PROVE  Enters(w, r, Sure(r, {"SWING"})) /\ BreakerFit(r.desk.breaker)
<1> DEFINE side == SwingSide(w.desk.view)
           entry == w.price
           asked == [w EXCEPT !.desk.breaker = Asked(@, "SWING", now)]
           c == Opened(asked, "SWING", side, entry)
           f == [c EXCEPT !.desk.lastSwing = now]
           room == Len(HeldBy(w.desk.book, "SWING")) < Limit["SWING"]
           may == CanTrade(w.desk.breaker, "SWING", now)
<1>1. r = w \/ r = asked \/ (room /\ may /\ r = f)
    <2> HIDE DEF f, asked
    <2> QED
        BY DEF EvaluateSwing, asked, f
<1> HIDE DEF side, entry
<1>2. /\ Enters(w, asked, {}) /\ BreakerFit(asked.desk.breaker)
      /\ asked.desk.breaker = Asked(w.desk.breaker, "SWING", now)
      /\ asked.desk.book = w.desk.book /\ asked.opened = w.opened
    <2> DEFINE z == [w EXCEPT !.desk.breaker = Asked(@, "SWING", now)]
    <2>1. z = asked
        OBVIOUS
    <2> HIDE DEF asked
    <2> QED
        BY <2>1, AskedWork
<1> HIDE DEF asked
<1>3. CASE r = w
    BY <1>3, EntersNone
<1>4. CASE r = asked
    BY <1>2, <1>4, EntersMore
<1>5. ASSUME room, may, r = f
      PROVE  Enters(w, r, Sure(r, {"SWING"})) /\ BreakerFit(r.desk.breaker)
    <2>1. Fit(asked)
        BY <1>2 DEF Enters
    <2>2. Len(HeldBy(asked.desk.book, "SWING")) < Limit["SWING"]
        BY <1>2, <1>5
    <2>3. Enters(asked, c, {"SWING"}) /\ SameBreaker(asked, c)
        <3> HIDE DEF c
        <3>1. c = Opened(asked, "SWING", side, entry)
            BY DEF c
        <3> QED
            BY <2>1, <2>2, <3>1, OpenedEnters, ScalpAssumption
    <2> HIDE DEF c
    <2>4. Enters(w, c, {} \union {"SWING"})
        BY <1>2, <2>3, EntersBoth
    <2> DEFINE d == [c.desk EXCEPT !.lastSwing = now]
    <2>5. r = [c EXCEPT !.desk = d]
        BY <1>5
    <2>6. Fit(c)
        BY <2>3 DEF Enters
    <2>7. /\ DeskFields \subseteq DOMAIN d /\ d.book = c.desk.book /\ d.flights = c.desk.flights
          /\ d.recorded = c.desk.recorded /\ d.breaker = c.desk.breaker
        BY <2>6 DEF Fit, DeskFit, DeskFields
    <2> HIDE DEF d
    <2>8. /\ {"desk", "memory", "opened", "price"} \subseteq DOMAIN r
          /\ r.opened = c.opened /\ r.desk = d /\ r.memory = c.memory
        BY <2>5, <2>6 DEF Fit
    <2>9. Enters(c, r, {})
        BY <2>6, <2>7, <2>8, EntersSame
    <2>10. Enters(w, r, ({} \union {"SWING"}) \union {})
        BY <2>4, <2>9, EntersBoth
    <2>11. r.desk.breaker = Asked(w.desk.breaker, "SWING", now)
        BY <1>2, <2>3, <2>7, <2>8 DEF SameBreaker
    <2>12. "SWING" \in Engines => CanTrade(r.desk.breaker, "SWING", now)
        BY <1>5, <2>11, AskedStill
    <2>13. "SWING" \in Sure(r, {"SWING"})
        BY <2>12 DEF Sure
    <2>14. BreakerFit(r.desk.breaker)
        BY <1>2, <2>11
    <2> QED
        BY <2>10, <2>13, <2>14, EntersMore
<1> QED
    BY <1>1, <1>3, <1>4, <1>5

\* The strategies of E that are on.
On(w, E) == {e \in E : w.memory.enabled[e]}

LEMMA IfEnters ==
    ASSUME NEW w, Fit(w), NEW e, NEW v, NEW E, E \subseteq {e}, Enters(w, v, E),
           NEW r, r = If(w, e, v)
    PROVE  Enters(w, r, On(w, E)) /\ (r = w \/ r = v)
<1>1. CASE w.memory.enabled[e]
    <2>1. r = v /\ On(w, E) = E
        BY <1>1 DEF If, On
    <2> QED
        BY <2>1
<1>2. CASE ~w.memory.enabled[e]
    <2>1. r = w
        BY <1>2 DEF If
    <2> QED
        BY <2>1, EntersNone
<1> QED
    BY <1>1, <1>2

\* Enablement is the same all along a turn.
LEMMA OnSame ==
    ASSUME NEW w, NEW r, NEW E, NEW F, Enters(w, r, F)
    PROVE  On(r, E) = On(w, E)
BY DEF On, Enters

Structural == {"SNIPER", "BREAKOUT_RETEST"}
Others4 == {"SNIPER", "BREAKOUT_RETEST", "GRID", "REVERSAL"}

LEMMA BreakoutIf ==
    ASSUME NEW w, Fit(w), NEW s,
           NEW r, r = If(w, "BREAKOUT_RETEST", EvaluateBreakoutRetest(w, s))
    PROVE  Enters(w, r, On(w, {"BREAKOUT_RETEST"})) /\ SameBreaker(w, r)
<1> DEFINE v == EvaluateBreakoutRetest(w, s)
<1>1. Enters(w, v, {"BREAKOUT_RETEST"}) /\ SameBreaker(w, v)
    BY BreakoutRetestEnters
<1>2. r = If(w, "BREAKOUT_RETEST", v)
    OBVIOUS
<1> HIDE DEF v
<1> QED
    BY <1>1, <1>2, IfEnters DEF SameBreaker

LEMMA SniperIf ==
    ASSUME NEW w, Fit(w), NEW s, NEW r, r = If(w, "SNIPER", EvaluateSniper(w, s))
    PROVE  Enters(w, r, On(w, {"SNIPER"})) /\ SameBreaker(w, r)
<1> DEFINE v == EvaluateSniper(w, s)
<1>1. Enters(w, v, {"SNIPER"}) /\ SameBreaker(w, v)
    BY SniperEnters
<1>2. r = If(w, "SNIPER", v)
    OBVIOUS
<1> HIDE DEF v
<1> QED
    BY <1>1, <1>2, IfEnters DEF SameBreaker

LEMMA GridIf ==
    ASSUME NEW w, Fit(w), NEW s, NEW r, r = If(w, "GRID", EvaluateGrid(w, s))
    PROVE  Enters(w, r, On(w, {"GRID"})) /\ SameBreaker(w, r)
<1> DEFINE v == EvaluateGrid(w, s)
<1>1. Enters(w, v, {"GRID"}) /\ SameBreaker(w, v)
    BY GridEnters
<1>2. r = If(w, "GRID", v)
    OBVIOUS
<1> HIDE DEF v
<1> QED
    BY <1>1, <1>2, IfEnters DEF SameBreaker

LEMMA ReversalIf ==
    ASSUME NEW w, Fit(w), NEW s, NEW r, r = If(w, "REVERSAL", EvaluateReversal(w, s))
    PROVE  Enters(w, r, On(w, {"REVERSAL"})) /\ SameBreaker(w, r)
<1> DEFINE v == EvaluateReversal(w, s)
<1>1. Enters(w, v, {"REVERSAL"}) /\ SameBreaker(w, v)
    BY ReversalEnters
<1>2. r = If(w, "REVERSAL", v)
    OBVIOUS
<1> HIDE DEF v
<1> QED
    BY <1>1, <1>2, IfEnters DEF SameBreaker

LEMMA SwingIf ==
    ASSUME NEW w, Fit(w), BreakerFit(w.desk.breaker), now \in Nat,
           NEW r, r = If(w, "SWING", EvaluateSwing(w))
    PROVE  Enters(w, r, On(w, Sure(r, {"SWING"}))) /\ BreakerFit(r.desk.breaker)
<1> DEFINE v == EvaluateSwing(w)
           E == Sure(v, {"SWING"})
<1>1. Enters(w, v, E) /\ BreakerFit(v.desk.breaker)
    BY SwingEnters
<1>2. r = If(w, "SWING", v)
    OBVIOUS
<1>3. E \subseteq {"SWING"}
    BY DEF Sure
<1> HIDE DEF v, E
<1>4. Enters(w, r, On(w, E)) /\ (r = w \/ r = v)
    BY <1>1, <1>2, <1>3, IfEnters
<1>5. CASE r = v
    BY <1>1, <1>4, <1>5 DEF E
<1>6. CASE r = w
    BY <1>6, EntersNone
<1> QED
    BY <1>4, <1>5, <1>6

LEMMA InPauseEnters ==
    ASSUME NEW w, Fit(w), NEW s, NEW r, r = InPause(w, s)
    PROVE  Enters(w, r, On(w, Structural)) /\ SameBreaker(w, r)
<1> DEFINE w1 == If(w, "SNIPER", EvaluateSniper(w, s))
<1>1. Enters(w, w1, On(w, {"SNIPER"})) /\ SameBreaker(w, w1)
    BY SniperIf
<1>2. r = If(w1, "BREAKOUT_RETEST", EvaluateBreakoutRetest(w1, s))
    BY DEF InPause
<1> HIDE DEF w1
<1>3. Fit(w1) /\ On(w1, {"BREAKOUT_RETEST"}) = On(w, {"BREAKOUT_RETEST"})
    BY <1>1, OnSame DEF Enters
<1>4. Enters(w1, r, On(w, {"BREAKOUT_RETEST"})) /\ SameBreaker(w1, r)
    BY <1>2, <1>3, BreakoutIf
<1>5. Enters(w, r, On(w, {"SNIPER"}) \union On(w, {"BREAKOUT_RETEST"}))
    BY <1>1, <1>4, EntersBoth
<1>6. On(w, {"SNIPER"}) \union On(w, {"BREAKOUT_RETEST"}) = On(w, Structural)
    BY DEF On, Structural
<1> QED
    BY <1>1, <1>4, <1>5, <1>6 DEF SameBreaker

LEMMA InTurnEnters ==
    ASSUME NEW w, Fit(w), BreakerFit(w.desk.breaker), now \in Nat, NEW s, NEW r, r = InTurn(w, s)
    PROVE  /\ Enters(w, r, On(w, Others4 \union Sure(r, {"SWING"})))
           /\ BreakerFit(r.desk.breaker)
<1> DEFINE w1 == If(w, "BREAKOUT_RETEST", EvaluateBreakoutRetest(w, s))
           w2 == If(w1, "SNIPER", EvaluateSniper(w1, s))
           w3 == If(w2, "SWING", EvaluateSwing(w2))
           g == If(w3, "GRID", EvaluateGrid(w3, s))
           w4 == IF now \in ToxicTimes THEN w3 ELSE g
           E1 == On(w, {"BREAKOUT_RETEST"})
           E2 == On(w, {"SNIPER"})
           E3 == On(w, Sure(w3, {"SWING"}))
           E4 == On(w, {"GRID"})
           E5 == On(w, {"REVERSAL"})
<1>1. Enters(w, w1, E1) /\ SameBreaker(w, w1)
    BY BreakoutIf
<1>2. r = If(w4, "REVERSAL", EvaluateReversal(w4, s))
    BY DEF InTurn
<1>3. w2 = If(w1, "SNIPER", EvaluateSniper(w1, s))
    OBVIOUS
<1>4. w3 = If(w2, "SWING", EvaluateSwing(w2))
    OBVIOUS
<1>5. g = If(w3, "GRID", EvaluateGrid(w3, s)) /\ w4 \in {w3, g}
    OBVIOUS
<1> HIDE DEF w1, w2, w3, g, w4
<1>6. Enters(w1, w2, E2) /\ SameBreaker(w1, w2)
    <2> HIDE DEF E1, E2, E3, E4, E5
    <2>1. Fit(w1) /\ On(w1, {"SNIPER"}) = E2
        BY <1>1, OnSame DEF Enters, E2
    <2> QED
        BY <1>3, <2>1, SniperIf
<1>7. Enters(w, w2, E1 \union E2)
    BY <1>1, <1>6, EntersBoth
<1>8. Enters(w2, w3, E3) /\ BreakerFit(w3.desk.breaker)
    <2>1. Fit(w2) /\ BreakerFit(w2.desk.breaker)
        BY <1>1, <1>6, <1>7 DEF Enters, SameBreaker
    <2>2. On(w2, Sure(w3, {"SWING"})) = E3
        BY <1>7, OnSame
    <2> HIDE DEF E3
    <2> QED
        BY <1>4, <2>1, <2>2, SwingIf
<1> HIDE DEF E1, E2, E3, E4, E5
<1>9. Enters(w, w3, (E1 \union E2) \union E3)
    BY <1>7, <1>8, EntersBoth
<1>10. Enters(w3, g, E4) /\ SameBreaker(w3, g)
    <2>1. Fit(w3) /\ On(w3, {"GRID"}) = E4
        BY <1>9, OnSame DEF Enters, E4
    <2> QED
        BY <1>5, <2>1, GridIf
<1>11. Enters(w3, w4, E4) /\ SameBreaker(w3, w4)
    <2>1. Fit(w3)
        BY <1>9 DEF Enters
    <2> QED
        BY <1>5, <1>10, <2>1, EntersNone DEF SameBreaker
<1>12. Enters(w, w4, ((E1 \union E2) \union E3) \union E4)
    BY <1>9, <1>11, EntersBoth
<1>13. Enters(w4, r, E5) /\ SameBreaker(w4, r)
    <2>1. Fit(w4) /\ On(w4, {"REVERSAL"}) = E5
        BY <1>12, OnSame DEF Enters, E5
    <2> QED
        BY <1>2, <2>1, ReversalIf
<1>14. Enters(w, r, (((E1 \union E2) \union E3) \union E4) \union E5)
    BY <1>12, <1>13, EntersBoth
<1>15. r.desk.breaker = w3.desk.breaker
    BY <1>11, <1>13 DEF SameBreaker
<1>16. Sure(r, {"SWING"}) = Sure(w3, {"SWING"})
    BY <1>15 DEF Sure
<1>17. (((E1 \union E2) \union E3) \union E4) \union E5 \subseteq On(w, Others4 \union Sure(r, {"SWING"}))
    BY <1>16 DEF On, Others4, E1, E2, E3, E4, E5
<1> QED
    BY <1>8, <1>14, <1>15, <1>17, EntersMore

-----------------------------------------------------------------------------
(* What a handler may do *)

\* The strategy e may open a position on the way from w to r: it is on, the
\* breaker lets it trade, and no pause of the regime concerns it.
Granted(w, r, e) ==
    /\ r.memory.enabled[e]
    /\ e \in {"SWING", "TREND_RIDER"} => CanTrade(r.desk.breaker, e, now)
    /\ now < w.desk.pauseUntil => e \in {"SNIPER", "BREAKOUT_RETEST", "TREND_RIDER"}

Ready(w) == Fit(w) /\ BreakerFit(w.desk.breaker) /\ MemoryFit(w.memory)

Passes(w, r) ==
    /\ Ready(r)
    /\ NoneRevived(w.memory, r.memory)
    /\ r.opened >= w.opened
    /\ \A p \in Held(r.desk) :
          \/ p \in Held(w.desk)
          \/ p.id > w.opened /\ (p.engine \in Engines => Granted(w, r, p.engine))

LEMMA EntersPasses ==
    ASSUME NEW w, Ready(w), NEW r, NEW E, Enters(w, r, E), BreakerFit(r.desk.breaker),
           \A e \in E : e \in Engines => Granted(w, r, e)
    PROVE  Passes(w, r)
<1>1. MemoryFit(r.memory) /\ NoneRevived(w.memory, r.memory)
    BY DEF Ready, MemoryFit, NoneRevived, Enters, Fit
<1> QED
    BY <1>1 DEF Passes, Ready, Enters

\* What changes neither the positions nor the breaker.
Beside(w, r) ==
    /\ Fit(r)
    /\ r.opened = w.opened /\ r.desk.book = w.desk.book /\ r.desk.breaker = w.desk.breaker

LEMMA PassesBeside ==
    ASSUME NEW w, NEW v, NEW r, Passes(w, v), Beside(v, r), r.memory = v.memory
    PROVE  Passes(w, r)
BY DEF Passes, Beside, Ready, Held, Granted

LEMMA BesidePasses ==
    ASSUME NEW w, NEW v, NEW r, Beside(w, v), NoneRevived(w.memory, v.memory),
           v.desk.pauseUntil = w.desk.pauseUntil, Passes(v, r)
    PROVE  Passes(w, r)
<1>1. NoneRevived(w.memory, r.memory)
    BY DEF Passes, NoneRevived
<1> QED
    BY <1>1 DEF Passes, Beside, Held, Granted

LEMMA SamePasses ==
    ASSUME NEW w, Ready(w)
    PROVE  Passes(w, w)
<1>1. w.opened \in Nat
    BY DEF Ready, Fit
<1> QED
    BY <1>1 DEF Passes, NoneRevived

LEMMA EvaluateSame ==
    ASSUME NEW w, Ready(w), NEW f, NEW d, NEW r, r = Analyzed(AdaptiveRun(w), f, d)
    PROVE  /\ Beside(w, r) /\ Ready(r) /\ NoneRevived(w.memory, r.memory)
           /\ r.desk.pauseUntil = w.desk.pauseUntil
<1> DEFINE m == CheckAutoDisable(w.memory)
           d1 == [w.desk EXCEPT !.lastRun = now]
           v == [w EXCEPT !.desk = d1, !.memory = m]
           a == AdaptiveRun(w)
<1>1. MemoryFit(m) /\ NoneRevived(w.memory, m)
    BY CheckAutoDisableKeeps DEF Ready
<1>2. a = w \/ a = v
    BY DEF AdaptiveRun
<1> HIDE DEF m
<1>3. /\ DeskFields \subseteq DOMAIN d1 /\ d1.book = w.desk.book /\ d1.flights = w.desk.flights
      /\ d1.recorded = w.desk.recorded /\ d1.breaker = w.desk.breaker
      /\ d1.pauseUntil = w.desk.pauseUntil
    BY DEF Ready, Fit, DeskFit, DeskFields
<1> HIDE DEF d1
<1>4. /\ {"desk", "memory", "opened", "price"} \subseteq DOMAIN v
      /\ v.opened = w.opened /\ v.desk = d1 /\ v.memory = m
    BY DEF Ready, Fit
<1> HIDE DEF v
<1>5. /\ Beside(w, v) /\ Ready(v) /\ NoneRevived(w.memory, v.memory)
      /\ v.desk.pauseUntil = w.desk.pauseUntil
    <2>1. DeskFit(d1, w.opened)
        BY <1>3 DEF Ready, Fit, DeskFit, FlightsFit
    <2>2. Fit(v)
        BY <1>1, <1>4, <2>1 DEF Ready, Fit, MemoryFit
    <2> QED
        BY <1>1, <1>3, <1>4, <2>2 DEF Beside, Ready
<1>6. /\ Beside(w, a) /\ Ready(a) /\ NoneRevived(w.memory, a.memory)
      /\ a.desk.pauseUntil = w.desk.pauseUntil
    BY <1>2, <1>5 DEF Beside, Ready, NoneRevived
<1> DEFINE age == Aged(a.desk.age, d.breakout)
           view == AnalyzeV2(f, d, age)
           d2 == [a.desk EXCEPT !.lastAnalysis = now, !.age = age, !.view = view]
           b == [a EXCEPT !.desk = d2]
<1>7. r = a \/ r = b
    BY DEF Analyzed
<1> HIDE DEF a, age, view
<1>8. /\ DeskFields \subseteq DOMAIN d2 /\ d2.book = a.desk.book /\ d2.flights = a.desk.flights
      /\ d2.recorded = a.desk.recorded /\ d2.breaker = a.desk.breaker
      /\ d2.pauseUntil = a.desk.pauseUntil
    BY <1>6 DEF Ready, Fit, DeskFit, DeskFields
<1> HIDE DEF d2
<1>9. /\ {"desk", "memory", "opened", "price"} \subseteq DOMAIN b
      /\ b.opened = a.opened /\ b.desk = d2 /\ b.memory = a.memory
    BY <1>6 DEF Ready, Fit
<1> HIDE DEF b
<1>10. /\ Beside(w, b) /\ Ready(b) /\ NoneRevived(w.memory, b.memory)
       /\ b.desk.pauseUntil = w.desk.pauseUntil
    <2>1. DeskFit(d2, a.opened)
        BY <1>6, <1>8 DEF Ready, Fit, DeskFit, FlightsFit
    <2>2. Fit(b)
        BY <1>6, <1>9, <2>1 DEF Ready, Fit
    <2> QED
        BY <1>6, <1>8, <1>9, <2>2 DEF Beside, Ready
<1> QED
    BY <1>6, <1>7, <1>10

LEMMA EvaluatePasses ==
    ASSUME NEW w0, Ready(w0), now \in Nat, NEW s, NEW f, NEW d, NEW r, r = Evaluate(w0, s, f, d)
    PROVE  Passes(w0, r)
<1> DEFINE w == Analyzed(AdaptiveRun(w0), f, d)
           p == InPause(w, s)
           t == InTurn(w, s)
<1>1. \/ r = w0 \/ r = w \/ (now < w.desk.pauseUntil /\ r = p)
      \/ (~(now < w.desk.pauseUntil) /\ r = t)
    BY DEF Evaluate
<1>2. /\ Beside(w0, w) /\ Ready(w) /\ NoneRevived(w0.memory, w.memory)
      /\ w.desk.pauseUntil = w0.desk.pauseUntil
    BY EvaluateSame
<1> HIDE DEF w
<1>3. Fit(w) /\ BreakerFit(w.desk.breaker)
    BY <1>2 DEF Ready
<1>4. ASSUME now < w.desk.pauseUntil, r = p PROVE Passes(w, r)
    <2>1. Enters(w, r, On(w, Structural)) /\ SameBreaker(w, r)
        BY <1>3, <1>4, InPauseEnters
    <2>2. ASSUME NEW e \in On(w, Structural) PROVE Granted(w, r, e)
        BY <2>1 DEF Granted, On, Structural, Enters
    <2>3. BreakerFit(r.desk.breaker)
        BY <1>3, <2>1 DEF SameBreaker
    <2> QED
        BY <1>2, <2>1, <2>2, <2>3, EntersPasses
<1>5. ASSUME ~(now < w.desk.pauseUntil), r = t PROVE Passes(w, r)
    <2> DEFINE E == On(w, Others4 \union Sure(r, {"SWING"}))
    <2>1. Enters(w, r, E) /\ BreakerFit(r.desk.breaker)
        BY <1>3, <1>5, InTurnEnters
    <2>2. ASSUME NEW e \in E, e \in Engines PROVE Granted(w, r, e)
        <3>1. r.memory.enabled[e]
            BY <2>1 DEF On, Enters
        <3>2. e \in {"SWING", "TREND_RIDER"} => CanTrade(r.desk.breaker, e, now)
            BY <2>2 DEF On, Others4, Sure
        <3> QED
            BY <1>5, <3>1, <3>2 DEF Granted
    <2> HIDE DEF E
    <2> QED
        BY <1>2, <2>1, <2>2, EntersPasses
<1>6. CASE r = w
    BY <1>2, <1>6, SamePasses, BesidePasses
<1>7. CASE r = w0
    BY <1>7, SamePasses
<1>8. ASSUME Passes(w, r) PROVE Passes(w0, r)
    BY <1>2, <1>8, BesidePasses
<1> QED
    BY <1>1, <1>4, <1>5, <1>6, <1>7, <1>8

LEMMA StartV4Passes ==
    ASSUME NEW w, NEW v, Passes(w, v), NEW s, NEW r, r = StartV4(v, s)
    PROVE  Passes(w, r)
<1> DEFINE more == Append(v.desk.pending, [rider |-> s.rider, price |-> v.desk.close5])
           d == [v.desk EXCEPT !.pending = more]
           c == [v EXCEPT !.desk = d]
<1>1. r = v \/ r = c
    BY DEF StartV4
<1> HIDE DEF more
<1>2. Fit(v)
    BY DEF Passes, Ready
<1>3. /\ DeskFields \subseteq DOMAIN d /\ d.book = v.desk.book /\ d.flights = v.desk.flights
      /\ d.recorded = v.desk.recorded /\ d.breaker = v.desk.breaker
    BY <1>2 DEF Fit, DeskFit, DeskFields
<1> HIDE DEF d
<1>4. /\ {"desk", "memory", "opened", "price"} \subseteq DOMAIN c
      /\ c.opened = v.opened /\ c.desk = d /\ c.memory = v.memory
    BY <1>2 DEF Fit
<1> HIDE DEF c
<1>5. DeskFit(d, v.opened)
    BY <1>2, <1>3 DEF Fit, DeskFit, FlightsFit
<1>6. Beside(v, c) /\ c.memory = v.memory
    BY <1>2, <1>3, <1>4, <1>5 DEF Beside, Fit
<1> QED
    BY <1>1, <1>6, PassesBeside

LEMMA ResumeV4Passes ==
    ASSUME NEW w, Ready(w), now \in Nat, NEW s, NEW r, r = ResumeV4(w, s)
    PROVE  Passes(w, r)
<1> DEFINE asked == [w EXCEPT !.desk.breaker = Asked(@, "TREND_RIDER", now)]
           c == EvaluateTrendRider(asked, s)
           may == CanTrade(w.desk.breaker, "TREND_RIDER", now)
<1>1. r = w \/ r = asked \/ (may /\ r = c)
    BY DEF ResumeV4
<1>2. Fit(w) /\ BreakerFit(w.desk.breaker)
    BY DEF Ready
<1>3. /\ Enters(w, asked, {}) /\ BreakerFit(asked.desk.breaker)
      /\ asked.desk.breaker = Asked(w.desk.breaker, "TREND_RIDER", now)
    <2> DEFINE z == [w EXCEPT !.desk.breaker = Asked(@, "TREND_RIDER", now)]
    <2>1. z = asked
        OBVIOUS
    <2> HIDE DEF asked
    <2> QED
        BY <1>2, <2>1, AskedWork
<1> HIDE DEF asked
<1>4. CASE r = asked
    BY <1>3, <1>4, EntersPasses
<1>5. ASSUME may, r = c PROVE Passes(w, r)
    <2>1. Fit(asked)
        BY <1>3 DEF Enters
    <2>2. Enters(asked, r, {"TREND_RIDER"}) /\ SameBreaker(asked, r)
        BY <1>5, <2>1, TrendRiderEnters
    <2>3. Enters(w, r, {} \union {"TREND_RIDER"})
        BY <1>2, <1>3, <2>2, EntersBoth
    <2>4. r.desk.breaker = Asked(w.desk.breaker, "TREND_RIDER", now)
        BY <1>3, <2>2 DEF SameBreaker
    <2>5. BreakerFit(r.desk.breaker)
        BY <1>3, <2>4
    <2>6. ASSUME "TREND_RIDER" \in Engines PROVE Granted(w, r, "TREND_RIDER")
        <3>1. CanTrade(r.desk.breaker, "TREND_RIDER", now)
            BY <1>2, <1>5, <2>4, <2>6, AskedStill
        <3>2. r.memory.enabled["TREND_RIDER"]
            BY <2>3, <2>6 DEF Enters, Ready, MemoryFit
        <3> QED
            BY <3>1, <3>2 DEF Granted
    <2> QED
        BY <2>3, <2>5, <2>6, EntersPasses
<1> QED
    BY <1>1, <1>4, <1>5, SamePasses

-----------------------------------------------------------------------------
(* What the handlers start from *)

LEMMA ListOf ==
    ASSUME NEW n \in Nat, NEW s, s = [i \in 1..n |-> s[i]]
    PROVE  IsList(s) /\ Len(s) = n
<1> DEFINE T == {s[i] : i \in 1..n}
<1>1. s \in [1..n -> T]
    <2>1. \A i \in 1..n : s[i] \in T
        OBVIOUS
    <2> HIDE DEF T
    <2> QED
        BY <2>1
<1>2. s \in Seq(T)
    <2> HIDE DEF T
    <2> QED
        BY <1>1
<1>3. Len(s) = n
    BY <1>2
<1> QED
    BY <1>2, <1>3 DEF IsList, Members

LEMMA MovedSame ==
    ASSUME NEW p, {"id", "engine"} \subseteq DOMAIN p, NEW px
    PROVE  /\ {"id", "engine"} \subseteq DOMAIN Moved(p, px)
           /\ Moved(p, px).id = p.id /\ Moved(p, px).engine = p.engine
<1>1. \E x, y : \/ Moved(p, px) = p \/ Moved(p, px) = [p EXCEPT !.best = x]
                \/ Moved(p, px) = [p EXCEPT !.trail = x, !.best = y]
    BY DEF Moved, Trailed
<1> QED
    BY <1>1

LEMMA UpdatedBook ==
    ASSUME NEW b, NEW n, BookFit(b, n), NEW px, NEW c, c = UpdatePositions(b, px)
    PROVE  BookFit(c, n)
<1> DEFINE s == b.open
           r == [i \in DOMAIN s |-> Moved(s[i], px)]
           m == Len(s)
<1>1. IsList(s) /\ m \in Nat /\ DOMAIN s = 1..m
    BY DEF BookFit, IsList
<1>2. c = [b EXCEPT !.open = r]
    BY DEF UpdatePositions
<1> HIDE DEF s, m
<1>3. /\ \A i \in 1..m : r[i] = Moved(s[i], px)
      /\ r = [i \in 1..m |-> r[i]]
    BY <1>1
<1> HIDE DEF r
<1>4. {"open", "closed"} \subseteq DOMAIN c /\ c.open = r /\ c.closed = b.closed
    BY <1>2 DEF BookFit
<1>5. IsList(r) /\ Len(r) = m
    BY <1>1, <1>3, ListOf
<1>6. ASSUME NEW i \in 1..m
      PROVE  /\ {"id", "engine"} \subseteq DOMAIN r[i]
             /\ r[i].id = s[i].id /\ r[i].engine = s[i].engine /\ s[i].id \in 1..n
    <2> DEFINE p == s[i]
    <2>1. p \in Members(b.open)
        BY <1>1 DEF Members, s, m
    <2>2. {"id", "engine"} \subseteq DOMAIN p /\ p.id \in 1..n
        BY <2>1 DEF BookFit
    <2> HIDE DEF p
    <2>3. /\ {"id", "engine"} \subseteq DOMAIN Moved(p, px)
          /\ Moved(p, px).id = p.id /\ Moved(p, px).engine = p.engine
        BY <2>2, MovedSame
    <2> QED
        BY <1>3, <2>2, <2>3 DEF p
<1>7. \A p \in Members(r) : {"id", "engine"} \subseteq DOMAIN p /\ p.id \in 1..n
    BY <1>5, <1>6 DEF Members
<1>8. WithinLimits(r)
    <2>1. SUFFICES ASSUME NEW e \in Engines PROVE Count(r, e) <= Limit[e]
        BY DEF WithinLimits
    <2>2. Count(s, e) = Count(r, e)
        BY <1>1, <1>5, <1>6, CountSame DEF m
    <2>3. Count(s, e) <= Limit[e]
        BY DEF BookFit, WithinLimits, s
    <2> QED
        BY <2>2, <2>3
<1> QED
    BY <1>4, <1>5, <1>7, <1>8 DEF BookFit

LEMMA ToCloseList ==
    ASSUME NEW b, IsList(b.open), NEW px, NEW t
    PROVE  IsList(ToClose(b, px, t))
<1> DEFINE hit == OnlyIn(b.open, {p \in Range(b.open) : Reason(p, px, t) # "none"})
           s == ToClose(b, px, t)
<1>1. IsList(hit)
    BY ListOnly
<1>2. Len(hit) \in Nat /\ DOMAIN hit = 1..Len(hit)
    <2> HIDE DEF hit
    <2> QED
        BY <1>1 DEF IsList
<1>3. s = [i \in DOMAIN hit |-> [position |-> Moved(hit[i], px), reason |-> Reason(hit[i], px, t)]]
    BY DEF ToClose
<1> HIDE DEF hit, s
<1>4. s = [i \in 1..Len(hit) |-> s[i]]
    BY <1>2, <1>3
<1>5. IsList(s)
    <2> DEFINE n == Len(hit)
    <2>1. n \in Nat /\ s = [i \in 1..n |-> s[i]]
        BY <1>2, <1>4
    <2> HIDE DEF n
    <2> QED
        BY <2>1, ListOf
<1> QED
    BY <1>5 DEF s

\* The state as a handler finds it.
Kept(d, m, n) == n \in Nat /\ DeskFit(d, n) /\ BreakerFit(d.breaker) /\ MemoryFit(m)

LEMMA WorkFits ==
    ASSUME NEW d, Kept(d, memory, opened), NEW w,
           {"desk", "memory", "opened", "price"} \subseteq DOMAIN w,
           w.desk = d, w.memory = memory, w.opened = opened
    PROVE  Ready(w)
BY DEF Ready, Fit, Kept, MemoryFit

LEMMA WorkReady ==
    ASSUME NEW d, Kept(d, memory, opened), NEW px, NEW w, w = [Work(px) EXCEPT !.desk = d]
    PROVE  Ready(w) /\ w.desk = d /\ w.memory = memory /\ w.opened = opened
<1>1. w = [desk |-> d, memory |-> memory, opened |-> opened, price |-> px]
    BY DEF Work
<1>2. /\ {"desk", "memory", "opened", "price"} \subseteq DOMAIN w
      /\ w.desk = d /\ w.memory = memory /\ w.opened = opened
    BY <1>1
<1> QED
    BY <1>2 DEF Ready, Fit, Kept, MemoryFit

\* What a step of the bot with the scalping engine does, whichever it is.
StepFits ==
    /\ Kept(desk', memory', opened')
    /\ NoneRevived(memory, memory')
    /\ \A p \in Held(desk') :
          p.id > opened /\ p.engine \in Engines =>
             /\ memory'.enabled[p.engine]
             /\ p.engine \in {"SWING", "TREND_RIDER"} => CanTrade(desk'.breaker, p.engine, now)
             /\ now < desk.pauseUntil => p.engine \in {"SNIPER", "BREAKOUT_RETEST", "TREND_RIDER"}

LEMMA BecomesFits ==
    ASSUME NEW d, Kept(d, memory, opened), d.pauseUntil = desk.pauseUntil,
           NEW w, Ready(w), w.desk = d, w.memory = memory, w.opened = opened,
           NEW r, Passes(w, r), Becomes(r)
    PROVE  StepFits
<1>1. desk' = r.desk /\ memory' = r.memory /\ opened' = r.opened
    BY DEF Becomes
<1>2. Kept(desk', memory', opened')
    BY <1>1 DEF Passes, Ready, Fit, Kept
<1>3. NoneRevived(memory, memory')
    BY <1>1 DEF Passes
<1>4. ASSUME NEW p \in Held(desk'), p.id > opened, p.engine \in Engines
      PROVE  Granted(w, r, p.engine)
    <2>1. p \in Held(d) => p.id \in 1..opened
        BY DEF Kept, DeskFit, BookFit, Held
    <2>2. opened \in Nat
        BY DEF Kept
    <2> QED
        BY <1>1, <1>4, <2>1, <2>2 DEF Passes
<1> QED
    BY <1>1, <1>2, <1>3, <1>4 DEF StepFits, Granted

\* Closing alone.
LEMMA ClosesFits ==
    ASSUME NEW d, Kept(d, memory, opened), d.pauseUntil = desk.pauseUntil,
           NEW w, Ready(w), w.desk = d, w.memory = memory, w.opened = opened,
           NEW r, Enters(w, r, {}), SameBreaker(w, r), Becomes(r)
    PROVE  StepFits
<1>1. BreakerFit(r.desk.breaker)
    BY DEF Ready, SameBreaker
<1>2. Passes(w, r)
    BY <1>1, EntersPasses
<1> QED
    BY <1>2, BecomesFits

LEMMA KlineStart ==
    ASSUME Kept(desk, memory, opened), now \in Nat, NEW trend,
           NEW d, d = MacroUpdates(RecordNewTradesInCB(desk), trend)
    PROVE  Kept(d, memory, opened) /\ d.pauseUntil = desk.pauseUntil
<1> DEFINE first == desk.recorded + 1
           last == Len(desk.book.closed)
           new == SubSeq(desk.book.closed, first, last)
           n == IF first <= last THEN last - first + 1 ELSE 0
           cb == TradesRecorded(desk.breaker, new)
           c == [desk EXCEPT !.breaker = cb, !.recorded = last]
<1>1. DeskFit(desk, opened) /\ BreakerFit(desk.breaker) /\ desk.recorded \in Nat
    BY DEF Kept, DeskFit
<1>2. IsList(desk.book.closed) /\ last \in Nat
    BY <1>1 DEF DeskFit, BookFit, IsList
<1>3. n \in Nat /\ DOMAIN new = 1..n
    <2> DEFINE s == desk.book.closed
               T == Members(s)
    <2>1. s \in Seq(T) /\ first \in Int /\ last \in Int /\ \A i \in first..last : s[i] \in T
        BY <1>1, <1>2 DEF IsList
    <2> HIDE DEF s, T, first, last
    <2>2. SubSeq(s, first, last) \in Seq(T) /\ Len(SubSeq(s, first, last)) = n
        BY <2>1, SubSeqProperties
    <2> HIDE DEF n
    <2>3. new \in Seq(T) /\ Len(new) = n
        BY <2>2 DEF s
    <2> HIDE DEF new
    <2> QED
        BY <2>3
<1>4. RecordNewTradesInCB(desk) = c
    BY DEF RecordNewTradesInCB, TradesRecorded
<1> HIDE DEF first, new, n
<1>5. BreakerFit(cb)
    <2> HIDE DEF cb
    <2>1. cb = TradesRecorded(desk.breaker, new)
        BY DEF cb
    <2> QED
        BY <1>1, <1>3, <2>1, TradesRecordedFit
<1> HIDE DEF cb, last
<1>6. /\ DeskFields \subseteq DOMAIN c /\ c.book = desk.book /\ c.flights = desk.flights
      /\ c.recorded = last /\ c.breaker = cb /\ c.pauseUntil = desk.pauseUntil
    BY <1>1 DEF DeskFit, DeskFields
<1> HIDE DEF c
<1>7. d = c \/ d = [c EXCEPT !.macro = trend]
    BY <1>4 DEF MacroUpdates
<1>8. /\ DeskFields \subseteq DOMAIN d /\ d.book = desk.book /\ d.flights = desk.flights
      /\ d.recorded = last /\ d.breaker = cb /\ d.pauseUntil = desk.pauseUntil
    BY <1>6, <1>7 DEF DeskFields
<1> QED
    BY <1>1, <1>2, <1>5, <1>8 DEF Kept, DeskFit, FlightsFit

LEMMA NewScalpKept ==
    ASSUME NEW n \in Nat, NEW m, MemoryFit(m)
    PROVE  Kept(NewScalp, m, n) /\ Held(NewScalp) = {}
<1> DEFINE d == NewScalp
           b == NewBook(now)
<1>1. {"open", "closed"} \subseteq DOMAIN b /\ b.open = <<>> /\ b.closed = <<>>
    BY DEF NewBook
<1>2. BreakerFit(NewBreaker(now))
    BY NewBreakerFit
<1>3. /\ DeskFields \subseteq DOMAIN d /\ d.book = b /\ d.flights = <<>>
      /\ d.recorded = 0 /\ d.breaker = NewBreaker(now)
    BY DEF NewScalp, DeskFields
<1> HIDE DEF d, b
<1>4. WithinLimits(<<>>)
    BY CountNone, ScalpAssumption DEF WithinLimits
<1>5. BookFit(b, n)
    BY <1>1, <1>4, NoList DEF BookFit
<1>6. DeskFit(d, n)
    BY <1>3, <1>5, NoList DEF DeskFit, FlightsFit
<1> QED
    BY <1>1, <1>2, <1>3, <1>6, NoList DEF Kept, Held, d

-----------------------------------------------------------------------------
(* The invariant of a bot that was started with the scalping engine *)

ScalpInv == engine = "scalp" => now \in Nat /\ Kept(desk, memory, opened)

LEMMA Kline1mFits ==
    ASSUME now \in Nat, Kept(desk, memory, opened), HandleKline1m
    PROVE  StepFits
<1>1. PICK s \in Setups, r \in Reports, trend \in Macros :
         LET d1 == MacroUpdates(RecordNewTradesInCB(desk), trend)
         IN Becomes(StartV4(Evaluate([Work(price) EXCEPT !.desk = d1], s, r.f, r.d), s))
    BY DEF HandleKline1m
<1> DEFINE d == MacroUpdates(RecordNewTradesInCB(desk), trend)
           w == [Work(price) EXCEPT !.desk = d]
           f == r.f
           e == r.d
           v == Evaluate(w, s, f, e)
           z == StartV4(v, s)
<1>2. Becomes(z)
    BY <1>1
<1>3. Kept(d, memory, opened) /\ d.pauseUntil = desk.pauseUntil
    BY KlineStart
<1> HIDE DEF d, f, e
<1>4. Ready(w) /\ w.desk = d /\ w.memory = memory /\ w.opened = opened
    BY <1>3, WorkReady
<1> HIDE DEF w
<1>5. Passes(w, v)
    BY <1>4, EvaluatePasses
<1> HIDE DEF v
<1>6. Passes(w, z)
    BY <1>5, StartV4Passes
<1> HIDE DEF z
<1> QED
    BY <1>2, <1>3, <1>4, <1>6, BecomesFits

LEMMA EvaluateV4Fits ==
    ASSUME now \in Nat, Kept(desk, memory, opened), EvaluateV4
    PROVE  StepFits
<1> DEFINE d == [desk EXCEPT !.pending = Tail(@)]
           w == [Work(price) EXCEPT !.desk.pending = Tail(@)]
           s == Head(desk.pending)
           r == ResumeV4(w, s)
<1>1. Becomes(r)
    BY DEF EvaluateV4
<1>2. w = [Work(price) EXCEPT !.desk = d]
    BY DEF Work
<1> HIDE DEF s
<1>3. /\ DeskFields \subseteq DOMAIN d /\ d.book = desk.book /\ d.flights = desk.flights
      /\ d.recorded = desk.recorded /\ d.breaker = desk.breaker /\ d.pauseUntil = desk.pauseUntil
    BY DEF Kept, DeskFit, DeskFields
<1> HIDE DEF d, w
<1>4. Kept(d, memory, opened)
    BY <1>3 DEF Kept, DeskFit, FlightsFit
<1>5. Ready(w) /\ w.desk = d /\ w.memory = memory /\ w.opened = opened
    <2>1. /\ {"desk", "memory", "opened", "price"} \subseteq DOMAIN w
          /\ w.desk = d /\ w.memory = memory /\ w.opened = opened
        BY <1>2 DEF Work
    <2> QED
        BY <1>4, <2>1, WorkFits
<1>6. Passes(w, r)
    BY <1>5, ResumeV4Passes
<1> HIDE DEF r
<1> QED
    BY <1>1, <1>3, <1>4, <1>5, <1>6, BecomesFits

LEMMA TickerFits ==
    ASSUME now \in Nat, Kept(desk, memory, opened), HandleTicker
    PROVE  StepFits
<1>1. PICK px \in Prices : Becomes(ClosedInTurn([Work(px) EXCEPT !.desk.book = UpdatePositions(@, px)],
                                                ToClose(desk.book, px, now)))
    BY DEF HandleTicker
<1> DEFINE b == UpdatePositions(desk.book, px)
           d == [desk EXCEPT !.book = b]
           w == [Work(px) EXCEPT !.desk.book = UpdatePositions(@, px)]
           items == ToClose(desk.book, px, now)
           r == ClosedInTurn(w, items)
<1>2. Becomes(r)
    BY <1>1
<1>3. w = [Work(px) EXCEPT !.desk = d]
    BY DEF Work
<1>4. BookFit(desk.book, opened)
    BY DEF Kept, DeskFit
<1>5. BookFit(b, opened)
    BY <1>4, UpdatedBook
<1>6. IsList(items)
    BY <1>4, ToCloseList DEF BookFit
<1> HIDE DEF b, items
<1>7. /\ DeskFields \subseteq DOMAIN d /\ d.book = b /\ d.flights = desk.flights
      /\ d.recorded = desk.recorded /\ d.breaker = desk.breaker /\ d.pauseUntil = desk.pauseUntil
    BY DEF Kept, DeskFit, DeskFields
<1> HIDE DEF d, w
<1>8. Kept(d, memory, opened)
    BY <1>5, <1>7 DEF Kept, DeskFit, FlightsFit
<1>9. Ready(w) /\ w.desk = d /\ w.memory = memory /\ w.opened = opened
    <2>1. /\ {"desk", "memory", "opened", "price"} \subseteq DOMAIN w
          /\ w.desk = d /\ w.memory = memory /\ w.opened = opened
        BY <1>3 DEF Work
    <2> QED
        BY <1>8, <2>1, WorkFits
<1>10. Enters(w, r, {}) /\ SameBreaker(w, r)
    BY <1>6, <1>9, ClosedInTurnEnters DEF Ready
<1> HIDE DEF r
<1> QED
    BY <1>2, <1>7, <1>8, <1>9, <1>10, ClosesFits

LEMMA CloseAnsweredFits ==
    ASSUME now \in Nat, Kept(desk, memory, opened), CloseAnswered
    PROVE  StepFits
<1>1. PICK i \in DOMAIN desk.flights :
         Becomes(ClosedInTurn(Booked([Work(price) EXCEPT !.desk.flights = RemoveAt(@, i)],
                                     desk.flights[i].pos, desk.flights[i].price,
                                     desk.flights[i].reason),
                              desk.flights[i].rest))
    BY DEF CloseAnswered, CloseReported
<1> DEFINE left == RemoveAt(desk.flights, i)
           d == [desk EXCEPT !.flights = left]
           w == [Work(price) EXCEPT !.desk.flights = RemoveAt(@, i)]
           f == desk.flights[i]
           p == f.pos
           px == f.price
           reason == f.reason
           items == f.rest
           v == Booked(w, p, px, reason)
           r == ClosedInTurn(v, items)
<1>2. Becomes(r)
    BY <1>1
<1>3. w = [Work(price) EXCEPT !.desk = d]
    BY DEF Work
<1>4. DeskFit(desk, opened) /\ FlightsFit(desk) /\ IsList(desk.flights)
    BY DEF Kept, DeskFit, FlightsFit
<1>5. IsList(left) /\ Members(left) \subseteq Members(desk.flights)
    BY <1>4, ListWithout
<1>6. IsList(items)
    <2>1. f \in Members(desk.flights)
        BY <1>4, ListEntries
    <2> QED
        BY <1>4, <2>1 DEF FlightsFit
<1> HIDE DEF left, f, p, px, reason, items
<1>7. /\ DeskFields \subseteq DOMAIN d /\ d.book = desk.book /\ d.flights = left
      /\ d.recorded = desk.recorded /\ d.breaker = desk.breaker /\ d.pauseUntil = desk.pauseUntil
    BY <1>4 DEF DeskFit, DeskFields
<1> HIDE DEF d, w
<1>8. Kept(d, memory, opened)
    BY <1>4, <1>5, <1>7 DEF Kept, DeskFit, FlightsFit
<1>9. Ready(w) /\ w.desk = d /\ w.memory = memory /\ w.opened = opened
    <2>1. /\ {"desk", "memory", "opened", "price"} \subseteq DOMAIN w
          /\ w.desk = d /\ w.memory = memory /\ w.opened = opened
        BY <1>3 DEF Work
    <2> QED
        BY <1>8, <2>1, WorkFits
<1>10. Enters(w, v, {}) /\ SameBreaker(w, v)
    BY <1>9, BookedEnters DEF Ready
<1> HIDE DEF v
<1>11. Fit(v)
    BY <1>10 DEF Enters
<1>12. Enters(v, r, {}) /\ SameBreaker(v, r)
    BY <1>6, <1>11, ClosedInTurnEnters
<1> HIDE DEF r
<1>13. Fit(w)
    BY <1>9 DEF Ready
<1>14. Enters(w, r, {} \union {})
    BY <1>10, <1>12, <1>13, EntersBoth
<1>15. Enters(w, r, {}) /\ SameBreaker(w, r)
    BY <1>10, <1>12, <1>14 DEF SameBreaker
<1> QED
    BY <1>2, <1>7, <1>8, <1>9, <1>15, ClosesFits

\* What leaves the book alone, or starts over with an empty one.
LEMMA NothingOpenedFits ==
    ASSUME Kept(desk, memory, opened), Kept(desk', memory', opened'),
           NoneRevived(memory, memory'), Held(desk') \subseteq Held(desk)
    PROVE  StepFits
<1>1. ASSUME NEW p \in Held(desk'), p.id > opened PROVE FALSE
    <2>1. p.id \in 1..opened /\ opened \in Nat
        BY DEF Kept, DeskFit, BookFit, Held
    <2> QED
        BY <1>1, <2>1
<1> QED
    BY <1>1 DEF StepFits

LEMMA RestFits ==
    ASSUME now \in Nat, Kept(desk, memory, opened),
           HandleKline5m \/ EntryAnswered \/ Restart \/ Tick \/ UNCHANGED botVars
    PROVE  StepFits
<1>1. CASE HandleKline5m
    <2> DEFINE x == IF desk.n5 = MaxCandles THEN desk.n5 ELSE desk.n5 + 1
    <2>1. desk' = [desk EXCEPT !.close5 = price, !.n5 = x] /\ memory' = memory /\ opened' = opened
        BY <1>1 DEF HandleKline5m
    <2> HIDE DEF x
    <2>2. /\ DeskFields \subseteq DOMAIN desk' /\ desk'.book = desk.book
          /\ desk'.flights = desk.flights
          /\ desk'.recorded = desk.recorded /\ desk'.breaker = desk.breaker
        BY <2>1 DEF Kept, DeskFit, DeskFields
    <2>3. Kept(desk', memory', opened') /\ NoneRevived(memory, memory')
        BY <2>1, <2>2 DEF Kept, DeskFit, FlightsFit, NoneRevived
    <2>4. Held(desk') = Held(desk)
        BY <2>2 DEF Held
    <2> QED
        BY <2>3, <2>4, NothingOpenedFits
<1>2. CASE EntryAnswered
    <2>1. PICK order \in desk.entering : desk' = [desk EXCEPT !.entering = @ \ {order}]
        BY <1>2 DEF EntryAnswered, EntryReported
    <2>2. memory' = memory /\ opened' = opened
        BY <1>2 DEF EntryAnswered, EntryReported
    <2>3. /\ DeskFields \subseteq DOMAIN desk' /\ desk'.book = desk.book
          /\ desk'.flights = desk.flights
          /\ desk'.recorded = desk.recorded /\ desk'.breaker = desk.breaker
        BY <2>1 DEF Kept, DeskFit, DeskFields
    <2>4. Kept(desk', memory', opened') /\ NoneRevived(memory, memory')
        BY <2>2, <2>3 DEF Kept, DeskFit, FlightsFit, NoneRevived
    <2>5. Held(desk') = Held(desk)
        BY <2>3 DEF Held
    <2> QED
        BY <2>4, <2>5, NothingOpenedFits
<1>3. CASE Restart
    <2> DEFINE m == InitDefaults(memory)
    <2>1. desk' = NewScalp /\ memory' = m /\ opened' = opened /\ opened \in Nat
        BY <1>3 DEF Restart, Kept
    <2>2. MemoryFit(m) /\ NoneRevived(memory, m)
        BY InitDefaultsKeeps DEF Kept
    <2> HIDE DEF m
    <2>3. Kept(NewScalp, m, opened) /\ Held(NewScalp) = {}
        BY <2>1, <2>2, NewScalpKept
    <2>4. Kept(desk', memory', opened') /\ Held(desk') = {}
        BY <2>1, <2>3
    <2> QED
        BY <2>1, <2>2, <2>4, NothingOpenedFits
<1>4. ASSUME UNCHANGED <<desk, memory, opened>> PROVE StepFits
    <2>1. Kept(desk', memory', opened') /\ NoneRevived(memory, memory') /\ Held(desk') = Held(desk)
        BY <1>4 DEF NoneRevived
    <2> QED
        BY <2>1, NothingOpenedFits
<1>5. CASE Tick
    BY <1>4, <1>5 DEF Tick
<1>6. CASE UNCHANGED botVars
    BY <1>4, <1>6 DEF botVars
<1> QED
    BY <1>1, <1>2, <1>3, <1>5, <1>6

LEMMA ScalpStepFits ==
    ASSUME ScalpInv, engine = "scalp", [Next]_botVars
    PROVE  StepFits /\ now' \in Nat /\ engine' = engine
<1>1. now \in Nat /\ Kept(desk, memory, opened)
    BY DEF ScalpInv
<1>2. ~SwingNext
    BY DEF SwingNext, OnCandle1m, OnCandle5m, OnPrice, SwingEntryAnswered, SwingEntryReported, SwingCloseAnswered, SwingCloseReported,
           SwingRestart
<1>3. HandleKline1m \/ HandleKline5m \/ HandleTicker \/ EvaluateV4 \/ EntryAnswered \/ CloseAnswered
      \/ Restart \/ Tick \/ UNCHANGED botVars
    BY <1>2 DEF Next, ScalpNext
<1>4. StepFits
    BY <1>1, <1>3, Kline1mFits, EvaluateV4Fits, TickerFits, CloseAnsweredFits, RestFits
<1>5. (now' = now \/ now' = now + 1) /\ engine' = engine
    BY <1>3 DEF HandleKline1m, HandleKline5m, HandleTicker, EvaluateV4, EntryAnswered, EntryReported, CloseAnswered, CloseReported,
                Restart, Tick, botVars
<1> QED
    BY <1>1, <1>4, <1>5

LEMMA ScalpInvInit == Init => ScalpInv
<1>1. ASSUME ScalpInit PROVE ScalpInv
    <2> DEFINE m == InitDefaults(EmptyMemory)
    <2>1. desk = NewScalp /\ opened = 0 /\ now = 0 /\ memory = m
        BY <1>1 DEF ScalpInit, InitBot
    <2>2. MemoryFit(m)
        BY EmptyMemoryFit
    <2> HIDE DEF m
    <2>3. Kept(NewScalp, m, 0)
        BY <2>2, NewScalpKept
    <2>4. Kept(desk, memory, opened) /\ now \in Nat
        BY <2>1, <2>3
    <2> QED
        BY <2>4 DEF ScalpInv
<1>2. ASSUME SwingInit PROVE ScalpInv
    BY <1>2 DEF SwingInit, ScalpInv
<1> QED
    BY <1>1, <1>2 DEF Init

LEMMA ScalpInvStep == ScalpInv /\ [Next]_botVars => ScalpInv'
<1> SUFFICES ASSUME ScalpInv, [Next]_botVars PROVE ScalpInv'
    OBVIOUS
<1>1. engine' = engine
    BY DEF Next, SwingNext, OnCandle1m, OnCandle5m, OnPrice, SwingEntryAnswered, SwingEntryReported, SwingCloseAnswered, SwingCloseReported,
           SwingRestart, ScalpNext, HandleKline1m, HandleKline5m, HandleTicker, EvaluateV4,
           EntryAnswered, EntryReported, CloseAnswered, CloseReported, Restart, Tick, botVars
<1>2. CASE engine = "scalp"
    BY <1>2, ScalpStepFits DEF StepFits, ScalpInv
<1>3. CASE engine # "scalp"
    BY <1>1, <1>3 DEF ScalpInv
<1> QED
    BY <1>2, <1>3

\* No strategy ever holds more positions than its own limit, although entries
\* are decided at several places of a turn and one of them after a wait, on
\* what was seen before it: each asks the book as it is when it enters.
THEOREM StrategiesKeepToTheirLimits == Spec => []EngineLimits
<1>1. ScalpInv => EngineLimits
    <2> SUFFICES ASSUME ScalpInv, engine = "scalp", NEW e \in Engines
                 PROVE  Len(HeldBy(desk.book, e)) <= Limit[e]
        BY DEF EngineLimits
    <2>1. WithinLimits(desk.book.open)
        BY DEF ScalpInv, Kept, DeskFit, BookFit
    <2> QED
        BY <2>1 DEF WithinLimits, Count, Of, HeldBy
<1> QED
    BY <1>1, ScalpInvInit, ScalpInvStep, PTL DEF Spec

\* The swing engine never looks at the database, and never turns a strategy off.
AllOn == engine = "swing" => \A e \in Engines : memory.enabled[e]

LEMMA AllOnInit == Init => AllOn
BY EmptyMemoryFit DEF Init, ScalpInit, SwingInit, InitBot, AllOn

LEMMA AllOnStep == AllOn /\ [Next]_botVars => AllOn' /\ (engine = "swing" => memory' = memory)
<1> SUFFICES ASSUME AllOn, [Next]_botVars PROVE AllOn' /\ (engine = "swing" => memory' = memory)
    OBVIOUS
<1>1. CASE ScalpNext
    <2>1. engine = "scalp" /\ engine' = engine
        BY <1>1 DEF ScalpNext, HandleKline1m, HandleKline5m, HandleTicker, EvaluateV4,
                    EntryAnswered, EntryReported, CloseAnswered, CloseReported, Restart
    <2> QED
        BY <2>1 DEF AllOn
<1>2. CASE SwingNext \/ Tick \/ UNCHANGED botVars
    <2>1. engine' = engine /\ memory' = memory
        BY <1>2 DEF SwingNext, OnCandle1m, OnCandle5m, OnPrice, SwingEntryAnswered, SwingEntryReported,
                    SwingCloseAnswered, SwingCloseReported, SwingRestart, Tick, botVars
    <2> QED
        BY <2>1 DEF AllOn
<1> QED
    BY <1>1, <1>2 DEF Next

EngineKnown == engine \in {"scalp", "swing"}

LEMMA EngineKnownInit == Init => EngineKnown
BY DEF Init, ScalpInit, SwingInit, EngineKnown

LEMMA EngineKnownStep == EngineKnown /\ [Next]_botVars => EngineKnown'
<1>1. [Next]_botVars => engine' = engine
    BY DEF Next, SwingNext, OnCandle1m, OnCandle5m, OnPrice, SwingEntryAnswered, SwingEntryReported, SwingCloseAnswered, SwingCloseReported,
           SwingRestart, ScalpNext, HandleKline1m, HandleKline5m, HandleTicker, EvaluateV4,
           EntryAnswered, EntryReported, CloseAnswered, CloseReported, Restart, Tick, botVars
<1> QED
    BY <1>1 DEF EngineKnown

BotInv == ScalpInv /\ AllOn /\ EngineKnown

\* A strategy that the database turned off stays off, over restarts as well,
\* and no path of either engine opens a position for it.
THEOREM DisabledStayOff == Spec => DisabledForGood
<1> DEFINE A == \A e \in Engines : ~memory.enabled[e] => ~memory'.enabled[e] /\ e \notin NewlyOpened
<1>1. BotInv /\ [Next]_botVars => A
    <2> SUFFICES ASSUME BotInv, [Next]_botVars, NEW e \in Engines, ~memory.enabled[e]
                 PROVE  ~memory'.enabled[e] /\ e \notin NewlyOpened
        OBVIOUS
    <2>1. CASE engine = "swing"
        BY <2>1 DEF BotInv, AllOn
    <2>2. CASE engine = "scalp"
        <3>1. StepFits
            BY <2>2, ScalpStepFits DEF BotInv
        <3>2. ~memory'.enabled[e]
            BY <3>1 DEF StepFits, NoneRevived
        <3>3. ASSUME NEW i \in DOMAIN desk'.book.open, desk'.book.open[i].id > opened,
                     desk'.book.open[i].engine = e
              PROVE  FALSE
            <4>1. IsList(desk'.book.open)
                BY <3>1 DEF StepFits, Kept, DeskFit, BookFit
            <4>2. desk'.book.open[i] \in Held(desk')
                BY <4>1, ListEntries DEF Held
            <4> QED
                BY <3>1, <3>2, <3>3, <4>2 DEF StepFits
        <3> QED
            BY <3>2, <3>3 DEF NewlyOpened
    <2> QED
        BY <2>1, <2>2 DEF BotInv, EngineKnown
<1>2. BotInv /\ [Next]_botVars => [A]_botVars
    BY <1>1
<1>3. Init => BotInv
    BY ScalpInvInit, AllOnInit, EngineKnownInit DEF BotInv
<1>4. BotInv /\ [Next]_botVars => BotInv'
    BY ScalpInvStep, AllOnStep, EngineKnownStep DEF BotInv
<1> QED
    BY <1>2, <1>3, <1>4, PTL DEF Spec, DisabledForGood

\* At the moment a swing or a trend ride is entered the breaker lets its
\* strategy trade, also for the ride decided before a wait; and while the
\* regime pauses the engine only the structural strategies and the ride enter.
THEOREM PausesAreKept == Spec => PausesHold
<1> DEFINE A == engine = "scalp" =>
                  /\ \A e \in NewlyOpened \cap {"SWING", "TREND_RIDER"} : CanTrade(desk'.breaker, e, now)
                  /\ now < desk.pauseUntil =>
                       NewlyOpened \subseteq {"SNIPER", "BREAKOUT_RETEST", "TREND_RIDER"}
<1>1. BotInv /\ [Next]_botVars => A
    <2> SUFFICES ASSUME BotInv, [Next]_botVars, engine = "scalp", NEW e \in NewlyOpened
                 PROVE  /\ e \in {"SWING", "TREND_RIDER"} => CanTrade(desk'.breaker, e, now)
                        /\ now < desk.pauseUntil => e \in {"SNIPER", "BREAKOUT_RETEST", "TREND_RIDER"}
        OBVIOUS
    <2>1. StepFits
        BY ScalpStepFits DEF BotInv
    <2>2. PICK i \in DOMAIN desk'.book.open :
             desk'.book.open[i].id > opened /\ desk'.book.open[i].engine = e
        BY DEF NewlyOpened
    <2>3. e \in Engines
        BY DEF NewlyOpened
    <2>4. IsList(desk'.book.open)
        BY <2>1 DEF StepFits, Kept, DeskFit, BookFit
    <2>5. desk'.book.open[i] \in Held(desk')
        BY <2>4, ListEntries DEF Held
    <2> QED
        BY <2>1, <2>2, <2>3, <2>5 DEF StepFits
<1>2. BotInv /\ [Next]_botVars => [A]_botVars
    BY <1>1
<1>3. Init => BotInv
    BY ScalpInvInit, AllOnInit, EngineKnownInit DEF BotInv
<1>4. BotInv /\ [Next]_botVars => BotInv'
    BY ScalpInvStep, AllOnStep, EngineKnownStep DEF BotInv
<1> QED
    BY <1>2, <1>3, <1>4, PTL DEF Spec, PausesHold

===============================================================================
