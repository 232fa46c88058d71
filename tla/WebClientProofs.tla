----------------------------- MODULE WebClientProofs -----------------------------
(***************************************************************************)
(* What holds of the trading page for every set of markets, prices and     *)
(* tickets and however long it is used: messages leave in the order they   *)
(* were given; paper money is accounted for; a reload gives back every     *)
(* account with a position; and the legs of a pair leave the book together. *)
(***************************************************************************)
EXTENDS WebClient, SumTheorems

-----------------------------------------------------------------------------
(* The feed: sockets are replaced, and what was queued goes first *)

SocketStates == {"connecting", "open", "closing", "closed"}

Sockets == [state : SocketStates, market : Markets]

Feeds == [sockets : Seq(Sockets), ref : Nat,
          status : {"connecting", "connected", "disconnected", "error"}, retries : Int,
          pending : Seq(Nat), timers : Seq(Markets), count : Int, given : Nat, sent : Seq(Nat),
          nonce : Nat, signing : Seq(Nat)]

\* A queue of messages in the order they were given, none beyond the last given.
InOrder(q, last) ==
  /\ \A i \in 1..Len(q) : q[i] <= last
  /\ \A i, j \in 1..Len(q) : i < j => q[i] < q[j]

\* Nothing waits while the current socket is open, and what waits was given
\* after everything that is sent.
FeedInOrder(c) ==
  /\ c \in Feeds
  /\ c.ref <= Len(c.sockets)
  /\ c.ref # 0 /\ c.sockets[c.ref].state = "open" => c.pending = <<>>
  /\ InOrder(c.sent, c.given)
  /\ InOrder(c.pending, c.given)
  /\ \A i \in 1..Len(c.sent), j \in 1..Len(c.pending) : c.sent[i] < c.pending[j]

\* One message more keeps the order if it is a later one.
LEMMA LaterGiven ==
    ASSUME NEW q \in Seq(Nat), NEW last \in Nat, InOrder(q, last)
    PROVE  Append(q, last + 1) \in Seq(Nat) /\ InOrder(Append(q, last + 1), last + 1)
           /\ InOrder(q, last + 1)
<1> DEFINE n == Len(q)
           r == Append(q, last + 1)
<1>1. n \in Nat /\ r \in Seq(Nat) /\ Len(r) = n + 1 /\ r[n + 1] = last + 1
      /\ \A i \in 1..n : r[i] = q[i] /\ q[i] \in Nat
    OBVIOUS
<1>2. \A i \in 1..n : q[i] <= last
    BY DEF InOrder
<1>3. \A i, j \in 1..n : i < j => q[i] < q[j]
    BY DEF InOrder
<1> HIDE DEF n, r
<1>4. ASSUME NEW i \in 1..n + 1 PROVE r[i] <= last + 1
    <2>1. i \in 1..n \/ i = n + 1
        BY <1>1
    <2> QED
        BY <1>1, <1>2, <2>1
<1>5. ASSUME NEW i \in 1..n + 1, NEW j \in 1..n + 1, i < j PROVE r[i] < r[j]
    <2>1. i \in 1..n /\ (j \in 1..n \/ j = n + 1)
        BY <1>1, <1>5
    <2> QED
        BY <1>1, <1>2, <1>3, <1>5, <2>1
<1>6. InOrder(r, last + 1)
    BY <1>1, <1>4, <1>5 DEF InOrder
<1>7. InOrder(q, last + 1)
    BY <1>1, <1>2, <1>3 DEF InOrder, n
<1> QED
    BY <1>1, <1>6, <1>7 DEF r

\* What waited follows what was sent.
LEMMA JoinedInOrder ==
    ASSUME NEW s \in Seq(Nat), NEW p \in Seq(Nat), NEW last \in Nat,
           InOrder(s, last), InOrder(p, last),
           \A i \in 1..Len(s), j \in 1..Len(p) : s[i] < p[j]
    PROVE  s \o p \in Seq(Nat) /\ InOrder(s \o p, last)
<1> DEFINE r == s \o p
           n == Len(s)
           m == Len(p)
<1>1. r \in Seq(Nat) /\ n \in Nat /\ m \in Nat /\ Len(r) = n + m
      /\ (\A i \in 1..n : r[i] = s[i] /\ s[i] \in Nat)
      /\ (\A j \in 1..m : p[j] \in Nat)
    OBVIOUS
<1>2. ASSUME NEW i \in 1..n + m, i > n PROVE i - n \in 1..m /\ r[i] = p[i - n]
    <2>1. r[i] = p[i - n]
        BY <1>1, <1>2
    <2> HIDE DEF r, n, m
    <2> QED
        BY <1>1, <1>2, <2>1
<1>3. /\ \A i \in 1..n : s[i] <= last
      /\ \A i, j \in 1..n : i < j => s[i] < s[j]
      /\ \A i \in 1..m : p[i] <= last
      /\ \A i, j \in 1..m : i < j => p[i] < p[j]
      /\ \A i \in 1..n, j \in 1..m : s[i] < p[j]
    BY DEF InOrder
<1> HIDE DEF r, n, m
<1>4. ASSUME NEW i \in 1..n + m PROVE r[i] <= last
    <2>1. CASE i <= n
        <3>1. i \in 1..n
            BY <1>1, <2>1
        <3> QED
            BY <1>1, <1>3, <3>1
    <2>2. CASE i > n
        <3>1. i - n \in 1..m /\ r[i] = p[i - n]
            BY <1>2, <2>2
        <3> QED
            BY <1>3, <3>1
    <2> QED
        BY <1>1, <2>1, <2>2
<1>5. ASSUME NEW i \in 1..n + m, NEW j \in 1..n + m, i < j PROVE r[i] < r[j]
    <2>1. CASE j <= n
        <3>1. i \in 1..n /\ j \in 1..n
            BY <1>1, <1>5, <2>1
        <3> QED
            BY <1>1, <1>3, <1>5, <3>1
    <2>2. CASE i <= n /\ j > n
        <3>1. i \in 1..n
            BY <1>1, <2>2
        <3> QED
            BY <1>1, <1>2, <1>3, <2>2, <3>1
    <2>3. CASE i > n /\ j > n
        <3>1. i - n \in 1..m /\ j - n \in 1..m /\ r[i] = p[i - n] /\ r[j] = p[j - n]
            BY <1>2, <2>3
        <3>2. i - n < j - n
            BY <1>1, <1>5
        <3> QED
            BY <1>3, <3>1, <3>2
    <2> QED
        BY <1>1, <2>1, <2>2, <2>3
<1> QED
    BY <1>1, <1>4, <1>5 DEF InOrder, r

LEMMA ConnectKeepsOrder ==
    ASSUME NEW c, FeedInOrder(c), NEW m \in Markets
    PROVE  FeedInOrder(Connect(c, m))
<1>1. c \in Feeds
    BY DEF FeedInOrder
<1>2. CASE c.ref # 0 /\ c.sockets[c.ref].state = "open"
    BY <1>2 DEF Connect
<1>3. CASE ~(c.ref # 0 /\ c.sockets[c.ref].state = "open")
    <2> DEFINE new == [state |-> "connecting", market |-> m]
               s == Append(c.sockets, new)
               d == Connect(c, m)
    <2>1. d = [c EXCEPT !.sockets = s, !.ref = Len(c.sockets) + 1, !.status = "connecting"]
        BY <1>3 DEF Connect
    <2>2. s \in Seq(Sockets) /\ Len(s) = Len(c.sockets) + 1
          /\ s[Len(c.sockets) + 1] = new /\ Len(c.sockets) + 1 \in Nat
        BY <1>1 DEF Feeds, Sockets, SocketStates
    <2> HIDE DEF s
    <2>3. /\ d \in Feeds /\ d.sockets = s /\ d.ref = Len(c.sockets) + 1
          /\ d.pending = c.pending /\ d.sent = c.sent /\ d.given = c.given
        BY <1>1, <2>1, <2>2 DEF Feeds
    <2>4. d.sockets[d.ref].state = "connecting" /\ d.ref <= Len(d.sockets)
        BY <2>2, <2>3
    <2> HIDE DEF d
    <2>5. FeedInOrder(d)
        BY <2>3, <2>4 DEF FeedInOrder
    <2> QED
        BY <2>5 DEF d
<1> QED
    BY <1>2, <1>3

LEMMA SendKeepsOrder ==
    ASSUME NEW c, FeedInOrder(c)
    PROVE  FeedInOrder(Send(c)) /\ Send(c).ref = c.ref /\ Send(c).sockets = c.sockets
           /\ Send(c).signing = c.signing
<1>1. c \in Feeds
    BY DEF FeedInOrder
<1>2. CASE c.count >= MaxPerWindow
    BY <1>2 DEF Send
<1>3. CASE ~(c.count >= MaxPerWindow)
    <2> DEFINE d == Send(c)
               msg == c.given + 1
    <2>1. c.given \in Nat /\ msg \in Nat /\ c.sent \in Seq(Nat) /\ c.pending \in Seq(Nat)
          /\ InOrder(c.sent, c.given) /\ InOrder(c.pending, c.given)
        BY <1>1 DEF Feeds, FeedInOrder
    <2>2. /\ Append(c.sent, msg) \in Seq(Nat) /\ InOrder(Append(c.sent, msg), msg)
          /\ InOrder(c.sent, msg)
        BY <2>1, LaterGiven
    <2>3. /\ Append(c.pending, msg) \in Seq(Nat) /\ InOrder(Append(c.pending, msg), msg)
          /\ InOrder(c.pending, msg)
        BY <2>1, LaterGiven
    <2>4. CASE c.ref # 0 /\ c.sockets[c.ref].state = "open"
        <3>1. d = [c EXCEPT !.count = c.count + 1, !.given = msg, !.sent = Append(c.sent, msg)]
            BY <1>1, <1>3, <2>4 DEF Send, Feeds
        <3> HIDE DEF d, msg
        <3>2. /\ d \in Feeds /\ d.sent = Append(c.sent, msg) /\ d.pending = c.pending
              /\ d.given = msg /\ d.ref = c.ref /\ d.sockets = c.sockets /\ d.signing = c.signing
            <4>1. c.count + 1 \in Int /\ msg \in Nat /\ Append(c.sent, msg) \in Seq(Nat)
                BY <1>1, <2>1, <2>2 DEF Feeds
            <4> QED
                BY <1>1, <3>1, <4>1 DEF Feeds
        <3>3. c.pending = <<>>
            BY <2>4 DEF FeedInOrder
        <3>4. 1..Len(c.pending) = {}
            BY <3>3
        <3>5. c.ref <= Len(c.sockets)
            BY DEF FeedInOrder
        <3> HIDE DEF d, msg
        <3>6. FeedInOrder(d)
            BY <2>2, <2>3, <3>2, <3>3, <3>4, <3>5 DEF FeedInOrder
        <3> QED
            BY <3>2, <3>6 DEF d
    <2>5. CASE ~(c.ref # 0 /\ c.sockets[c.ref].state = "open")
        <3>1. d = [c EXCEPT !.count = c.count + 1, !.given = msg, !.pending = Append(c.pending, msg)]
            BY <1>1, <1>3, <2>5 DEF Send, Feeds
        <3> HIDE DEF d, msg
        <3>2. /\ d \in Feeds /\ d.pending = Append(c.pending, msg) /\ d.sent = c.sent
              /\ d.given = msg /\ d.ref = c.ref /\ d.sockets = c.sockets /\ d.signing = c.signing
            <4>1. c.count + 1 \in Int /\ msg \in Nat /\ Append(c.pending, msg) \in Seq(Nat)
                BY <1>1, <2>1, <2>3 DEF Feeds
            <4> QED
                BY <1>1, <3>1, <4>1 DEF Feeds
        <3>3. ASSUME NEW i \in 1..Len(c.sent), NEW j \in 1..Len(d.pending)
              PROVE  d.sent[i] < d.pending[j]
            <4>1. c.sent[i] <= c.given /\ c.sent[i] \in Nat
                BY <2>1 DEF InOrder
            <4>2. j \in 1..Len(c.pending) \/ j = Len(c.pending) + 1
                <5>1. Len(c.pending) \in Nat /\ Len(d.pending) = Len(c.pending) + 1
                    BY <2>1, <3>2
                <5> QED
                    BY <5>1
            <4>3. CASE j \in 1..Len(c.pending)
                <5>1. d.pending[j] = c.pending[j]
                    BY <2>1, <3>2, <4>3
                <5>2. c.sent[i] < c.pending[j]
                    BY <4>3 DEF FeedInOrder
                <5> QED
                    BY <3>2, <5>1, <5>2
            <4>4. CASE j = Len(c.pending) + 1
                <5>1. d.pending[j] = msg
                    BY <2>1, <3>2, <4>4
                <5>2. c.sent[i] < msg
                    <6>1. c.given \in Nat
                        BY <2>1
                    <6> QED
                        BY <4>1, <6>1 DEF msg
                <5>3. d.sent[i] = c.sent[i]
                    BY <3>2
                <5> QED
                    BY <5>1, <5>2, <5>3
            <4> QED
                BY <4>2, <4>3, <4>4
        <3>4. c.ref <= Len(c.sockets)
            BY DEF FeedInOrder
        <3> HIDE DEF d, msg
        <3>5. FeedInOrder(d)
            BY <2>2, <2>3, <2>5, <3>2, <3>3, <3>4 DEF FeedInOrder
        <3> QED
            BY <3>2, <3>5 DEF d
    <2> QED
        BY <2>4, <2>5
<1> QED
    BY <1>2, <1>3

LEMMA SocketChanges ==
    ASSUME NEW s \in Seq(Sockets), NEW i \in 1..Len(s), NEW x \in SocketStates,
           NEW k, k = [s EXCEPT ![i].state = x]
    PROVE  /\ k \in Seq(Sockets) /\ Len(k) = Len(s)
           /\ \A j \in 1..Len(s) : k[j].state = IF j = i THEN x ELSE s[j].state
<1>1. \A j \in 1..Len(s) : s[j] \in Sockets
    OBVIOUS
<1>2. Len(s) \in Nat /\ s = [j \in 1..Len(s) |-> s[j]]
    OBVIOUS
<1>3. k = [j \in 1..Len(s) |-> IF j = i THEN [s[i] EXCEPT !.state = x] ELSE s[j]]
    BY <1>2
<1>4. [s[i] EXCEPT !.state = x] \in Sockets /\ [s[i] EXCEPT !.state = x].state = x
    BY <1>1 DEF Sockets
<1>5. k \in Seq(Sockets) /\ Len(k) = Len(s)
    BY <1>1, <1>2, <1>3, <1>4
<1> QED
    BY <1>3, <1>4, <1>5

LEMMA OpensKeepsOrder ==
    ASSUME NEW c, FeedInOrder(c), NEW i \in 1..Len(c.sockets)
    PROVE  FeedInOrder(Opens(c, i))
<1> DEFINE d == Opens(c, i)
           k == [c.sockets EXCEPT ![i].state = "open"]
<1>1. c \in Feeds /\ c.sent \in Seq(Nat) /\ c.pending \in Seq(Nat) /\ c.given \in Nat
    BY DEF FeedInOrder, Feeds
<1>2. c.sent \o c.pending \in Seq(Nat) /\ InOrder(c.sent \o c.pending, c.given)
    BY <1>1, JoinedInOrder DEF FeedInOrder
<1>3. k \in Seq(Sockets) /\ Len(k) = Len(c.sockets)
    <2>1. c.sockets \in Seq(Sockets) /\ "open" \in SocketStates
        BY <1>1 DEF Feeds, SocketStates
    <2>2. k = [c.sockets EXCEPT ![i].state = "open"]
        OBVIOUS
    <2> HIDE DEF k
    <2> QED
        BY <2>1, <2>2, SocketChanges
<1>4. d = [c EXCEPT !.sockets = k, !.status = "connected", !.retries = 0,
                    !.sent = c.sent \o c.pending, !.pending = <<>>]
    BY <1>1 DEF Opens, Flushed, Feeds
<1> HIDE DEF d, k
<1>5. /\ d \in Feeds /\ d.sockets = k /\ d.sent = c.sent \o c.pending /\ d.pending = <<>>
      /\ d.given = c.given /\ d.ref = c.ref
    <2>1. <<>> \in Seq(Nat) /\ 0 \in Int
        OBVIOUS
    <2> QED
        BY <1>1, <1>2, <1>3, <1>4, <2>1 DEF Feeds
<1>6. InOrder(<<>>, c.given) /\ 1..Len(<<>>) = {}
    BY DEF InOrder
<1>7. c.ref <= Len(c.sockets)
    BY DEF FeedInOrder
<1>8. FeedInOrder(d)
    BY <1>2, <1>3, <1>5, <1>6, <1>7 DEF FeedInOrder
<1> QED
    BY <1>8 DEF d

\* The other events of a socket and the timers leave the messages alone.
SameMessages(c, d) ==
  d.sent = c.sent /\ d.pending = c.pending /\ d.given = c.given

LEMMA SameMessagesKeepOrder ==
    ASSUME NEW c, FeedInOrder(c), NEW d \in Feeds, SameMessages(c, d), d.ref <= Len(d.sockets),
           d.ref # 0 /\ d.sockets[d.ref].state = "open" =>
               d.ref = c.ref /\ c.sockets[c.ref].state = "open"
    PROVE  FeedInOrder(d)
BY DEF FeedInOrder, SameMessages

LEMMA ClosesKeepsOrder ==
    ASSUME NEW c, FeedInOrder(c), NEW i \in 1..Len(c.sockets)
    PROVE  FeedInOrder(Closes(c, i)) /\ FeedInOrder(Fails(c, i))
<1> DEFINE k == [c.sockets EXCEPT ![i].state = "closed"]
           e == Closes(c, i)
           f == Fails(c, i)
<1>1. c \in Feeds /\ c.ref \in Nat /\ c.ref <= Len(c.sockets) /\ Len(c.sockets) \in Nat
    BY DEF FeedInOrder, Feeds
<1>2. /\ k \in Seq(Sockets) /\ Len(k) = Len(c.sockets)
      /\ \A j \in 1..Len(c.sockets) : k[j].state = "open" => c.sockets[j].state = "open"
    <2>1. c.sockets \in Seq(Sockets) /\ "closed" \in SocketStates
        BY <1>1 DEF Feeds, SocketStates
    <2>2. k = [c.sockets EXCEPT ![i].state = "closed"]
        OBVIOUS
    <2> HIDE DEF k
    <2>3. /\ k \in Seq(Sockets) /\ Len(k) = Len(c.sockets)
          /\ \A j \in 1..Len(c.sockets) : k[j].state = IF j = i THEN "closed" ELSE c.sockets[j].state
        BY <2>1, <2>2, SocketChanges
    <2> QED
        BY <2>3
<1>3. FeedInOrder(e)
    <2> DEFINE t == IF c.retries < MaxRetries THEN Append(c.timers, c.sockets[i].market) ELSE c.timers
               r == IF c.retries < MaxRetries THEN c.retries + 1 ELSE c.retries
    <2>1. t \in Seq(Markets) /\ r \in Int
        <3>1. c.sockets[i] \in Sockets /\ c.timers \in Seq(Markets) /\ c.retries \in Int
            BY <1>1 DEF Feeds
        <3>2. c.sockets[i].market \in Markets
            BY <3>1 DEF Sockets
        <3> QED
            BY <3>1, <3>2
    <2>2. e = [c EXCEPT !.sockets = k, !.status = "disconnected", !.ref = 0,
                        !.retries = r, !.timers = t]
        BY <1>1 DEF Closes, Feeds
    <2> HIDE DEF e, k, t, r
    <2>3. e \in Feeds /\ SameMessages(c, e) /\ e.ref = 0 /\ e.sockets = k
        BY <1>1, <1>2, <2>1, <2>2 DEF Feeds, SameMessages
    <2> QED
        BY <1>1, <1>2, <2>3, SameMessagesKeepOrder
<1>4. FeedInOrder(f)
    <2>2. f = [c EXCEPT !.sockets = k, !.status = "error"]
        BY <1>1 DEF Fails, Feeds
    <2> HIDE DEF f, k
    <2>3. f \in Feeds /\ SameMessages(c, f) /\ f.ref = c.ref /\ f.sockets = k
        BY <1>1, <1>2, <2>2 DEF Feeds, SameMessages
    <2>4. f.ref # 0 => f.ref \in 1..Len(c.sockets)
        BY <1>1, <2>3
    <2> QED
        BY <1>1, <1>2, <2>3, <2>4, SameMessagesKeepOrder
<1> QED
    BY <1>3, <1>4

LEMMA ReconnectedKeepsOrder ==
    ASSUME NEW c, FeedInOrder(c), NEW m \in Markets
    PROVE  FeedInOrder(Reconnected(c, m))
<1> DEFINE Shut(x) == CASE x = "open" -> "closing" [] x = "connecting" -> "closed" [] OTHER -> x
           k == IF c.ref = 0 THEN c.sockets
                ELSE [c.sockets EXCEPT ![c.ref].state = Shut(@)]
           d == [c EXCEPT !.retries = MaxRetries, !.sockets = k]
<1>1. c \in Feeds /\ c.ref \in Nat /\ c.ref <= Len(c.sockets) /\ Len(c.sockets) \in Nat
      /\ c.sockets \in Seq(Sockets)
    BY DEF FeedInOrder, Feeds
<1>2. Reconnected(c, m) = Connect(d, m)
    BY DEF Reconnected
<1>3. /\ k \in Seq(Sockets) /\ Len(k) = Len(c.sockets)
      /\ c.ref # 0 => k[c.ref].state # "open"
    <2>1. CASE c.ref = 0
        BY <1>1, <2>1
    <2>2. CASE c.ref # 0
        <3>1. c.ref \in 1..Len(c.sockets) /\ c.sockets[c.ref].state \in SocketStates
            <4>1. c.ref \in 1..Len(c.sockets)
                BY <1>1, <2>2
            <4>2. c.sockets[c.ref] \in Sockets
                BY <1>1, <4>1
            <4> QED
                BY <4>1, <4>2 DEF Sockets
        <3>2. Shut(c.sockets[c.ref].state) \in SocketStates /\ Shut(c.sockets[c.ref].state) # "open"
            BY <3>1 DEF SocketStates
        <3>3. k = [c.sockets EXCEPT ![c.ref].state = Shut(c.sockets[c.ref].state)]
            BY <1>1, <2>2, <3>1
        <3> HIDE DEF Shut, k
        <3> QED
            BY <1>1, <3>1, <3>2, <3>3, SocketChanges
    <2> QED
        BY <2>1, <2>2
<1> HIDE DEF k
<1>4. d \in Feeds /\ SameMessages(c, d) /\ d.ref = c.ref /\ d.sockets = k
    <2>1. MaxRetries \in Int
        BY FeedAssumption
    <2> QED
        BY <1>1, <1>3, <2>1 DEF Feeds, SameMessages
<1> HIDE DEF d
<1>5. FeedInOrder(d)
    BY <1>1, <1>3, <1>4, SameMessagesKeepOrder
<1> QED
    BY <1>2, <1>5, ConnectKeepsOrder

FeedInv == /\ FeedInOrder(feed)
           /\ selected \in Markets

LEMMA NewFeedInOrder ==
    ASSUME NEW m \in Markets
    PROVE  FeedInOrder(NewFeed(m))
<1> DEFINE c == [sockets |-> <<>>, ref |-> 0, status |-> "disconnected", retries |-> 0,
                 pending |-> <<>>, timers |-> <<>>, count |-> 0, given |-> 0, sent |-> <<>>,
                 nonce |-> 1, signing |-> <<>>]
<1>1. c \in Feeds
    BY DEF Feeds
<1>2. c.ref = 0 /\ c.sent = <<>> /\ c.pending = <<>> /\ c.sockets = <<>> /\ Len(<<>>) = 0 /\ 1..0 = {}
    OBVIOUS
<1>3. NewFeed(m) = Connect(c, m)
    BY DEF NewFeed
<1> HIDE DEF c
<1>4. FeedInOrder(c)
    BY <1>1, <1>2 DEF FeedInOrder, InOrder
<1> QED
    BY <1>3, <1>4, ConnectKeepsOrder

LEMMA FeedInvInductive ==
    ASSUME FeedInv, [Next]_vars
    PROVE  FeedInv'
<1>1. FeedInOrder(feed) /\ selected \in Markets /\ feed \in Feeds
    BY DEF FeedInv, FeedInOrder
<1>2. CASE UNCHANGED <<feed, selected>>
    BY <1>1, <1>2 DEF FeedInv
<1>3. CASE SocketOpens
    BY <1>1, <1>3, OpensKeepsOrder DEF SocketOpens, FeedStep, FeedInv, Feeds
<1>4. CASE SocketCloses
    BY <1>1, <1>4, ClosesKeepsOrder DEF SocketCloses, FeedStep, FeedInv, Feeds
<1>5. CASE SocketFails
    BY <1>1, <1>5, ClosesKeepsOrder DEF SocketFails, FeedStep, FeedInv, Feeds
<1>6. CASE RetryFires
    <2> DEFINE d == [feed EXCEPT !.timers = Tail(@)]
               m == Head(feed.timers)
    <2>1. feed' = Connect(d, m) /\ feed.timers # <<>> /\ selected' = selected
        BY <1>6 DEF RetryFires, FeedStep
    <2>2. m \in Markets /\ Tail(feed.timers) \in Seq(Markets)
        BY <1>1, <2>1 DEF Feeds
    <2>3. d \in Feeds /\ SameMessages(feed, d) /\ d.ref = feed.ref /\ d.sockets = feed.sockets
        BY <1>1, <2>2 DEF Feeds, SameMessages
    <2> HIDE DEF d, m
    <2>4. feed.ref <= Len(feed.sockets)
        BY <1>1 DEF FeedInOrder
    <2>5. FeedInOrder(d)
        BY <1>1, <2>3, <2>4, SameMessagesKeepOrder
    <2>6. FeedInOrder(feed')
        BY <2>1, <2>2, <2>5, ConnectKeepsOrder
    <2> QED
        BY <1>1, <2>1, <2>6 DEF FeedInv, FeedInOrder, Feeds, InOrder
<1>7. CASE Switch
    <2>1. selected' \in Markets /\ feed' = SwitchMarket(feed, selected')
        BY <1>7 DEF Switch, FeedStep
    <2>2. FeedInOrder(Send(Send(feed)))
        BY <1>1, SendKeepsOrder
    <2>3. FeedInOrder(feed')
        BY <2>1, <2>2, ReconnectedKeepsOrder DEF SwitchMarket
    <2> QED
        BY <2>1, <2>3 DEF FeedInv, FeedInOrder, Feeds, InOrder
<1>8. CASE SubmitLive
    <2>1. feed' = [feed EXCEPT !.signing = Append(@, feed.nonce)] /\ selected' = selected
        BY <1>8 DEF SubmitLive, FeedStep, StartSigning
    <2>2. /\ feed' \in Feeds /\ SameMessages(feed, feed') /\ feed'.ref = feed.ref
          /\ feed'.sockets = feed.sockets
        <3>1. Append(feed.signing, feed.nonce) \in Seq(Nat)
            BY <1>1 DEF Feeds
        <3> QED
            BY <1>1, <2>1, <3>1 DEF Feeds, SameMessages
    <2>3. FeedInOrder(feed')
        BY <1>1, <2>2, SameMessagesKeepOrder DEF FeedInOrder
    <2> QED
        BY <1>1, <2>1, <2>3 DEF FeedInv, FeedInOrder, Feeds, InOrder
<1>9. CASE SignatureGiven
    <2> DEFINE d == Send(feed)
    <2>1. feed' = [d EXCEPT !.nonce = @ + 1, !.signing = Tail(@)] /\ feed.signing # <<>>
          /\ selected' = selected
        BY <1>9 DEF SignatureGiven, FeedStep, Signed
    <2>2. FeedInOrder(d) /\ d \in Feeds /\ d.signing = feed.signing
        BY <1>1, SendKeepsOrder DEF FeedInOrder
    <2> HIDE DEF d
    <2>3. Tail(d.signing) \in Seq(Nat) /\ d.nonce + 1 \in Nat
        BY <2>1, <2>2 DEF Feeds
    <2>4. /\ feed' \in Feeds /\ SameMessages(d, feed') /\ feed'.ref = d.ref
          /\ feed'.sockets = d.sockets
        BY <2>1, <2>2, <2>3 DEF Feeds, SameMessages
    <2>5. FeedInOrder(feed')
        BY <2>2, <2>4, SameMessagesKeepOrder DEF FeedInOrder
    <2> QED
        BY <1>1, <2>1, <2>5 DEF FeedInv, FeedInOrder, Feeds, InOrder
<1>10. CASE WindowPasses
    <2>1. feed' = [feed EXCEPT !.count = 0] /\ selected' = selected
        BY <1>10 DEF WindowPasses, FeedStep
    <2>2. /\ feed' \in Feeds /\ SameMessages(feed, feed') /\ feed'.ref = feed.ref
          /\ feed'.sockets = feed.sockets
        <3>1. 0 \in Int
            OBVIOUS
        <3> QED
            BY <1>1, <2>1, <3>1 DEF Feeds, SameMessages
    <2>3. FeedInOrder(feed')
        BY <1>1, <2>2, SameMessagesKeepOrder DEF FeedInOrder
    <2> QED
        BY <1>1, <2>1, <2>3 DEF FeedInv, FeedInOrder, Feeds, InOrder
<1>11. CASE ~UNCHANGED <<feed, selected>>
    BY <1>11, <1>3, <1>4, <1>5, <1>6, <1>7, <1>8, <1>9, <1>10
       DEF Next, vars, UpdateMarkPrice, Effects, SubmitMarket, SubmitResting, SubmitOco, Cancel,
           Close, SetTpSl, MoveMoney, Reset, Reload, UserDoes
<1> QED
    BY <1>2, <1>11

\* Messages to the server leave in the order they were given, none twice, for
\* any number of sockets, retries and switches (TradingProvider.tsx).
THEOREM MessagesSentInOrder == Spec => []SentInOrder
<1>1. Init => FeedInv
    BY NewFeedInOrder DEF Init, FeedInv
<1>2. FeedInv => SentInOrder
    <2>1. ASSUME FeedInv PROVE SentInOrder
        <3>1. feed.sent \in Seq(Nat)
            BY <2>1 DEF FeedInv, FeedInOrder, Feeds
        <3>2. DOMAIN feed.sent = 1..Len(feed.sent)
            BY <3>1
        <3>3. InOrder(feed.sent, feed.given)
            BY <2>1 DEF FeedInv, FeedInOrder
        <3> QED
            BY <3>2, <3>3 DEF InOrder, SentInOrder
    <2> QED
        BY <2>1
<1> QED
    BY <1>1, <1>2, FeedInvInductive, PTL DEF Spec

-----------------------------------------------------------------------------
(* The account: its type, and where its money is *)

Positions == [size : Nat, long : BOOLEAN, cost : Int, margin : Int, tp : Nat, sl : Nat]

Orders ==
  [id : Nat, market : Markets, side : {"buy", "sell"},
   type : {"market", "limit", "stopMarket", "stopLimit"},
   price : Nat, stop : Nat, size : Nat \ {0}, leverage : Nat \ {0}, tp : Nat, sl : Nat, group : Nat]

Accounts ==
  [wallet : Int, balance : Int, orders : Seq(Orders), positions : [Markets -> Positions],
   realized : Int, charged : Int, dropped : Int]

Conserved(a) ==
  a.wallet + a.balance + MarginOf(a) + ReservedBy(a.orders) + a.dropped
    = InitialWallet + InitialBalance + a.realized - a.charged

\* No margin is left where there is no position, and a position was paid for.
Held(p) == (p.size = 0 => p.margin = 0) /\ (p.size # 0 => p.cost > 0)

\* What rests is filled at a price of its own, or at a mark price.
Sound(a) ==
  /\ a \in Accounts
  /\ \A m \in Markets : Held(a.positions[m])
  /\ \A o \in Members(a.orders) : o.type # "market" /\ Priced(o)
  /\ Conserved(a)

LEMMA Quotients ==
    ASSUME NEW x \in Int, NEW n \in Nat \ {0}
    PROVE  x \div n \in Int /\ (x * n) \div n = x
<1>1. x \div n \in Int
    OBVIOUS
<1>2. (x * n) \div n = x
    <2> DEFINE q == (x * n) \div n
    <2>1. x * n \in Int
        OBVIOUS
    <2>3. q \in Int
        BY <2>1
    <2>4. n * q <= x * n /\ x * n < n * q + n
        BY <2>1, <2>3
    <2> HIDE DEF q
    <2>5. q <= x
        <3> SUFFICES ASSUME q >= x + 1 PROVE FALSE
            BY <2>3
        <3>1. n * q >= n * (x + 1) /\ n * (x + 1) = x * n + n
            BY <2>3
        <3> QED
            BY <2>3, <2>4, <3>1
    <2>6. x <= q
        <3> SUFFICES ASSUME x >= q + 1 PROVE FALSE
            BY <2>3
        <3>1. n * x >= n * (q + 1) /\ n * (q + 1) = n * q + n /\ n * x = x * n
            BY <2>3
        <3> QED
            BY <2>3, <2>4, <3>1
    <2> QED
        BY <2>3, <2>5, <2>6 DEF q
<1> QED
    BY <1>1, <1>2

\* A part of an amount that is not the whole leaves something, also rounded.
LEMMA PartLeaves ==
    ASSUME NEW x \in Nat \ {0}, NEW k \in Nat, NEW n \in Nat \ {0}, k < n
    PROVE  x - (x * k) \div n > 0
<1> DEFINE q == (x * k) \div n
<1>1. x * k \in Int
    OBVIOUS
<1>2. q \in Int
    BY <1>1, Quotients
<1>3. n * q <= x * k
    BY <1>1, <1>2
<1> HIDE DEF q
<1>4. q < x
    <2> SUFFICES ASSUME q >= x PROVE FALSE
        BY <1>2
    <2>1. n * q >= n * x
        BY <1>2
    <2>2. n * x >= (k + 1) * x /\ (k + 1) * x = x * k + x
        OBVIOUS
    <2> QED
        BY <1>1, <1>2, <1>3, <2>1, <2>2
<1> QED
    BY <1>2, <1>4 DEF q

LEMMA FeeType ==
    ASSUME NEW x \in Int
    PROVE  Fee(x) \in Int
BY PaperAssumption, Quotients DEF Fee

\* The fold of the margin tiers adds up integers.
Slices == [left : Int, prev : Int, sum : Int]
TierSet == [max : Nat, part : Nat \ {0}]

SliceOf(acc, t) ==
  LET size == IF t.max = 0 THEN acc.left ELSE Least(acc.left, t.max - acc.prev)
  IN [left |-> acc.left - size, prev |-> t.max, sum |-> acc.sum + size \div t.part]

SlicesFrom(h, first) ==
  h = [s \in SUBSET DOMAIN Tiers |->
          IF s = {} THEN first ELSE SliceOf(h[s \ {Max(s)}], Tiers[Max(s)])]

LEMMA SliceType ==
    ASSUME NEW acc \in Slices, NEW t \in TierSet
    PROVE  SliceOf(acc, t) \in Slices
<1> DEFINE size == IF t.max = 0 THEN acc.left ELSE Least(acc.left, t.max - acc.prev)
<1>1. size \in Int /\ t.part \in Nat \ {0} /\ t.max \in Int
    BY DEF Slices, TierSet, Least
<1> HIDE DEF size
<1>2. size \div t.part \in Int
    BY <1>1, Quotients
<1>3. acc.left - size \in Int /\ acc.sum + size \div t.part \in Int
    BY <1>1, <1>2 DEF Slices
<1>4. SliceOf(acc, t) = [left |-> acc.left - size, prev |-> t.max, sum |-> acc.sum + size \div t.part]
    BY DEF SliceOf, size
<1> QED
    BY <1>1, <1>3, <1>4 DEF Slices

LEMMA TieredMarginType ==
    ASSUME NEW notional \in Int
    PROVE  TieredMargin(notional) \in Int
<1> DEFINE first == [left |-> notional, prev |-> 0, sum |-> 0]
           k == CHOOSE h : SlicesFrom(h, first)
           G == [p \in Slices \X TierSet |-> SliceOf(p[1], p[2])]
           n == Len(Tiers)
<1>1. TieredMargin(notional) = k[DOMAIN Tiers].sum
    BY DEF TieredMargin, FoldLeft, MapThenFoldSet, SlicesFrom, SliceOf
<1>2. n \in Nat /\ DOMAIN Tiers = 1..n /\ Tiers \in [1..n -> TierSet]
    <2>1. Tiers \in Seq(TierSet)
        BY PaperAssumption DEF TierSet
    <2> QED
        BY <2>1
<1>3. first \in Slices
    BY DEF Slices
<1>4. G \in [Slices \X TierSet -> Slices]
    BY SliceType
<1> HIDE DEF first, k, G, n
<1>5. SlicesFrom(k, first)
    <2>1. PICK h : FoldOf(h, G, first, Tiers, n, Slices)
        <3>1. Foldable(G, first, Tiers, n, Slices)
            BY <1>2, <1>3, <1>4, FoldExists
        <3> QED
            BY <3>1 DEF Foldable
    <2>2. ASSUME NEW s \in SUBSET (1..n), s # {}
          PROVE  G[<<h[s \ {Highest(s)}], Tiers[Highest(s)]>>] = SliceOf(h[s \ {Max(s)}], Tiers[Max(s)])
        <3>1. Highest(s) = Max(s)
            BY DEF Highest, Max
        <3>2. Highest(s) \in 1..n /\ s \ {Highest(s)} \in SUBSET (1..n)
            BY <1>2, <2>2, HighestIn
        <3>3. h[s \ {Highest(s)}] \in Slices /\ Tiers[Highest(s)] \in TierSet
            BY <1>2, <2>1, <3>2 DEF FoldOf
        <3> QED
            BY <3>1, <3>3 DEF G
    <2>3. SlicesFrom(h, first)
        BY <1>2, <2>1, <2>2 DEF SlicesFrom, FoldOf, Folds
    <2> QED
        BY <2>3 DEF k
<1>6. k[{}] \in Slices
    BY <1>3, <1>5 DEF SlicesFrom
<1>7. ASSUME NEW i \in 1..n, k[1..(i - 1)] \in Slices PROVE k[1..i] \in Slices
    <2>1. 1..i \in SUBSET (1..n) /\ i \in 1..i /\ i \in Nat /\ i # 0 /\ i \in 1..n
        BY <1>2
    <2>2. Highest(1..i) = i /\ (1..i) \ {i} = 1..(i - 1)
        BY <2>1, HighestOfRange
    <2>3. Max(1..i) = i
        BY <2>2 DEF Highest, Max
    <2>4. k[1..i] = SliceOf(k[1..(i - 1)], Tiers[i])
        BY <1>2, <1>5, <2>1, <2>2, <2>3 DEF SlicesFrom
    <2>5. Tiers[i] \in TierSet
        BY <1>2, <2>1
    <2> QED
        BY <1>7, <2>4, <2>5, SliceType
<1>8. k[1..n] \in Slices
    BY <1>2, <1>6, <1>7, FoldStays
<1> QED
    BY <1>1, <1>2, <1>8 DEF Slices

-----------------------------------------------------------------------------
(* The sums of the account *)

Margins(a) == [m \in Markets |-> a.positions[m].margin]

LEMMA MarginsSum ==
    ASSUME NEW a, a.positions \in [Markets -> Positions]
    PROVE  MarginOf(a) = SumOver(Margins(a), Markets) /\ Weighs(Margins(a), Markets)
<1>1. MarginOf(a) = SumOver(Margins(a), Markets)
    <2>1. DOMAIN [m \in Markets |-> a.positions[m].margin] = Markets
        OBVIOUS
    <2>2. MarginOf(a) = SumFunctionOnSet([m \in Markets |-> a.positions[m].margin], Markets)
        BY ONLY <2>1 DEF MarginOf, SumFunction
    <2>3. SumFunctionOnSet(Margins(a), Markets) = SumOver(Margins(a), Markets)
        BY DEF SumFunctionOnSet, FoldFunctionOnSet, MapThenFoldSet, SumOver, AddsUp
    <2> QED
        BY <2>2, <2>3 DEF Margins
<1>2. Weighs(Margins(a), Markets)
    BY PaperAssumption DEF Weighs, Margins, Positions
<1> QED
    BY <1>1, <1>2

LEMMA MarginsChange ==
    ASSUME NEW a, a.positions \in [Markets -> Positions], NEW m \in Markets, NEW p \in Positions,
           NEW b, b.positions = [a.positions EXCEPT ![m] = p]
    PROVE  /\ MarginOf(a) \in Int /\ MarginOf(b) \in Int
           /\ MarginOf(b) = MarginOf(a) - a.positions[m].margin + p.margin
<1>1. b.positions \in [Markets -> Positions]
    OBVIOUS
<1> DEFINE v == Margins(a)
           w == Margins(b)
           R == Markets \ {m}
<1>2. /\ MarginOf(a) = SumOver(v, Markets) /\ Weighs(v, Markets)
      /\ MarginOf(b) = SumOver(w, Markets) /\ Weighs(w, Markets)
    BY <1>1, MarginsSum
<1>3. v[m] = a.positions[m].margin /\ w[m] = p.margin /\ \A x \in R : v[x] = w[x]
    BY <1>1 DEF Margins
<1>4. v[m] \in Int /\ w[m] \in Int
    BY <1>2 DEF Weighs
<1> HIDE DEF v, w
<1>5. SumOver(v, Markets) = v[m] + SumOver(v, R) /\ SumOver(w, Markets) = w[m] + SumOver(w, R)
    BY <1>2, SumTakesOut DEF TakenOut
<1>6. IsFiniteSet(R) /\ Weighs(v, R)
    BY <1>2, WeighsParts DEF Weighs
<1>7. SumOver(v, R) = SumOver(w, R) /\ SumOver(v, R) \in Int
    BY <1>3, <1>6, SumsAgree, SumOverInt
<1> HIDE DEF R
<1> QED
    BY <1>2, <1>3, <1>4, <1>5, <1>7

ReservedOn == [o \in Orders |-> Reserved(o)]

LEMMA ReservedWeight ==
    /\ \A o \in Orders : ReservedOn[o] = Reserved(o) /\ Reserved(o) \in Int
    /\ \A s \in Seq(Orders) : ReservedBy(s) = WeightOf(s, ReservedOn)
<1>1. ASSUME NEW o \in Orders PROVE ReservedOn[o] = Reserved(o) /\ Reserved(o) \in Int
    <2> DEFINE at == IF o.type = "stopMarket" THEN o.stop ELSE o.price
    <2>1. at \in Nat /\ o.size \in Nat /\ o.leverage \in Nat \ {0}
        BY DEF Orders
    <2>2. Reserved(o) = (at * o.size) \div o.leverage
        BY DEF Reserved
    <2> HIDE DEF at
    <2>3. at * o.size \in Int
        BY <2>1
    <2> QED
        BY <2>1, <2>2, <2>3, Quotients DEF ReservedOn
<1>2. ASSUME NEW s \in Seq(Orders) PROVE ReservedBy(s) = WeightOf(s, ReservedOn)
    <2>1. DOMAIN s = 1..Len(s) /\ \A i \in 1..Len(s) : s[i] \in Orders
        OBVIOUS
    <2>2. [i \in DOMAIN s |-> Reserved(s[i])] = [i \in 1..Len(s) |-> ReservedOn[s[i]]]
        BY <1>1, <2>1
    <2> QED
        BY <2>2 DEF ReservedBy, WeightOf
<1> QED
    BY <1>1, <1>2

-----------------------------------------------------------------------------
(* Positions change, and orders stay *)

\* The account b is a after position m became p, with a result, a fee and a
\* margin that is given up.
Became(a, b, m, p, gain, fee, lost) ==
  /\ p \in Positions /\ Held(p)
  /\ gain \in Int /\ fee \in Int /\ lost \in Int
  /\ b = [a EXCEPT !.positions = [a.positions EXCEPT ![m] = p],
                   !.balance = a.balance + (a.positions[m].margin - p.margin - lost) + gain - fee,
                   !.realized = a.realized + gain, !.charged = a.charged + fee,
                   !.dropped = a.dropped + lost]

LEMMA BecameSound ==
    ASSUME NEW a, Sound(a), NEW m \in Markets, NEW p, NEW gain, NEW fee, NEW lost, NEW b,
           Became(a, b, m, p, gain, fee, lost)
    PROVE  Sound(b) /\ b.orders = a.orders /\ b.positions[m] = p
<1>1. a \in Accounts /\ a.positions \in [Markets -> Positions] /\ a.positions[m] \in Positions
    BY DEF Sound, Accounts
<1>2. p \in Positions /\ gain \in Int /\ fee \in Int /\ lost \in Int
      /\ p.margin \in Int /\ a.positions[m].margin \in Int
    BY <1>1 DEF Became, Positions
<1> DEFINE q == [a.positions EXCEPT ![m] = p]
           balance == a.balance + (a.positions[m].margin - p.margin - lost) + gain - fee
<1>3. q \in [Markets -> Positions] /\ q[m] = p /\ \A x \in Markets : x # m => q[x] = a.positions[x]
    BY <1>1, <1>2
<1>4. /\ a.balance \in Int /\ a.realized \in Int /\ a.charged \in Int /\ a.wallet \in Int
      /\ a.dropped \in Int /\ a.dropped + lost \in Int
      /\ balance \in Int /\ a.realized + gain \in Int /\ a.charged + fee \in Int
    <2>1. a.balance \in Int /\ a.realized \in Int /\ a.charged \in Int /\ a.wallet \in Int
          /\ a.dropped \in Int
        BY <1>1 DEF Accounts
    <2> QED
        BY <1>2, <2>1
<1>5. b = [a EXCEPT !.positions = q, !.balance = balance,
                    !.realized = a.realized + gain, !.charged = a.charged + fee,
                    !.dropped = a.dropped + lost]
    BY DEF Became
<1>6. MarginOf(a) \in Int /\ MarginOf(b) \in Int
      /\ MarginOf(b) = MarginOf(a) - a.positions[m].margin + p.margin
    <2>1. b.positions = [a.positions EXCEPT ![m] = p]
        BY <1>1, <1>5 DEF Accounts
    <2> QED
        BY <1>1, <1>2, <2>1, MarginsChange
<1>7. balance = a.balance + (a.positions[m].margin - p.margin - lost) + gain - fee
    OBVIOUS
<1> HIDE DEF q, balance
<1>8. /\ b \in Accounts /\ b.positions = q /\ b.balance = balance /\ b.orders = a.orders
      /\ b.wallet = a.wallet /\ b.realized = a.realized + gain /\ b.charged = a.charged + fee
      /\ b.dropped = a.dropped + lost
    BY <1>1, <1>3, <1>4, <1>5 DEF Accounts
<1>9. /\ \A x \in Markets : Held(b.positions[x])
      /\ \A o \in Members(b.orders) : o.type # "market" /\ Priced(o)
    BY <1>3, <1>8 DEF Became, Sound
<1>10. Conserved(b)
    <2>1. a.wallet + a.balance + MarginOf(a) + ReservedBy(a.orders) + a.dropped
            = InitialWallet + InitialBalance + a.realized - a.charged
        BY DEF Sound, Conserved
    <2>2. ReservedBy(a.orders) \in Int
        <3>1. a.orders \in Seq(Orders)
            BY <1>1 DEF Accounts
        <3> QED
            BY <3>1, ReservedWeight, WeightType
    <2>3. InitialWallet \in Int /\ InitialBalance \in Int
        BY PaperAssumption
    <2>4. b.wallet + b.balance + MarginOf(b) + ReservedBy(b.orders) + b.dropped
            = InitialWallet + InitialBalance + b.realized - b.charged
        <3>1. /\ a.balance \in Int /\ a.wallet \in Int /\ a.realized \in Int /\ a.charged \in Int
              /\ a.dropped \in Int
            BY <1>4
        <3>2. b.wallet + b.balance + MarginOf(b) + ReservedBy(b.orders) + b.dropped
                = a.wallet + balance + MarginOf(b) + ReservedBy(a.orders) + (a.dropped + lost)
            BY <1>8
        <3>3. b.realized = a.realized + gain /\ b.charged = a.charged + fee
            BY <1>8
        <3> QED
            BY <1>2, <1>6, <1>7, <2>1, <2>2, <2>3, <3>1, <3>2, <3>3
    <2> QED
        BY <2>4 DEF Conserved
<1> QED
    BY <1>3, <1>8, <1>9, <1>10 DEF Sound

\* Part of a position is closed: its margin comes back with the result, less the fee.
LEMMA SettledSound ==
    ASSUME NEW a, Sound(a), NEW m \in Markets, NEW size \in Nat \ {0}, NEW price \in Nat,
           size <= a.positions[m].size
    PROVE  /\ Sound(Settled(a, m, size, price)) /\ Settled(a, m, size, price).orders = a.orders
           /\ size = a.positions[m].size => Settled(a, m, size, price).positions[m] = NoPosition
<1> DEFINE p == a.positions[m]
           q == Shrunk(p, size)
           freed == Freed(p, size)
           lost == IF p.size - size <= Dust THEN p.margin - freed ELSE 0
           gain == Pnl(p, size, price)
           fee == Fee(price * size)
           b == Settled(a, m, size, price)
<1>1. a \in Accounts /\ p \in Positions
    BY DEF Sound, Accounts
<1>2. p.size \in Nat \ {0} /\ p.margin \in Int /\ p.cost \in Nat \ {0} /\ p.long \in BOOLEAN
      /\ Dust \in Nat
    <2>1. Held(p)
        BY DEF Sound
    <2> HIDE DEF p
    <2> QED
        BY <1>1, <2>1, PaperAssumption DEF Positions, Held, p
<1>3. /\ p.margin * size \in Int /\ p.cost * size \in Int /\ price * size \in Int
      /\ freed \in Int /\ (p.cost * size) \div p.size \in Int
    <2>1. p.margin * size \in Int /\ p.cost * size \in Int /\ price * size \in Int
        BY <1>2
    <2> HIDE DEF p
    <2> QED
        BY <1>2, <2>1, Quotients DEF Freed
<1>4. gain \in Int /\ fee \in Int
    <2>1. gain = (IF p.long THEN 1 ELSE -1) * (price * size - (p.cost * size) \div p.size)
        BY DEF Pnl
    <2> DEFINE part == (p.cost * size) \div p.size
    <2>2. price * size \in Int /\ part \in Int
        BY <1>3
    <2> HIDE DEF p, gain, part
    <2>3. gain \in Int
        BY <2>1, <2>2 DEF part
    <2> QED
        BY <1>3, <2>3, FeeType
<1>5. /\ q \in Positions /\ Held(q) /\ lost \in Int /\ q.margin = p.margin - freed - lost
      /\ (size = p.size => q = NoPosition)
    <2>1. CASE p.size - size <= Dust
        <3>1. q = NoPosition /\ lost = p.margin - freed
            BY <2>1 DEF Shrunk
        <3> HIDE DEF q, freed, p, lost
        <3> QED
            BY <1>2, <1>3, <3>1 DEF NoPosition, Positions, Held
    <2>2. CASE ~(p.size - size <= Dust)
        <3> DEFINE cost == p.cost - (p.cost * size) \div p.size
                   left == p.size - size
                   margin == p.margin - freed
        <3>1. q = [p EXCEPT !.size = left, !.cost = cost, !.margin = margin] /\ lost = 0
            BY <1>1, <2>2 DEF Shrunk, Positions, Freed
        <3>2. left \in Nat /\ left # 0 /\ cost \in Int /\ margin \in Int /\ size # p.size
            BY <1>2, <1>3, <2>2
        <3>3. cost > 0
            <4>2. size <= p.size
                OBVIOUS
            <4> HIDE DEF p
            <4>1. size < p.size
                BY <1>2, <3>2, <4>2
            <4> QED
                BY <1>2, <4>1, PartLeaves
        <3>4. margin = p.margin - freed /\ margin - lost = margin
            BY <3>1, <3>2
        <3> HIDE DEF q, left, cost, margin, p, freed, lost
        <3>5. q \in Positions /\ q.size = left /\ q.cost = cost /\ q.margin = margin
            BY <1>1, <3>1, <3>2 DEF Positions
        <3>6. Held(q)
            BY <3>2, <3>3, <3>5 DEF Held
        <3> QED
            BY <1>2, <1>3, <3>1, <3>2, <3>4, <3>5, <3>6
    <2> QED
        BY <2>1, <2>2
<1>6. b = [a EXCEPT !.balance = a.balance + freed + gain - fee,
                    !.positions = [a.positions EXCEPT ![m] = q],
                    !.realized = a.realized + gain, !.charged = a.charged + fee,
                    !.dropped = a.dropped + lost]
    BY <1>1 DEF Settled, Accounts
<1>7. a.balance + freed + gain - fee = a.balance + (a.positions[m].margin - q.margin - lost) + gain - fee
    <2>1. a.balance \in Int
        BY <1>1 DEF Accounts
    <2>2. a.positions[m].margin = p.margin
        OBVIOUS
    <2> HIDE DEF freed, gain, fee, q, p, lost
    <2> QED
        BY <1>2, <1>3, <1>4, <1>5, <2>1, <2>2
<1> HIDE DEF freed, gain, fee, q, p, b, lost
<1>8. Became(a, b, m, q, gain, fee, lost)
    BY <1>4, <1>5, <1>6, <1>7 DEF Became
<1>9. Sound(b) /\ b.orders = a.orders /\ b.positions[m] = q
    BY <1>8, BecameSound
<1> QED
    BY <1>5, <1>9 DEF b, p

LEMMA OpenedSound ==
    ASSUME NEW a, Sound(a), NEW o \in Orders, NEW size \in Nat, NEW price \in Nat \ {0}, NEW margin \in Int,
           size # 0, a.positions[o.market].size = 0
    PROVE  Sound(Opened(a, o, size, price, margin)) /\ Opened(a, o, size, price, margin).orders = a.orders
<1> DEFINE m == o.market
           fee == Fee(price * size)
           q == [size |-> size, long |-> o.side = "buy", cost |-> price * size,
                 margin |-> margin, tp |-> o.tp, sl |-> o.sl]
           b == Opened(a, o, size, price, margin)
<1>1. a \in Accounts /\ m \in Markets /\ a.balance \in Int /\ a.realized \in Int /\ a.charged \in Int
      /\ a.dropped \in Int
    BY DEF Sound, Accounts, Orders
<1>2. a.positions[m].margin = 0
    BY <1>1 DEF Sound, Held
<1>3. fee \in Int /\ price * size \in Int /\ price * size > 0
    <2>1. price * size \in Int /\ price * size > 0
        OBVIOUS
    <2> QED
        BY <2>1, FeeType
<1>4. q \in Positions /\ q.size # 0 /\ q.margin = margin /\ Held(q)
    BY <1>3 DEF Positions, Orders, Held
<1>5. b = [a EXCEPT !.balance = a.balance - margin - fee, !.charged = a.charged + fee,
                    !.positions = [a.positions EXCEPT ![m] = q]]
    BY <1>1 DEF Opened, Accounts
<1> HIDE DEF fee, q, b, m
<1>6. b = [a EXCEPT !.positions = [a.positions EXCEPT ![m] = q],
                    !.balance = a.balance + (a.positions[m].margin - q.margin - 0) + 0 - fee,
                    !.realized = a.realized + 0, !.charged = a.charged + fee,
                    !.dropped = a.dropped + 0]
    <2>1. a.balance - margin - fee = a.balance + (a.positions[m].margin - q.margin - 0) + 0 - fee
          /\ a.realized + 0 = a.realized /\ a.dropped + 0 = a.dropped
        BY <1>1, <1>2, <1>3, <1>4
    <2> QED
        BY <1>1, <1>5, <2>1 DEF Accounts
<1>7. Became(a, b, m, q, 0, fee, 0)
    BY <1>3, <1>4, <1>6 DEF Became
<1>8. Sound(b) /\ b.orders = a.orders
    BY <1>1, <1>7, BecameSound
<1> QED
    BY <1>8 DEF b

LEMMA MergedSound ==
    ASSUME NEW a, Sound(a), NEW o \in Orders, NEW price \in Nat \ {0}, NEW margin \in Int,
           a.positions[o.market].size # 0
    PROVE  Sound(Merged(a, o, price, margin)) /\ Merged(a, o, price, margin).orders = a.orders
<1> DEFINE m == o.market
           fee == Fee(price * o.size)
           p == a.positions[m]
           q == [p EXCEPT !.size = p.size + o.size, !.cost = p.cost + price * o.size,
                          !.margin = p.margin + margin]
           b == Merged(a, o, price, margin)
<1>1. a \in Accounts /\ m \in Markets /\ a.balance \in Int /\ a.realized \in Int /\ a.charged \in Int
      /\ a.dropped \in Int
      /\ o.size \in Nat \ {0} /\ a.positions \in [Markets -> Positions]
    BY DEF Sound, Accounts, Orders
<1>2. p \in Positions /\ p.size \in Nat /\ p.margin \in Int /\ p.cost \in Int /\ p.cost >= 0
    <2>1. p \in Positions /\ Held(p) /\ p.size # 0
        BY <1>1 DEF Sound
    <2> HIDE DEF p
    <2> QED
        BY <2>1 DEF Positions, Held
<1>3. fee \in Int /\ price * o.size \in Int /\ price * o.size > 0
    <2>1. price * o.size \in Int /\ price * o.size > 0
        BY <1>1
    <2> QED
        BY <2>1, FeeType
<1>4. q \in Positions /\ q.size # 0 /\ q.margin = p.margin + margin /\ Held(q)
    <2>1. p.size + o.size \in Nat /\ p.size + o.size # 0 /\ p.cost + price * o.size \in Int
          /\ p.margin + margin \in Int /\ p.cost + price * o.size > 0
        BY <1>1, <1>2, <1>3
    <2> HIDE DEF p
    <2> QED
        BY <1>2, <2>1 DEF Positions, Held
<1>5. b = [a EXCEPT !.balance = a.balance - margin - fee, !.charged = a.charged + fee,
                    !.positions = [a.positions EXCEPT ![m] = q]]
    <2>1. b = [a EXCEPT !.balance = a.balance - margin - fee, !.charged = a.charged + fee,
                        !.positions = [a.positions EXCEPT ![m] = Grown(p, o.size, price, margin)]]
        BY <1>1 DEF Merged, Accounts
    <2>2. Grown(p, o.size, price, margin) = q
        <3> HIDE DEF p
        <3> QED
            BY <1>2 DEF Positions, Grown
    <2> QED
        BY <2>1, <2>2
<1>6. a.positions[m].margin = p.margin
    OBVIOUS
<1> HIDE DEF fee, q, b, m, p
<1>7. b = [a EXCEPT !.positions = [a.positions EXCEPT ![m] = q],
                    !.balance = a.balance + (a.positions[m].margin - q.margin - 0) + 0 - fee,
                    !.realized = a.realized + 0, !.charged = a.charged + fee,
                    !.dropped = a.dropped + 0]
    <2>1. a.balance - margin - fee = a.balance + (a.positions[m].margin - q.margin - 0) + 0 - fee
          /\ a.realized + 0 = a.realized /\ a.dropped + 0 = a.dropped
        <3>1. /\ a.balance \in Int /\ a.realized \in Int /\ a.dropped \in Int
              /\ p.margin \in Int /\ fee \in Int
            BY <1>1, <1>2, <1>3
        <3> QED
            BY <1>4, <1>6, <3>1
    <2> QED
        BY <1>1, <1>5, <2>1 DEF Accounts
<1>8. Became(a, b, m, q, 0, fee, 0)
    BY <1>3, <1>4, <1>7 DEF Became
<1>9. Sound(b) /\ b.orders = a.orders
    BY <1>1, <1>8, BecameSound
<1> QED
    BY <1>9 DEF b

LEMMA ReversedSound ==
    ASSUME NEW a, Sound(a), NEW o \in Orders, NEW price \in Nat \ {0}, a.positions[o.market].size # 0
    PROVE  Sound(Reversed(a, o, price)) /\ Reversed(a, o, price).orders = a.orders
<1> DEFINE m == o.market
           size == Least(a.positions[m].size, o.size)
           rest == o.size - size
           margin == (price * rest) \div o.leverage
           a1 == Settled(a, m, size, price)
<1>1. m \in Markets /\ o.size \in Nat \ {0} /\ o.leverage \in Nat \ {0} /\ a.positions[m].size \in Nat
    BY DEF Sound, Accounts, Orders, Positions
<1>2. /\ size \in Nat \ {0} /\ size <= a.positions[m].size /\ rest \in Nat
      /\ rest # 0 => size = a.positions[m].size
    BY <1>1 DEF Least
<1> HIDE DEF size
<1>3. Sound(a1) /\ a1.orders = a.orders /\ (rest # 0 => a1.positions[m] = NoPosition)
    BY <1>1, <1>2, SettledSound
<1>4. margin \in Int
    <2>1. price * rest \in Int
        BY <1>2
    <2> HIDE DEF rest
    <2> QED
        BY <1>1, <2>1, Quotients
<1>5. Reversed(a, o, price) \in {a1, Opened(a1, o, rest, price, margin)}
      /\ (rest = 0 => Reversed(a, o, price) = a1)
    BY <1>2, PaperAssumption DEF Reversed, size
<1> HIDE DEF margin, a1, rest
<1>6. ASSUME rest # 0
      PROVE  Sound(Opened(a1, o, rest, price, margin))
             /\ Opened(a1, o, rest, price, margin).orders = a1.orders
    <2>1. a1.positions[o.market].size = 0
        BY <1>3, <1>6 DEF NoPosition, m
    <2> QED
        BY <1>2, <1>3, <1>4, <1>6, <2>1, OpenedSound
<1> QED
    BY <1>3, <1>5, <1>6

LEMMA MarketOrderSound ==
    ASSUME NEW a, Sound(a), NEW o \in Orders, NEW price \in Nat \ {0}
    PROVE  Sound(MarketOrder(a, o, price)) /\ MarketOrder(a, o, price).orders = a.orders
<1> DEFINE p == a.positions[o.market]
           margin == Most(TieredMargin(price * o.size), (price * o.size) \div o.leverage)
           cost == margin + Fee(price * o.size)
<1>1. o.market \in Markets /\ o.size \in Nat \ {0} /\ o.leverage \in Nat \ {0} /\ p.size \in Nat
      /\ a.balance \in Int
    BY DEF Sound, Accounts, Orders, Positions
<1>2. margin \in Int /\ cost \in Int
    <2>1. price * o.size \in Int
        BY <1>1
    <2>2. TieredMargin(price * o.size) \in Int /\ (price * o.size) \div o.leverage \in Int
          /\ Fee(price * o.size) \in Int
        BY <1>1, <2>1, TieredMarginType, Quotients, FeeType
    <2> QED
        BY <2>2 DEF Most
<1>3. MarketOrder(a, o, price) =
        CASE cost > a.balance -> a
          [] cost <= a.balance /\ p.size > 0 ->
               IF p.long = (o.side = "buy") THEN Merged(a, o, price, margin) ELSE Reversed(a, o, price)
          [] OTHER -> Opened(a, o, o.size, price, margin)
    BY DEF MarketOrder
<1> HIDE DEF margin, cost
<1>4. CASE cost > a.balance
    <2>1. MarketOrder(a, o, price) = a
        BY <1>1, <1>2, <1>3, <1>4
    <2> QED
        BY <2>1
<1>5. CASE cost <= a.balance /\ p.size # 0
    <2>1. MarketOrder(a, o, price) \in {Merged(a, o, price, margin), Reversed(a, o, price)}
        BY <1>1, <1>2, <1>3, <1>5
    <2>2. Sound(Merged(a, o, price, margin)) /\ Merged(a, o, price, margin).orders = a.orders
        BY <1>2, <1>5, MergedSound
    <2>3. Sound(Reversed(a, o, price)) /\ Reversed(a, o, price).orders = a.orders
        BY <1>5, ReversedSound
    <2> QED
        BY <2>1, <2>2, <2>3
<1>6. CASE cost <= a.balance /\ p.size = 0
    <2>1. MarketOrder(a, o, price) = Opened(a, o, o.size, price, margin)
        BY <1>1, <1>2, <1>3, <1>6
    <2> QED
        BY <1>1, <1>2, <1>6, <2>1, OpenedSound
<1> QED
    BY <1>1, <1>2, <1>4, <1>5, <1>6

LEMMA ClosePositionSound ==
    ASSUME NEW a, Sound(a), NEW m \in Markets, NEW price \in Nat
    PROVE  Sound(ClosePosition(a, m, price)) /\ ClosePosition(a, m, price).orders = a.orders
<1>1. a.positions[m].size \in Nat /\ a.positions[m].size <= a.positions[m].size
    BY DEF Sound, Accounts, Positions
<1>2. CASE a.positions[m].size = 0
    BY <1>2 DEF ClosePosition
<1>3. CASE a.positions[m].size # 0
    <2>1. a.positions[m].size \in Nat \ {0}
        BY <1>1, <1>3
    <2> QED
        BY <1>1, <1>3, <2>1, SettledSound DEF ClosePosition
<1> QED
    BY <1>2, <1>3

LEMMA UpdateTpSlSound ==
    ASSUME NEW a, Sound(a), NEW m \in Markets, NEW tp \in Nat, NEW sl \in Nat
    PROVE  Sound(UpdateTpSl(a, m, tp, sl)) /\ UpdateTpSl(a, m, tp, sl).orders = a.orders
<1>1. CASE a.positions[m].size = 0
    BY <1>1 DEF UpdateTpSl
<1>2. CASE a.positions[m].size # 0
    <2> DEFINE b == UpdateTpSl(a, m, tp, sl)
               p == a.positions[m]
               q == [p EXCEPT !.tp = tp, !.sl = sl]
    <2>1. a \in Accounts /\ p \in Positions /\ a.balance \in Int /\ a.realized \in Int
          /\ a.charged \in Int /\ a.dropped \in Int /\ a.positions \in [Markets -> Positions]
        BY DEF Sound, Accounts
    <2>2. q \in Positions /\ q.margin = p.margin /\ Held(q) /\ p.margin \in Int
        <3>1. Held(p)
            BY DEF Sound
        <3> HIDE DEF p
        <3> QED
            BY <2>1, <3>1 DEF Positions, Held
    <2>3. b = [a EXCEPT !.positions = [a.positions EXCEPT ![m] = q]]
        <3>1. b = [a EXCEPT !.positions[m].tp = tp, !.positions[m].sl = sl]
            BY <1>2 DEF UpdateTpSl
        <3> QED
            BY <2>1, <3>1 DEF Accounts, Positions
    <2>4. a.positions[m] = p
        OBVIOUS
    <2> HIDE DEF b, p, q
    <2>5. b = [a EXCEPT !.positions = [a.positions EXCEPT ![m] = q],
                    !.balance = a.balance + (a.positions[m].margin - q.margin - 0) + 0 - 0,
                    !.realized = a.realized + 0, !.charged = a.charged + 0,
                    !.dropped = a.dropped + 0]
        <3>1. /\ a.balance = a.balance + (a.positions[m].margin - q.margin - 0) + 0 - 0
              /\ a.realized + 0 = a.realized /\ a.charged + 0 = a.charged
              /\ a.dropped + 0 = a.dropped
            BY <2>1, <2>2, <2>4
        <3> QED
            BY <2>1, <2>3, <3>1 DEF Accounts
    <2>6. Became(a, b, m, q, 0, 0, 0)
        BY <2>2, <2>5 DEF Became
    <2>7. Sound(b) /\ b.orders = a.orders
        BY <2>6, BecameSound
    <2> QED
        BY <2>7 DEF b
<1> QED
    BY <1>1, <1>2

-----------------------------------------------------------------------------
(* Orders come and go, and positions stay *)

\* The account b is a with other orders, whose margins are free or reserved.
Reordered(a, b, orders) ==
  /\ orders \in Seq(Orders) /\ \A o \in Members(orders) : o.type # "market" /\ Priced(o)
  /\ b = [a EXCEPT !.balance = a.balance + (ReservedBy(a.orders) - ReservedBy(orders)),
                   !.orders = orders]

LEMMA ReorderedSound ==
    ASSUME NEW a, Sound(a), NEW b, NEW orders, Reordered(a, b, orders)
    PROVE  Sound(b) /\ b.orders = orders /\ b.positions = a.positions
<1>1. a \in Accounts /\ a.balance \in Int /\ a.wallet \in Int /\ a.realized \in Int /\ a.charged \in Int
      /\ a.dropped \in Int /\ a.positions \in [Markets -> Positions] /\ a.orders \in Seq(Orders) /\ orders \in Seq(Orders)
    BY DEF Sound, Accounts, Reordered
<1>2. ReservedBy(a.orders) \in Int /\ ReservedBy(orders) \in Int
    BY <1>1, ReservedWeight, WeightType
<1>3. MarginOf(a) \in Int
    BY <1>1, MarginsSum, SumOverInt
<1> DEFINE balance == a.balance + (ReservedBy(a.orders) - ReservedBy(orders))
<1>4. balance \in Int
    BY <1>1, <1>2
<1>5. b = [a EXCEPT !.balance = balance, !.orders = orders]
    BY DEF Reordered
<1>6. balance = a.balance + (ReservedBy(a.orders) - ReservedBy(orders))
    OBVIOUS
<1> HIDE DEF balance
<1>7. /\ b \in Accounts /\ b.balance = balance /\ b.orders = orders /\ b.positions = a.positions
      /\ b.wallet = a.wallet /\ b.realized = a.realized /\ b.charged = a.charged /\ b.dropped = a.dropped
    BY <1>1, <1>4, <1>5 DEF Accounts
<1>8. MarginOf(b) = MarginOf(a)
    BY <1>7 DEF MarginOf
<1>9. Conserved(b)
    <2>1. a.wallet + a.balance + MarginOf(a) + ReservedBy(a.orders) + a.dropped
            = InitialWallet + InitialBalance + a.realized - a.charged
        BY DEF Sound, Conserved
    <2>2. InitialWallet \in Int /\ InitialBalance \in Int
        BY PaperAssumption
    <2>3. b.wallet + b.balance + MarginOf(b) + ReservedBy(b.orders) + b.dropped
            = InitialWallet + InitialBalance + b.realized - b.charged
        <3>1. /\ a.balance \in Int /\ a.wallet \in Int /\ a.realized \in Int /\ a.charged \in Int
              /\ a.dropped \in Int
            BY <1>1
        <3>2. b.wallet + b.balance + MarginOf(b) + ReservedBy(b.orders) + b.dropped
                = a.wallet + balance + MarginOf(a) + ReservedBy(orders) + a.dropped
            BY <1>7, <1>8
        <3>3. b.realized = a.realized /\ b.charged = a.charged
            BY <1>7
        <3> QED
            BY <1>2, <1>3, <1>6, <2>1, <2>2, <3>1, <3>2, <3>3
    <2> QED
        BY <2>3 DEF Conserved
<1> QED
    BY <1>7, <1>9 DEF Sound, Reordered

LEMMA LimitOrderSound ==
    ASSUME NEW a, Sound(a), NEW o \in Orders, NEW price, o.type # "market", Priced(o)
    PROVE  /\ Sound(LimitOrder(a, o, price))
           /\ LimitOrder(a, o, price).orders \in {a.orders, Append(a.orders, o)}
<1> DEFINE b == LimitOrder(a, o, price)
           orders == Append(a.orders, o)
<1>1. a \in Accounts /\ a.orders \in Seq(Orders) /\ a.balance \in Int
    BY DEF Sound, Accounts
<1>2. b = a \/ b = [a EXCEPT !.balance = a.balance - Reserved(o), !.orders = orders]
    BY <1>1 DEF LimitOrder, Accounts
<1>3. CASE b = a
    BY <1>3
<1>4. CASE b = [a EXCEPT !.balance = a.balance - Reserved(o), !.orders = orders]
    <2>1. orders \in Seq(Orders)
        BY <1>1
    <2>2. ReservedBy(a.orders) \in Int /\ ReservedBy(orders) = ReservedBy(a.orders) + Reserved(o)
          /\ Reserved(o) \in Int
        BY <1>1, <2>1, ReservedWeight, WeightMore
    <2>6. \A q \in Members(orders) : q.type # "market" /\ Priced(q)
        <3>1. Members(orders) = Members(a.orders) \union {o}
            BY <1>1, MembersMore
        <3> QED
            BY <3>1 DEF Sound
    <2> HIDE DEF b, orders
    <2>3. a.balance - Reserved(o) = a.balance + (ReservedBy(a.orders) - ReservedBy(orders))
        BY <1>1, <2>2
    <2>4. Reordered(a, b, orders)
        BY <1>4, <2>1, <2>3, <2>6 DEF Reordered
    <2>5. Sound(b) /\ b.orders = orders
        BY <2>4, ReorderedSound
    <2> QED
        BY <2>5 DEF b, orders
<1> QED
    BY <1>2, <1>3, <1>4

\* What stays when the order o leaves: the others, but for its group.
Staying(s, o) == {q \in Range(s) : q.id # o.id /\ (o.group = 0 \/ q.group # o.group)}

LEMMA RangeIsMembers ==
    ASSUME NEW T, NEW s \in Seq(T)
    PROVE  Range(s) = Members(s)
<1>1. DOMAIN s = 1..Len(s)
    OBVIOUS
<1> QED
    BY <1>1 DEF Range, Members

LEMMA WithoutSound ==
    ASSUME NEW a, Sound(a), DistinctIds(a.orders), NEW o \in Members(a.orders)
    PROVE  /\ Sound(Without(a, o)) /\ Without(a, o).positions = a.positions
           /\ DistinctIds(Without(a, o).orders)
           /\ Members(Without(a, o).orders) = Staying(a.orders, o)
<1> DEFINE s == a.orders
           R == Range(s)
           A == {o}
           B == {q \in R : q.id # o.id /\ o.group # 0 /\ q.group = o.group}
           C == Staying(s, o)
           b == Without(a, o)
<1>1. a \in Accounts /\ s \in Seq(Orders) /\ a.balance \in Int
    BY DEF Sound, Accounts
<1>2. R = Members(s) /\ R \subseteq Orders /\ o \in R
    <2>1. R = Members(s)
        BY <1>1, RangeIsMembers
    <2>2. Members(s) \subseteq Orders
        BY <1>1 DEF Members
    <2> QED
        BY <2>1, <2>2
<1>3. \A q \in R : q.id = o.id => q = o
    BY <1>2, DistinctMembers
<1>4. \A q \in R : InJustOne(q, A, B, C)
    BY <1>3 DEF InJustOne, Staying
<1>5. s \in Seq(R)
    <2>1. \A i \in 1..Len(s) : s[i] \in R
        BY <1>2 DEF Members
    <2> HIDE DEF R, s
    <2> QED
        BY <1>1, <2>1
<1>6. \A q \in R : ReservedOn[q] \in Int
    BY <1>2, ReservedWeight
<1>7. b = [a EXCEPT !.balance = a.balance + Reserved(o) + ReservedBy(OnlyIn(s, B)),
                    !.orders = OnlyIn(s, C)]
    BY <1>1 DEF Without, Siblings, Staying, Accounts
<1>8. C \subseteq R
    BY DEF Staying
<1> HIDE DEF s, R, A, B, C, b
<1>9. WeightOf(s, ReservedOn) = WeightOf(OnlyIn(s, A), ReservedOn) + WeightOf(OnlyIn(s, B), ReservedOn)
                                  + WeightOf(OnlyIn(s, C), ReservedOn)
    BY <1>4, <1>5, <1>6, WeightSplits
<1>10. WeightOf(OnlyIn(s, A), ReservedOn) = Reserved(o)
    <2>1. OnlyIn(s, A) = <<o>>
        BY <1>1, <1>2, OnlyInOne DEF s, A
    <2>2. o \in Orders /\ <<>> \in Seq(Orders) /\ <<o>> = Append(<<>>, o)
        BY <1>2
    <2>3. WeightOf(<<o>>, ReservedOn) = 0 + ReservedOn[o]
        <3>1. WeightOf(Append(<<>>, o), ReservedOn) = WeightOf(<<>>, ReservedOn) + ReservedOn[o]
            BY <2>2, ReservedWeight, WeightMore
        <3> QED
            BY <2>2, <3>1, WeightOfNone
    <2>4. ReservedOn[o] = Reserved(o) /\ Reserved(o) \in Int
        BY <2>2, ReservedWeight
    <2> QED
        BY <2>1, <2>3, <2>4
<1>11. /\ OnlyIn(s, B) \in Seq(Orders) /\ OnlyIn(s, C) \in Seq(Orders)
       /\ Members(OnlyIn(s, C)) = Members(s) \cap C
    BY <1>1, OnlyInType
<1>12. /\ ReservedBy(s) = WeightOf(s, ReservedOn)
       /\ ReservedBy(OnlyIn(s, B)) = WeightOf(OnlyIn(s, B), ReservedOn)
       /\ ReservedBy(OnlyIn(s, C)) = WeightOf(OnlyIn(s, C), ReservedOn)
    BY <1>1, <1>11, ReservedWeight
<1>13. /\ WeightOf(OnlyIn(s, B), ReservedOn) \in Int /\ WeightOf(OnlyIn(s, C), ReservedOn) \in Int
       /\ Reserved(o) \in Int
    BY <1>2, <1>11, ReservedWeight, WeightType
<1>14. a.balance + Reserved(o) + ReservedBy(OnlyIn(s, B))
          = a.balance + (ReservedBy(s) - ReservedBy(OnlyIn(s, C)))
    BY <1>1, <1>9, <1>10, <1>12, <1>13
<1>15. Reordered(a, b, OnlyIn(s, C))
    <2>1. \A q \in Members(OnlyIn(s, C)) : q.type # "market" /\ Priced(q)
        BY <1>11 DEF Sound, s
    <2> QED
        BY <1>7, <1>11, <1>14, <2>1 DEF Reordered, s
<1>16. Sound(b) /\ b.orders = OnlyIn(s, C) /\ b.positions = a.positions
    BY <1>15, ReorderedSound
<1>17. DistinctIds(OnlyIn(s, C))
    BY <1>1, OnlyInDistinct DEF s
<1>18. Members(b.orders) = C
    BY <1>2, <1>8, <1>11, <1>16
<1> QED
    BY <1>16, <1>17, <1>18 DEF b, C, s

\* A filled order is a cancelled one and then a market order, or it was gone.
LEMMA FillLimitSound ==
    ASSUME NEW a, Sound(a), DistinctIds(a.orders), NEW o \in Orders, NEW price \in Nat \ {0},
           \A q \in Members(a.orders) : q.id = o.id => q = o
    PROVE  LET b == FillLimit(a, o, price)
           IN  /\ Sound(b) /\ DistinctIds(b.orders)
               /\ Members(b.orders) = IF o \in Members(a.orders) THEN Staying(a.orders, o)
                                      ELSE Members(a.orders)
<1>1. DOMAIN a.orders = 1..Len(a.orders)
    BY DEF Sound, Accounts
<1>2. CASE o \in Members(a.orders)
    <2>1. \E i \in DOMAIN a.orders : a.orders[i].id = o.id
        BY <1>1, <1>2 DEF Members
    <2>2. FillLimit(a, o, price) = MarketOrder(Without(a, o), o, price)
        BY <2>1 DEF FillLimit
    <2>3. Sound(Without(a, o)) /\ DistinctIds(Without(a, o).orders)
          /\ Members(Without(a, o).orders) = Staying(a.orders, o)
        BY <1>2, WithoutSound
    <2> QED
        BY <1>2, <2>2, <2>3, MarketOrderSound
<1>3. CASE o \notin Members(a.orders)
    <2>1. ~ \E i \in DOMAIN a.orders : a.orders[i].id = o.id
        BY <1>1, <1>3 DEF Members
    <2>2. FillLimit(a, o, price) = a
        BY <2>1 DEF FillLimit
    <2> QED
        BY <1>3, <2>2
<1> QED
    BY <1>2, <1>3

LEMMA MovedSound ==
    ASSUME NEW a, Sound(a), NEW amount \in Int
    PROVE  /\ Sound(Deposit(a, amount)) /\ Deposit(a, amount).orders = a.orders
           /\ Sound(Withdraw(a, amount)) /\ Withdraw(a, amount).orders = a.orders
<1>1. a \in Accounts /\ a.balance \in Int /\ a.wallet \in Int /\ a.realized \in Int /\ a.charged \in Int
      /\ a.dropped \in Int /\ a.positions \in [Markets -> Positions] /\ a.orders \in Seq(Orders)
    BY DEF Sound, Accounts
<1>2. ASSUME NEW amt \in Int, NEW b,
             b = [a EXCEPT !.wallet = a.wallet - amt, !.balance = a.balance + amt]
      PROVE  Sound(b) /\ b.orders = a.orders
    <2>1. /\ b \in Accounts /\ b.balance = a.balance + amt /\ b.orders = a.orders
          /\ b.positions = a.positions /\ b.wallet = a.wallet - amt
          /\ b.realized = a.realized /\ b.charged = a.charged /\ b.dropped = a.dropped
        <3>1. a.wallet - amt \in Int /\ a.balance + amt \in Int
            BY <1>1, <1>2
        <3> QED
            BY <1>1, <1>2, <3>1 DEF Accounts
    <2>2. MarginOf(b) = MarginOf(a) /\ MarginOf(a) \in Int /\ ReservedBy(a.orders) \in Int
        <3>1. MarginOf(b) = MarginOf(a)
            BY <2>1 DEF MarginOf
        <3>2. MarginOf(a) \in Int
            BY <1>1, MarginsSum, SumOverInt
        <3>3. ReservedBy(a.orders) \in Int
            BY <1>1, ReservedWeight, WeightType
        <3> QED
            BY <3>1, <3>2, <3>3
    <2>3. a.wallet + a.balance + MarginOf(a) + ReservedBy(a.orders) + a.dropped
            = InitialWallet + InitialBalance + a.realized - a.charged
        BY DEF Sound, Conserved
    <2>4. b.wallet + b.balance + MarginOf(b) + ReservedBy(b.orders) + b.dropped
            = InitialWallet + InitialBalance + b.realized - b.charged
        BY <1>1, <2>1, <2>2, <2>3
    <2> QED
        BY <2>1, <2>4 DEF Sound, Conserved
<1>3. Sound(Deposit(a, amount)) /\ Deposit(a, amount).orders = a.orders
    <2> DEFINE amt == Least(amount, a.wallet)
    <2>1. amt \in Int
        BY <1>1 DEF Least
    <2>2. Deposit(a, amount) \in {a, [a EXCEPT !.wallet = a.wallet - amt, !.balance = a.balance + amt]}
        BY <1>1 DEF Deposit, Accounts
    <2> HIDE DEF amt
    <2> QED
        BY <1>2, <2>1, <2>2
<1>4. Sound(Withdraw(a, amount)) /\ Withdraw(a, amount).orders = a.orders
    <2> DEFINE amt == Least(amount, a.balance)
    <2>1. amt \in Int
        BY <1>1 DEF Least
    <2>2. Withdraw(a, amount) \in {a, [a EXCEPT !.wallet = a.wallet + amt, !.balance = a.balance - amt]}
        BY <1>1 DEF Withdraw, Accounts
    <2> HIDE DEF amt
    <2>3. -amt \in Int /\ a.wallet - (-amt) = a.wallet + amt /\ a.balance + (-amt) = a.balance - amt
        BY <1>1, <2>1
    <2>4. ASSUME NEW b, b = [a EXCEPT !.wallet = a.wallet + amt, !.balance = a.balance - amt]
          PROVE  Sound(b) /\ b.orders = a.orders
        <3>1. b = [a EXCEPT !.wallet = a.wallet - (-amt), !.balance = a.balance + (-amt)]
            BY <2>3, <2>4
        <3> QED
            BY <1>2, <2>3, <3>1
    <2> QED
        BY <2>2, <2>4
<1> QED
    BY <1>3, <1>4

LEMMA NewAccountSound ==
    Sound(NewAccount) /\ NewAccount.orders = <<>>
<1> DEFINE a == NewAccount
<1>1. InitialWallet \in Int /\ InitialBalance \in Int /\ IsFiniteSet(Markets)
    BY PaperAssumption
<1>2. NoPosition \in Positions /\ NoPosition.margin = 0 /\ Held(NoPosition)
    BY DEF NoPosition, Positions, Held
<1>3. /\ a \in Accounts /\ a.positions = [m \in Markets |-> NoPosition] /\ a.orders = <<>>
      /\ a.wallet = InitialWallet /\ a.balance = InitialBalance /\ a.realized = 0 /\ a.charged = 0
      /\ a.dropped = 0
    <2>1. [m \in Markets |-> NoPosition] \in [Markets -> Positions] /\ <<>> \in Seq(Orders)
        BY <1>2
    <2> QED
        BY <1>1, <2>1 DEF NewAccount, Accounts
<1> HIDE DEF a
<1>4. MarginOf(a) = 0
    <2>1. a.positions \in [Markets -> Positions]
        BY <1>3 DEF Accounts
    <2>2. MarginOf(a) = SumOver(Margins(a), Markets) /\ Weighs(Margins(a), Markets)
        BY <2>1, MarginsSum
    <2>3. \A m \in Markets : Margins(a)[m] = 0
        BY <1>2, <1>3 DEF Margins
    <2> QED
        BY <1>1, <2>2, <2>3, SumOverZeros
<1>5. ReservedBy(<<>>) = 0
    <2>1. <<>> \in Seq(Orders)
        OBVIOUS
    <2> QED
        BY <2>1, ReservedWeight, WeightOfNone
<1>6. Conserved(a)
    BY <1>1, <1>3, <1>4, <1>5 DEF Conserved
<1>7. Sound(a)
    <2>1. Members(a.orders) = {}
        BY <1>3, NoMembers
    <2> QED
        BY <1>2, <1>3, <1>6, <2>1 DEF Sound
<1> QED
    BY <1>3, <1>7 DEF a

-----------------------------------------------------------------------------
(* The effects of a price: a fold over the orders, and one over the markets *)

\* Of any two orders of s in one group both are in t, or none.
LeaveTogether(s, t) ==
  \A p, q \in Members(s) :
      p.group # 0 /\ p.group = q.group =>
          ((\E r \in Members(t) : r.id = p.id) <=> (\E r \in Members(t) : r.id = q.id))

\* What the account a may be while its orders are filled.
Filled(a) ==
  {b \in Accounts : /\ Sound(b) /\ DistinctIds(b.orders)
                    /\ Members(b.orders) \subseteq Members(a.orders)
                    /\ \A p, q \in Members(a.orders) :
                           p.group # 0 /\ p.group = q.group =>
                               (p \in Members(b.orders) <=> q \in Members(b.orders))}

FilledOne(acc, o, at) ==
  IF Triggered(o, at) THEN FillLimit(acc, o, IF o.type = "stopMarket" THEN at ELSE o.price)
  ELSE acc

FillsFrom(h, a, at) ==
  h = [s \in SUBSET DOMAIN a.orders |->
          IF s = {} THEN a ELSE FilledOne(h[s \ {Max(s)}], a.orders[Max(s)], at)]

LEMMA FilledOneStays ==
    ASSUME NEW a, Sound(a), DistinctIds(a.orders), NEW at \in Nat \ {0},
           NEW acc \in Filled(a), NEW o \in Members(a.orders)
    PROVE  FilledOne(acc, o, at) \in Filled(a)
<1> DEFINE price == IF o.type = "stopMarket" THEN at ELSE o.price
           b == FillLimit(acc, o, price)
<1>1. /\ acc \in Accounts /\ Sound(acc) /\ DistinctIds(acc.orders)
      /\ Members(acc.orders) \subseteq Members(a.orders)
      /\ \A p, q \in Members(a.orders) :
             p.group # 0 /\ p.group = q.group => (p \in Members(acc.orders) <=> q \in Members(acc.orders))
    BY DEF Filled
<1>2. o \in Orders /\ price \in Nat \ {0}
    <2>1. a.orders \in Seq(Orders)
        BY DEF Sound, Accounts
    <2>2. o \in Orders
        BY <2>1 DEF Members
    <2>3. o.type # "market" /\ Priced(o)
        BY DEF Sound
    <2> QED
        BY <2>2, <2>3 DEF Orders, Priced
<1>3. \A q \in Members(a.orders) : q.id = o.id => q = o
    BY DistinctMembers
<1> HIDE DEF price
<1>4. /\ Sound(b) /\ DistinctIds(b.orders)
      /\ Members(b.orders) = IF o \in Members(acc.orders) THEN Staying(acc.orders, o)
                             ELSE Members(acc.orders)
    BY <1>1, <1>2, <1>3, FillLimitSound
<1>5. Range(acc.orders) = Members(acc.orders)
    BY <1>1, RangeIsMembers DEF Accounts
<1> HIDE DEF b
<1>6. Members(b.orders) \subseteq Members(acc.orders)
    BY <1>4, <1>5 DEF Staying
<1>7. ASSUME NEW p \in Members(a.orders), NEW q \in Members(a.orders),
             p.group # 0, p.group = q.group, p \in Members(b.orders)
      PROVE  q \in Members(b.orders)
    <2>1. p \in Members(acc.orders) /\ q \in Members(acc.orders)
        BY <1>1, <1>6, <1>7
    <2>2. CASE o \in Members(acc.orders)
        <3>1. p.id # o.id /\ (o.group = 0 \/ p.group # o.group)
            BY <1>4, <1>7, <2>2 DEF Staying
        <3>2. o.group = 0 \/ q.group # o.group
            BY <1>7, <3>1
        <3>3. q.id # o.id
            BY <1>3, <1>7, <3>1, <3>2
        <3> QED
            BY <1>4, <1>5, <2>1, <2>2, <3>2, <3>3 DEF Staying
    <2>3. CASE o \notin Members(acc.orders)
        BY <1>4, <2>1, <2>3
    <2> QED
        BY <2>2, <2>3
<1>8. b \in Filled(a)
    <2>1. b \in Accounts
        BY <1>4 DEF Sound
    <2>2. \A p, q \in Members(a.orders) :
             p.group # 0 /\ p.group = q.group => (p \in Members(b.orders) <=> q \in Members(b.orders))
        BY <1>7
    <2> QED
        BY <1>1, <1>4, <1>6, <2>1, <2>2 DEF Filled
<1>9. FilledOne(acc, o, at) \in {b, acc}
    BY DEF FilledOne, b, price
<1> QED
    BY <1>8, <1>9

LEMMA FillOrdersSound ==
    ASSUME NEW a, Sound(a), DistinctIds(a.orders), NEW at \in Nat \ {0}
    PROVE  FillOrders(a, at) \in Filled(a)
<1> DEFINE s == a.orders
           T == Members(s)
           W == Filled(a)
           k == CHOOSE h : FillsFrom(h, a, at)
           G == [p \in W \X T |-> FilledOne(p[1], p[2], at)]
           n == Len(s)
<1>1. FillOrders(a, at) = k[DOMAIN s]
    BY DEF FillOrders, FoldLeft, MapThenFoldSet, FillsFrom, FilledOne
<1>2. n \in Nat /\ DOMAIN s = 1..n /\ s \in [1..n -> T]
    <2>1. s \in Seq(Orders)
        BY DEF Sound, Accounts
    <2> HIDE DEF s
    <2> QED
        BY <2>1 DEF Members
<1>3. a \in W
    BY DEF Filled, Sound
<1>4. G \in [W \X T -> W]
    BY FilledOneStays
<1>5. \A acc \in W : \A o \in T : FilledOne(acc, o, at) \in W /\ G[<<acc, o>>] = FilledOne(acc, o, at)
    BY FilledOneStays
<1> HIDE DEF s, T, W, k, G, n
<1>6. FillsFrom(k, a, at)
    <2>1. PICK h : FoldOf(h, G, a, s, n, W)
        <3>1. Foldable(G, a, s, n, W)
            BY <1>2, <1>3, <1>4, FoldExists
        <3> QED
            BY <3>1 DEF Foldable
    <2>2. ASSUME NEW r \in SUBSET (1..n), r # {}
          PROVE  G[<<h[r \ {Highest(r)}], s[Highest(r)]>>] = FilledOne(h[r \ {Max(r)}], s[Max(r)], at)
        <3>1. Highest(r) = Max(r)
            BY DEF Highest, Max
        <3>2. Highest(r) \in 1..n /\ r \ {Highest(r)} \in SUBSET (1..n)
            BY <1>2, <2>2, HighestIn
        <3>3. h[r \ {Highest(r)}] \in W /\ s[Highest(r)] \in T
            BY <1>2, <2>1, <3>2 DEF FoldOf
        <3> QED
            BY <1>5, <3>1, <3>3
    <2>3. FillsFrom(h, a, at)
        BY <1>2, <2>1, <2>2 DEF FillsFrom, FoldOf, Folds, s
    <2> QED
        BY <2>3 DEF k
<1>7. k[{}] \in W
    BY <1>3, <1>6 DEF FillsFrom
<1>8. ASSUME NEW i \in 1..n, k[1..(i - 1)] \in W PROVE k[1..i] \in W
    <2>1. 1..i \in SUBSET (1..n) /\ i \in 1..i /\ i \in Nat /\ i # 0
        BY <1>2
    <2>2. Highest(1..i) = i /\ (1..i) \ {i} = 1..(i - 1)
        BY <2>1, HighestOfRange
    <2>3. Max(1..i) = i
        BY <2>2 DEF Highest, Max
    <2>4. k[1..i] = FilledOne(k[1..(i - 1)], s[i], at)
        BY <1>2, <1>6, <2>1, <2>2, <2>3 DEF FillsFrom, s
    <2>5. s[i] \in T
        BY <1>2, <2>1
    <2> QED
        BY <1>5, <1>8, <2>4, <2>5
<1>9. k[1..n] \in W
    BY <1>2, <1>7, <1>8, FoldStays
<1> QED
    BY <1>1, <1>2, <1>9 DEF W

\* What the account a may be while its positions are looked at: the orders stay.
Exited(a) == {b \in Accounts : Sound(b) /\ b.orders = a.orders}

ExitOne(acc, m, at) ==
  IF ExitPrice(acc.positions[m], at) > 0
  THEN ClosePosition(acc, m, ExitPrice(acc.positions[m], at)) ELSE acc

ExitsFrom(h, a, at) ==
  h = [s \in SUBSET DOMAIN SetToSeq(Markets) |->
          IF s = {} THEN a ELSE ExitOne(h[s \ {Max(s)}], SetToSeq(Markets)[Max(s)], at)]

LEMMA ExitOneStays ==
    ASSUME NEW a, NEW at, NEW acc \in Exited(a), NEW m \in Markets
    PROVE  ExitOne(acc, m, at) \in Exited(a)
<1>1. acc \in Accounts /\ Sound(acc) /\ acc.orders = a.orders /\ acc.positions[m] \in Positions
    BY DEF Exited, Accounts
<1> DEFINE p == acc.positions[m]
           price == ExitPrice(p, at)
<1>2. price \in Nat
    <2>1. price \in {p.tp, p.sl, 0}
        BY DEF ExitPrice
    <2> QED
        BY <1>1, <2>1 DEF Positions
<1> HIDE DEF p, price
<1>3. Sound(ClosePosition(acc, m, price)) /\ ClosePosition(acc, m, price).orders = acc.orders
    BY <1>1, <1>2, ClosePositionSound
<1>4. ExitOne(acc, m, at) \in {acc, ClosePosition(acc, m, price)}
    BY DEF ExitOne, price, p
<1> QED
    BY <1>1, <1>3, <1>4 DEF Exited, Sound

LEMMA CheckTpSlSound ==
    ASSUME NEW a, Sound(a), NEW at
    PROVE  CheckTpSl(a, at) \in Exited(a)
<1> DEFINE s == SetToSeq(Markets)
           T == Markets
           W == Exited(a)
           k == CHOOSE h : ExitsFrom(h, a, at)
           G == [p \in W \X T |-> ExitOne(p[1], p[2], at)]
           n == Cardinality(Markets)
<1>1. CheckTpSl(a, at) = k[DOMAIN s]
    BY DEF CheckTpSl, FoldLeft, MapThenFoldSet, ExitsFrom, ExitOne
<1>2. n \in Nat /\ DOMAIN s = 1..n /\ s \in [1..n -> T]
    <2>1. n \in Nat /\ IsFiniteSet(Markets)
        BY PaperAssumption, FS_CardinalityType
    <2>2. \E f \in [1..n -> Markets] : IsInjective(f)
        <3>1. ExistsBijection(1..n, Markets)
            BY <2>1, FS_CardinalityType
        <3> QED
            BY <3>1 DEF ExistsBijection, Bijection, Injection, IsInjective
    <2>3. s \in [1..n -> Markets]
        BY <2>2 DEF SetToSeq
    <2> QED
        BY <2>1, <2>3
<1>3. a \in W
    BY DEF Exited, Sound
<1>4. G \in [W \X T -> W]
    BY ExitOneStays
<1>5. \A acc \in W : \A o \in T : ExitOne(acc, o, at) \in W /\ G[<<acc, o>>] = ExitOne(acc, o, at)
    BY ExitOneStays
<1> HIDE DEF s, T, W, k, G, n
<1>6. ExitsFrom(k, a, at)
    <2>1. PICK h : FoldOf(h, G, a, s, n, W)
        <3>1. Foldable(G, a, s, n, W)
            BY <1>2, <1>3, <1>4, FoldExists
        <3> QED
            BY <3>1 DEF Foldable
    <2>2. ASSUME NEW r \in SUBSET (1..n), r # {}
          PROVE  G[<<h[r \ {Highest(r)}], s[Highest(r)]>>] = ExitOne(h[r \ {Max(r)}], s[Max(r)], at)
        <3>1. Highest(r) = Max(r)
            BY DEF Highest, Max
        <3>2. Highest(r) \in 1..n /\ r \ {Highest(r)} \in SUBSET (1..n)
            BY <1>2, <2>2, HighestIn
        <3>3. h[r \ {Highest(r)}] \in W /\ s[Highest(r)] \in T
            BY <1>2, <2>1, <3>2 DEF FoldOf
        <3> QED
            BY <1>5, <3>1, <3>3
    <2>3. ExitsFrom(h, a, at)
        BY <1>2, <2>1, <2>2 DEF ExitsFrom, FoldOf, Folds, s
    <2> QED
        BY <2>3 DEF k
<1>7. k[{}] \in W
    BY <1>3, <1>6 DEF ExitsFrom
<1>8. ASSUME NEW i \in 1..n, k[1..(i - 1)] \in W PROVE k[1..i] \in W
    <2>1. 1..i \in SUBSET (1..n) /\ i \in 1..i /\ i \in Nat /\ i # 0
        BY <1>2
    <2>2. Highest(1..i) = i /\ (1..i) \ {i} = 1..(i - 1)
        BY <2>1, HighestOfRange
    <2>3. Max(1..i) = i
        BY <2>2 DEF Highest, Max
    <2>4. k[1..i] = ExitOne(k[1..(i - 1)], s[i], at)
        BY <1>2, <1>6, <2>1, <2>2, <2>3 DEF ExitsFrom, s
    <2>5. s[i] \in T
        BY <1>2, <2>1
    <2> QED
        BY <1>5, <1>8, <2>4, <2>5
<1>9. k[1..n] \in W
    BY <1>2, <1>7, <1>8, FoldStays
<1> QED
    BY <1>1, <1>2, <1>9 DEF W

-----------------------------------------------------------------------------
(* The store's account, the browser's copy of it, and the two together *)

\* No two orders have one name, and no name or group is of a later act.
NamedUpTo(a, n) ==
  DistinctIds(a.orders) /\ \A o \in Members(a.orders) : o.id <= n /\ o.group <= n

\* A group is in the saved account as a whole or not at all, for a reload.
AccountInv ==
  /\ ops \in Nat /\ mark \in Nat
  /\ Sound(account) /\ NamedUpTo(account, 2 * ops)
  /\ Sound(saved) /\ NamedUpTo(saved, 2 * ops)
  /\ LeaveTogether(account.orders, saved.orders)

LEMMA NothingNamed ==
    ASSUME NEW a, a.orders = <<>>, NEW n
    PROVE  NamedUpTo(a, n) /\ Members(a.orders) = {}
<1>1. Len(<<>>) = 0 /\ 1..0 = {}
    OBVIOUS
<1> QED
    BY <1>1, NoMembers DEF NamedUpTo, DistinctIds

\* Names and groups stay small when the account only loses orders.
LEMMA FewerNamed ==
    ASSUME NEW n \in Nat, NEW k \in Nat, n <= k, NEW a, Sound(a), NamedUpTo(a, n), NEW b,
           DistinctIds(b.orders), Members(b.orders) \subseteq Members(a.orders)
    PROVE  NamedUpTo(b, k)
<1>1. \A o \in Members(a.orders) : o.id \in Nat /\ o.group \in Nat
    <2>1. a.orders \in Seq(Orders)
        BY DEF Sound, Accounts
    <2>2. Members(a.orders) \subseteq Orders
        BY <2>1 DEF Members
    <2> QED
        BY <2>2 DEF Orders
<1> QED
    BY <1>1 DEF NamedUpTo

\* An account that loses whole groups, or no order at all, or whose saved copy
\* has every order, keeps to the invariant.
LEMMA FewerLeave ==
    ASSUME NEW s, NEW t, NEW r, Members(r) \subseteq Members(s)
    PROVE  /\ LeaveTogether(s, t) => LeaveTogether(r, t)
           /\ LeaveTogether(r, s)
BY DEF LeaveTogether

LEMMA WholeGroupsLeave ==
    ASSUME NEW a, DistinctIds(a.orders), NEW b, Members(b.orders) \subseteq Members(a.orders),
           \A p, q \in Members(a.orders) :
               p.group # 0 /\ p.group = q.group => (p \in Members(b.orders) <=> q \in Members(b.orders))
    PROVE  LeaveTogether(a.orders, b.orders)
<1>1. \A p \in Members(a.orders) : (\E r \in Members(b.orders) : r.id = p.id) <=> p \in Members(b.orders)
    BY DistinctMembers
<1> QED
    BY <1>1 DEF LeaveTogether

\* What an act of the user may do to the account.
Acted(b) ==
  /\ Sound(b) /\ NamedUpTo(b, 2 * ops + 2)
  /\ LeaveTogether(b.orders, saved.orders)
  /\ LeaveTogether(account.orders, b.orders)

LEMMA SameOrdersActed ==
    ASSUME AccountInv, NEW b, Sound(b), b.orders = account.orders
    PROVE  Acted(b)
<1>1. /\ ops \in Nat /\ Sound(account) /\ NamedUpTo(account, 2 * ops)
      /\ LeaveTogether(account.orders, saved.orders)
    BY DEF AccountInv
<1>2. 2 * ops \in Nat /\ 2 * ops + 2 \in Nat /\ 2 * ops <= 2 * ops + 2
    BY <1>1
<1>3. DistinctIds(b.orders) /\ Members(b.orders) \subseteq Members(account.orders)
    BY <1>1 DEF NamedUpTo
<1>4. NamedUpTo(b, 2 * ops + 2)
    BY <1>1, <1>2, <1>3, FewerNamed
<1>5. LeaveTogether(account.orders, b.orders)
    BY FewerLeave
<1> QED
    BY <1>1, <1>4, <1>5 DEF Acted

\* An order with a new name, and a group that no order had before it.
LEMMA LimitOrderActed ==
    ASSUME AccountInv, NEW b, Acted(b), NEW o \in Orders, NEW price, o.type # "market", Priced(o),
           o.id > 2 * ops, o.id <= 2 * ops + 2, o.group <= 2 * ops + 2,
           \A q \in Members(b.orders) : q.id # o.id,
           \A q \in Members(b.orders) : o.group # 0 /\ q.group = o.group => q.id > 2 * ops
    PROVE  Acted(LimitOrder(b, o, price))
<1> DEFINE c == LimitOrder(b, o, price)
<1>1. Sound(c) /\ c.orders \in {b.orders, Append(b.orders, o)}
    BY LimitOrderSound DEF Acted
<1>2. b.orders \in Seq(Orders) /\ account.orders \in Seq(Orders) /\ saved.orders \in Seq(Orders)
      /\ ops \in Nat
    BY DEF Acted, AccountInv, Sound, Accounts
<1> HIDE DEF c
<1>3. CASE c.orders = b.orders
    BY <1>1, <1>3 DEF Acted, NamedUpTo, c
<1>4. CASE c.orders = Append(b.orders, o)
    <2>1. Members(c.orders) = Members(b.orders) \union {o}
        BY <1>2, <1>4, MembersMore
    <2>2. DistinctIds(c.orders)
        BY <1>2, <1>4, DistinctMore DEF Acted, NamedUpTo
    <2>3. NamedUpTo(c, 2 * ops + 2)
        BY <2>1, <2>2 DEF Acted, NamedUpTo
    <2>4. \A r \in Members(saved.orders) : r.id <= 2 * ops /\ r.id \in Nat
        <3>1. Members(saved.orders) \subseteq Orders
            BY <1>2 DEF Members
        <3> QED
            BY <3>1 DEF AccountInv, NamedUpTo, Orders
    <2>5. \A q \in Members(c.orders) : q.id > 2 * ops => ~ \E r \in Members(saved.orders) : r.id = q.id
        BY <1>2, <2>4
    <2>6. \A q \in Members(c.orders) : o.group # 0 /\ q.group = o.group => q.id > 2 * ops
        BY <2>1
    <2>7. LeaveTogether(c.orders, saved.orders)
        <3>1. SUFFICES ASSUME NEW p \in Members(c.orders), NEW q \in Members(c.orders),
                              p.group # 0, p.group = q.group
                       PROVE  (\E r \in Members(saved.orders) : r.id = p.id)
                                <=> (\E r \in Members(saved.orders) : r.id = q.id)
            BY DEF LeaveTogether
        <3>2. CASE p.group = o.group
            <4>1. p.id > 2 * ops /\ q.id > 2 * ops
                BY <2>6, <3>1, <3>2
            <4> QED
                BY <2>5, <4>1
        <3>3. CASE p.group # o.group
            <4>1. p \in Members(b.orders) /\ q \in Members(b.orders)
                BY <2>1, <3>1, <3>3
            <4> QED
                BY <3>1, <4>1 DEF Acted, LeaveTogether
        <3> QED
            BY <3>2, <3>3
    <2>8. LeaveTogether(account.orders, c.orders)
        <3>1. SUFFICES ASSUME NEW p \in Members(account.orders), NEW q \in Members(account.orders),
                              p.group # 0, p.group = q.group
                       PROVE  (\E r \in Members(c.orders) : r.id = p.id)
                                <=> (\E r \in Members(c.orders) : r.id = q.id)
            BY DEF LeaveTogether
        <3>2. p.id # o.id /\ q.id # o.id
            <4>1. Members(account.orders) \subseteq Orders
                BY <1>2 DEF Members
            <4>2. p.id <= 2 * ops /\ q.id <= 2 * ops /\ p.id \in Nat /\ q.id \in Nat /\ o.id \in Nat
                BY <4>1 DEF AccountInv, NamedUpTo, Orders
            <4> QED
                BY <1>2, <4>2
        <3>3. (\E r \in Members(b.orders) : r.id = p.id) <=> (\E r \in Members(b.orders) : r.id = q.id)
            BY <3>1 DEF Acted, LeaveTogether
        <3> QED
            BY <2>1, <3>2, <3>3
    <2> QED
        BY <1>1, <2>3, <2>7, <2>8 DEF Acted, c
<1> QED
    BY <1>1, <1>3, <1>4 DEF c

LEMMA CancelActed ==
    ASSUME AccountInv, NEW o \in Members(account.orders)
    PROVE  Acted(CancelOrder(account, o))
<1> DEFINE b == CancelOrder(account, o)
           s == account.orders
<1>1. /\ ops \in Nat /\ Sound(account) /\ NamedUpTo(account, 2 * ops) /\ DistinctIds(s)
      /\ s \in Seq(Orders) /\ LeaveTogether(s, saved.orders)
    BY DEF AccountInv, NamedUpTo, Sound, Accounts
<1>2. Sound(b) /\ DistinctIds(b.orders) /\ Members(b.orders) = Staying(s, o)
    BY <1>1, WithoutSound DEF CancelOrder
<1>3. Range(s) = Members(s)
    BY <1>1, RangeIsMembers
<1>4. \A q \in Members(s) : q.id = o.id => q = o
    BY <1>1, DistinctMembers
<1> HIDE DEF b
<1>5. Members(b.orders) \subseteq Members(s)
    BY <1>2, <1>3 DEF Staying
<1>6. NamedUpTo(b, 2 * ops + 2)
    <2>1. 2 * ops \in Nat /\ 2 * ops + 2 \in Nat /\ 2 * ops <= 2 * ops + 2
        BY <1>1
    <2> QED
        BY <1>1, <1>2, <1>5, <2>1, FewerNamed
<1>7. LeaveTogether(s, b.orders)
    <2>1. \A p, q \in Members(s) :
             p.group # 0 /\ p.group = q.group => (p \in Members(b.orders) <=> q \in Members(b.orders))
        <3>1. ASSUME NEW p \in Members(s), NEW q \in Members(s), p.group # 0, p.group = q.group,
                     p \in Staying(s, o)
              PROVE  q \in Staying(s, o)
            <4>1. p.id # o.id /\ (o.group = 0 \/ p.group # o.group)
                BY <3>1 DEF Staying
            <4>2. o.group = 0 \/ q.group # o.group
                BY <3>1, <4>1
            <4>3. q.id # o.id
                BY <1>4, <3>1, <4>1, <4>2
            <4> QED
                BY <1>3, <4>2, <4>3 DEF Staying
        <3> QED
            BY <1>2, <3>1
    <2> QED
        BY <1>1, <1>5, <2>1, WholeGroupsLeave
<1>8. LeaveTogether(b.orders, saved.orders)
    BY <1>1, <1>5, FewerLeave
<1> QED
    BY <1>2, <1>6, <1>7, <1>8 DEF Acted, b

\* The act of the user is done: its names are no later ones.
LEMMA ActedKeepsInv ==
    ASSUME AccountInv, NEW b, Acted(b), UserDoes(b)
    PROVE  AccountInv' /\ LeaveTogether(account.orders, account'.orders)
<1>1. ops \in Nat /\ ops' = ops + 1 /\ account' = b /\ saved' = saved /\ mark' = mark /\ mark \in Nat
    BY DEF AccountInv, UserDoes
<1>2. ops' \in Nat /\ 2 * ops' = 2 * ops + 2 /\ 2 * ops \in Nat /\ 2 * ops' \in Nat
      /\ 2 * ops <= 2 * ops'
    BY <1>1
<1>3. Sound(saved) /\ NamedUpTo(saved, 2 * ops) /\ DistinctIds(saved.orders)
    BY DEF AccountInv, NamedUpTo
<1>4. NamedUpTo(saved, 2 * ops')
    BY <1>2, <1>3, FewerNamed
<1>5. /\ Sound(account') /\ NamedUpTo(account', 2 * ops')
      /\ LeaveTogether(account.orders, account'.orders)
      /\ LeaveTogether(account'.orders, saved'.orders)
    BY <1>1, <1>2 DEF Acted
<1>6. Sound(saved') /\ NamedUpTo(saved', 2 * ops')
    BY <1>1, <1>3, <1>4
<1> HIDE DEF Sound, NamedUpTo, LeaveTogether
<1> QED
    BY <1>1, <1>2, <1>5, <1>6 DEF AccountInv

\* A ticket under its new name.
LEMMA NamedTicket ==
    ASSUME ops \in Nat, NEW t \in OrderForms, NEW leg \in {1, 2}
    PROVE  /\ Named(t, leg) \in Orders /\ Named(t, leg).id = 2 * ops + leg
           /\ Named(t, leg).group = 0 /\ t \in Orders
           /\ Named(t, leg).type = t.type /\ Named(t, leg).price = t.price
<1>1. 2 * ops + leg \in Nat
    OBVIOUS
<1> QED
    BY <1>1 DEF Named, OrderForms, Orders

LEMMA SubmitRestingActed ==
    ASSUME AccountInv, NEW t \in Tickets, t.type # "market"
    PROVE  Acted(LimitOrder(account, Named(t, 1), mark))
<1>1. ops \in Nat /\ t \in OrderForms /\ Priced(t)
    BY FormAssumption DEF AccountInv
<1> DEFINE o == Named(t, 1)
<1>2. o \in Orders /\ o.id = 2 * ops + 1 /\ o.group = 0 /\ o.type # "market" /\ Priced(o)
    BY <1>1, NamedTicket DEF Priced
<1>3. Acted(account)
    BY SameOrdersActed DEF AccountInv
<1>4. \A q \in Members(account.orders) : q.id # o.id
    <2>1. Members(account.orders) \subseteq Orders
        BY DEF AccountInv, Sound, Accounts, Members
    <2>2. \A q \in Members(account.orders) : q.id <= 2 * ops /\ q.id \in Nat
        BY <2>1 DEF AccountInv, NamedUpTo, Orders
    <2> HIDE DEF o
    <2> QED
        BY <1>1, <1>2, <2>2
<1>5. o.id > 2 * ops /\ o.id <= 2 * ops + 2 /\ o.group <= 2 * ops + 2
    <2> HIDE DEF o
    <2> QED
        BY <1>1, <1>2
<1> HIDE DEF o
<1>6. Acted(LimitOrder(account, o, mark))
    BY <1>2, <1>3, <1>4, <1>5, LimitOrderActed
<1> QED
    BY <1>6 DEF o

LEMMA SubmitOcoActed ==
    ASSUME AccountInv, NEW t \in OrderForms, NEW u \in OrderForms,
           t.type # "market", u.type # "market", Priced(t), Priced(u)
    PROVE  LET Leg(x, n) == [Named(x, n) EXCEPT !.group = 2 * ops + 1]
           IN  Acted(LimitOrder(LimitOrder(account, Leg(t, 1), mark), Leg(u, 2), mark))
<1> DEFINE o == [Named(t, 1) EXCEPT !.group = 2 * ops + 1]
           q == [Named(u, 2) EXCEPT !.group = 2 * ops + 1]
           b == LimitOrder(account, o, mark)
<1>1. ops \in Nat
    BY DEF AccountInv
<1>2. /\ o \in Orders /\ o.id = 2 * ops + 1 /\ o.group = 2 * ops + 1
      /\ q \in Orders /\ q.id = 2 * ops + 2 /\ q.group = 2 * ops + 1
      /\ o.type # "market" /\ Priced(o) /\ q.type # "market" /\ Priced(q)
    <2>1. /\ Named(t, 1) \in Orders /\ Named(t, 1).id = 2 * ops + 1
          /\ Named(u, 2) \in Orders /\ Named(u, 2).id = 2 * ops + 2
          /\ Named(t, 1).type = t.type /\ Named(t, 1).price = t.price
          /\ Named(u, 2).type = u.type /\ Named(u, 2).price = u.price
        BY <1>1, NamedTicket
    <2>2. 2 * ops + 1 \in Nat
        BY <1>1
    <2> QED
        BY <2>1, <2>2 DEF Orders, Priced
<1>3. Acted(account)
    BY SameOrdersActed DEF AccountInv
<1>4. \A r \in Members(account.orders) : r.id <= 2 * ops /\ r.group <= 2 * ops /\ r.id \in Nat /\ r.group \in Nat
    <2>1. Members(account.orders) \subseteq Orders
        BY DEF AccountInv, Sound, Accounts, Members
    <2> QED
        BY <2>1 DEF AccountInv, NamedUpTo, Orders
<1> HIDE DEF o, q, b
<1>5. /\ o.id > 2 * ops /\ o.id <= 2 * ops + 2 /\ o.group <= 2 * ops + 2
      /\ q.id > 2 * ops /\ q.id <= 2 * ops + 2 /\ q.group <= 2 * ops + 2
      /\ \A r \in Members(account.orders) : r.id # o.id /\ r.id # q.id /\ r.group # o.group
      /\ o.id # q.id /\ o.group = q.group
    BY <1>1, <1>2, <1>4
<1>6. Acted(b)
    BY <1>2, <1>3, <1>5, LimitOrderActed DEF b
<1>7. Members(b.orders) \subseteq Members(account.orders) \union {o}
    <2>1. account.orders \in Seq(Orders) /\ Sound(account)
        BY DEF AccountInv, Sound, Accounts
    <2>2. b.orders \in {account.orders, Append(account.orders, o)}
        BY <1>2, <2>1, LimitOrderSound DEF b
    <2>3. Members(Append(account.orders, o)) = Members(account.orders) \union {o}
        BY <1>2, <2>1, MembersMore
    <2> QED
        BY <2>2, <2>3
<1>8. /\ \A r \in Members(b.orders) : r.id # q.id
      /\ \A r \in Members(b.orders) : q.group # 0 /\ r.group = q.group => r.id > 2 * ops
    BY <1>5, <1>7
<1>9. Acted(LimitOrder(b, q, mark))
    BY <1>2, <1>5, <1>6, <1>8, LimitOrderActed
<1> QED
    BY <1>9 DEF o, q, b

LEMMA EffectsKeepInv ==
    ASSUME AccountInv, Effects
    PROVE  AccountInv' /\ LeaveTogether(account.orders, account'.orders)
<1> DEFINE f == FillOrders(account, mark)
           b == account'
<1>1. /\ ops' = ops /\ mark' = mark /\ saved' = account /\ ops \in Nat /\ mark \in Nat
      /\ (mark = 0 => account' = account) /\ account' \in {account, CheckTpSl(f, mark)}
      /\ Sound(account) /\ NamedUpTo(account, 2 * ops) /\ DistinctIds(account.orders)
    BY DEF Effects, AccountInv, NamedUpTo
<1>2. CASE account' = account
    <2>1. LeaveTogether(account.orders, account.orders)
        BY FewerLeave
    <2> QED
        BY <1>1, <1>2, <2>1 DEF AccountInv
<1>3. CASE mark # 0 /\ account' = CheckTpSl(f, mark)
    <2>1. f \in Filled(account)
        BY <1>1, <1>3, FillOrdersSound
    <2> HIDE DEF f
    <2>2. /\ Sound(f) /\ DistinctIds(f.orders) /\ Members(f.orders) \subseteq Members(account.orders)
          /\ \A p, q \in Members(account.orders) :
                 p.group # 0 /\ p.group = q.group => (p \in Members(f.orders) <=> q \in Members(f.orders))
        BY <2>1 DEF Filled
    <2>3. Sound(b) /\ b.orders = f.orders
        BY <1>3, <2>2, CheckTpSlSound DEF Exited
    <2>4. LeaveTogether(account.orders, b.orders)
        BY <1>1, <2>2, <2>3, WholeGroupsLeave
    <2>5. LeaveTogether(b.orders, account.orders)
        BY <2>2, <2>3, FewerLeave
    <2>6. NamedUpTo(b, 2 * ops)
        <3>1. 2 * ops \in Nat /\ 2 * ops <= 2 * ops
            BY <1>1
        <3> QED
            BY <1>1, <2>2, <2>3, <3>1, FewerNamed
    <2> QED
        BY <1>1, <2>3, <2>4, <2>5, <2>6 DEF AccountInv
<1> QED
    BY <1>1, <1>2, <1>3

LEMMA ReloadKeepsInv ==
    ASSUME AccountInv, Reload
    PROVE  AccountInv' /\ LeaveTogether(account.orders, account'.orders)
<1>1. /\ ops \in Nat /\ ops' = ops + 1 /\ mark' = 0 /\ account' = Load(saved) /\ saved' = account'
      /\ Sound(saved) /\ NamedUpTo(saved, 2 * ops) /\ DistinctIds(saved.orders)
      /\ LeaveTogether(account.orders, saved.orders)
    BY DEF Reload, AccountInv, NamedUpTo
<1>2. ops' \in Nat /\ 2 * ops \in Nat /\ 2 * ops' \in Nat /\ 2 * ops <= 2 * ops' /\ mark' \in Nat
    BY <1>1
<1>3. LeaveTogether(account'.orders, saved'.orders)
    BY <1>1, FewerLeave
<1>4. Load(saved) \in {NewAccount, saved}
    BY DEF Load
<1>5. CASE account' = saved
    <2>1. NamedUpTo(saved, 2 * ops')
        BY <1>1, <1>2, FewerNamed
    <2> QED
        BY <1>1, <1>2, <1>3, <1>5, <2>1 DEF AccountInv
<1>6. CASE account' = NewAccount
    <2>1. Sound(account') /\ account'.orders = <<>>
        BY <1>6, NewAccountSound
    <2>2. NamedUpTo(account', 2 * ops') /\ Members(account'.orders) = {}
        BY <2>1, NothingNamed
    <2>3. LeaveTogether(account.orders, account'.orders)
        BY <2>2 DEF LeaveTogether
    <2> QED
        BY <1>1, <1>2, <1>3, <2>1, <2>2, <2>3 DEF AccountInv
<1> QED
    BY <1>1, <1>4, <1>5, <1>6

LEMMA AccountInvInductive ==
    ASSUME AccountInv, [Next]_vars
    PROVE  AccountInv' /\ LeaveTogether(account.orders, account'.orders)
<1>1. /\ ops \in Nat /\ mark \in Nat /\ Sound(account) /\ account.orders \in Seq(Orders)
    BY DEF AccountInv, Sound, Accounts
<1>2. LeaveTogether(account.orders, account.orders)
    BY FewerLeave
<1>3. ASSUME NEW b, Sound(b), b.orders = account.orders, UserDoes(b)
      PROVE  AccountInv' /\ LeaveTogether(account.orders, account'.orders)
    <2>1. Acted(b)
        BY <1>3, SameOrdersActed
    <2> QED
        BY <1>3, <2>1, ActedKeepsInv
<1>4. CASE UNCHANGED <<account, saved, ops>> /\ mark' \in Nat
    BY <1>1, <1>2, <1>4 DEF AccountInv
<1>5. CASE UpdateMarkPrice
    <2>1. UNCHANGED <<account, saved, ops>> /\ mark' \in Nat
        BY <1>5, FormAssumption DEF UpdateMarkPrice
    <2> QED
        BY <1>4, <2>1
<1>6. CASE Effects
    BY <1>6, EffectsKeepInv
<1>7. CASE SubmitMarket
    <2>1. PICK t \in Tickets, typed \in Prices \union {0} :
              FillPrice(typed) > 0 /\ UserDoes(MarketOrder(account, t, FillPrice(typed)))
        BY <1>7 DEF SubmitMarket
    <2> DEFINE price == FillPrice(typed)
    <2>2. t \in Orders /\ price \in Nat \ {0}
        <3>1. t \in OrderForms /\ typed \in Nat
            BY FormAssumption
        <3>2. t \in Orders
            BY <1>1, <3>1, NamedTicket
        <3> QED
            BY <1>1, <2>1, <3>1, <3>2 DEF FillPrice
    <2>4. UserDoes(MarketOrder(account, t, price))
        BY <2>1
    <2> HIDE DEF price
    <2>3. Sound(MarketOrder(account, t, price)) /\ MarketOrder(account, t, price).orders = account.orders
        BY <1>1, <2>2, MarketOrderSound
    <2> QED
        BY <1>3, <2>3, <2>4
<1>8. CASE SubmitResting
    <2>1. PICK t \in Tickets : t.type # "market" /\ UserDoes(LimitOrder(account, Named(t, 1), mark))
        BY <1>8 DEF SubmitResting
    <2> QED
        BY <2>1, SubmitRestingActed, ActedKeepsInv
<1>9. CASE SubmitOco
    <2> DEFINE Leg(x, n) == [Named(x, n) EXCEPT !.group = 2 * ops + 1]
    <2>1. PICK pair \in Pairs :
              UserDoes(LimitOrder(LimitOrder(account, Leg(pair[1], 1), mark), Leg(pair[2], 2), mark))
        BY <1>9 DEF SubmitOco
    <2>2. /\ pair[1] \in OrderForms /\ pair[1].type # "market" /\ Priced(pair[1])
          /\ pair[2] \in OrderForms /\ pair[2].type # "market" /\ Priced(pair[2])
        BY FormAssumption
    <2>3. Acted(LimitOrder(LimitOrder(account, Leg(pair[1], 1), mark), Leg(pair[2], 2), mark))
        BY <2>2, SubmitOcoActed
    <2> HIDE DEF Leg
    <2> QED
        BY <2>1, <2>3, ActedKeepsInv
<1>10. CASE Cancel
    <2>1. PICK i \in DOMAIN account.orders : UserDoes(CancelOrder(account, account.orders[i]))
        BY <1>10 DEF Cancel
    <2>2. account.orders[i] \in Members(account.orders)
        BY <1>1 DEF Members
    <2> QED
        BY <2>1, <2>2, CancelActed, ActedKeepsInv
<1>11. CASE Close
    <2>1. PICK m \in Markets : UserDoes(ClosePosition(account, m, mark))
        BY <1>11 DEF Close
    <2>2. Sound(ClosePosition(account, m, mark)) /\ ClosePosition(account, m, mark).orders = account.orders
        BY <1>1, ClosePositionSound
    <2> QED
        BY <1>3, <2>1, <2>2
<1>12. CASE SetTpSl
    <2>1. PICK m \in Markets, tp \in Prices, sl \in Prices : UserDoes(UpdateTpSl(account, m, tp, sl))
        BY <1>12 DEF SetTpSl
    <2>2. tp \in Nat /\ sl \in Nat
        BY FormAssumption
    <2>3. Sound(UpdateTpSl(account, m, tp, sl)) /\ UpdateTpSl(account, m, tp, sl).orders = account.orders
        BY <1>1, <2>2, UpdateTpSlSound
    <2> QED
        BY <1>3, <2>1, <2>3
<1>13. CASE MoveMoney
    <2>1. PICK amount \in Amounts : \/ UserDoes(Deposit(account, amount))
                                    \/ UserDoes(Withdraw(account, amount))
        BY <1>13 DEF MoveMoney
    <2>2. amount \in Int
        BY FormAssumption
    <2>3. /\ Sound(Deposit(account, amount)) /\ Deposit(account, amount).orders = account.orders
          /\ Sound(Withdraw(account, amount)) /\ Withdraw(account, amount).orders = account.orders
        BY <1>1, <2>2, MovedSound
    <2> QED
        BY <1>3, <2>1, <2>3
<1>14. CASE Reset
    <2>1. UserDoes(NewAccount)
        BY <1>14 DEF Reset
    <2>2. Sound(NewAccount) /\ NewAccount.orders = <<>>
        BY NewAccountSound
    <2>3. NamedUpTo(NewAccount, 2 * ops + 2) /\ Members(NewAccount.orders) = {}
        BY <2>2, NothingNamed
    <2>4. Acted(NewAccount)
        BY <2>2, <2>3 DEF Acted, LeaveTogether
    <2> QED
        BY <2>1, <2>4, ActedKeepsInv
<1>15. CASE Reload
    BY <1>15, ReloadKeepsInv
<1>16. CASE UNCHANGED paperVars
    BY <1>1, <1>4, <1>16 DEF paperVars
<1>17. CASE SocketOpens \/ SocketCloses \/ SocketFails \/ RetryFires \/ Switch \/ SubmitLive
            \/ SignatureGiven \/ WindowPasses
    BY <1>16, <1>17 DEF SocketOpens, SocketCloses, SocketFails, RetryFires, Switch, SubmitLive,
                        SignatureGiven, WindowPasses, FeedStep
<1>18. CASE UNCHANGED vars
    BY <1>16, <1>18 DEF vars, paperVars
<1> QED
    BY <1>5, <1>6, <1>7, <1>8, <1>9, <1>10, <1>11, <1>12, <1>13, <1>14, <1>15, <1>17, <1>18 DEF Next

LEMMA AccountInvInitially == Init => AccountInv
<1>1. SUFFICES ASSUME Init PROVE AccountInv
    OBVIOUS
<1>2. account = NewAccount /\ saved = NewAccount /\ ops = 0 /\ mark = 0
    BY <1>1 DEF Init
<1>3. Sound(account) /\ account.orders = <<>> /\ saved = account
    BY <1>2, NewAccountSound
<1>4. NamedUpTo(account, 2 * ops) /\ Members(account.orders) = {}
    BY <1>3, NothingNamed
<1> QED
    BY <1>2, <1>3, <1>4 DEF AccountInv, LeaveTogether

LEMMA AccountInvAlways == Spec => []AccountInv
BY AccountInvInitially, AccountInvInductive, PTL DEF Spec

\* Whatever the user does, at any price, over filled and refused orders, flips
\* and pairs, paper money is where it was reserved, or was given up with a rest
\* of at most Dust (trading-zustand.ts).
THEOREM PaperMoneyAccounted == Spec => []PaperFundsAccounted
<1>1. AccountInv => PaperFundsAccounted
    BY DEF AccountInv, Sound, Conserved, PaperFundsAccounted
<1> QED
    BY <1>1, AccountInvAlways, PTL

\* Every position that is ever saved was paid for, so that a reload finds no
\* reason to throw the account away: what was saved comes back, unless it held
\* neither a position nor free money (TradingProvider.tsx).
THEOREM PositionsSurviveReload == Spec => ReloadKeepsPositions
<1>1. AccountInv /\ [Next]_vars => [Reload /\ ~TakenForEmpty(saved) => account' = saved]_vars
    <2>1. SUFFICES ASSUME AccountInv, Reload, ~TakenForEmpty(saved) PROVE account' = saved
        OBVIOUS
    <2>2. \A m \in Markets : saved.positions[m] \in Positions /\ Held(saved.positions[m])
        BY <2>1 DEF AccountInv, Sound, Accounts
    <2>3. ValidSave(saved)
        BY <2>2 DEF ValidSave, Held, Positions
    <2>4. account' = Load(saved)
        BY <2>1 DEF Reload
    <2> QED
        BY <2>1, <2>3, <2>4 DEF Load
<1> QED
    BY <1>1, AccountInvAlways, PTL DEF Spec, ReloadKeepsPositions

\* The legs of a pair leave the book in one step, whichever of them fills, is
\* cancelled or is refused, and over a reload (paperFillLimit, paperCancelOrder).
THEOREM LegsLeaveTogether == Spec => GroupsLeaveTogether
<1> DEFINE Together ==
      LET Kept == {account'.orders[i].id : i \in DOMAIN account'.orders} IN
      \A i, j \in DOMAIN account.orders :
        LET o == account.orders[i] q == account.orders[j] IN
        o.group # 0 /\ o.group = q.group => (o.id \in Kept <=> q.id \in Kept)
<1>1. AccountInv /\ [Next]_vars => [Together]_vars
    <2>1. SUFFICES ASSUME AccountInv, [Next]_vars PROVE Together
        OBVIOUS
    <2>2. AccountInv' /\ LeaveTogether(account.orders, account'.orders)
        BY <2>1, AccountInvInductive
    <2>3. DOMAIN account.orders = 1..Len(account.orders) /\ DOMAIN account'.orders = 1..Len(account'.orders)
        BY <2>1, <2>2 DEF AccountInv, Sound, Accounts
    <2> DEFINE Kept == {account'.orders[i].id : i \in DOMAIN account'.orders}
    <2>4. ASSUME NEW x PROVE x \in Kept <=> \E r \in Members(account'.orders) : r.id = x
        BY <2>3 DEF Members
    <2>5. ASSUME NEW i \in DOMAIN account.orders, NEW j \in DOMAIN account.orders,
                 account.orders[i].group # 0, account.orders[i].group = account.orders[j].group
          PROVE  account.orders[i].id \in Kept <=> account.orders[j].id \in Kept
        <3>1. account.orders[i] \in Members(account.orders) /\ account.orders[j] \in Members(account.orders)
            BY <2>3 DEF Members
        <3> HIDE DEF Kept
        <3> QED
            BY <2>2, <2>4, <2>5, <3>1 DEF LeaveTogether
    <2> HIDE DEF Kept
    <2>6. \A i, j \in DOMAIN account.orders :
            LET o == account.orders[i] q == account.orders[j] IN
            o.group # 0 /\ o.group = q.group => (o.id \in Kept <=> q.id \in Kept)
        BY <2>5
    <2> QED
        BY <2>6 DEF Kept
<1> HIDE DEF Together
<1>2. Spec => [][Together]_vars
    BY <1>1, AccountInvAlways, PTL DEF Spec
<1> QED
    BY <1>2 DEF Together, GroupsLeaveTogether
=============================================================================
