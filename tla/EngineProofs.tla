---------------------------- MODULE EngineProofs ----------------------------
(***************************************************************************)
(* The engine keeps its books: for any number of markets and accounts, any   *)
(* prices, sizes, margin tiers and parameters, open interest is what the     *)
(* positions add up to, the lists of markets are exact, nothing goes below   *)
(* zero, trading makes no USDC, and exposure grows only when it may.  Then   *)
(* the same for the settlement that calls the engine: it executes no order   *)
(* beyond its size, leaves no leg of a trade behind and takes committed      *)
(* orders out of the owner's reach, for any orders, batches and prices.      *)
(***************************************************************************)
EXTENDS OrderSettlement, SumTheorems, SequenceTheorems

-----------------------------------------------------------------------------
(* The vault's transfers *)

\* Moving part of one balance to another leaves no balance below zero.
LEMMA MovedStaysNat ==
    ASSUME NEW b \in [Accounts -> Nat], NEW from \in Accounts, NEW to \in Accounts,
           NEW d \in Nat, d <= b[from]
    PROVE  Moved(b, from, to, d) \in [Accounts -> Nat]
<1>1. /\ N \in Nat /\ b \in [1..N -> Nat] /\ from \in 1..N /\ to \in 1..N
      /\ d \in Nat /\ d <= b[from]
    BY AccountsAssumption DEF Accounts
<1>2. Shifted(b, from, to, d) \in [1..N -> Nat]
    BY <1>1, MovingKeepsSum
<1>3. Moved(b, from, to, d) = Shifted(b, from, to, d)
    BY DEF Moved, Shifted
<1> QED
    BY <1>2, <1>3 DEF Accounts

\* A leg the vault accepts leaves no entry below zero.
LEMMA TransferredStaysNat ==
    ASSUME NEW l \in NatLedgers, NEW from, NEW to, NEW amount \in Nat, NEW cap,
           LegAllowed(l, from, to, amount, cap)
    PROVE  Transferred(l, from, to, amount) \in NatLedgers
<1> DEFINE d == FromDeposit(l, from, amount)
           b == Moved(l.balances, from, to, d)
           c == Moved(l.collateralBalances, from, to, amount - d)
<1>1. /\ from \in Accounts
      /\ to \in Accounts
      /\ amount <= l.balances[from] + l.collateralBalances[from]
    BY DEF LegAllowed, Spendable
<1>2. /\ l.balances \in [Accounts -> Nat]
      /\ l.collateralBalances \in [Accounts -> Nat]
    BY DEF NatLedgers
<1>3. l.balances[from] \in Nat /\ l.collateralBalances[from] \in Nat
    BY <1>1, <1>2
<1>4. /\ d \in Nat /\ d <= l.balances[from]
      /\ amount - d \in Nat /\ amount - d <= l.collateralBalances[from]
    BY <1>1, <1>3 DEF FromDeposit
<1> HIDE DEF d
<1>5. b \in [Accounts -> Nat]
    BY <1>1, <1>2, <1>4, MovedStaysNat
<1>6. c \in [Accounts -> Nat]
    BY <1>1, <1>2, <1>4, MovedStaysNat
<1>7. Transferred(l, from, to, amount) = [balances |-> b, collateralBalances |-> c]
    BY DEF Transferred, d
<1> HIDE DEF b, c
<1> QED
    BY <1>5, <1>6, <1>7 DEF NatLedgers

\* Whether or not the payer can cover it, a leg leaves integers in the books.
LEMMA TransferredType ==
    ASSUME NEW l \in Ledgers, NEW from \in Accounts, NEW to \in Accounts, NEW amount \in Int
    PROVE  Transferred(l, from, to, amount) \in Ledgers
<1> DEFINE d == FromDeposit(l, from, amount)
<1>1. /\ l.balances \in [Accounts -> Int]
      /\ l.collateralBalances \in [Accounts -> Int]
    BY DEF Ledgers
<1>2. d \in Int /\ amount - d \in Int
    BY <1>1 DEF FromDeposit
<1>3. ASSUME NEW b \in [Accounts -> Int], NEW v \in Int
      PROVE  Moved(b, from, to, v) \in [Accounts -> Int]
    <2> DEFINE c == [b EXCEPT ![from] = b[from] - v]
    <2>1. c \in [Accounts -> Int]
        OBVIOUS
    <2>2. [c EXCEPT ![to] = c[to] + v] \in [Accounts -> Int]
        <3> HIDE DEF c
        <3> QED
            BY <2>1
    <2> QED
        BY <2>2 DEF Moved
<1> HIDE DEF d
<1>4. /\ Moved(l.balances, from, to, d) \in [Accounts -> Int]
      /\ Moved(l.collateralBalances, from, to, amount - d) \in [Accounts -> Int]
    BY <1>1, <1>2, <1>3
<1> QED
    BY <1>4 DEF Transferred, Ledgers, d

\* A leg the vault accepts takes deposits from nobody but the payer.
LEMMA OnlyPayerLoses ==
    ASSUME NEW l \in NatLedgers, NEW from, NEW to, NEW amount \in Nat, NEW cap,
           LegAllowed(l, from, to, amount, cap), NEW b \in Accounts \ {from}
    PROVE  Transferred(l, from, to, amount).balances[b] >= l.balances[b]
<1> DEFINE d == FromDeposit(l, from, amount)
           c == [l.balances EXCEPT ![from] = l.balances[from] - d]
<1>1. from \in Accounts /\ to \in Accounts
    BY DEF LegAllowed
<1>2. l.balances \in [Accounts -> Nat]
    BY DEF NatLedgers
<1>3. d \in Nat
    BY <1>1, <1>2 DEF FromDeposit
<1> HIDE DEF d
<1>4. c[b] = l.balances[b] /\ b \in DOMAIN c /\ l.balances[b] \in Nat
    BY <1>1, <1>2
<1>5. [c EXCEPT ![to] = c[to] + d][b] >= l.balances[b]
    <2> HIDE DEF c
    <2> QED
        BY <1>3, <1>4
<1>6. Transferred(l, from, to, amount).balances = [c EXCEPT ![to] = c[to] + d]
    BY DEF Transferred, Moved, d
<1> QED
    BY <1>5, <1>6
-----------------------------------------------------------------------------
(* Arithmetic *)

\* A share c of n parts of an amount is no more than the amount.
LEMMA ShareAtMost ==
    ASSUME NEW x \in Nat, NEW c \in Nat, NEW n \in Nat \ {0}, c <= n
    PROVE  (x * c) \div n \in 0..x
<1> DEFINE q == (x * c) \div n
<1>1. x * c \in Nat /\ x * n \in Nat /\ x * c <= x * n
    OBVIOUS
<1>2. q \in Nat /\ q * n <= x * c
    BY <1>1
<1>3. q * n <= x * n
    BY <1>1, <1>2
<1>4. q <= x
    <2> SUFFICES ASSUME q >= x + 1 PROVE FALSE
        BY <1>2
    <2> HIDE DEF q
    <2>1. q * n >= (x + 1) * n
        BY <1>2
    <2>2. (x + 1) * n = x * n + n
        OBVIOUS
    <2> QED
        BY <1>1, <1>3, <2>1, <2>2, <1>2
<1> QED
    BY <1>2, <1>4

\* The helpers of EngineMath return integers, and naturals where they should.
LEMMA NotionalType ==
    ASSUME NEW price \in Nat, NEW size \in Nat
    PROVE  Notional(price, size) \in Nat
<1>1. price * size \in Nat /\ SIZE_PRECISION \in Nat \ {0}
    BY ScalesAssumption
<1> QED
    BY <1>1 DEF Notional

(* A quotient of naturals is a natural. *)
LEMMA QuotientType ==
    ASSUME NEW x \in Int, NEW d \in Nat \ {0}
    PROVE  Quotient(x, d) \in Int
BY DEF Quotient

(* The profit of a position is an integer. *)
LEMMA PnlType ==
    ASSUME NEW entry \in Int, NEW exit \in Int, NEW size \in Int
    PROVE  Pnl(entry, exit, size) \in Int
<1>1. (exit - entry) * size \in Int
    OBVIOUS
<1> QED
    BY <1>1, QuotientType, ScalesAssumption DEF Pnl

(* The absolute value of an integer is a natural. *)
LEMMA AbsType ==
    ASSUME NEW x \in Int
    PROVE  Abs(x) \in Nat /\ (x # 0 => Abs(x) > 0)
BY DEF Abs

(* The average entry price of an increased position is a natural. *)
LEMMA AverageEntryType ==
    ASSUME NEW entry \in Nat, NEW x \in Nat \ {0}, NEW price \in Nat, NEW y \in Nat
    PROVE  AverageEntry(entry, x, price, y) \in Nat
<1>1. entry * x + price * y \in Nat /\ x + y \in Nat \ {0}
    OBVIOUS
<1> QED
    BY <1>1 DEF AverageEntry

\* The margin that valid tiers ask for is a natural number.
LEMMA TieredMarginType ==
    ASSUME NEW tiers \in Seq(Tiers), TiersValid(tiers), NEW notional \in Nat,
           NEW isInitial \in BOOLEAN
    PROVE  TieredMargin(tiers, notional, isInitial) \in Nat
<1> DEFINE rate(i) == IF isInitial THEN tiers[i].initialMarginBps
                                   ELSE tiers[i].maintenanceMarginBps
           part(i) == (TierNotional(tiers, i, notional) * rate(i)) \div BPS
           b == [i \in 1..Len(tiers) |-> part(i)]
<1>1. ASSUME NEW i \in 1..Len(tiers)
      PROVE  part(i) \in Nat
    <2>1. tiers[i] \in Tiers
        OBVIOUS
    <2>2. tiers[i].maxNotional \in Nat /\ rate(i) \in Nat
        BY <2>1 DEF Tiers
    <2>3. TierFloor(tiers, i) \in Nat
        <3>1. CASE i = 1
            BY <3>1 DEF TierFloor
        <3>2. CASE i # 1
            <4>1. i - 1 \in 1..Len(tiers)
                BY <3>2
            <4>2. tiers[i - 1] \in Tiers
                BY <4>1
            <4> QED
                BY <3>2, <4>2 DEF TierFloor, Tiers
        <3> QED
            BY <3>1, <3>2
    <2>4. tiers[i].maxNotional # 0 => tiers[i].maxNotional >= TierFloor(tiers, i)
        <3>1. CASE i = 1
            BY <2>2, <3>1 DEF TierFloor
        <3>2. CASE i # 1
            <4>1. i \in 2..Len(tiers)
                BY <3>2
            <4>2. tiers[i].maxNotional # 0
                      => tiers[i].maxNotional > tiers[i - 1].maxNotional
                BY <4>1 DEF TiersValid
            <4> QED
                BY <2>2, <2>3, <3>2, <4>2 DEF TierFloor
        <3> QED
            BY <3>1, <3>2
    <2>5. TierNotional(tiers, i, notional) \in Nat
        BY <2>2, <2>3, <2>4 DEF TierNotional, Excess, Least
    <2>6. TierNotional(tiers, i, notional) * rate(i) \in Nat
        BY <2>2, <2>5
    <2> QED
        BY <2>6, ScalesAssumption
<1>2. b \in [1..Len(tiers) -> Nat]
    BY <1>1
<1>3. SumTo(b, Len(tiers)) \in Nat
    <2> HIDE DEF b
    <2> QED
        BY <1>2, SumOfNaturals
<1> QED
    BY <1>3 DEF TieredMargin

-----------------------------------------------------------------------------
(* Scratch states that a transaction goes through *)

LooseMarkets ==
    [exists : BOOLEAN, active : BOOLEAN, markPrice : Nat, indexPrice : Nat,
     lastPriceUpdate : 0..now, cumulativeFunding : Int, lastFundingUpdate : 0..now,
     openInterestLong : Int, openInterestShort : Int]

LoosePositions ==
    [size : Int, entryPrice : Nat, margin : Int, lastCumulativeFunding : Int,
     marginTierVersion : Nat]

\* What a scratch state is, also one that has reverted and so holds garbage.
Scratches ==
    [ok : BOOLEAN, ledger : Ledgers, markets : [Markets -> LooseMarkets],
     positions : [Markets -> [Accounts -> LoosePositions]],
     active : [Accounts -> Seq(Markets)], index : [Accounts -> [Markets -> Nat]],
     breaker : [active : BOOLEAN, triggeredAt : 0..now],
     window : [Markets -> [start : 0..now, liquidated : Nat]]]

\* Unless it reverted, nothing is below zero.
Sound(s) ==
    s.ok => /\ s.ledger \in NatLedgers
            /\ \A m \in Markets, a \in Accounts : s.positions[m][a].margin \in Nat

LongOf(p) == [a \in Accounts |-> LongPart(p[a].size)]
ShortOf(p) == [a \in Accounts |-> ShortPart(p[a].size)]

OIExact(s) ==
    \A m \in Markets :
        /\ s.markets[m].openInterestLong = SumTo(LongOf(s.positions[m]), N)
        /\ s.markets[m].openInterestShort = SumTo(ShortOf(s.positions[m]), N)

\* The list and the index of one account point at each other.
ListExact(list, index) ==
    \A m \in Markets :
        /\ index[m] # 0 => index[m] \in 1..Len(list) /\ list[index[m]] = m
        /\ \A j \in 1..Len(list) : list[j] = m => index[m] = j

Listed(s) == \A a \in Accounts : ListExact(s.active[a], s.index[a])

\* The tiers a position is held to are in the history.
VersionsIn(s) ==
    \A m \in Markets, a \in Accounts :
        s.positions[m][a].marginTierVersion <= Len(tierHistory[m])

\* A transaction neither adds nor drops a market.
SameMarkets(s) == \A m \in Markets : s.markets[m].exists = markets[m].exists

Good(s) ==
    /\ s \in Scratches
    /\ Sound(s)
    /\ OIExact(s)
    /\ Listed(s)
    /\ VersionsIn(s)
    /\ SameMarkets(s)

\* A market is listed for an account just when there is a position; for all accounts and
\* markets, and for all but one.
TiedAt(s, m, a) == (s.index[a][m] # 0) <=> (s.positions[m][a].size # 0)
Tied(s) == \A m \in Markets, a \in Accounts : TiedAt(s, m, a)
TiedBut(s, m0, a0) ==
    \A m \in Markets, a \in Accounts : (m # m0 \/ a # a0) => TiedAt(s, m, a)

\* The accounts that may pay for what is done to the positions of a.
Payers(a) == {a, Engine, InsuranceFund, FundingPool}

\* What t may differ in from s, when it was made from s for account a.
Served(s, t, a) ==
    /\ t.ok => /\ s.ok
               /\ \A b \in Accounts \ Payers(a) :
                      t.ledger.balances[b] >= s.ledger.balances[b]
    /\ \A b \in Accounts \ {a} :
           /\ \A k \in Markets : t.positions[k][b] = s.positions[k][b]
           /\ t.active[b] = s.active[b]
           /\ t.index[b] = s.index[b]

SameBooks(s, t) ==
    /\ t.markets = s.markets
    /\ t.positions = s.positions
    /\ t.active = s.active
    /\ t.index = s.index

\* What payments and requirements do to a scratch state.
Paid(s, t, a) == Good(t) /\ Served(s, t, a) /\ SameBooks(s, t)

-----------------------------------------------------------------------------
(* One update at a time *)

(* A piece of work that has done nothing serves its own start. *)
LEMMA ServedReflexive ==
    ASSUME NEW s, Good(s), NEW a \in Accounts
    PROVE  Served(s, s, a)
<1>1. \A b \in Accounts : s.ledger.balances[b] \in Int
    BY DEF Good, Scratches, Ledgers
<1> QED
    BY <1>1 DEF Served

(* Two pieces of work in a row serve the start of the first. *)
LEMMA ServedTransitive ==
    ASSUME NEW s, NEW t, NEW u, Good(s), Good(t), Good(u), NEW a \in Accounts,
           Served(s, t, a), Served(t, u, a)
    PROVE  Served(s, u, a)
<1>1. \A b \in Accounts : /\ s.ledger.balances[b] \in Int
                          /\ t.ledger.balances[b] \in Int
                          /\ u.ledger.balances[b] \in Int
    BY DEF Good, Scratches, Ledgers
<1>2. u.ok => s.ok
    BY DEF Served
<1>3. u.ok => \A b \in Accounts \ Payers(a) : u.ledger.balances[b] >= s.ledger.balances[b]
    BY <1>1 DEF Served
<1>4. \A b \in Accounts \ {a} :
          /\ \A k \in Markets : u.positions[k][b] = s.positions[k][b]
          /\ u.active[b] = s.active[b]
          /\ u.index[b] = s.index[b]
    BY DEF Served
<1> QED
    BY <1>2, <1>3, <1>4 DEF Served

(* Two payments in a row are a payment. *)
LEMMA PaidTransitive ==
    ASSUME NEW s, NEW t, NEW u, Good(s), NEW a \in Accounts, Paid(s, t, a), Paid(t, u, a)
    PROVE  Paid(s, u, a)
BY ServedTransitive DEF Paid, SameBooks

\* Good is not about the breaker and the window, nor about why a transaction reverts.
LEMMA SameBooksGood ==
    ASSUME NEW s, NEW t, Good(s), t \in Scratches, SameBooks(s, t), Sound(t)
    PROVE  Good(t)
BY DEF Good, SameBooks, OIExact, Listed, VersionsIn, SameMarkets

(* A require changes no book: it lets the chain go on or fails it. *)
LEMMA RequirePaid ==
    ASSUME NEW s, Good(s), NEW a \in Accounts, NEW condition
    PROVE  Paid(s, Require(s, condition), a)
<1> DEFINE t == Require(s, condition)
<1>1. t \in Scratches /\ SameBooks(s, t) /\ (t.ok => s.ok) /\ t.ledger = s.ledger
    BY DEF Good, Scratches, Require, SameBooks
<1> HIDE DEF t
<1>2. Sound(t)
    BY <1>1 DEF Good, Sound, SameBooks
<1>3. Served(s, t, a)
    <2>1. \A b \in Accounts : s.ledger.balances[b] \in Int
        BY DEF Good, Scratches, Ledgers
    <2> QED
        BY <1>1, <2>1 DEF Served, SameBooks
<1> QED
    BY <1>1, <1>2, <1>3, SameBooksGood DEF Paid, t

\* A transfer is made by one of those who may pay.
LEMMA PayPaid ==
    ASSUME NEW s, Good(s), NEW a \in Accounts, NEW from \in Payers(a), from \in Accounts,
           NEW to \in Accounts, NEW amount \in Int
    PROVE  Paid(s, Pay(s, from, to, amount), a)
<1> DEFINE t == Pay(s, from, to, amount)
           l == Transferred(s.ledger, from, to, amount)
<1>1. l \in Ledgers
    BY TransferredType DEF Good, Scratches
<1>2. /\ t \in Scratches
      /\ SameBooks(s, t)
      /\ t.ledger = l
      /\ t.ok => s.ok /\ LegAllowed(s.ledger, from, to, amount, 0)
    <2> HIDE DEF l
    <2>1. t = [s EXCEPT !.ok = @ /\ LegAllowed(s.ledger, from, to, amount, 0), !.ledger = l]
        BY DEF Pay, l
    <2>2. s \in Scratches
        BY DEF Good
    <2> HIDE DEF t
    <2> QED
        BY <1>1, <2>1, <2>2 DEF Scratches, SameBooks
<1> HIDE DEF t
<1>3. ASSUME t.ok
      PROVE  /\ l \in NatLedgers
             /\ \A b \in Accounts \ {from} : l.balances[b] >= s.ledger.balances[b]
    <2>1. s.ledger \in NatLedgers /\ LegAllowed(s.ledger, from, to, amount, 0)
        BY <1>2, <1>3 DEF Good, Sound
    <2>2. amount \in Nat
        BY <2>1 DEF LegAllowed
    <2> QED
        BY <2>1, <2>2, TransferredStaysNat, OnlyPayerLoses
<1>4. Sound(t)
    BY <1>2, <1>3 DEF Good, Sound, SameBooks
<1>5. Served(s, t, a)
    BY <1>2, <1>3 DEF Served, SameBooks, Payers
<1> QED
    BY <1>2, <1>4, <1>5, SameBooksGood DEF Paid, t

(* A payment that is skipped when there is nothing to pay is a payment. *)
LEMMA PayIfAnyPaid ==
    ASSUME NEW s, Good(s), NEW a \in Accounts, NEW from \in Payers(a), from \in Accounts,
           NEW to \in Accounts, NEW amount \in Int
    PROVE  Paid(s, PayIfAny(s, from, to, amount), a)
BY PayPaid, ServedReflexive DEF PayIfAny, Paid, SameBooks

-----------------------------------------------------------------------------
(* Positions and open interest *)

\* The sides of a market when a position of it goes from one size to another.
WithInterest(k, old, new) ==
    [k EXCEPT !.openInterestLong = @ - LongPart(old) + LongPart(new),
              !.openInterestShort = @ - ShortPart(old) + ShortPart(new)]

(* What the new open interest of a market changes, and what it leaves alone. *)
LEMMA WithInterestFields ==
    ASSUME NEW k \in LooseMarkets, NEW old \in Int, NEW new \in Int
    PROVE  /\ WithInterest(k, old, new) \in LooseMarkets
           /\ WithInterest(k, old, new).openInterestLong
                  = k.openInterestLong - LongPart(old) + LongPart(new)
           /\ WithInterest(k, old, new).openInterestShort
                  = k.openInterestShort - ShortPart(old) + ShortPart(new)
           /\ WithInterest(k, old, new).exists = k.exists
<1> DEFINE long == k.openInterestLong - LongPart(old) + LongPart(new)
           short == k.openInterestShort - ShortPart(old) + ShortPart(new)
<1>1. long \in Int /\ short \in Int
    BY DEF LooseMarkets, LongPart, ShortPart
<1>2. WithInterest(k, old, new) = [k EXCEPT !.openInterestLong = long,
                                            !.openInterestShort = short]
    BY DEF WithInterest, LooseMarkets
<1> HIDE DEF long, short
<1>3. /\ WithInterest(k, old, new) \in LooseMarkets
      /\ WithInterest(k, old, new).openInterestLong = long
      /\ WithInterest(k, old, new).openInterestShort = short
      /\ WithInterest(k, old, new).exists = k.exists
    BY <1>1, <1>2 DEF LooseMarkets
<1> QED
    BY <1>3 DEF long, short

\* What an update of open interest changes, and what it leaves alone.
LEMMA OpenInterestFields ==
    ASSUME NEW s \in Scratches, NEW m \in Markets, NEW old \in Int, NEW new \in Int,
           NEW t, t = UpdateOpenInterest(s, m, old, new)
    PROVE  /\ t \in Scratches
           /\ t.ok = s.ok /\ t.ledger = s.ledger /\ t.positions = s.positions
           /\ t.active = s.active /\ t.index = s.index
           /\ t.markets = [s.markets EXCEPT ![m] = WithInterest(s.markets[m], old, new)]
<1> DEFINE k == WithInterest(s.markets[m], old, new)
           ms == [s.markets EXCEPT ![m] = k]
<1>1. s.markets \in [Markets -> LooseMarkets] /\ s.markets[m] \in LooseMarkets
    BY DEF Scratches
<1>2. k \in LooseMarkets
    BY <1>1, WithInterestFields
<1>3. t = [s EXCEPT !.markets = ms]
    BY <1>1 DEF UpdateOpenInterest, WithInterest
<1> HIDE DEF k
<1>4. ms \in [Markets -> LooseMarkets]
    BY <1>1, <1>2
<1> HIDE DEF ms
<1>5. /\ t \in Scratches
      /\ t.ok = s.ok /\ t.ledger = s.ledger /\ t.positions = s.positions
      /\ t.active = s.active /\ t.index = s.index /\ t.markets = ms
    BY <1>3, <1>4 DEF Scratches
<1> QED
    BY <1>5 DEF ms, k

\* What a write to a position changes, and what it leaves alone.
LEMMA PositionFields ==
    ASSUME NEW s \in Scratches, NEW m \in Markets, NEW a \in Accounts,
           NEW pos \in LoosePositions, NEW t, t = SetPosition(s, m, a, pos)
    PROVE  /\ t \in Scratches
           /\ t.ok = s.ok /\ t.ledger = s.ledger /\ t.markets = s.markets
           /\ t.active = s.active /\ t.index = s.index
           /\ t.positions = [s.positions EXCEPT ![m] = [s.positions[m] EXCEPT ![a] = pos]]
<1> DEFINE ps == [s.positions EXCEPT ![m] = [s.positions[m] EXCEPT ![a] = pos]]
<1>1. s.positions \in [Markets -> [Accounts -> LoosePositions]]
    BY DEF Scratches
<1>2. ps \in [Markets -> [Accounts -> LoosePositions]]
    BY <1>1
<1>3. t = [s EXCEPT !.positions = ps]
    BY <1>1 DEF SetPosition, Scratches
<1> HIDE DEF ps
<1>4. /\ t \in Scratches
      /\ t.ok = s.ok /\ t.ledger = s.ledger /\ t.markets = s.markets
      /\ t.active = s.active /\ t.index = s.index
      /\ t.positions = ps
    BY <1>2, <1>3 DEF Scratches
<1> QED
    BY <1>4 DEF ps

\* Changing one position changes the sums of both sides by as much.
LEMMA SidesMove ==
    ASSUME NEW p \in [Accounts -> LoosePositions], NEW a \in Accounts,
           NEW pos \in LoosePositions, NEW q, q = [p EXCEPT ![a] = pos]
    PROVE  /\ SumTo(LongOf(q), N)
                  = SumTo(LongOf(p), N) - LongPart(p[a].size) + LongPart(pos.size)
           /\ SumTo(ShortOf(q), N)
                  = SumTo(ShortOf(p), N) - ShortPart(p[a].size) + ShortPart(pos.size)
<1> DEFINE v == LongPart(pos.size)
           w == ShortPart(pos.size)
           f == LongOf(p)
           g == ShortOf(p)
<1>1. /\ \A b \in Accounts : p[b].size \in Int
      /\ pos.size \in Int
      /\ N \in Nat
    BY AccountsAssumption DEF LoosePositions
<1>2. f \in [1..N -> Int] /\ g \in [1..N -> Int]
    BY <1>1 DEF LongOf, ShortOf, LongPart, ShortPart, Accounts
<1>3. v \in Int /\ w \in Int /\ a \in 1..N
    BY <1>1 DEF LongPart, ShortPart, Accounts
<1>4. f[a] = LongPart(p[a].size) /\ g[a] = ShortPart(p[a].size)
    BY DEF LongOf, ShortOf
<1>5. LongOf(q) = [f EXCEPT ![a] = v] /\ ShortOf(q) = [g EXCEPT ![a] = w]
    BY DEF LongOf, ShortOf
<1> HIDE DEF f, g, v, w
<1>6. SumTo([f EXCEPT ![a] = v], N) = SumTo(f, N) - f[a] + v
    BY <1>1, <1>2, <1>3, SumOneChange
<1>7. SumTo([g EXCEPT ![a] = w], N) = SumTo(g, N) - g[a] + w
    BY <1>1, <1>2, <1>3, SumOneChange
<1> QED
    BY <1>4, <1>5, <1>6, <1>7 DEF f, g, v, w

\* A position replaced, and open interest adjusted from its old to its new size.
Placed(s, m, a, pos) ==
    UpdateOpenInterest(SetPosition(s, m, a, pos), m, s.positions[m][a].size, pos.size)

\* The position and the open interest may be written in either order.
LEMMA WrittenInAnyOrder ==
    ASSUME NEW s \in Scratches, NEW m \in Markets, NEW a \in Accounts, NEW old \in Int,
           NEW new \in Int, NEW pos \in LoosePositions
    PROVE  SetPosition(UpdateOpenInterest(s, m, old, new), m, a, pos)
               = UpdateOpenInterest(SetPosition(s, m, a, pos), m, old, new)
BY DEF SetPosition, UpdateOpenInterest, Scratches

\* A position is replaced together with its part of the open interest.
LEMMA PlacedGood ==
    ASSUME NEW s, Good(s), NEW m \in Markets, NEW a \in Accounts, NEW pos \in LoosePositions,
           s.ok => pos.margin \in Nat,
           pos.marginTierVersion <= Len(tierHistory[m]),
           NEW t, t = Placed(s, m, a, pos)
    PROVE  /\ Good(t)
           /\ Served(s, t, a)
           /\ t.ok = s.ok /\ t.ledger = s.ledger
           /\ t.active = s.active /\ t.index = s.index
           /\ t.positions = [s.positions EXCEPT ![m] = [s.positions[m] EXCEPT ![a] = pos]]
<1> DEFINE p == s.positions[m]
           q == [p EXCEPT ![a] = pos]
           old == p[a].size
           new == pos.size
           u == SetPosition(s, m, a, pos)
<1>1. /\ s \in Scratches /\ s.positions \in [Markets -> [Accounts -> LoosePositions]]
      /\ s.markets \in [Markets -> LooseMarkets]
    BY DEF Good, Scratches
<1>2. p \in [Accounts -> LoosePositions] /\ p[a] \in LoosePositions
    BY <1>1
<1>3. old \in Int /\ new \in Int
    BY <1>2 DEF LoosePositions
<1>4. /\ u \in Scratches
      /\ u.ok = s.ok /\ u.ledger = s.ledger /\ u.markets = s.markets
      /\ u.active = s.active /\ u.index = s.index
      /\ u.positions = [s.positions EXCEPT ![m] = q]
    <2>1. u = SetPosition(s, m, a, pos)
        OBVIOUS
    <2> HIDE DEF u
    <2> QED
        BY <1>1, <2>1, PositionFields
<1>5. t = UpdateOpenInterest(u, m, old, new)
    BY DEF Placed
<1>6. /\ q[a] = pos
      /\ \A b \in Accounts \ {a} : q[b] = p[b]
    BY <1>2
<1> HIDE DEF p, q, old, new, u
<1>7. /\ t \in Scratches
      /\ t.ok = s.ok /\ t.ledger = s.ledger
      /\ t.active = s.active /\ t.index = s.index
      /\ t.positions = u.positions
      /\ t.markets = [u.markets EXCEPT ![m] = WithInterest(u.markets[m], old, new)]
    BY <1>3, <1>4, <1>5, OpenInterestFields
<1>8. /\ t.positions[m] = q
      /\ \A k \in Markets \ {m} : t.positions[k] = s.positions[k]
      /\ t.positions = [s.positions EXCEPT ![m] = q]
    BY <1>1, <1>4, <1>7
<1>9. /\ t.markets[m] = WithInterest(s.markets[m], old, new)
      /\ \A k \in Markets \ {m} : t.markets[k] = s.markets[k]
      /\ s.markets[m] \in LooseMarkets
    BY <1>1, <1>4, <1>7
<1>10. /\ t.markets[m].openInterestLong
             = s.markets[m].openInterestLong - LongPart(old) + LongPart(new)
       /\ t.markets[m].openInterestShort
             = s.markets[m].openInterestShort - ShortPart(old) + ShortPart(new)
    BY <1>3, <1>9, WithInterestFields
<1>11. OIExact(t)
    <2>1. /\ SumTo(LongOf(q), N) = SumTo(LongOf(p), N) - LongPart(old) + LongPart(new)
          /\ SumTo(ShortOf(q), N) = SumTo(ShortOf(p), N) - ShortPart(old) + ShortPart(new)
        BY <1>2, SidesMove DEF q, old, new
    <2> QED
        BY <1>8, <1>9, <1>10, <2>1 DEF OIExact, Good, p
<1>12. Sound(t) /\ VersionsIn(t) /\ Listed(t)
    BY <1>6, <1>7, <1>8 DEF Good, Sound, VersionsIn, Listed, p
<1>13. Served(s, t, a)
    <2>1. \A b \in Accounts : s.ledger.balances[b] \in Int
        BY DEF Good, Scratches, Ledgers
    <2> QED
        BY <1>6, <1>7, <1>8, <2>1 DEF Served, p
<1>14. Good(t)
    <2>1. SameMarkets(t)
        BY <1>3, <1>9, WithInterestFields DEF Good, SameMarkets
    <2> QED
        BY <1>7, <1>11, <1>12, <2>1 DEF Good
<1>15. t.positions = [s.positions EXCEPT ![m] = [s.positions[m] EXCEPT ![a] = pos]]
    BY <1>8 DEF p, q
<1>16. t.ok = s.ok /\ t.ledger = s.ledger /\ t.active = s.active /\ t.index = s.index
    BY <1>4, <1>7
<1> QED
    BY <1>13, <1>14, <1>15, <1>16

-----------------------------------------------------------------------------
(* Lists of markets *)

\* The list and the index with market m at the end.
ListWith(list, m) == Append(list, m)
IndexWith(list, index, m) == [index EXCEPT ![m] = Len(list) + 1]

\* The list and the index without market m.
ListWithout(list, index, m) ==
    SubSeq([list EXCEPT ![index[m]] = list[Len(list)]], 1, Len(list) - 1)
IndexWithout(list, index, m) == [[index EXCEPT ![list[Len(list)]] = index[m]] EXCEPT ![m] = 0]

\* A market that was not listed goes to the end.
LEMMA AppendExact ==
    ASSUME NEW list \in Seq(Markets), NEW index \in [Markets -> Nat], ListExact(list, index),
           NEW m \in Markets, index[m] = 0,
           NEW list2, list2 = ListWith(list, m),
           NEW index2, index2 = IndexWith(list, index, m)
    PROVE  /\ list2 \in Seq(Markets)
           /\ index2 \in [Markets -> Nat]
           /\ ListExact(list2, index2)
           /\ index2[m] # 0
           /\ \A k \in Markets \ {m} : index2[k] = index[k]
<1> DEFINE n == Len(list)
<1>1. n \in Nat /\ list2 \in Seq(Markets) /\ Len(list2) = n + 1
    BY DEF ListWith
<1>2. list2[n + 1] = m /\ \A j \in 1..n : list2[j] = list[j]
    BY DEF ListWith
<1>3. /\ index2 \in [Markets -> Nat]
      /\ index2[m] = n + 1
      /\ \A k \in Markets \ {m} : index2[k] = index[k]
    BY <1>1 DEF IndexWith
<1>4. \A k \in Markets : /\ index[k] # 0 => index[k] \in 1..n /\ list[index[k]] = k
                         /\ \A j \in 1..n : list[j] = k => index[k] = j
    BY DEF ListExact
<1> HIDE DEF n
<1>5. ASSUME NEW k \in Markets
      PROVE  /\ index2[k] # 0 => index2[k] \in 1..n + 1 /\ list2[index2[k]] = k
             /\ \A j \in 1..n + 1 : list2[j] = k => index2[k] = j
    <2>1. CASE k = m
        <3>1. \A j \in 1..n : list[j] # m
            BY <1>1, <1>4
        <3>2. \A j \in 1..n + 1 : j = n + 1 \/ j \in 1..n
            BY <1>1
        <3>3. n + 1 \in 1..n + 1
            BY <1>1
        <3> QED
            BY <1>2, <1>3, <2>1, <3>1, <3>2, <3>3
    <2>2. CASE k # m
        <3>1. \A j \in 1..n + 1 : j = n + 1 \/ j \in 1..n
            BY <1>1
        <3>2. index2[k] = index[k]
            BY <1>3, <2>2
        <3>3. index[k] # 0 => index[k] \in 1..n + 1 /\ list2[index[k]] = k
            <4>1. \A j \in 1..n : j \in 1..n + 1
                BY <1>1
            <4> QED
                BY <1>2, <1>4, <4>1
        <3>4. \A j \in 1..n + 1 : list2[j] = k => index[k] = j
            BY <1>2, <1>4, <2>2, <3>1
        <3> QED
            BY <3>2, <3>3, <3>4
    <2> QED
        BY <2>1, <2>2
<1>6. ListExact(list2, index2)
    BY ONLY <1>1, <1>5 DEF ListExact
<1>7. index2[m] # 0
    BY ONLY <1>1, <1>3
<1> QED
    BY ONLY <1>1, <1>3, <1>6, <1>7

\* The last market of the list takes the place of the removed one, and its index follows.
LEMMA RemoveExact ==
    ASSUME NEW list \in Seq(Markets), NEW index \in [Markets -> Nat], ListExact(list, index),
           NEW m \in Markets, index[m] # 0,
           NEW list2, list2 = ListWithout(list, index, m),
           NEW index2, index2 = IndexWithout(list, index, m)
    PROVE  /\ list2 \in Seq(Markets)
           /\ index2 \in [Markets -> Nat]
           /\ ListExact(list2, index2)
           /\ index2[m] = 0
           /\ \A k \in Markets \ {m} : (index2[k] # 0) <=> (index[k] # 0)
<1> DEFINE n == Len(list)
           i == index[m]
           last == list[n]
           moved == [list EXCEPT ![i] = last]
<1>1. \A k \in Markets : /\ index[k] # 0 => index[k] \in 1..n /\ list[index[k]] = k
                         /\ \A j \in 1..n : list[j] = k => index[k] = j
    BY DEF ListExact
<1>2. n \in Nat /\ i \in 1..n /\ list[i] = m /\ n \in 1..n
    BY <1>1
<1>3. last \in Markets /\ index[last] = n
    BY <1>1, <1>2
<1>4. moved \in Seq(Markets) /\ Len(moved) = n /\ moved[i] = last
          /\ \A j \in 1..n : j # i => moved[j] = list[j]
    BY <1>2, <1>3
<1>5. list2 = SubSeq(moved, 1, n - 1)
    BY DEF ListWithout
<1> HIDE DEF n, moved
<1>6. list2 \in Seq(Markets) /\ Len(list2) = n - 1 /\ \A j \in 1..n - 1 : list2[j] = moved[j]
    <2>1. n - 1 \in Int /\ (n - 1) - 1 + 1 = n - 1 /\ (1 > n - 1 => n - 1 = 0)
        BY <1>2
    <2>2. \A j \in 1..n - 1 : j \in 1..n /\ 1 + j - 1 = j /\ moved[j] \in Markets
        BY <1>2, <1>4
    <2>3. /\ list2 \in Seq(Markets)
          /\ Len(list2) = IF 1 <= n - 1 THEN (n - 1) - 1 + 1 ELSE 0
          /\ \A j \in 1..(n - 1) - 1 + 1 : list2[j] = moved[1 + j - 1]
        BY <1>5, <2>1, <2>2, SubSeqProperties
    <2> QED
        BY <2>1, <2>2, <2>3
<1>7. /\ index2 \in [Markets -> Nat]
      /\ index2[m] = 0
      /\ last # m => index2[last] = i
      /\ \A k \in Markets : k # m /\ k # last => index2[k] = index[k]
    BY <1>2, <1>3 DEF IndexWithout, n
<1>8. i = index[m] /\ last = list[n]
    OBVIOUS
<1> HIDE DEF i, last
<1>9. ASSUME NEW k \in Markets, index2[k] # 0
      PROVE  index2[k] \in 1..n - 1 /\ list2[index2[k]] = k
    <2>1. k # m
        BY <1>7, <1>9
    <2>2. CASE k = last
        <3>1. i # n
            BY <1>1, <1>2, <1>3, <1>8, <2>1, <2>2
        <3>2. i \in 1..n - 1
            BY <1>2, <3>1
        <3> QED
            BY <1>4, <1>6, <1>7, <2>1, <2>2, <3>2
    <2>3. CASE k # last
        <3>1. index2[k] = index[k] /\ index[k] # 0
            BY <1>7, <1>9, <2>1, <2>3
        <3>2. index[k] \in 1..n /\ list[index[k]] = k
            BY <1>1, <3>1
        <3>3. index[k] # n /\ index[k] # i
            BY <1>2, <1>8, <2>1, <2>3, <3>2
        <3>4. index[k] \in 1..n - 1
            BY <1>2, <3>2, <3>3
        <3> QED
            BY <1>4, <1>6, <3>1, <3>2, <3>3, <3>4
    <2> QED
        BY <2>2, <2>3
<1>10. ASSUME NEW k \in Markets, NEW j \in 1..n - 1, list2[j] = k
       PROVE  index2[k] = j
    <2>1. j \in 1..n /\ j # n
        BY <1>2
    <2>2. moved[j] = k
        BY <1>6, <1>10
    <2>3. CASE j = i
        <3>1. k = last
            BY <1>4, <2>2, <2>3
        <3>2. last # m
            BY <1>3, <1>8, <2>1, <2>3
        <3> QED
            BY <1>7, <2>3, <3>1, <3>2
    <2>4. CASE j # i
        <3>1. index[k] = j
            BY <1>1, <1>4, <2>1, <2>2, <2>4
        <3>2. k # m /\ k # last
            BY <1>3, <1>8, <2>1, <2>4, <3>1
        <3> QED
            BY <1>7, <3>1, <3>2
    <2> QED
        BY <2>3, <2>4
<1>11. ListExact(list2, index2)
    BY <1>6, <1>9, <1>10 DEF ListExact
<1>12. \A k \in Markets \ {m} : (index2[k] # 0) <=> (index[k] # 0)
    BY <1>2, <1>3, <1>7
<1> QED
    BY <1>6, <1>7, <1>11, <1>12

\* The list and the index of one account replaced.
WithList(s, a, list, index) ==
    [s EXCEPT !.active = [s.active EXCEPT ![a] = list],
              !.index = [s.index EXCEPT ![a] = index]]

\* Any list and index that are exact may be put in the place of those of one account.
LEMMA WithListGood ==
    ASSUME NEW s, Good(s), NEW a \in Accounts, NEW list \in Seq(Markets),
           NEW index \in [Markets -> Nat], ListExact(list, index),
           NEW t, t = WithList(s, a, list, index)
    PROVE  /\ Good(t)
           /\ Served(s, t, a)
           /\ t.ok = s.ok /\ t.ledger = s.ledger
           /\ t.markets = s.markets /\ t.positions = s.positions
           /\ t.index[a] = index
           /\ \A b \in Accounts \ {a} : t.index[b] = s.index[b]
<1> DEFINE lists == [s.active EXCEPT ![a] = list]
           indexes == [s.index EXCEPT ![a] = index]
<1>1. /\ s \in Scratches
      /\ s.active \in [Accounts -> Seq(Markets)]
      /\ s.index \in [Accounts -> [Markets -> Nat]]
    BY DEF Good, Scratches
<1>2. /\ lists \in [Accounts -> Seq(Markets)]
      /\ indexes \in [Accounts -> [Markets -> Nat]]
      /\ lists[a] = list /\ indexes[a] = index
      /\ \A b \in Accounts \ {a} : lists[b] = s.active[b] /\ indexes[b] = s.index[b]
    BY <1>1
<1> HIDE DEF lists, indexes
<1>3. t = [s EXCEPT !.active = lists, !.index = indexes]
    BY DEF WithList, lists, indexes
<1>4. /\ t \in Scratches
      /\ t.ok = s.ok /\ t.ledger = s.ledger
      /\ t.markets = s.markets /\ t.positions = s.positions
      /\ t.active = lists /\ t.index = indexes
    BY <1>1, <1>2, <1>3 DEF Scratches
<1>5. Listed(t)
    <2>1. \A b \in Accounts : ListExact(s.active[b], s.index[b])
        BY DEF Good, Listed
    <2>2. ASSUME NEW b \in Accounts PROVE ListExact(t.active[b], t.index[b])
        <3>1. CASE b = a
            BY <1>2, <1>4, <3>1
        <3>2. CASE b # a
            <4>1. t.active[b] = s.active[b] /\ t.index[b] = s.index[b]
                BY <1>2, <1>4, <3>2
            <4> QED
                BY <2>1, <4>1
        <3> QED
            BY <3>1, <3>2
    <2> QED
        BY <2>2 DEF Listed
<1>6. Good(t)
    <2>1. Sound(t) /\ OIExact(t) /\ VersionsIn(t) /\ SameMarkets(t)
        BY <1>4 DEF Good, Sound, OIExact, VersionsIn, SameMarkets
    <2> QED
        BY <1>4, <1>5, <2>1 DEF Good
<1>7. Served(s, t, a)
    <2>1. \A b \in Accounts : s.ledger.balances[b] \in Int
        BY <1>1 DEF Scratches, Ledgers
    <2> QED
        BY <1>2, <1>4, <2>1 DEF Served
<1> QED
    BY <1>2, <1>4, <1>6, <1>7

\* t has the positions of s, and the list of a has gained market m, or lost it.
Relisted(s, t, m, a) ==
    /\ Good(t)
    /\ Served(s, t, a)
    /\ t.ok = s.ok /\ t.ledger = s.ledger
    /\ t.markets = s.markets /\ t.positions = s.positions
    /\ \A k \in Markets, b \in Accounts :
           (k # m \/ b # a) => ((t.index[b][k] # 0) <=> (s.index[b][k] # 0))

(* _addActive keeps the books of a scratch state good and enters the market into the list. *)
LEMMA AddActiveGood ==
    ASSUME NEW s, Good(s), NEW m \in Markets, NEW a \in Accounts,
           NEW t, t = AddActive(s, m, a)
    PROVE  Relisted(s, t, m, a) /\ t.index[a][m] # 0
<1>1. CASE s.index[a][m] # 0
    <2>1. t = s
        BY <1>1 DEF AddActive
    <2>2. Served(s, t, a)
        BY <2>1, ServedReflexive
    <2> QED
        BY <1>1, <2>1, <2>2 DEF Relisted
<1>2. CASE s.index[a][m] = 0
    <2> DEFINE list == s.active[a]
               index == s.index[a]
               list2 == ListWith(list, m)
               index2 == IndexWith(list, index, m)
    <2>1. /\ s.active \in [Accounts -> Seq(Markets)]
          /\ s.index \in [Accounts -> [Markets -> Nat]]
          /\ s \in Scratches
        BY DEF Good, Scratches
    <2>2. /\ list \in Seq(Markets) /\ index \in [Markets -> Nat]
          /\ ListExact(list, index)
        BY <2>1 DEF Good, Listed
    <2>3. t = WithList(s, a, list2, index2)
        BY <1>2, <2>1 DEF AddActive, Scratches, WithList, ListWith, IndexWith
    <2>4. /\ list2 \in Seq(Markets) /\ index2 \in [Markets -> Nat]
          /\ ListExact(list2, index2)
          /\ index2[m] # 0
          /\ \A k \in Markets \ {m} : index2[k] = index[k]
        <3>1. list2 = ListWith(list, m) /\ index2 = IndexWith(list, index, m) /\ index[m] = 0
            BY <1>2
        <3> HIDE DEF list, index, list2, index2
        <3> QED
            BY <2>2, <3>1, AppendExact
    <2> HIDE DEF list2, index2
    <2>5. /\ Good(t)
          /\ Served(s, t, a)
          /\ t.ok = s.ok /\ t.ledger = s.ledger
          /\ t.markets = s.markets /\ t.positions = s.positions
          /\ t.index[a] = index2
          /\ \A b \in Accounts \ {a} : t.index[b] = s.index[b]
        BY <2>3, <2>4, WithListGood
    <2> QED
        BY <2>4, <2>5 DEF Relisted
<1> QED
    BY <1>1, <1>2

(* _removeActive keeps the books of a scratch state good and takes the market from the list. *)
LEMMA RemoveActiveGood ==
    ASSUME NEW s, Good(s), NEW m \in Markets, NEW a \in Accounts,
           NEW t, t = RemoveActive(s, m, a)
    PROVE  Relisted(s, t, m, a) /\ t.index[a][m] = 0
<1>1. CASE s.index[a][m] = 0
    <2>1. t = s
        BY <1>1 DEF RemoveActive
    <2>2. Served(s, t, a)
        BY <2>1, ServedReflexive
    <2> QED
        BY <1>1, <2>1, <2>2 DEF Relisted
<1>2. CASE s.index[a][m] # 0
    <2> DEFINE list == s.active[a]
               index == s.index[a]
               list2 == ListWithout(list, index, m)
               index2 == IndexWithout(list, index, m)
    <2>1. /\ s.active \in [Accounts -> Seq(Markets)]
          /\ s.index \in [Accounts -> [Markets -> Nat]]
          /\ s \in Scratches
        BY DEF Good, Scratches
    <2>2. /\ list \in Seq(Markets) /\ index \in [Markets -> Nat]
          /\ ListExact(list, index)
        BY <2>1 DEF Good, Listed
    <2>3. t = WithList(s, a, list2, index2)
        BY <1>2, <2>1 DEF RemoveActive, Scratches, WithList, ListWithout, IndexWithout
    <2>4. /\ list2 \in Seq(Markets) /\ index2 \in [Markets -> Nat]
          /\ ListExact(list2, index2)
          /\ index2[m] = 0
          /\ \A k \in Markets \ {m} : (index2[k] # 0) <=> (index[k] # 0)
        <3>1. /\ list2 = ListWithout(list, index, m)
              /\ index2 = IndexWithout(list, index, m)
              /\ index[m] # 0
            BY <1>2
        <3> HIDE DEF list, index, list2, index2
        <3> QED
            BY <2>2, <3>1, RemoveExact
    <2> HIDE DEF list2, index2
    <2>5. /\ Good(t)
          /\ Served(s, t, a)
          /\ t.ok = s.ok /\ t.ledger = s.ledger
          /\ t.markets = s.markets /\ t.positions = s.positions
          /\ t.index[a] = index2
          /\ \A b \in Accounts \ {a} : t.index[b] = s.index[b]
        BY <2>3, <2>4, WithListGood
    <2> QED
        BY <2>4, <2>5 DEF Relisted
<1> QED
    BY <1>1, <1>2

-----------------------------------------------------------------------------
(* What a good scratch state holds *)

(* The position a good scratch state holds has its type. *)
LEMMA GoodPosition ==
    ASSUME NEW s, Good(s), NEW m \in Markets, NEW a \in Accounts
    PROVE  /\ s.positions[m][a] \in LoosePositions
           /\ s.positions[m][a].size \in Int
           /\ s.positions[m][a].entryPrice \in Nat
           /\ s.positions[m][a].margin \in Int
           /\ s.positions[m][a].lastCumulativeFunding \in Int
           /\ s.positions[m][a].marginTierVersion \in Nat
           /\ s.positions[m][a].marginTierVersion <= Len(tierHistory[m])
           /\ s.ok => s.positions[m][a].margin \in Nat
<1>1. s.positions \in [Markets -> [Accounts -> LoosePositions]]
    BY DEF Good, Scratches
<1>2. s.positions[m][a] \in LoosePositions
    BY <1>1
<1>3. /\ s.positions[m][a].marginTierVersion <= Len(tierHistory[m])
      /\ s.ok => s.positions[m][a].margin \in Nat
    BY DEF Good, VersionsIn, Sound
<1> QED
    BY <1>2, <1>3 DEF LoosePositions

\* Open interest is never below zero: it is a sum of parts that are not.
LEMMA GoodMarket ==
    ASSUME NEW s, Good(s), NEW m \in Markets
    PROVE  /\ s.markets[m] \in LooseMarkets
           /\ s.markets[m].markPrice \in Nat
           /\ s.markets[m].cumulativeFunding \in Int
           /\ s.markets[m].openInterestLong \in Nat
           /\ s.markets[m].openInterestShort \in Nat
<1>1. s.markets[m] \in LooseMarkets
    BY DEF Good, Scratches
<1>2. \A a \in Accounts : s.positions[m][a].size \in Int
    BY GoodPosition
<1>3. LongOf(s.positions[m]) \in [1..N -> Nat] /\ ShortOf(s.positions[m]) \in [1..N -> Nat]
    BY <1>2 DEF LongOf, ShortOf, LongPart, ShortPart, Accounts
<1>4. SumTo(LongOf(s.positions[m]), N) \in Nat /\ SumTo(ShortOf(s.positions[m]), N) \in Nat
    BY <1>3, AccountsAssumption, SumOfNaturals
<1>5. s.markets[m].openInterestLong \in Nat /\ s.markets[m].openInterestShort \in Nat
    BY <1>4 DEF Good, OIExact
<1> QED
    BY <1>1, <1>5 DEF LooseMarkets

(* The balance a good scratch state holds is a natural. *)
LEMMA GoodBalance ==
    ASSUME NEW s, Good(s), NEW a \in Accounts
    PROVE  /\ s \in Scratches
           /\ s.ok \in BOOLEAN
           /\ Free(s, a) \in Int
           /\ s.ok => Free(s, a) \in Nat
<1>1. s \in Scratches /\ s.ok \in BOOLEAN /\ Free(s, a) \in Int
    BY DEF Good, Scratches, Ledgers, Free
<1>2. s.ok => Free(s, a) \in Nat
    BY DEF Good, Sound, NatLedgers, Free
<1> QED
    BY <1>1, <1>2

\* The margin that any version of the tiers in the history asks for is a natural number.
LEMMA MarginType ==
    ASSUME TypeOK, NEW m \in Markets, NEW notional \in Nat, NEW isInitial \in BOOLEAN,
           NEW version \in Nat, version <= Len(tierHistory[m])
    PROVE  MarginForVersion(m, notional, isInitial, version) \in Nat
<1>1. tierHistory[m] \in Seq(Seq(Tiers))
    BY DEF TypeOK
<1>2. CASE version # 0
    <2>1. version \in 1..Len(tierHistory[m])
        BY <1>1, <1>2
    <2>2. tierHistory[m][version] \in Seq(Tiers)
        BY <1>1, <2>1
    <2>3. TiersValid(tierHistory[m][version])
        BY <2>1 DEF TypeOK
    <2>4. TieredMargin(tierHistory[m][version], notional, isInitial) \in Nat
        BY <2>2, <2>3, TieredMarginType
    <2>5. \A rate \in Nat : (notional * rate) \div BPS \in Nat
        <3>1. \A rate \in Nat : notional * rate \in Nat
            OBVIOUS
        <3> QED
            BY <3>1, ScalesAssumption
    <2>6. Config[m].initialMarginBps \in Nat /\ Config[m].maintenanceMarginBps \in Nat
        BY RatesAssumption, ScalesAssumption
    <2> QED
        BY <2>4, <2>5, <2>6 DEF MarginForVersion
<1>3. CASE version = 0
    <2>1. \A rate \in Nat : (notional * rate) \div BPS \in Nat
        <3>1. \A rate \in Nat : notional * rate \in Nat
            OBVIOUS
        <3> QED
            BY <3>1, ScalesAssumption
    <2>2. Config[m].initialMarginBps \in Nat /\ Config[m].maintenanceMarginBps \in Nat
        BY RatesAssumption, ScalesAssumption
    <2> QED
        BY <1>3, <2>1, <2>2 DEF MarginForVersion
<1> QED
    BY <1>2, <1>3

(* The initial margin of a size is a natural. *)
LEMMA InitialMarginType ==
    ASSUME TypeOK, NEW m \in Markets, NEW notional \in Nat
    PROVE  InitialMargin(m, notional) \in Nat
<1> DEFINE v == Len(tierHistory[m])
<1>1. v \in Nat /\ v <= Len(tierHistory[m])
    BY DEF TypeOK
<1> HIDE DEF v
<1>2. \A isInitial \in BOOLEAN : MarginForVersion(m, notional, isInitial, v) \in Nat
    BY <1>1, MarginType
<1>3. MarginForVersion(m, notional, TRUE, v) \in Nat
    BY <1>2
<1> QED
    BY <1>3 DEF InitialMargin, v

-----------------------------------------------------------------------------
(* The payments of a transaction *)

\* Margin is locked out of the trader's own balance, and never a negative amount.
LEMMA LockMarginPaid ==
    ASSUME NEW s, Good(s), NEW a \in Accounts, NEW m, NEW notional, NEW needed \in Nat,
           NEW t, t = LockMargin(s, a, m, notional, needed)
    PROVE  /\ Paid(s, t, a)
           /\ Lockable(s, a, needed) \in Int
           /\ t.ok => Lockable(s, a, needed) \in Nat
<1>1. a \in Payers(a) /\ Engine \in Accounts
    BY RolesAssumption DEF Payers
<1>2. /\ Lockable(s, a, needed) \in Int
      /\ s.ok => Lockable(s, a, needed) \in Nat
    BY GoodBalance DEF Lockable, Least
<1>3. Paid(s, t, a)
    <2>1. CASE Cross(a)
        <3> DEFINE r == Require(s, CrossMarginSufficient(s, a, m, notional))
                   amount == Lockable(s, a, needed)
        <3>1. Paid(s, r, a)
            BY RequirePaid
        <3>2. t = PayIfAny(r, a, Engine, amount)
            BY <2>1 DEF LockMargin
        <3> HIDE DEF r, amount
        <3>3. Good(r) /\ amount \in Int
            BY <1>2, <3>1 DEF Paid, amount
        <3>4. Paid(r, t, a)
            BY <1>1, <3>2, <3>3, PayIfAnyPaid
        <3> QED
            BY <3>1, <3>4, PaidTransitive
    <2>2. CASE ~Cross(a)
        <3> DEFINE r == Require(s, Free(s, a) >= needed)
        <3>1. Paid(s, r, a)
            BY RequirePaid
        <3>2. t = Pay(r, a, Engine, needed)
            BY <2>2 DEF LockMargin
        <3> HIDE DEF r
        <3>3. Good(r)
            BY <3>1 DEF Paid
        <3>4. Paid(r, t, a)
            BY <1>1, <3>2, <3>3, PayPaid
        <3> QED
            BY <3>1, <3>4, PaidTransitive
    <2> QED
        BY <2>1, <2>2
<1> QED
    BY <1>2, <1>3 DEF Paid, Served

(* Charging or rebating the price impact is a payment of the trader. *)
LEMMA ChargeImpactPaid ==
    ASSUME TypeOK, NEW s, Good(s), NEW m \in Markets, NEW a \in Accounts,
           NEW sizeDelta \in Int, NEW notional \in Nat
    PROVE  Paid(s, ChargeImpact(s, m, a, sizeDelta, notional), a)
<1> DEFINE long == s.markets[m].openInterestLong
           short == s.markets[m].openInterestShort
           fraction == (Abs(sizeDelta) * BPS) \div (long + short)
           factor == params.impactFactorBps[m]
           impact == PriceImpact(s, m, sizeDelta, notional)
           amount == Least(impact, Free(s, a))
<1>1. long \in Nat /\ short \in Nat
    BY GoodMarket
<1>2. factor \in Nat
    BY DEF TypeOK, Params
<1>3. impact \in Int
    <2>1. CASE long + short = 0
        BY <2>1 DEF PriceImpact
    <2>2. CASE long + short # 0
        <3>1. long + short \in Nat \ {0}
            BY <1>1, <2>2
        <3>2. Abs(sizeDelta) * BPS \in Nat
            BY AbsType, ScalesAssumption
        <3>3. fraction \in Nat
            <4> HIDE DEF long, short
            <4> QED
                BY <3>1, <3>2
        <3> HIDE DEF fraction, factor, long, short
        <3>4. notional * fraction * fraction * factor \in Nat /\ BPS * BPS * BPS \in Nat \ {0}
            <4>1. notional * fraction \in Nat
                BY <3>3
            <4>2. notional * fraction * fraction \in Nat
                BY <3>3, <4>1
            <4>3. BPS * BPS \in Nat \ {0}
                BY ScalesAssumption
            <4>4. BPS * BPS * BPS \in Nat \ {0}
                BY <4>3, ScalesAssumption
            <4> QED
                BY <1>2, <4>2, <4>4
        <3>5. (notional * fraction * fraction * factor) \div (BPS * BPS * BPS) \in Int
            BY <3>4
        <3> QED
            BY <3>5 DEF PriceImpact, fraction, factor, long, short
    <2> QED
        BY <2>1, <2>2
<1> HIDE DEF impact
<1>4. amount \in Int
    BY <1>3, GoodBalance DEF Least
<1>5. a \in Payers(a) /\ FeeRecipient \in Accounts
    BY RolesAssumption DEF Payers
<1> HIDE DEF amount
<1>6. ChargeImpact(s, m, a, sizeDelta, notional) = PayIfAny(s, a, FeeRecipient, amount)
    BY DEF ChargeImpact, amount, impact
<1> QED
    BY <1>4, <1>5, <1>6, PayIfAnyPaid

\* A trader is paid what the engine has, topped up by the insurance fund.
LEMMA SettlePnlPaid ==
    ASSUME NEW s, Good(s), NEW a \in Accounts, NEW pnl \in Int, NEW released \in Int
    PROVE  Paid(s, SettlePnl(s, a, pnl, released), a)
<1> DEFINE total == released + pnl
           shortfall == Least(Excess(total, Free(s, Engine)), Free(s, InsuranceFund))
           topped == PayIfAny(s, InsuranceFund, Engine, shortfall)
           amount == Least(total, Free(topped, Engine))
<1>1. /\ Engine \in Payers(a) /\ Engine \in Accounts
      /\ InsuranceFund \in Payers(a) /\ InsuranceFund \in Accounts
    BY RolesAssumption DEF Payers
<1>2. total \in Int /\ shortfall \in Int
    BY <1>1, GoodBalance DEF Least, Excess
<1> HIDE DEF total, shortfall
<1>3. Paid(s, topped, a)
    BY <1>1, <1>2, PayIfAnyPaid
<1> HIDE DEF topped
<1>4. Good(topped)
    BY <1>3 DEF Paid
<1>5. amount \in Int
    BY <1>1, <1>2, <1>4, GoodBalance DEF Least
<1> HIDE DEF amount
<1>6. Paid(topped, Pay(topped, Engine, a, amount), a)
    BY <1>1, <1>4, <1>5, PayPaid
<1>7. Paid(s, Pay(topped, Engine, a, amount), a)
    BY <1>3, <1>6, PaidTransitive
<1>8. Paid(s, Pay(s, Engine, a, total), a)
    BY <1>1, <1>2, PayPaid
<1>9. Paid(s, s, a)
    BY ServedReflexive DEF Paid, SameBooks
<1> QED
    BY <1>7, <1>8, <1>9 DEF SettlePnl, amount, topped, shortfall, total

\* Keepers are paid by the engine and the insurance fund, not by traders.
LEMMA DistributeRewardsPaid ==
    ASSUME NEW s, Good(s), NEW a \in Accounts, NEW keeper \in Accounts,
           NEW notional \in Nat, NEW effective \in Int
    PROVE  Paid(s, DistributeRewards(s, keeper, notional, effective), a)
<1> DEFINE bonus == Least((notional * BadDebtRewardBps) \div BPS, Free(s, InsuranceFund))
           reward == Least(effective \div 2, (notional * MaxRewardBps) \div BPS)
           rest == effective - reward
           paid == Pay(s, Engine, keeper, reward)
<1>1. /\ Engine \in Payers(a) /\ Engine \in Accounts
      /\ InsuranceFund \in Payers(a) /\ InsuranceFund \in Accounts
    BY RolesAssumption DEF Payers
<1>2. \A rate \in Nat : (notional * rate) \div BPS \in Int
    <2>1. \A rate \in Nat : notional * rate \in Nat
        OBVIOUS
    <2> QED
        BY <2>1, ScalesAssumption
<1>3. bonus \in Int /\ reward \in Int
    <2>1. BadDebtRewardBps \in Nat /\ MaxRewardBps \in Nat
        BY RatesAssumption
    <2>2. effective \div 2 \in Int
        OBVIOUS
    <2> QED
        BY <1>1, <1>2, <2>1, <2>2, GoodBalance DEF Least
<1> HIDE DEF bonus, reward
<1>4. rest \in Int
    BY <1>3
<1>5. Paid(s, PayIfAny(s, InsuranceFund, keeper, bonus), a)
    BY <1>1, <1>3, PayIfAnyPaid
<1>6. Paid(s, paid, a)
    BY <1>1, <1>3, PayPaid
<1> HIDE DEF paid, rest
<1>7. Good(paid)
    BY <1>6 DEF Paid
<1>8. Paid(paid, PayIfAny(paid, Engine, InsuranceFund, rest), a)
    BY <1>1, <1>4, <1>7, PayIfAnyPaid
<1>9. Paid(s, PayIfAny(paid, Engine, InsuranceFund, rest), a)
    BY <1>6, <1>8, PaidTransitive
<1> QED
    BY <1>5, <1>9 DEF DistributeRewards, bonus, reward, paid, rest

-----------------------------------------------------------------------------
(* Work on the position of one account in one market *)

\* What t may differ in from s, when the position of a in m was worked on.
Works(s, t, m, a) ==
    /\ Good(t)
    /\ Served(s, t, a)
    /\ \A k \in Markets, b \in Accounts :
           (k # m \/ b # a) => /\ t.positions[k][b] = s.positions[k][b]
                               /\ (t.index[b][k] # 0) <=> (s.index[b][k] # 0)

(* Two pieces of work on one position in a row are such a piece of work. *)
LEMMA WorksTransitive ==
    ASSUME NEW s, NEW t, NEW u, Good(s), NEW m \in Markets, NEW a \in Accounts,
           Works(s, t, m, a), Works(t, u, m, a)
    PROVE  Works(s, u, m, a)
<1>1. Good(t) /\ Good(u) /\ Served(s, t, a) /\ Served(t, u, a)
    BY DEF Works
<1>2. Served(s, u, a)
    BY <1>1, ServedTransitive
<1> QED
    BY <1>1, <1>2 DEF Works

(* Work on a position that leaves list and position in agreement is complete. *)
LEMMA WorksTied ==
    ASSUME NEW s, NEW t, NEW m \in Markets, NEW a \in Accounts, TiedBut(s, m, a),
           Works(s, t, m, a)
    PROVE  /\ TiedBut(t, m, a)
           /\ TiedAt(t, m, a) => Tied(t)
BY DEF Works, TiedBut, TiedAt, Tied

(* A payment is work on any position of the trader. *)
LEMMA PaidWorks ==
    ASSUME NEW s, NEW t, NEW m \in Markets, NEW a \in Accounts, Paid(s, t, a)
    PROVE  /\ Good(t)
           /\ Works(s, t, m, a)
           /\ t.positions = s.positions
           /\ t.index = s.index
BY DEF Paid, SameBooks, Works

(* Entering or removing a market of the list is work on that position. *)
LEMMA RelistedWorks ==
    ASSUME NEW s, NEW t, NEW m \in Markets, NEW a \in Accounts, Relisted(s, t, m, a)
    PROVE  /\ Good(t)
           /\ Works(s, t, m, a)
           /\ t.positions = s.positions
BY DEF Relisted, Works

(* Writing a position with its open interest is work on that position. *)
LEMMA PlacedWorks ==
    ASSUME NEW s, Good(s), NEW m \in Markets, NEW a \in Accounts, NEW pos \in LoosePositions,
           s.ok => pos.margin \in Nat,
           pos.marginTierVersion <= Len(tierHistory[m]),
           NEW t, t = Placed(s, m, a, pos)
    PROVE  /\ Good(t)
           /\ Works(s, t, m, a)
           /\ t.positions[m][a] = pos
           /\ t.index = s.index
<1>1. /\ Good(t)
      /\ Served(s, t, a)
      /\ t.index = s.index
      /\ t.positions = [s.positions EXCEPT ![m] = [s.positions[m] EXCEPT ![a] = pos]]
    BY PlacedGood
<1>2. s.positions \in [Markets -> [Accounts -> LoosePositions]]
    BY DEF Good, Scratches
<1>3. /\ t.positions[m][a] = pos
      /\ \A k \in Markets, b \in Accounts :
             (k # m \/ b # a) => t.positions[k][b] = s.positions[k][b]
    BY <1>1, <1>2
<1> QED
    BY <1>1, <1>3 DEF Works

\* A position may be rewritten without open interest when its size stays.
LEMMA RewrittenWorks ==
    ASSUME NEW s, Good(s), NEW m \in Markets, NEW a \in Accounts, NEW pos \in LoosePositions,
           pos.size = s.positions[m][a].size,
           s.ok => pos.margin \in Nat,
           pos.marginTierVersion <= Len(tierHistory[m]),
           NEW t, t = SetPosition(s, m, a, pos)
    PROVE  /\ Good(t)
           /\ Works(s, t, m, a)
           /\ t.positions[m][a] = pos
           /\ t.index = s.index
           /\ t.ok = s.ok /\ t.ledger = s.ledger
<1>1. s \in Scratches /\ s.positions \in [Markets -> [Accounts -> LoosePositions]]
    BY DEF Good, Scratches
<1>2. /\ t \in Scratches
      /\ t.ok = s.ok /\ t.ledger = s.ledger /\ t.markets = s.markets
      /\ t.active = s.active /\ t.index = s.index
      /\ t.positions = [s.positions EXCEPT ![m] = [s.positions[m] EXCEPT ![a] = pos]]
    BY <1>1, PositionFields
<1>3. /\ t.positions[m][a] = pos
      /\ \A k \in Markets, b \in Accounts :
             (k # m \/ b # a) => t.positions[k][b] = s.positions[k][b]
    BY <1>1, <1>2
<1>4. \A k \in Markets, b \in Accounts : t.positions[k][b].size = s.positions[k][b].size
    BY <1>3
<1>5. OIExact(t)
    <2>1. ASSUME NEW k \in Markets
          PROVE  /\ LongOf(t.positions[k]) = LongOf(s.positions[k])
                 /\ ShortOf(t.positions[k]) = ShortOf(s.positions[k])
        BY <1>4 DEF LongOf, ShortOf
    <2> QED
        BY <1>2, <2>1 DEF OIExact, Good
<1>6. Sound(t) /\ VersionsIn(t) /\ Listed(t)
    <2>1. Sound(t)
        BY <1>2, <1>3 DEF Good, Sound
    <2>2. VersionsIn(t)
        BY <1>3 DEF Good, VersionsIn
    <2>3. Listed(t)
        BY <1>2 DEF Good, Listed
    <2> QED
        BY <2>1, <2>2, <2>3
<1>7. Served(s, t, a)
    <2>1. \A b \in Accounts : s.ledger.balances[b] \in Int
        BY DEF Good, Scratches, Ledgers
    <2> QED
        BY <1>2, <1>3, <2>1 DEF Served
<1>8. Good(t)
    <2>1. SameMarkets(t)
        BY <1>2 DEF Good, SameMarkets
    <2> QED
        BY <1>2, <1>5, <1>6, <2>1 DEF Good
<1> QED
    BY <1>2, <1>3, <1>7, <1>8 DEF Works

\* Funding settles a position as it stands, and never takes more than its margin.
LEMMA ApplyFundingWorks ==
    ASSUME NEW s, Good(s), NEW m \in Markets, NEW a \in Accounts,
           NEW t, t = ApplyFunding(s, m, a)
    PROVE  /\ Good(t)
           /\ Works(s, t, m, a)
           /\ t.positions[m][a].size = s.positions[m][a].size
           /\ t.index = s.index
<1> DEFINE pos == s.positions[m][a]
           cumulative == s.markets[m].cumulativeFunding
           owed == Quotient(pos.size * (cumulative - pos.lastCumulativeFunding),
                            FUNDING_PRECISION)
           payment == Least(owed, pos.margin)
           receipt == Least(-owed, Free(s, FundingPool))
           less == [pos EXCEPT !.margin = pos.margin - payment,
                               !.lastCumulativeFunding = cumulative]
           more == [pos EXCEPT !.margin = pos.margin + receipt,
                               !.lastCumulativeFunding = cumulative]
<1>1. /\ pos \in LoosePositions
      /\ pos.size \in Int
      /\ pos.margin \in Int
      /\ pos.lastCumulativeFunding \in Int
      /\ pos.marginTierVersion <= Len(tierHistory[m])
      /\ s.ok => pos.margin \in Nat
    BY GoodPosition
<1>2. cumulative \in Int
    BY GoodMarket
<1>3. a \in Payers(a) /\ FundingPool \in Payers(a) /\ FundingPool \in Accounts
    BY RolesAssumption DEF Payers
<1>4. Free(s, FundingPool) \in Int /\ (s.ok => Free(s, FundingPool) \in Nat)
    BY <1>3, GoodBalance
<1>5. owed \in Int
    <2>1. pos.size * (cumulative - pos.lastCumulativeFunding) \in Int
        BY <1>1, <1>2
    <2> QED
        BY <2>1, QuotientType, ScalesAssumption
<1> HIDE DEF pos, cumulative, owed
<1>6. /\ payment \in Int
      /\ receipt \in Int
      /\ pos.margin - payment \in Nat
      /\ owed <= 0 => (s.ok => receipt \in Nat)
    BY <1>1, <1>4, <1>5 DEF Least
<1> HIDE DEF payment, receipt
<1> DEFINE settled(v) == [pos EXCEPT !.margin = v, !.lastCumulativeFunding = cumulative]
<1>a. ASSUME NEW v \in Int
      PROVE  /\ settled(v) \in LoosePositions
             /\ settled(v).size = pos.size
             /\ settled(v).marginTierVersion = pos.marginTierVersion
             /\ settled(v).margin = v
    BY <1>1, <1>2 DEF LoosePositions
<1>b. /\ pos.margin - payment \in Int /\ less = settled(pos.margin - payment)
      /\ pos.margin + receipt \in Int /\ more = settled(pos.margin + receipt)
    BY <1>1, <1>6
<1> HIDE DEF less, more, settled
<1>7. /\ less \in LoosePositions /\ more \in LoosePositions
      /\ less.size = pos.size /\ more.size = pos.size
      /\ less.marginTierVersion = pos.marginTierVersion
      /\ more.marginTierVersion = pos.marginTierVersion
      /\ less.margin = pos.margin - payment
      /\ more.margin = pos.margin + receipt
    BY <1>a, <1>b
<1>8. CASE pos.size = 0
    <2>1. t = s
        BY <1>8 DEF ApplyFunding, pos
    <2>2. Served(s, s, a)
        BY ServedReflexive
    <2> QED
        BY <2>1, <2>2 DEF Works
<1>9. CASE pos.size # 0 /\ owed > 0
    <2> DEFINE u == SetPosition(s, m, a, less)
    <2>1. t = Pay(u, a, FundingPool, payment)
        BY <1>9 DEF ApplyFunding, pos, cumulative, owed, payment, less
    <2>2. pos = s.positions[m][a] /\ u = SetPosition(s, m, a, less)
        BY DEF pos
    <2> HIDE DEF u
    <2>3. /\ Good(u)
          /\ Works(s, u, m, a)
          /\ u.positions[m][a] = less
          /\ u.index = s.index
        BY <1>1, <1>6, <1>7, <2>2, RewrittenWorks
    <2>4. Paid(u, t, a)
        BY <1>3, <1>6, <2>1, <2>3, PayPaid
    <2>5. Good(t) /\ Works(u, t, m, a) /\ t.positions = u.positions /\ t.index = u.index
        BY <2>4, PaidWorks
    <2>6. t.positions[m][a].size = pos.size /\ t.index = s.index
        BY <1>7, <2>3, <2>5
    <2>7. Works(s, t, m, a)
        BY <2>3, <2>5, WorksTransitive
    <2> QED
        BY <2>2, <2>5, <2>6, <2>7
<1>10. CASE pos.size # 0 /\ ~(owed > 0)
    <2> DEFINE u == SetPosition(s, m, a, more)
    <2>1. t = PayIfAny(u, FundingPool, a, receipt)
        BY <1>10 DEF ApplyFunding, pos, cumulative, owed, receipt, more
    <2>2. pos = s.positions[m][a] /\ u = SetPosition(s, m, a, more)
        BY DEF pos
    <2> HIDE DEF u
    <2>3. s.ok => more.margin \in Nat
        BY <1>1, <1>5, <1>6, <1>7, <1>10
    <2>4. /\ Good(u)
          /\ Works(s, u, m, a)
          /\ u.positions[m][a] = more
          /\ u.index = s.index
        BY <1>1, <1>7, <2>2, <2>3, RewrittenWorks
    <2>5. Paid(u, t, a)
        BY <1>3, <1>6, <2>1, <2>4, PayIfAnyPaid
    <2>6. Good(t) /\ Works(u, t, m, a) /\ t.positions = u.positions /\ t.index = u.index
        BY <2>5, PaidWorks
    <2>7. t.positions[m][a].size = pos.size /\ t.index = s.index
        BY <1>7, <2>4, <2>6
    <2>8. Works(s, t, m, a)
        BY <2>4, <2>6, WorksTransitive
    <2> QED
        BY <2>2, <2>6, <2>7, <2>8
<1> QED
    BY <1>8, <1>9, <1>10

-----------------------------------------------------------------------------
(* Opening, increasing, reducing and closing *)

(* The empty position has the type of a position. *)
LEMMA NoPositionType == NoPosition \in LoosePositions /\ NoPosition.size = 0
                            /\ NoPosition.margin = 0 /\ NoPosition.marginTierVersion = 0
BY DEF NoPosition, LoosePositions

(* Deleting a position with its open interest and list entry is complete work on it. *)
LEMMA ClosedWorks ==
    ASSUME TypeOK, NEW s, Good(s), NEW m \in Markets, NEW a \in Accounts,
           NEW t, t = Closed(s, m, a)
    PROVE  /\ Good(t)
           /\ Works(s, t, m, a)
           /\ t.positions[m][a].size = 0
           /\ TiedAt(t, m, a)
<1> DEFINE u == Placed(s, m, a, NoPosition)
<1>1. s.positions[m][a].size \in Int /\ s \in Scratches
    BY GoodPosition, GoodBalance
<1>2. t = RemoveActive(u, m, a)
    BY <1>1, NoPositionType, WrittenInAnyOrder DEF Closed, Placed
<1>3. u = Placed(s, m, a, NoPosition)
    OBVIOUS
<1>4. 0 <= Len(tierHistory[m])
    BY DEF TypeOK
<1> HIDE DEF u
<1>5. /\ Good(u)
      /\ Works(s, u, m, a)
      /\ u.positions[m][a] = NoPosition
    BY <1>3, <1>4, NoPositionType, PlacedWorks
<1>6. Relisted(u, t, m, a) /\ t.index[a][m] = 0
    BY <1>2, <1>5, RemoveActiveGood
<1>7. Good(t) /\ Works(u, t, m, a) /\ t.positions = u.positions
    BY <1>6, RelistedWorks
<1>8. Works(s, t, m, a)
    BY <1>5, <1>7, WorksTransitive
<1>9. t.positions[m][a].size = 0
    BY <1>5, <1>7, NoPositionType
<1> QED
    BY <1>6, <1>7, <1>8, <1>9 DEF TiedAt

(* _openNewPosition is complete work on the position it opens. *)
LEMMA OpenNewPositionWorks ==
    ASSUME TypeOK, NEW s, Good(s), NEW m \in Markets, NEW a \in Accounts,
           s.positions[m][a].size = 0, NEW size \in Int \ {0}, NEW price \in Nat,
           NEW t, t = OpenNewPosition(s, m, a, size, price)
    PROVE  /\ Good(t)
           /\ Works(s, t, m, a)
           /\ t.positions[m][a].size = size
           /\ TiedAt(t, m, a)
<1> DEFINE notional == Notional(price, Abs(size))
           needed == InitialMargin(m, notional)
           locked == LockMargin(s, a, m, notional, needed)
           pos == [size |-> size, entryPrice |-> price,
                   margin |-> Lockable(s, a, needed),
                   lastCumulativeFunding |-> s.markets[m].cumulativeFunding,
                   marginTierVersion |-> Len(tierHistory[m])]
           opened == Placed(locked, m, a, pos)
           capped == Require(opened, OiCapsHold(opened, m))
           charged == ChargeImpact(capped, m, a, size, notional)
           listed == AddActive(charged, m, a)
<1>1. notional \in Nat
    BY AbsType, NotionalType
<1>2. Len(tierHistory[m]) \in Nat
    BY DEF TypeOK
<1> HIDE DEF notional
<1>3. needed \in Nat
    BY <1>1, InitialMarginType
<1> HIDE DEF needed
<1>4. locked = LockMargin(s, a, m, notional, needed)
    OBVIOUS
<1> HIDE DEF locked
<1>5. /\ Paid(s, locked, a)
      /\ Lockable(s, a, needed) \in Int
      /\ locked.ok => Lockable(s, a, needed) \in Nat
    BY <1>3, <1>4, LockMarginPaid
<1>6. Good(locked) /\ Works(s, locked, m, a) /\ locked.positions = s.positions
    BY <1>5, PaidWorks
<1>7. /\ pos \in LoosePositions /\ pos.size = size
      /\ locked.ok => pos.margin \in Nat
      /\ pos.marginTierVersion <= Len(tierHistory[m])
    <2>1. s.markets[m].cumulativeFunding \in Int
        BY GoodMarket
    <2> QED
        BY <1>2, <1>5, <2>1 DEF LoosePositions
<1> HIDE DEF pos
<1>8. opened = Placed(locked, m, a, pos)
    OBVIOUS
<1>9. opened = UpdateOpenInterest(SetPosition(locked, m, a, pos), m, 0, size)
    BY <1>6, <1>7 DEF Placed
<1> HIDE DEF opened
<1>10. /\ Good(opened)
       /\ Works(locked, opened, m, a)
       /\ opened.positions[m][a] = pos
    BY <1>6, <1>7, <1>8, PlacedWorks
<1>11. Paid(opened, capped, a)
    BY <1>10, RequirePaid
<1> HIDE DEF capped
<1>12. Good(capped) /\ Works(opened, capped, m, a) /\ capped.positions = opened.positions
    BY <1>11, PaidWorks
<1>13. Paid(capped, charged, a)
    BY <1>1, <1>12, ChargeImpactPaid
<1>14. listed = AddActive(charged, m, a)
    OBVIOUS
<1> HIDE DEF charged, listed
<1>15. Good(charged) /\ Works(capped, charged, m, a) /\ charged.positions = capped.positions
    BY <1>13, PaidWorks
<1>16. Relisted(charged, listed, m, a) /\ listed.index[a][m] # 0
    BY <1>14, <1>15, AddActiveGood
<1>17. Good(listed) /\ Works(charged, listed, m, a) /\ listed.positions = charged.positions
    BY <1>16, RelistedWorks
<1>18. t = Require(listed, ExposureAllowed(listed, a))
    BY <1>9 DEF OpenNewPosition, listed, charged, capped, pos, locked, needed, notional
<1>19. Paid(listed, t, a)
    BY <1>17, <1>18, RequirePaid
<1>20. /\ Good(t) /\ Works(listed, t, m, a)
       /\ t.positions = listed.positions /\ t.index = listed.index
    BY <1>19, PaidWorks
<1>21. Works(s, opened, m, a)
    BY <1>6, <1>10, WorksTransitive
<1>22. Works(s, capped, m, a)
    BY <1>10, <1>12, <1>21, WorksTransitive
<1>23. Works(s, charged, m, a)
    BY <1>12, <1>15, <1>22, WorksTransitive
<1>24. Works(s, listed, m, a)
    BY <1>15, <1>17, <1>23, WorksTransitive
<1>25. Works(s, t, m, a)
    BY <1>17, <1>20, <1>24, WorksTransitive
<1>26. t.positions[m][a].size = size
    BY <1>7, <1>10, <1>12, <1>15, <1>17, <1>20
<1>27. TiedAt(t, m, a)
    BY <1>16, <1>20, <1>26 DEF TiedAt
<1> QED
    BY <1>20, <1>25, <1>26, <1>27

(* _increasePosition is complete work on the position it increases. *)
LEMMA IncreasePositionWorks ==
    ASSUME TypeOK, NEW s, Good(s), NEW m \in Markets, NEW a \in Accounts,
           TiedAt(s, m, a), NEW sizeDelta \in Int, NEW price \in Nat,
           SameSign(s.positions[m][a].size, sizeDelta),
           NEW t, t = IncreasePosition(s, m, a, sizeDelta, price)
    PROVE  /\ Good(t)
           /\ Works(s, t, m, a)
           /\ t.positions[m][a].size = s.positions[m][a].size + sizeDelta
           /\ TiedAt(t, m, a)
<1> DEFINE pos == s.positions[m][a]
           entry == AverageEntry(pos.entryPrice, Abs(pos.size), price, Abs(sizeDelta))
           notional == Notional(entry, Abs(pos.size) + Abs(sizeDelta))
           needed == Excess(InitialMargin(m, notional), pos.margin)
           locked == LockMargin(s, a, m, notional, needed)
           larger == [pos EXCEPT !.size = @ + sizeDelta, !.entryPrice = entry,
                                 !.margin = @ + Lockable(s, a, needed)]
           grown == Placed(locked, m, a, larger)
           capped == Require(grown, OiCapsHold(grown, m))
           added == Notional(price, Abs(sizeDelta))
           charged == ChargeImpact(capped, m, a, sizeDelta, added)
<1>1. /\ pos \in LoosePositions
      /\ pos.size \in Int
      /\ pos.entryPrice \in Nat
      /\ pos.margin \in Int
      /\ pos.marginTierVersion <= Len(tierHistory[m])
      /\ s.ok => pos.margin \in Nat
    BY GoodPosition
<1>2. /\ Abs(pos.size) \in Nat \ {0} /\ Abs(sizeDelta) \in Nat
      /\ pos.size + sizeDelta \in Int \ {0}
      /\ pos.size # 0
    <2> HIDE DEF pos
    <2>1. SameSign(pos.size, sizeDelta)
        BY DEF pos
    <2>2. pos.size # 0 /\ pos.size + sizeDelta # 0
        BY <1>1, <2>1 DEF SameSign
    <2>3. Abs(pos.size) \in Nat \ {0} /\ Abs(sizeDelta) \in Nat
        BY <1>1, <2>2 DEF Abs
    <2> QED
        BY <1>1, <2>2, <2>3
<1>3. s.positions[m][a] = pos
    OBVIOUS
<1> HIDE DEF pos
<1>4. entry \in Nat
    BY <1>1, <1>2, AverageEntryType
<1> HIDE DEF entry
<1>5. notional \in Nat /\ added \in Nat
    <2>1. Abs(pos.size) + Abs(sizeDelta) \in Nat
        BY <1>2
    <2>2. notional \in Nat
        BY <1>4, <2>1, NotionalType
    <2>3. added \in Nat
        BY <1>2, NotionalType
    <2> QED
        BY <2>2, <2>3
<1> HIDE DEF notional, added
<1>7. needed \in Nat
    <2>1. InitialMargin(m, notional) \in Nat
        BY <1>5, InitialMarginType
    <2> QED
        BY <1>1, <2>1 DEF Excess
<1> HIDE DEF needed
<1>8. locked = LockMargin(s, a, m, notional, needed)
    OBVIOUS
<1> HIDE DEF locked
<1>9. /\ Paid(s, locked, a)
      /\ Lockable(s, a, needed) \in Int
      /\ locked.ok => Lockable(s, a, needed) \in Nat
    BY <1>7, <1>8, LockMarginPaid
<1>10. /\ Good(locked) /\ Works(s, locked, m, a)
       /\ locked.positions = s.positions /\ locked.index = s.index
    BY <1>9, PaidWorks
<1>11. locked.ok => s.ok
    BY <1>9 DEF Paid, Served
<1>12. /\ larger \in LoosePositions
       /\ larger.size = pos.size + sizeDelta
       /\ locked.ok => larger.margin \in Nat
       /\ larger.marginTierVersion <= Len(tierHistory[m])
    <2> DEFINE size == pos.size + sizeDelta
               margin == pos.margin + Lockable(s, a, needed)
    <2>1. size \in Int /\ margin \in Int /\ (locked.ok => margin \in Nat)
        BY <1>1, <1>2, <1>9, <1>11
    <2>2. larger = [pos EXCEPT !.size = size, !.entryPrice = entry, !.margin = margin]
        BY <1>1 DEF LoosePositions
    <2>3. size = pos.size + sizeDelta
        OBVIOUS
    <2> HIDE DEF size, margin, larger
    <2>4. /\ larger \in LoosePositions
          /\ larger.size = size
          /\ larger.margin = margin
          /\ larger.marginTierVersion = pos.marginTierVersion
        BY <1>1, <1>4, <2>1, <2>2 DEF LoosePositions
    <2> QED
        BY <1>1, <2>1, <2>3, <2>4
<1>13. grown = Placed(locked, m, a, larger)
    OBVIOUS
<1>14. grown = UpdateOpenInterest(SetPosition(locked, m, a, larger), m, pos.size,
                                  pos.size + sizeDelta)
    BY <1>3, <1>10, <1>12 DEF Placed
<1> HIDE DEF grown
<1>15. t = Require(charged, ExposureAllowed(charged, a))
    BY <1>14 DEF IncreasePosition, charged, capped, added, larger, locked, needed, notional,
                 entry, pos
<1> HIDE DEF larger
<1>16. /\ Good(grown)
       /\ Works(locked, grown, m, a)
       /\ grown.positions[m][a] = larger
       /\ grown.index = locked.index
    BY <1>10, <1>12, <1>13, PlacedWorks
<1>17. Paid(grown, capped, a)
    BY <1>16, RequirePaid
<1> HIDE DEF capped
<1>18. /\ Good(capped) /\ Works(grown, capped, m, a)
       /\ capped.positions = grown.positions /\ capped.index = grown.index
    BY <1>17, PaidWorks
<1>19. Paid(capped, charged, a)
    BY <1>5, <1>18, ChargeImpactPaid
<1> HIDE DEF charged
<1>20. /\ Good(charged) /\ Works(capped, charged, m, a)
       /\ charged.positions = capped.positions /\ charged.index = capped.index
    BY <1>19, PaidWorks
<1>21. Paid(charged, t, a)
    BY <1>15, <1>20, RequirePaid
<1>22. /\ Good(t) /\ Works(charged, t, m, a)
       /\ t.positions = charged.positions /\ t.index = charged.index
    BY <1>21, PaidWorks
<1>23. Works(s, grown, m, a)
    BY <1>10, <1>16, WorksTransitive
<1>24. Works(s, capped, m, a)
    BY <1>16, <1>18, <1>23, WorksTransitive
<1>25. Works(s, charged, m, a)
    BY <1>18, <1>20, <1>24, WorksTransitive
<1>26. Works(s, t, m, a)
    BY <1>20, <1>22, <1>25, WorksTransitive
<1>27. t.positions[m][a].size = pos.size + sizeDelta /\ t.index = s.index
    BY <1>10, <1>12, <1>16, <1>18, <1>20, <1>22
<1>28. TiedAt(t, m, a)
    BY <1>2, <1>3, <1>27 DEF TiedAt
<1> QED
    BY <1>3, <1>22, <1>26, <1>27, <1>28

\* What is closed of a position frees at most its margin.
LEMMA ReleasedType ==
    ASSUME NEW margin \in Int, NEW closing \in Nat, NEW size \in Nat \ {0}, closing <= size
    PROVE  /\ (margin * closing) \div size \in Int
           /\ margin \in Nat => margin - ((margin * closing) \div size) \in Nat
<1>1. (margin * closing) \div size \in Int
    <2>1. margin * closing \in Int
        OBVIOUS
    <2> QED
        BY <2>1
<1>2. ASSUME margin \in Nat PROVE margin - ((margin * closing) \div size) \in Nat
    <2>1. (margin * closing) \div size \in 0..margin
        BY <1>2, ShareAtMost
    <2> HIDE <1>1
    <2> QED
        BY <1>2, <2>1
<1> QED
    BY <1>1, <1>2

(* _reduceOrFlipPosition is complete work: the position is reduced, gone or flipped. *)
LEMMA ReduceOrFlipWorks ==
    ASSUME TypeOK, NEW s, Good(s), NEW m \in Markets, NEW a \in Accounts,
           TiedAt(s, m, a), s.positions[m][a].size # 0,
           NEW sizeDelta \in Int, NEW price \in Nat,
           NEW t, t = ReduceOrFlip(s, m, a, sizeDelta, price)
    PROVE  /\ Good(t)
           /\ Works(s, t, m, a)
           /\ t.positions[m][a].size = s.positions[m][a].size + sizeDelta
           /\ TiedAt(t, m, a)
<1> DEFINE pos == s.positions[m][a]
           newSize == pos.size + sizeDelta
           closing == Least(Abs(sizeDelta), Abs(pos.size))
           signed == IF pos.size > 0 THEN closing ELSE -closing
           released == IF newSize = 0 THEN pos.margin
                       ELSE (pos.margin * closing) \div Abs(pos.size)
           pnl == Pnl(pos.entryPrice, price, signed)
           paid == SettlePnl(s, a, pnl, released)
           smaller == [pos EXCEPT !.size = newSize, !.margin = @ - released]
           emptied == [pos EXCEPT !.size = 0, !.entryPrice = 0, !.margin = 0]
           reduced == Placed(paid, m, a, smaller)
           between == Placed(paid, m, a, emptied)
<1>1. /\ pos \in LoosePositions
      /\ pos.size \in Int \ {0}
      /\ pos.entryPrice \in Nat
      /\ pos.margin \in Int
      /\ pos.marginTierVersion <= Len(tierHistory[m])
      /\ s.ok => pos.margin \in Nat
    BY GoodPosition
<1>2. s.positions[m][a] = pos
    OBVIOUS
<1> HIDE DEF pos
<1>3. newSize \in Int /\ closing \in Nat /\ Abs(pos.size) \in Nat \ {0}
          /\ closing <= Abs(pos.size)
    BY <1>1 DEF Abs, Least
<1>4. newSize = pos.size + sizeDelta
    OBVIOUS
<1> HIDE DEF newSize, closing
<1>5. signed \in Int
    BY <1>3
<1>6. /\ released \in Int
      /\ newSize # 0 => (s.ok => pos.margin - released \in Nat)
    BY <1>1, <1>3, ReleasedType
<1> HIDE DEF signed, released
<1>7. pnl \in Int
    <2>1. pos.entryPrice \in Int /\ price \in Int
        BY <1>1
    <2> QED
        BY <1>5, <2>1, PnlType
<1> HIDE DEF pnl
<1>8. Paid(s, paid, a)
    BY <1>6, <1>7, SettlePnlPaid
<1> HIDE DEF paid
<1>9. /\ Good(paid) /\ Works(s, paid, m, a)
      /\ paid.positions = s.positions /\ paid.index = s.index
    BY <1>8, PaidWorks
<1>10. paid.ok => s.ok
    BY <1>8 DEF Paid, Served
<1>11. CASE newSize = 0
    <2>1. t = Closed(paid, m, a)
        BY <1>11 DEF ReduceOrFlip, pos, newSize, closing, signed, released, pnl, paid
    <2>2. /\ Good(t)
          /\ Works(paid, t, m, a)
          /\ t.positions[m][a].size = 0
          /\ TiedAt(t, m, a)
        BY <1>9, <2>1, ClosedWorks
    <2>3. Works(s, t, m, a)
        BY <1>9, <2>2, WorksTransitive
    <2> QED
        BY <1>2, <1>4, <1>11, <2>2, <2>3
<1>12. CASE newSize # 0 /\ SameSign(pos.size, newSize)
    <2>1. /\ smaller \in LoosePositions
          /\ smaller.size = newSize
          /\ paid.ok => smaller.margin \in Nat
          /\ smaller.marginTierVersion <= Len(tierHistory[m])
        <3> DEFINE margin == pos.margin - released
        <3>1. margin \in Int /\ (paid.ok => margin \in Nat)
            BY <1>1, <1>6, <1>10, <1>12
        <3>2. smaller = [pos EXCEPT !.size = newSize, !.margin = margin]
            BY <1>1 DEF LoosePositions
        <3> HIDE DEF margin, smaller
        <3>3. /\ smaller \in LoosePositions
              /\ smaller.size = newSize
              /\ smaller.margin = margin
              /\ smaller.marginTierVersion = pos.marginTierVersion
            BY <1>1, <1>3, <3>1, <3>2 DEF LoosePositions
        <3> QED
            BY <1>1, <3>1, <3>3
    <2>2. reduced = Placed(paid, m, a, smaller)
        OBVIOUS
    <2>3. reduced = UpdateOpenInterest(SetPosition(paid, m, a, smaller), m, pos.size, newSize)
        BY <1>2, <1>9, <2>1 DEF Placed
    <2> HIDE DEF reduced
    <2>4. t = reduced
        BY <1>12, <2>3 DEF ReduceOrFlip, smaller, pos, newSize, closing, signed, released,
                           pnl, paid
    <2> HIDE DEF smaller
    <2>5. /\ Good(t)
          /\ Works(paid, t, m, a)
          /\ t.positions[m][a] = smaller
          /\ t.index = paid.index
        BY <1>9, <2>1, <2>2, <2>4, PlacedWorks
    <2>6. Works(s, t, m, a)
        BY <1>9, <2>5, WorksTransitive
    <2>7. t.positions[m][a].size = newSize
        BY <2>1, <2>5
    <2>8. TiedAt(t, m, a)
        BY <1>1, <1>2, <1>9, <1>12, <2>5, <2>7 DEF TiedAt
    <2> QED
        BY <1>2, <1>4, <2>5, <2>6, <2>7, <2>8
<1>13. CASE newSize # 0 /\ ~SameSign(pos.size, newSize)
    <2>1. /\ emptied \in LoosePositions
          /\ emptied.size = 0
          /\ paid.ok => emptied.margin \in Nat
          /\ emptied.marginTierVersion <= Len(tierHistory[m])
        <3> DEFINE one == [pos EXCEPT !.size = 0]
                   two == [one EXCEPT !.entryPrice = 0]
        <3>1. /\ one \in LoosePositions /\ one.size = 0
              /\ one.marginTierVersion = pos.marginTierVersion
            BY <1>1 DEF LoosePositions
        <3>2. emptied = [two EXCEPT !.margin = 0]
            OBVIOUS
        <3> HIDE DEF one
        <3>3. /\ two \in LoosePositions /\ two.size = 0
              /\ two.marginTierVersion = pos.marginTierVersion
            BY <3>1 DEF LoosePositions
        <3> HIDE DEF two, emptied
        <3>4. /\ emptied \in LoosePositions /\ emptied.size = 0 /\ emptied.margin = 0
              /\ emptied.marginTierVersion = pos.marginTierVersion
            BY <3>2, <3>3 DEF LoosePositions
        <3> QED
            BY <1>1, <3>4
    <2>2. between = Placed(paid, m, a, emptied)
        OBVIOUS
    <2>3. between = SetPosition(UpdateOpenInterest(paid, m, pos.size, 0), m, a, emptied)
        <3>1. between = UpdateOpenInterest(SetPosition(paid, m, a, emptied), m, pos.size, 0)
            BY <1>2, <1>9, <2>1 DEF Placed
        <3>2. paid \in Scratches /\ pos.size \in Int
            BY <1>1, <1>9 DEF Good
        <3> HIDE DEF between, emptied
        <3> QED
            BY <2>1, <3>1, <3>2, WrittenInAnyOrder
    <2> HIDE DEF between
    <2>4. t = OpenNewPosition(between, m, a, newSize, price)
        BY <1>13, <2>3 DEF ReduceOrFlip, emptied, pos, newSize, closing, signed, released,
                           pnl, paid
    <2> HIDE DEF emptied
    <2>5. /\ Good(between)
          /\ Works(paid, between, m, a)
          /\ between.positions[m][a] = emptied
        BY <1>9, <2>1, <2>2, PlacedWorks
    <2>6. between.positions[m][a].size = 0 /\ newSize \in Int \ {0}
        BY <1>3, <1>13, <2>1, <2>5
    <2>7. /\ Good(t)
          /\ Works(between, t, m, a)
          /\ t.positions[m][a].size = newSize
          /\ TiedAt(t, m, a)
        BY <2>4, <2>5, <2>6, OpenNewPositionWorks
    <2>8. Works(s, between, m, a)
        BY <1>9, <2>5, WorksTransitive
    <2>9. Works(s, t, m, a)
        BY <2>5, <2>7, <2>8, WorksTransitive
    <2> QED
        BY <1>2, <1>4, <2>7, <2>9
<1> QED
    BY <1>11, <1>12, <1>13

\* What openPosition does adds exactly sizeDelta to one position, and nothing to others.
LEMMA OpenedWorks ==
    ASSUME TypeOK, NEW s, Good(s), NEW m \in Markets, NEW a \in Accounts,
           TiedAt(s, m, a), NEW sizeDelta \in Int \ {0}, NEW price \in Nat,
           NEW t, t = Opened(s, m, a, sizeDelta, price)
    PROVE  /\ Good(t)
           /\ Works(s, t, m, a)
           /\ t.positions[m][a].size = s.positions[m][a].size + sizeDelta
           /\ TiedAt(t, m, a)
           /\ t.ok => OpenAllowed(s, m, sizeDelta, price)
<1> DEFINE allowed == [s EXCEPT !.ok = @ /\ OpenAllowed(s, m, sizeDelta, price),
                                !.breaker.active = FALSE]
           funded == ApplyFunding(allowed, m, a)
           size == funded.positions[m][a].size
           sized == Require(funded, Abs(size + sizeDelta) <= Config[m].maxPositionSize)
<1>1. Paid(s, allowed, a) /\ (allowed.ok => OpenAllowed(s, m, sizeDelta, price))
    <2>1. /\ s \in Scratches
          /\ s.breaker \in [active : BOOLEAN, triggeredAt : 0..now]
        BY DEF Good, Scratches
    <2> DEFINE ok == s.ok /\ OpenAllowed(s, m, sizeDelta, price)
               off == [s.breaker EXCEPT !.active = FALSE]
    <2>2. ok \in BOOLEAN /\ (ok => s.ok)
        BY <2>1 DEF Scratches
    <2>3. off \in [active : BOOLEAN, triggeredAt : 0..now]
        BY <2>1
    <2>4. allowed = [s EXCEPT !.ok = ok, !.breaker = off]
        BY <2>1 DEF Scratches
    <2> HIDE DEF ok, off, allowed
    <2>5. /\ allowed \in Scratches
          /\ allowed.ok = ok
          /\ allowed.ledger = s.ledger
          /\ SameBooks(s, allowed)
        BY <2>1, <2>2, <2>3, <2>4 DEF Scratches, SameBooks
    <2>6. Sound(allowed)
        BY <2>2, <2>5 DEF Good, Sound, SameBooks
    <2>7. Served(s, allowed, a)
        <3>1. \A b \in Accounts : s.ledger.balances[b] \in Int
            BY <2>1 DEF Scratches, Ledgers
        <3> QED
            BY <2>2, <2>5, <3>1 DEF Served, SameBooks
    <2>8. ok => OpenAllowed(s, m, sizeDelta, price)
        BY DEF ok
    <2> QED
        BY <2>5, <2>6, <2>7, <2>8, SameBooksGood DEF Paid
<1> HIDE DEF allowed
<1>2. /\ Good(allowed) /\ Works(s, allowed, m, a)
      /\ allowed.positions = s.positions /\ allowed.index = s.index
    BY <1>1, PaidWorks
<1>3. funded = ApplyFunding(allowed, m, a)
    OBVIOUS
<1>4. size = funded.positions[m][a].size
    OBVIOUS
<1> HIDE DEF funded
<1>5. /\ Good(funded)
      /\ Works(allowed, funded, m, a)
      /\ funded.positions[m][a].size = allowed.positions[m][a].size
      /\ funded.index = allowed.index
    BY <1>2, <1>3, ApplyFundingWorks
<1>6. Paid(funded, sized, a)
    BY <1>5, RequirePaid
<1>7. t = IF size = 0 THEN OpenNewPosition(sized, m, a, sizeDelta, price)
          ELSE IF SameSign(size, sizeDelta)
          THEN IncreasePosition(sized, m, a, sizeDelta, price)
          ELSE ReduceOrFlip(sized, m, a, sizeDelta, price)
    BY DEF Opened, allowed, funded
<1> HIDE DEF sized, size
<1>8. /\ Good(sized) /\ Works(funded, sized, m, a)
      /\ sized.positions = funded.positions /\ sized.index = funded.index
    BY <1>6, PaidWorks
<1>9. /\ sized.positions[m][a].size = size
      /\ size = s.positions[m][a].size
      /\ size \in Int
      /\ TiedAt(sized, m, a)
    <2>1. sized.positions[m][a].size = size
        BY <1>4, <1>8
    <2>2. size = s.positions[m][a].size
        BY <1>2, <1>4, <1>5
    <2>3. size \in Int
        BY <2>2, GoodPosition
    <2>4. sized.index = s.index
        BY <1>2, <1>5, <1>8
    <2> QED
        BY <2>1, <2>2, <2>3, <2>4 DEF TiedAt
<1>10. Works(s, funded, m, a)
    BY <1>2, <1>5, WorksTransitive
<1>11. Works(s, sized, m, a)
    BY <1>5, <1>8, <1>10, WorksTransitive
<1>12. /\ Good(t)
       /\ Works(sized, t, m, a)
       /\ t.positions[m][a].size = size + sizeDelta
       /\ TiedAt(t, m, a)
    <2>1. CASE size = 0
        <3>1. /\ Good(t)
              /\ Works(sized, t, m, a)
              /\ t.positions[m][a].size = sizeDelta
              /\ TiedAt(t, m, a)
            BY <1>7, <1>8, <1>9, <2>1, OpenNewPositionWorks
        <3> QED
            BY <2>1, <3>1
    <2>2. CASE size # 0 /\ SameSign(size, sizeDelta)
        <3>1. t = IncreasePosition(sized, m, a, sizeDelta, price)
            BY <1>7, <2>2
        <3>2. SameSign(sized.positions[m][a].size, sizeDelta)
            BY <1>9, <2>2
        <3>3. /\ Good(t)
              /\ Works(sized, t, m, a)
              /\ t.positions[m][a].size = sized.positions[m][a].size + sizeDelta
              /\ TiedAt(t, m, a)
            BY ONLY TypeOK, m \in Markets, a \in Accounts, sizeDelta \in Int, price \in Nat,
                    <1>8, <1>9, <3>1, <3>2, IncreasePositionWorks
        <3> QED
            BY <1>9, <3>3
    <2>3. CASE size # 0 /\ ~SameSign(size, sizeDelta)
        <3>1. t = ReduceOrFlip(sized, m, a, sizeDelta, price)
            BY <1>7, <2>3
        <3>2. sized.positions[m][a].size # 0
            BY <1>9, <2>3
        <3>3. /\ Good(t)
              /\ Works(sized, t, m, a)
              /\ t.positions[m][a].size = sized.positions[m][a].size + sizeDelta
              /\ TiedAt(t, m, a)
            BY ONLY TypeOK, m \in Markets, a \in Accounts, sizeDelta \in Int, price \in Nat,
                    <1>8, <1>9, <3>1, <3>2, ReduceOrFlipWorks, SMTT(60)
        <3> QED
            BY <1>9, <3>3
    <2> QED
        BY <2>1, <2>2, <2>3
<1>13. Works(s, t, m, a)
    BY <1>8, <1>11, <1>12, WorksTransitive
<1>14. t.ok => OpenAllowed(s, m, sizeDelta, price)
    BY <1>1, <1>5, <1>6, <1>12 DEF Paid, Works, Served
<1> QED
    BY <1>9, <1>12, <1>13, <1>14

-----------------------------------------------------------------------------
(* Liquidation *)

(* Counting a liquidation for the breaker changes no book. *)
LEMMA TrackLiquidationPaid ==
    ASSUME TypeOK, NEW s, Good(s), NEW m \in Markets, NEW a \in Accounts,
           NEW notional \in Nat, NEW t, t = TrackLiquidation(s, m, notional)
    PROVE  Paid(s, t, a)
<1> DEFINE old == s.window[m]
           counted == IF now - old.start > params.windowSecs
                      THEN [start |-> now, liquidated |-> notional]
                      ELSE [old EXCEPT !.liquidated = @ + notional]
           interest == Notional(s.markets[m].markPrice,
                                s.markets[m].openInterestLong
                                    + s.markets[m].openInterestShort)
           tripped == /\ interest > 0
                      /\ (counted.liquidated * BPS) \div interest >= params.thresholdBps
           brake == IF tripped THEN [active |-> TRUE, triggeredAt |-> now] ELSE s.breaker
           windows == [s.window EXCEPT ![m] = counted]
<1>1. /\ s \in Scratches
      /\ s.window \in [Markets -> [start : 0..now, liquidated : Nat]]
      /\ s.breaker \in [active : BOOLEAN, triggeredAt : 0..now]
      /\ now \in 0..now
    <2>1. s \in Scratches
        BY DEF Good
    <2>2. /\ s.window \in [Markets -> [start : 0..now, liquidated : Nat]]
          /\ s.breaker \in [active : BOOLEAN, triggeredAt : 0..now]
        BY <2>1 DEF Scratches
    <2>3. now \in 0..now
        BY RatesAssumption DEF TypeOK
    <2> QED
        BY <2>1, <2>2, <2>3
<1>2. counted \in [start : 0..now, liquidated : Nat]
    <2>1. old \in [start : 0..now, liquidated : Nat]
        BY <1>1
    <2>2. [start |-> now, liquidated |-> notional] \in [start : 0..now, liquidated : Nat]
        BY <1>1
    <2>3. [old EXCEPT !.liquidated = @ + notional] \in [start : 0..now, liquidated : Nat]
        BY <2>1
    <2> QED
        BY <2>2, <2>3
<1>3. brake \in [active : BOOLEAN, triggeredAt : 0..now]
    <2>1. [active |-> TRUE, triggeredAt |-> now] \in [active : BOOLEAN, triggeredAt : 0..now]
        BY <1>1
    <2> HIDE DEF tripped
    <2> QED
        BY <1>1, <2>1
<1>4. t = [s EXCEPT !.window = windows, !.breaker = brake]
    BY <1>1 DEF TrackLiquidation, Scratches
<1> HIDE DEF counted, brake
<1>5. windows \in [Markets -> [start : 0..now, liquidated : Nat]]
    BY <1>1, <1>2
<1> HIDE DEF windows
<1>6. /\ t \in Scratches
      /\ t.ok = s.ok
      /\ t.ledger = s.ledger
      /\ SameBooks(s, t)
    BY <1>1, <1>3, <1>4, <1>5 DEF Scratches, SameBooks
<1>7. Sound(t)
    BY <1>6 DEF Good, Sound, SameBooks
<1>8. Served(s, t, a)
    <2>1. \A b \in Accounts : s.ledger.balances[b] \in Int
        BY <1>1 DEF Scratches, Ledgers
    <2> QED
        BY <1>6, <2>1 DEF Served, SameBooks
<1> QED
    BY <1>6, <1>7, <1>8, SameBooksGood DEF Paid

\* A round takes some of the position and no more than all of it.
LEMMA LiquidationSizeRange ==
    ASSUME NEW x \in Nat \ {0}
    PROVE  LiquidationSize(x) \in 1..x
<1>1. x \div 4 \in 0..x
    OBVIOUS
<1> QED
    BY <1>1 DEF LiquidationSize

(* One round of a partial liquidation is complete work on the position: it shrinks, and never flips. *)
LEMMA LiquidationRoundWorks ==
    ASSUME TypeOK, NEW s, Good(s), NEW m \in Markets, NEW a \in Accounts,
           NEW keeper \in Accounts, TiedAt(s, m, a), s.positions[m][a].size # 0,
           NEW t, t = LiquidationRound(s, m, a, keeper)
    PROVE  /\ Good(t)
           /\ Works(s, t, m, a)
           /\ Abs(t.positions[m][a].size) < Abs(s.positions[m][a].size)
           /\ \/ t.positions[m][a].size = 0
              \/ SameSign(s.positions[m][a].size, t.positions[m][a].size)
           /\ TiedAt(t, m, a)
<1> DEFINE pos == s.positions[m][a]
           size == LiquidationSize(Abs(pos.size))
           signed == IF pos.size > 0 THEN size ELSE -size
           full == size = Abs(pos.size)
           released == IF full THEN pos.margin ELSE (pos.margin * size) \div Abs(pos.size)
           price == s.markets[m].markPrice
           effective == released + Pnl(pos.entryPrice, price, signed)
           notional == Notional(price, size)
           rewarded == DistributeRewards(s, keeper, notional, effective)
           paid == TrackLiquidation(rewarded, m, notional)
           smaller == [pos EXCEPT !.size = @ - signed, !.margin = @ - released]
           reduced == Placed(paid, m, a, smaller)
<1>1. /\ pos \in LoosePositions
      /\ pos.size \in Int \ {0}
      /\ pos.entryPrice \in Int
      /\ pos.margin \in Int
      /\ pos.marginTierVersion <= Len(tierHistory[m])
      /\ s.ok => pos.margin \in Nat
    BY GoodPosition
<1>2. s.positions[m][a] = pos
    OBVIOUS
<1> HIDE DEF pos
<1>3. Abs(pos.size) \in Nat \ {0}
    BY <1>1 DEF Abs
<1>4. size \in 1..Abs(pos.size)
    BY <1>3, LiquidationSizeRange
<1> HIDE DEF size
<1>5. size \in Nat /\ size <= Abs(pos.size) /\ signed \in Int
    BY <1>3, <1>4
<1>6. /\ ~full => pos.size - signed \in Int \ {0}
      /\ ~full => Abs(pos.size - signed) < Abs(pos.size)
      /\ ~full => SameSign(pos.size, pos.size - signed)
      /\ Abs(0) < Abs(pos.size)
    BY <1>1, <1>4 DEF Abs, SameSign
<1>7. /\ released \in Int
      /\ ~full => (s.ok => pos.margin - released \in Nat)
    BY <1>1, <1>3, <1>5, ReleasedType
<1>8. price \in Nat /\ price \in Int
    BY GoodMarket
<1> HIDE DEF signed, full, released, price
<1>9. effective \in Int /\ notional \in Nat
    <2>1. Pnl(pos.entryPrice, price, signed) \in Int
        BY <1>1, <1>5, <1>8, PnlType
    <2>2. notional \in Nat
        BY <1>5, <1>8, NotionalType
    <2> QED
        BY <1>7, <2>1, <2>2
<1> HIDE DEF effective, notional
<1>10. Paid(s, rewarded, a)
    BY <1>9, DistributeRewardsPaid
<1> HIDE DEF rewarded
<1>11. Good(rewarded)
    BY <1>10 DEF Paid
<1>12. Paid(rewarded, paid, a)
    BY <1>9, <1>11, TrackLiquidationPaid
<1> HIDE DEF paid
<1>13. Paid(s, paid, a)
    BY <1>10, <1>12, PaidTransitive
<1>14. /\ Good(paid) /\ Works(s, paid, m, a)
       /\ paid.positions = s.positions /\ paid.index = s.index
    BY <1>13, PaidWorks
<1>15. paid.ok => s.ok
    BY <1>13 DEF Paid, Served
<1>16. CASE full
    <2>1. t = Closed(paid, m, a)
        BY <1>16 DEF LiquidationRound, paid, rewarded, notional, effective, price, released,
                     full, signed, size, pos
    <2>2. /\ Good(t)
          /\ Works(paid, t, m, a)
          /\ t.positions[m][a].size = 0
          /\ TiedAt(t, m, a)
        BY <1>14, <2>1, ClosedWorks
    <2>3. Works(s, t, m, a)
        BY <1>14, <2>2, WorksTransitive
    <2> QED
        BY <1>2, <1>6, <2>2, <2>3
<1>17. CASE ~full
    <2> DEFINE margin == pos.margin - released
               left == pos.size - signed
    <2>1. margin \in Int /\ (paid.ok => margin \in Nat) /\ left \in Int
        BY <1>1, <1>6, <1>7, <1>15, <1>17
    <2>2. smaller = [pos EXCEPT !.size = left, !.margin = margin]
        BY <1>1 DEF LoosePositions
    <2>3. left = pos.size - signed
        OBVIOUS
    <2>4. reduced = Placed(paid, m, a, smaller)
        OBVIOUS
    <2>5. t = UpdateOpenInterest(SetPosition(paid, m, a, smaller), m, pos.size, left)
        BY <1>17 DEF LiquidationRound, paid, rewarded, notional, effective, price, released,
                     full, signed, size, pos
    <2> HIDE DEF smaller, margin, left
    <2>6. /\ smaller \in LoosePositions
          /\ smaller.size = left
          /\ smaller.margin = margin
          /\ smaller.marginTierVersion = pos.marginTierVersion
        BY <1>1, <2>1, <2>2 DEF LoosePositions
    <2>7. t = Placed(paid, m, a, smaller)
        BY <1>2, <1>14, <2>5, <2>6 DEF Placed
    <2>8. /\ Good(t)
          /\ Works(paid, t, m, a)
          /\ t.positions[m][a] = smaller
          /\ t.index = paid.index
        BY <1>1, <1>14, <2>1, <2>6, <2>7, PlacedWorks
    <2>9. Works(s, t, m, a)
        BY <1>14, <2>8, WorksTransitive
    <2>10. t.positions[m][a].size = left
        BY <2>6, <2>8
    <2>11. TiedAt(t, m, a)
        BY <1>1, <1>2, <1>6, <1>14, <1>17, <2>3, <2>8, <2>10 DEF TiedAt
    <2> QED
        BY <1>2, <1>6, <1>17, <2>3, <2>8, <2>9, <2>10, <2>11
<1> QED
    BY <1>16, <1>17

-----------------------------------------------------------------------------
(* All the positions of a cross account *)

\* One more market of the list of an account closed.
Swept(t, m, a) ==
    LET funded == ApplyFunding(t.s, m, a)
        pos == funded.positions[m][a]
    IN  [s |-> SetPosition(UpdateOpenInterest(funded, m, pos.size, 0), m, a, NoPosition),
         effective |-> t.effective + pos.margin + PositionPnl(funded, m, pos),
         notional |-> t.notional + PositionNotional(funded, m, pos)]

SweepStart == [s |-> Scratch, effective |-> 0, notional |-> 0]

\* The recursion over the markets of an account has a solution.
LEMMA AccountAlongExists ==
    ASSUME NEW a, NEW list, NEW n \in Nat
    PROVE  \E f : f = [i \in 0..n |->
                          IF i = 0 THEN SweepStart ELSE Swept(f[i - 1], list[i], a)]
<1> DEFINE Step(t, i) == Swept(t, list[i], a)
           Solves(f, m) ==
               f = [i \in 0..m |-> IF i = 0 THEN SweepStart ELSE Step(f[i - 1], i)]
           S == {m \in Nat : \E f : Solves(f, m)}
<1> HIDE DEF Step
<1>1. 0 \in S
    <2> DEFINE z == [i \in 0..0 |-> SweepStart]
    <2>1. Solves(z, 0)
        OBVIOUS
    <2> HIDE DEF Solves, z
    <2> QED
        BY <2>1
<1>2. ASSUME NEW m \in Nat, m \in S PROVE m + 1 \in S
    <2>1. PICK f : Solves(f, m)
        BY <1>2
    <2> DEFINE g == [i \in 0..m + 1 |-> IF i <= m THEN f[i] ELSE Step(f[m], i)]
    <2>2. ASSUME NEW i \in 0..m + 1
          PROVE  g[i] = IF i = 0 THEN SweepStart ELSE Step(g[i - 1], i)
        <3>1. CASE i <= m
            <4>1. i \in 0..m
                BY <3>1
            <4>2. f[i] = IF i = 0 THEN SweepStart ELSE Step(f[i - 1], i)
                BY <2>1, <4>1
            <4>3. g[i] = f[i] /\ (i # 0 => g[i - 1] = f[i - 1])
                BY <4>1
            <4> QED
                BY <4>2, <4>3
        <3>2. CASE i = m + 1
            <4>1. g[i] = Step(f[m], i) /\ g[i - 1] = f[m]
                BY <3>2
            <4> QED
                BY <3>2, <4>1
        <3> QED
            BY <3>1, <3>2
    <2>3. Solves(g, m + 1)
        BY <2>2
    <2> HIDE DEF Solves, g
    <2> QED
        BY <2>3
<1>3. n \in S
    <2> HIDE DEF S
    <2> QED
        BY <1>1, <1>2, NatSets
<1> QED
    BY <1>3 DEF Step

\* Where the sweep of an account starts, and each step of it from the one before.
LEMMA AccountAlongEntries ==
    ASSUME NEW a, Len(activeMarkets[a]) \in Nat
    PROVE  /\ AccountAlong(a)[0] = SweepStart
           /\ \A i \in 1..Len(activeMarkets[a]) :
                  AccountAlong(a)[i] = Swept(AccountAlong(a)[i - 1], activeMarkets[a][i], a)
<1> DEFINE list == activeMarkets[a]
           Solves(f) == f = [i \in 0..Len(list) |->
                                IF i = 0 THEN SweepStart ELSE Swept(f[i - 1], list[i], a)]
           g == AccountAlong(a)
<1>1. PICK f : Solves(f)
    BY AccountAlongExists
<1>2. g = CHOOSE q : Solves(q)
    BY DEF AccountAlong, Swept, SweepStart
<1> HIDE DEF g
<1>3. Solves(g)
    <2> HIDE DEF Solves
    <2> QED
        BY <1>1, <1>2
<1>4. ASSUME NEW i \in 0..Len(list)
      PROVE  g[i] = IF i = 0 THEN SweepStart ELSE Swept(g[i - 1], list[i], a)
    BY <1>3
<1>5. g[0] = SweepStart /\ \A i \in 1..Len(list) : g[i] = Swept(g[i - 1], list[i], a)
    BY <1>4
<1> QED
    BY <1>5 DEF g

\* What the sweep has done when the markets before it in the list are closed: t follows s.
Sweeping(s, t, a) ==
    /\ Good(t.s)
    /\ Served(s, t.s, a)
    /\ t.s.index = s.index
    /\ t.effective \in Int
    /\ t.notional \in Nat
    /\ \A k \in Markets : t.s.positions[k][a].size \in {0, s.positions[k][a].size}

(* One round of the loop over an account closes the position it is at, and no other. *)
LEMMA SweptWorks ==
    ASSUME TypeOK, NEW s, Good(s), NEW t, NEW a \in Accounts, Sweeping(s, t, a),
           NEW m \in Markets, NEW u, u = Swept(t, m, a)
    PROVE  /\ Sweeping(s, u, a)
           /\ Works(t.s, u.s, m, a)
           /\ u.s.positions[m][a].size = 0
<1> DEFINE r == t.s
           funded == ApplyFunding(r, m, a)
           pos == funded.positions[m][a]
           closed == Placed(funded, m, a, NoPosition)
           margin == pos.margin
           pnl == PositionPnl(funded, m, pos)
           value == PositionNotional(funded, m, pos)
<1>1. /\ Good(r)
      /\ Served(s, r, a)
      /\ r.index = s.index
      /\ t.effective \in Int
      /\ t.notional \in Nat
      /\ \A k \in Markets : r.positions[k][a].size \in {0, s.positions[k][a].size}
    BY DEF Sweeping
<1>2. funded = ApplyFunding(r, m, a)
    OBVIOUS
<1>3. /\ u.s = SetPosition(UpdateOpenInterest(funded, m, pos.size, 0), m, a, NoPosition)
      /\ u.effective = t.effective + margin + pnl
      /\ u.notional = t.notional + value
    BY DEF Swept
<1>4. pos = funded.positions[m][a]
    OBVIOUS
<1> HIDE DEF r, funded
<1>5. /\ Good(funded)
      /\ Works(r, funded, m, a)
      /\ funded.positions[m][a].size = r.positions[m][a].size
      /\ funded.index = r.index
    BY <1>1, <1>2, ApplyFundingWorks
<1>6. /\ pos.size \in Int
      /\ pos.entryPrice \in Int
      /\ pos.margin \in Int
    BY <1>5, GoodPosition
<1>7. funded \in Scratches
    BY <1>5 DEF Good
<1>8. closed = UpdateOpenInterest(SetPosition(funded, m, a, NoPosition), m, pos.size, 0)
    BY NoPositionType DEF Placed
<1>9. closed = Placed(funded, m, a, NoPosition)
    OBVIOUS
<1> HIDE DEF closed
<1> HIDE DEF pos
<1>10. u.s = closed
    BY <1>3, <1>6, <1>7, <1>8, NoPositionType, WrittenInAnyOrder
<1>11. 0 <= Len(tierHistory[m])
    BY DEF TypeOK
<1>12. /\ Good(closed)
       /\ Works(funded, closed, m, a)
       /\ closed.positions[m][a] = NoPosition
       /\ closed.index = funded.index
    BY <1>5, <1>9, <1>11, NoPositionType, PlacedWorks
<1>13. Works(r, closed, m, a)
    BY <1>1, <1>5, <1>12, WorksTransitive
<1>14. Served(s, closed, a)
    <2>1. Served(r, closed, a)
        BY <1>13 DEF Works
    <2> QED
        BY <1>1, <1>12, <2>1, ServedTransitive
<1>15. closed.positions[m][a].size = 0
    BY <1>12, NoPositionType
<1>16. \A k \in Markets : closed.positions[k][a].size \in {0, s.positions[k][a].size}
    <2>1. ASSUME NEW k \in Markets, k # m
          PROVE  closed.positions[k][a] = r.positions[k][a]
        BY <1>13, <2>1 DEF Works
    <2> QED
        BY <1>1, <1>15, <2>1
<1>17. u.effective \in Int /\ u.notional \in Nat
    <2>1. funded.markets[m].markPrice \in Nat /\ funded.markets[m].markPrice \in Int
        BY <1>5, GoodMarket
    <2>2. pnl \in Int
        BY <1>6, <2>1, PnlType DEF PositionPnl
    <2>3. Abs(pos.size) \in Nat
        BY <1>6, AbsType
    <2>4. value \in Nat
        BY <2>1, <2>3, NotionalType DEF PositionNotional
    <2> HIDE DEF pnl, value
    <2> QED
        BY <1>1, <1>3, <1>6, <2>2, <2>4
<1>18. closed.index = s.index
    BY <1>1, <1>5, <1>12
<1> QED
    BY <1>10, <1>12, <1>13, <1>14, <1>15, <1>16, <1>17, <1>18 DEF Sweeping, r

\* When the whole list is swept the account has no position left in any market.
LEMMA AccountClosedWorks ==
    ASSUME TypeOK, Good(Scratch), Tied(Scratch), NEW a \in Accounts,
           NEW t, t = AccountClosed(a)
    PROVE  /\ Sweeping(Scratch, t, a)
           /\ \A k \in Markets : t.s.positions[k][a].size = 0
           /\ t.notional > 0 => activeMarkets[a][1] \in Markets
<1> DEFINE list == activeMarkets[a]
           n == Len(list)
           along == AccountAlong(a)
           P(i) == /\ Sweeping(Scratch, along[i], a)
                   /\ \A j \in 1..i : along[i].s.positions[list[j]][a].size = 0
           S == {i \in Nat : i <= n => P(i)}
<1>1. list \in Seq(Markets) /\ n \in Nat /\ \A j \in 1..n : list[j] \in Markets
    <2>1. list \in Seq(Markets)
        BY DEF TypeOK
    <2> QED
        BY <2>1
<1>2. /\ along[0] = SweepStart
      /\ \A i \in 1..n : along[i] = Swept(along[i - 1], list[i], a)
    BY <1>1, AccountAlongEntries
<1>3. t = along[n]
    BY DEF AccountClosed
<1> HIDE DEF along
<1>4. SweepStart.s = Scratch /\ SweepStart.effective = 0 /\ SweepStart.notional = 0
    BY DEF SweepStart
<1>5. 0 \in S
    <2>1. Served(Scratch, Scratch, a)
        BY ServedReflexive
    <2>2. Sweeping(Scratch, along[0], a)
        BY <1>2, <1>4, <2>1 DEF Sweeping
    <2> QED
        BY <2>2
<1>6. ASSUME NEW i \in Nat, i \in S PROVE i + 1 \in S
    <2>1. SUFFICES ASSUME i + 1 <= n PROVE P(i + 1)
        OBVIOUS
    <2>2. i + 1 \in 1..n /\ (i + 1) - 1 = i /\ i <= n
        BY <1>1, <2>1
    <2>3. P(i)
        BY <1>6, <2>2
    <2> DEFINE m == list[i + 1]
    <2>4. m \in Markets /\ along[i + 1] = Swept(along[i], m, a)
        BY <1>1, <1>2, <2>2
    <2>5. m = list[i + 1]
        OBVIOUS
    <2> HIDE DEF m
    <2>6. /\ Sweeping(Scratch, along[i + 1], a)
          /\ Works(along[i].s, along[i + 1].s, m, a)
          /\ along[i + 1].s.positions[m][a].size = 0
        BY <2>3, <2>4, SweptWorks
    <2>7. ASSUME NEW j \in 1..i + 1 PROVE along[i + 1].s.positions[list[j]][a].size = 0
        <3>1. CASE list[j] = m
            BY <2>6, <3>1
        <3>2. CASE list[j] # m
            <4>1. j \in 1..i
                BY <2>5, <3>2
            <4>2. list[j] \in Markets
                BY <1>1, <2>2, <4>1
            <4>3. along[i + 1].s.positions[list[j]][a] = along[i].s.positions[list[j]][a]
                BY <2>6, <3>2, <4>2 DEF Works
            <4> QED
                BY <2>3, <4>1, <4>3
        <3> QED
            BY <3>1, <3>2
    <2> QED
        BY <2>6, <2>7
<1>7. n \in S
    <2> HIDE DEF S
    <2> QED
        BY <1>1, <1>5, <1>6, NatSets
<1>8. P(n)
    BY <1>1, <1>7
<1>9. ASSUME NEW k \in Markets PROVE t.s.positions[k][a].size = 0
    <2>1. t.s.positions[k][a].size \in {0, Scratch.positions[k][a].size}
        BY <1>3, <1>8 DEF Sweeping
    <2>2. CASE Scratch.positions[k][a].size = 0
        BY <2>1, <2>2
    <2>3. CASE Scratch.positions[k][a].size # 0
        <3>1. Scratch.index[a][k] # 0
            BY <2>3 DEF Tied, TiedAt
        <3>2. ListExact(Scratch.active[a], Scratch.index[a])
            BY DEF Good, Listed
        <3>3. Scratch.active[a] = list
            BY DEF Scratch
        <3>4. Scratch.index[a][k] \in 1..n /\ list[Scratch.index[a][k]] = k
            BY <3>1, <3>2, <3>3 DEF ListExact
        <3> QED
            BY <1>3, <1>8, <3>4
    <2> QED
        BY <2>2, <2>3
<1>10. ASSUME t.notional > 0 PROVE list[1] \in Markets
    <2>1. n # 0
        BY <1>2, <1>3, <1>4, <1>10
    <2> QED
        BY <1>1, <2>1
<1> QED
    BY <1>3, <1>8, <1>9, <1>10

\* The account is closed, counted against the breaker, taken off the list, and rewarded.
LEMMA AccountLiquidated ==
    ASSUME TypeOK, Good(Scratch), Tied(Scratch), NEW a \in Accounts, NEW keeper \in Accounts,
           NEW t, t = AccountClosed(a),
           NEW tracked, tracked = IF t.notional > 0
                                  THEN TrackLiquidation(t.s, activeMarkets[a][1], t.notional)
                                  ELSE t.s,
           NEW cleared, cleared = [tracked EXCEPT !.active[a] = <<>>,
                                                  !.index[a] = [m \in Markets |-> 0]],
           NEW u, u = DistributeRewards(cleared, keeper, t.notional, t.effective)
    PROVE  /\ Good(u)
           /\ Tied(u)
           /\ Served(Scratch, u, a)
           /\ \A k \in Markets : u.positions[k][a].size = 0
<1> DEFINE r == t.s
           none == [m \in Markets |-> 0]
<1>1. /\ Good(r)
      /\ Served(Scratch, r, a)
      /\ t.effective \in Int
      /\ t.notional \in Nat
      /\ \A k \in Markets : r.positions[k][a].size = 0
      /\ t.notional > 0 => activeMarkets[a][1] \in Markets
    <2>1. /\ Sweeping(Scratch, t, a)
          /\ \A k \in Markets : t.s.positions[k][a].size = 0
          /\ t.notional > 0 => activeMarkets[a][1] \in Markets
        BY ONLY TypeOK, Good(Scratch), Tied(Scratch), a \in Accounts, t = AccountClosed(a),
                AccountClosedWorks
    <2> QED
        BY ONLY <2>1 DEF Sweeping
<1>2. tracked = IF t.notional > 0 THEN TrackLiquidation(r, activeMarkets[a][1], t.notional)
                ELSE r
    OBVIOUS
<1> HIDE DEF r
<1>3. Paid(r, tracked, a)
    <2>1. CASE t.notional > 0
        BY <1>1, <1>2, <2>1, TrackLiquidationPaid
    <2>2. CASE ~(t.notional > 0)
        <3>1. Served(r, r, a)
            BY <1>1, ServedReflexive
        <3> QED
            BY <1>1, <1>2, <2>2, <3>1 DEF Paid, SameBooks
    <2> QED
        BY <2>1, <2>2
<1>4. Good(tracked) /\ Served(r, tracked, a) /\ tracked.positions = r.positions
    BY <1>3 DEF Paid, SameBooks
<1>5. /\ <<>> \in Seq(Markets)
      /\ none \in [Markets -> Nat]
      /\ ListExact(<<>>, none)
      /\ \A k \in Markets : none[k] = 0
    BY DEF ListExact
<1>6. cleared = WithList(tracked, a, <<>>, none)
    <2>1. tracked \in Scratches
        BY <1>4 DEF Good
    <2> QED
        BY <2>1 DEF WithList, Scratches
<1> HIDE DEF none
<1> DEFINE empty == <<>>
<1>7. /\ empty \in Seq(Markets) /\ none \in [Markets -> Nat] /\ ListExact(empty, none)
      /\ cleared = WithList(tracked, a, empty, none)
      /\ Good(tracked)
      /\ a \in Accounts
    BY <1>4, <1>5, <1>6
<1> HIDE DEF empty
<1>8. /\ Good(cleared)
      /\ Served(tracked, cleared, a)
      /\ cleared.positions = tracked.positions
      /\ cleared.index[a] = none
    BY ONLY <1>7, WithListGood
<1>9. Paid(cleared, u, a)
    BY <1>1, <1>8, DistributeRewardsPaid
<1>10. /\ Good(u) /\ Served(cleared, u, a)
       /\ u.positions = cleared.positions /\ u.index = cleared.index
    BY <1>9 DEF Paid, SameBooks
<1>11. Served(Scratch, tracked, a)
    BY <1>1, <1>4, ServedTransitive
<1>12. Served(Scratch, cleared, a)
    BY <1>4, <1>8, <1>11, ServedTransitive
<1>13. Served(Scratch, u, a)
    BY <1>8, <1>10, <1>12, ServedTransitive
<1>14. \A k \in Markets : u.positions[k][a].size = 0 /\ u.index[a][k] = 0
    BY ONLY <1>1, <1>4, <1>5, <1>8, <1>10
<1>15. Tied(u)
    <2>1. ASSUME NEW k \in Markets, NEW b \in Accounts PROVE TiedAt(u, k, b)
        <3>1. CASE b = a
            BY <1>14, <3>1 DEF TiedAt
        <3>2. CASE b # a
            <4>1. u.positions[k][b] = Scratch.positions[k][b] /\ u.index[b] = Scratch.index[b]
                BY <1>13, <3>2 DEF Served
            <4>2. TiedAt(Scratch, k, b)
                BY DEF Tied
            <4> QED
                BY <4>1, <4>2 DEF TiedAt
        <3> QED
            BY <3>1, <3>2
    <2> QED
        BY <2>1 DEF Tied
<1> QED
    BY <1>10, <1>13, <1>14, <1>15

-----------------------------------------------------------------------------
(***************************************************************************)
(* The inductive invariant.  TypeOK alone is not one: that open interest    *)
(* stays natural follows only because it is a sum over positions, and that   *)
(* the index of a list stays natural only because the lists are exact.       *)
(* OpenInterestConsistent and ActiveListsExact need each other's types, and  *)
(* the margin of a position needs the version of the tiers it is held to     *)
(* to be in the history.                                                    *)
(***************************************************************************)
\* A position is held to tiers that were set, or to the flat rates.
VersionsExist ==
    \A m \in Markets, a \in Accounts :
        positions[m][a].marginTierVersion <= Len(tierHistory[m])

\* There are positions only in markets that were added, so that adding one, which starts
\* with no open interest, forgets none.
MarketsFirst ==
    \A m \in Markets, a \in Accounts : positions[m][a].size # 0 => markets[m].exists

Inv ==
    /\ TypeOK
    /\ OpenInterestConsistent
    /\ ActiveListsExact
    /\ VersionsExist
    /\ MarketsFirst

\* What a transaction starts from is good.
LEMMA StartGood ==
    ASSUME Inv
    PROVE  Good(Scratch) /\ Tied(Scratch)
<1>1. /\ Scratch.ok = TRUE
      /\ Scratch.ledger = [balances |-> balances, collateralBalances |-> collateralBalances]
      /\ Scratch.markets = markets
      /\ Scratch.positions = positions
      /\ Scratch.active = activeMarkets
      /\ Scratch.index = activeIndex
    BY DEF Scratch
<1>2. /\ balances \in [Accounts -> Nat] /\ collateralBalances \in [Accounts -> Nat]
      /\ activeMarkets \in [Accounts -> Seq(Markets)]
      /\ activeIndex \in [Accounts -> [Markets -> Nat]]
      /\ breaker \in [active : BOOLEAN, triggeredAt : 0..now]
      /\ window \in [Markets -> [start : 0..now, liquidated : Nat]]
    BY DEF Inv, TypeOK
<1>3. markets \in [Markets -> LooseMarkets]
    <2>1. markets \in [Markets -> [exists : BOOLEAN, active : BOOLEAN, markPrice : Nat,
                                   indexPrice : Nat, lastPriceUpdate : 0..now,
                                   cumulativeFunding : Int, lastFundingUpdate : 0..now,
                                   openInterestLong : Nat, openInterestShort : Nat]]
        BY DEF Inv, TypeOK
    <2>2. \A m \in Markets : markets[m] \in LooseMarkets
        BY <2>1 DEF LooseMarkets
    <2> QED
        BY <2>1, <2>2
<1>4. /\ positions \in [Markets -> [Accounts -> LoosePositions]]
      /\ \A m \in Markets, a \in Accounts : positions[m][a].margin \in Nat
    <2>1. positions \in [Markets -> [Accounts -> [size : Int, entryPrice : Nat, margin : Nat,
                                                  lastCumulativeFunding : Int,
                                                  marginTierVersion : Nat]]]
        BY DEF Inv, TypeOK
    <2>2. \A m \in Markets, a \in Accounts :
              positions[m][a] \in LoosePositions /\ positions[m][a].margin \in Nat
        BY <2>1 DEF LoosePositions
    <2> QED
        BY <2>1, <2>2
<1>5. Scratch \in Scratches
    <2>1. [balances |-> balances, collateralBalances |-> collateralBalances] \in Ledgers
        BY <1>2 DEF Ledgers
    <2> QED
        BY <1>2, <1>3, <1>4, <2>1 DEF Scratch, Scratches
<1>6. Sound(Scratch)
    <2>1. Scratch.ledger \in NatLedgers
        BY <1>1, <1>2 DEF NatLedgers
    <2> QED
        BY <1>1, <1>4, <2>1 DEF Sound
<1>7. OIExact(Scratch)
    <2>1. ASSUME NEW m \in Markets
          PROVE  LongSizes(m) = LongOf(positions[m]) /\ ShortSizes(m) = ShortOf(positions[m])
        BY DEF LongSizes, ShortSizes, LongOf, ShortOf
    <2> QED
        BY <1>1, <2>1 DEF OIExact, Inv, OpenInterestConsistent
<1>8. Listed(Scratch) /\ Tied(Scratch)
    BY <1>1 DEF Inv, ActiveListsExact, Listed, ListExact, Tied, TiedAt
<1>9. VersionsIn(Scratch) /\ SameMarkets(Scratch)
    BY <1>1 DEF Inv, VersionsExist, VersionsIn, SameMarkets
<1> QED
    BY <1>5, <1>6, <1>7, <1>8, <1>9 DEF Good

\* What a transaction for account a leaves to others: it takes from nobody but those who
\* pay, and keeps its hands off their positions.
Effects(a) ==
    /\ \A b \in Accounts \ Payers(a) : balances'[b] >= balances[b]
    /\ \A b \in Accounts \ {a}, k \in Markets : positions'[k][b] = positions[k][b]

\* What is not part of a transaction.
Frame == UNCHANGED <<now, paused, marginMode, tierHistory, params>>

\* A transaction that commits a good scratch state keeps the invariant.
LEMMA CommitGood ==
    ASSUME Inv, NEW t, Good(t), Tied(t),
           \A m \in Markets, b \in Accounts :
               t.positions[m][b].size # 0 => markets[m].exists,
           Commit(t), Counted, Frame
    PROVE  Inv'
<1>1. /\ t.ok
      /\ balances' = t.ledger.balances /\ collateralBalances' = t.ledger.collateralBalances
      /\ markets' = t.markets /\ positions' = t.positions
      /\ activeMarkets' = t.active /\ activeIndex' = t.index
      /\ breaker' = t.breaker /\ window' = t.window
    BY DEF Commit
<1>2. /\ now' = now /\ paused' = paused /\ marginMode' = marginMode
      /\ tierHistory' = tierHistory /\ params' = params
      /\ calls' = calls + 1 /\ calls < MaxCalls
    BY DEF Frame, Counted
<1>3. t \in Scratches
    BY DEF Good
<1>4. /\ t.active \in [Accounts -> Seq(Markets)]
      /\ t.index \in [Accounts -> [Markets -> Nat]]
      /\ t.breaker \in [active : BOOLEAN, triggeredAt : 0..now]
      /\ t.window \in [Markets -> [start : 0..now, liquidated : Nat]]
      /\ t.markets \in [Markets -> LooseMarkets]
      /\ t.positions \in [Markets -> [Accounts -> LoosePositions]]
    BY <1>3 DEF Scratches
<1>5. t.ledger.balances \in [Accounts -> Nat] /\ t.ledger.collateralBalances \in [Accounts -> Nat]
    BY <1>1 DEF Good, Sound, NatLedgers
<1>6. t.markets \in [Markets -> [exists : BOOLEAN, active : BOOLEAN, markPrice : Nat,
                                 indexPrice : Nat, lastPriceUpdate : 0..now,
                                 cumulativeFunding : Int, lastFundingUpdate : 0..now,
                                 openInterestLong : Nat, openInterestShort : Nat]]
    <2>1. \A m \in Markets : /\ t.markets[m] \in LooseMarkets
                             /\ t.markets[m].openInterestLong \in Nat
                             /\ t.markets[m].openInterestShort \in Nat
        BY GoodMarket
    <2> QED
        BY <1>4, <2>1 DEF LooseMarkets
<1>7. t.positions \in [Markets -> [Accounts ->
                          [size : Int, entryPrice : Nat, margin : Nat,
                           lastCumulativeFunding : Int, marginTierVersion : Nat]]]
    <2>1. \A m \in Markets, b \in Accounts : /\ t.positions[m][b] \in LoosePositions
                                             /\ t.positions[m][b].margin \in Nat
        BY <1>1, GoodPosition
    <2>2. ASSUME NEW m \in Markets, NEW b \in Accounts
          PROVE  t.positions[m][b] \in [size : Int, entryPrice : Nat, margin : Nat,
                                        lastCumulativeFunding : Int, marginTierVersion : Nat]
        BY <2>1 DEF LoosePositions
    <2> QED
        BY <1>4, <2>2
<1>8. TypeOK'
    <2>1. calls' \in 0..MaxCalls
        BY <1>2, RatesAssumption DEF Inv, TypeOK
    <2>2. /\ now' \in 0..MaxTime
          /\ paused' \in BOOLEAN
          /\ (marginMode \in [Accounts -> {"ISOLATED", "CROSS"}])'
          /\ (params \in Params)'
          /\ (tierHistory \in [Markets -> Seq(Seq(Tiers))])'
          /\ (\A m \in Markets :
                 /\ Len(tierHistory[m]) <= MaxTierVersions
                 /\ \A v \in 1..Len(tierHistory[m]) : TiersValid(tierHistory[m][v]))'
        BY <1>2 DEF Inv, TypeOK
    <2> QED
        BY <1>1, <1>2, <1>4, <1>5, <1>6, <1>7, <2>1, <2>2 DEF TypeOK
<1>9. OpenInterestConsistent'
    <2>1. ASSUME NEW m \in Markets
          PROVE  /\ LongSizes(m)' = LongOf(t.positions[m])
                 /\ ShortSizes(m)' = ShortOf(t.positions[m])
        BY <1>1 DEF LongSizes, ShortSizes, LongOf, ShortOf
    <2> QED
        BY <1>1, <2>1 DEF OIExact, Good, OpenInterestConsistent
<1>10. ActiveListsExact'
    BY <1>1 DEF ActiveListsExact, Good, Listed, ListExact, Tied, TiedAt
<1>11. VersionsExist'
    BY <1>1, <1>2 DEF VersionsExist, Good, VersionsIn
<1>12. MarketsFirst'
    <2>1. \A m \in Markets : t.markets[m].exists = markets[m].exists
        BY DEF Good, SameMarkets
    <2> QED
        BY <1>1, <2>1 DEF MarketsFirst
<1> QED
    BY <1>8, <1>9, <1>10, <1>11, <1>12 DEF Inv

\* So does one made for account a, which takes nothing from the others.
LEMMA CommitInv ==
    ASSUME Inv, NEW a \in Accounts, NEW t, Good(t), Tied(t), Served(Scratch, t, a),
           \A m \in Markets : t.positions[m][a].size # 0 => markets[m].exists,
           Commit(t), Counted, Frame
    PROVE  Inv' /\ Effects(a)
<1>1. t.ok /\ balances' = t.ledger.balances /\ positions' = t.positions
    BY DEF Commit
<1>2. Scratch.ledger.balances = balances /\ Scratch.positions = positions
    BY DEF Scratch
<1>3. Effects(a)
    BY <1>1, <1>2 DEF Served, Effects
<1>4. ASSUME NEW m \in Markets, NEW b \in Accounts, t.positions[m][b].size # 0
      PROVE  markets[m].exists
    <2>1. CASE b = a
        BY <1>4, <2>1
    <2>2. CASE b # a
        <3>1. t.positions[m][b] = positions[m][b]
            BY <1>2, <2>2 DEF Served
        <3> QED
            BY <1>4, <3>1 DEF Inv, MarketsFirst
    <2> QED
        BY <2>1, <2>2
<1> QED
    BY <1>3, <1>4, CommitGood

-----------------------------------------------------------------------------
(* The transactions *)

\* What ExposureGrowsOnlyWhenOpen says of a step.
ExposureStep ==
    \A m \in Markets, a \in Traders :
        LET old == positions[m][a].size
            new == positions'[m][a].size
        IN  (new # 0 /\ (Abs(new) > Abs(old) \/ ~SameSign(old, new)) /\ new # old)
                => /\ ~paused
                   /\ markets[m].active
                   /\ markets[m].markPrice # 0
                   /\ now - markets[m].lastPriceUpdate <= params.maxPriceAge
                   /\ breaker.active
                          => now - breaker.triggeredAt >= params.cooldown

\* A step that touches one position at most.
OneTouched(m, a) ==
    \A k \in Markets, b \in Accounts :
        (k # m \/ b # a) => positions'[k][b] = positions[k][b]

\* A step that leaves every position smaller, or as it is, exposes nobody.
LEMMA NoGrowth ==
    ASSUME NEW m \in Markets, NEW a \in Accounts, OneTouched(m, a),
           \/ positions'[m][a].size = 0
           \/ positions'[m][a].size = positions[m][a].size
           \/ /\ ~(Abs(positions'[m][a].size) > Abs(positions[m][a].size))
              /\ SameSign(positions[m][a].size, positions'[m][a].size)
    PROVE  ExposureStep
<1>1. ASSUME NEW k \in Markets, NEW b \in Traders,
             positions'[k][b].size # 0,
             \/ Abs(positions'[k][b].size) > Abs(positions[k][b].size)
             \/ ~SameSign(positions[k][b].size, positions'[k][b].size),
             positions'[k][b].size # positions[k][b].size
      PROVE  FALSE
    <2>1. b \in Accounts
        BY RolesAssumption
    <2>2. k = m /\ b = a
        BY <1>1, <2>1 DEF OneTouched
    <2> QED
        BY <1>1, <2>2
<1> QED
    BY <1>1 DEF ExposureStep

(* Complete work on one position, committed, keeps the invariant and obeys the action properties. *)
LEMMA WorkCommitted ==
    ASSUME Inv, NEW m \in Markets, NEW a \in Accounts, NEW t,
           Good(t), Works(Scratch, t, m, a), TiedAt(t, m, a), markets[m].exists,
           Commit(t), Counted, Frame
    PROVE  Inv' /\ Effects(a) /\ OneTouched(m, a) /\ positions'[m][a] = t.positions[m][a]
<1>1. Good(Scratch) /\ Tied(Scratch) /\ Scratch.positions = positions
    BY StartGood DEF Scratch
<1>2. TiedBut(Scratch, m, a)
    BY <1>1 DEF Tied, TiedBut
<1>3. Tied(t)
    BY <1>2, WorksTied
<1>4. Served(Scratch, t, a) /\ positions' = t.positions
    BY DEF Works, Commit
<1>5. ASSUME NEW k \in Markets, t.positions[k][a].size # 0
      PROVE  markets[k].exists
    <2>1. CASE k # m
        <3>1. t.positions[k][a] = positions[k][a]
            BY <1>1, <2>1 DEF Works
        <3> QED
            BY <1>5, <3>1 DEF Inv, MarketsFirst
    <2> QED
        BY <2>1
<1>6. Inv' /\ Effects(a)
    BY <1>3, <1>4, <1>5, CommitInv
<1>7. OneTouched(m, a)
    BY <1>1, <1>4 DEF Works, OneTouched
<1> QED
    BY <1>4, <1>6, <1>7

(* openPosition keeps the invariant and obeys the action properties. *)
LEMMA OpenPositionKeeps ==
    ASSUME Inv, NEW m \in Markets, NEW a \in Traders, NEW sizeDelta \in SizeDeltas,
           NEW price \in Prices, OpenPosition(m, a, sizeDelta, price)
    PROVE  Inv' /\ Effects(a) /\ ExposureStep
<1> DEFINE t == Opened(Scratch, m, a, sizeDelta, price)
<1>1. a \in Accounts /\ sizeDelta \in Int \ {0} /\ price \in Nat
    BY RolesAssumption, RatesAssumption DEF OpenPosition, OpenAllowed
<1>2. /\ OpenAllowed(Scratch, m, sizeDelta, price)
      /\ Commit(t) /\ Counted /\ Frame
      /\ markets[m].exists
    BY DEF OpenPosition, OpenAllowed, Frame
<1>3. TypeOK /\ Good(Scratch) /\ TiedAt(Scratch, m, a)
    BY <1>1, StartGood DEF Inv, Tied
<1>4. t = Opened(Scratch, m, a, sizeDelta, price)
    OBVIOUS
<1> HIDE DEF t
<1>5. Good(t) /\ Works(Scratch, t, m, a) /\ TiedAt(t, m, a)
    BY <1>1, <1>3, <1>4, OpenedWorks
<1>6. Inv' /\ Effects(a) /\ OneTouched(m, a)
    BY <1>1, <1>2, <1>5, WorkCommitted
<1>7. /\ ~paused
      /\ markets[m].active
      /\ markets[m].markPrice # 0
      /\ now - markets[m].lastPriceUpdate <= params.maxPriceAge
      /\ breaker.active => now - breaker.triggeredAt >= params.cooldown
    BY <1>2 DEF OpenAllowed, Fresh, BreakerLetsOpen, Scratch
<1>8. ASSUME NEW k \in Markets, NEW b \in Traders,
             positions'[k][b].size # positions[k][b].size
      PROVE  k = m
    <2>1. b \in Accounts
        BY RolesAssumption
    <2> QED
        BY <1>6, <1>8, <2>1 DEF OneTouched
<1>9. ExposureStep
    BY <1>7, <1>8 DEF ExposureStep
<1> QED
    BY <1>6, <1>9

(* closePosition keeps the invariant and obeys the action properties. *)
LEMMA ClosePositionKeeps ==
    ASSUME Inv, NEW m \in Markets, NEW a \in Traders, NEW price \in Prices,
           ClosePosition(m, a, price)
    PROVE  Inv' /\ Effects(a) /\ ExposureStep
<1> DEFINE s == ApplyFunding(Scratch, m, a)
           pos == s.positions[m][a]
           pnl == Pnl(pos.entryPrice, price, pos.size)
           margin == pos.margin
           paid == SettlePnl(s, a, pnl, margin)
           t == Closed(paid, m, a)
<1>1. a \in Accounts /\ price \in Int
    BY RolesAssumption, RatesAssumption
<1>2. Commit(CloseResult(m, a, price)) /\ Counted /\ Frame /\ markets[m].exists
    BY DEF ClosePosition, Frame
<1>3. CloseResult(m, a, price) = t
    BY DEF CloseResult
<1>4. TypeOK /\ Good(Scratch)
    BY StartGood DEF Inv
<1>5. s = ApplyFunding(Scratch, m, a) /\ pos = s.positions[m][a]
    OBVIOUS
<1> HIDE DEF s
<1>6. Good(s) /\ Works(Scratch, s, m, a)
    BY <1>1, <1>4, <1>5, ApplyFundingWorks
<1>7. pos.entryPrice \in Int /\ pos.size \in Int /\ margin \in Int
    BY <1>1, <1>6, GoodPosition
<1> HIDE DEF pos, margin
<1>8. pnl \in Int
    BY <1>1, <1>7, PnlType
<1> HIDE DEF pnl
<1>9. Paid(s, paid, a)
    BY <1>1, <1>6, <1>7, <1>8, SettlePnlPaid
<1> HIDE DEF paid
<1>10. Good(paid) /\ Works(s, paid, m, a)
    BY <1>1, <1>9, PaidWorks
<1>11. t = Closed(paid, m, a)
    OBVIOUS
<1> HIDE DEF t
<1>12. /\ Good(t)
       /\ Works(paid, t, m, a)
       /\ t.positions[m][a].size = 0
       /\ TiedAt(t, m, a)
    BY <1>1, <1>4, <1>10, <1>11, ClosedWorks
<1>13. Works(Scratch, paid, m, a)
    BY <1>1, <1>4, <1>6, <1>10, WorksTransitive
<1>14. Works(Scratch, t, m, a)
    BY <1>1, <1>4, <1>10, <1>12, <1>13, WorksTransitive
<1>15. /\ Inv' /\ Effects(a) /\ OneTouched(m, a)
       /\ positions'[m][a] = t.positions[m][a]
    BY <1>1, <1>2, <1>3, <1>12, <1>14, WorkCommitted
<1>16. ExposureStep
    BY <1>1, <1>12, <1>15, NoGrowth
<1> QED
    BY <1>15, <1>16

\* Margin added is paid first, by the trader.
LEMMA AddMarginKeeps ==
    ASSUME Inv, NEW m \in Markets, NEW a \in Traders, NEW amount \in Amounts,
           AddMargin(m, a, amount)
    PROVE  Inv' /\ Effects(a) /\ ExposureStep
<1> DEFINE s == Scratch
           pos == positions[m][a]
           paid == Pay(s, a, Engine, amount)
           more == [pos EXCEPT !.margin = @ + amount]
           t == SetPosition(paid, m, a, more)
<1>1. /\ a \in Accounts /\ a \in Payers(a) /\ Engine \in Accounts
      /\ amount \in Nat /\ amount \in Int
    BY RolesAssumption, RatesAssumption DEF Payers
<1>2. Commit(t) /\ Counted /\ Frame /\ markets[m].exists
    BY DEF AddMargin, Frame
<1>3. TypeOK /\ Good(s) /\ TiedAt(s, m, a) /\ s.positions[m][a] = pos
    BY <1>1, StartGood DEF Inv, Tied, Scratch
<1> HIDE DEF s, pos
<1>4. /\ pos \in LoosePositions
      /\ pos.margin \in Int
      /\ pos.marginTierVersion <= Len(tierHistory[m])
      /\ s.ok => pos.margin \in Nat
    BY <1>1, <1>3, GoodPosition
<1>5. Paid(s, paid, a)
    BY <1>1, <1>3, PayPaid
<1>6. t = SetPosition(paid, m, a, more)
    OBVIOUS
<1> HIDE DEF paid, t
<1>7. /\ Good(paid) /\ Works(s, paid, m, a)
      /\ paid.positions = s.positions /\ paid.index = s.index
    BY <1>1, <1>5, PaidWorks
<1>8. paid.ok => s.ok
    BY <1>5 DEF Paid, Served
<1>9. /\ more \in LoosePositions
      /\ more.size = pos.size
      /\ paid.ok => more.margin \in Nat
      /\ more.marginTierVersion <= Len(tierHistory[m])
    <2> DEFINE margin == pos.margin + amount
    <2>1. margin \in Int /\ (paid.ok => margin \in Nat)
        BY <1>1, <1>4, <1>8
    <2>2. more = [pos EXCEPT !.margin = margin]
        BY <1>4 DEF LoosePositions
    <2> HIDE DEF margin, more
    <2> QED
        BY <1>4, <2>1, <2>2 DEF LoosePositions
<1> HIDE DEF more
<1>10. /\ Good(t)
       /\ Works(paid, t, m, a)
       /\ t.positions[m][a] = more
       /\ t.index = paid.index
    <2>1. more.size = paid.positions[m][a].size
        BY <1>3, <1>7, <1>9
    <2> QED
        BY <1>1, <1>6, <1>7, <1>9, <2>1, RewrittenWorks
<1>11. Works(s, t, m, a)
    BY <1>1, <1>3, <1>7, <1>10, WorksTransitive
<1>12. t.positions[m][a].size = pos.size
    BY <1>9, <1>10
<1>13. TiedAt(t, m, a)
    BY <1>3, <1>7, <1>10, <1>12 DEF TiedAt
<1>14. /\ Inv' /\ Effects(a) /\ OneTouched(m, a)
       /\ positions'[m][a] = t.positions[m][a]
    BY <1>1, <1>2, <1>10, <1>11, <1>13, WorkCommitted DEF s
<1>15. positions'[m][a].size = positions[m][a].size
    BY <1>12, <1>14 DEF pos
<1>16. ExposureStep
    BY <1>1, <1>14, <1>15, NoGrowth
<1> QED
    BY <1>14, <1>16

\* Margin taken out is written off the position first, then paid by the engine.
LEMMA RemoveMarginKeeps ==
    ASSUME Inv, NEW m \in Markets, NEW a \in Traders, NEW amount \in Amounts,
           RemoveMargin(m, a, amount)
    PROVE  Inv' /\ Effects(a) /\ ExposureStep
<1> DEFINE s == Scratch
           pos == positions[m][a]
           less == [pos EXCEPT !.margin = @ - amount]
           written == SetPosition(s, m, a, less)
           t == Pay(written, Engine, a, amount)
<1>1. /\ a \in Accounts /\ Engine \in Payers(a) /\ Engine \in Accounts
      /\ amount \in Nat /\ amount \in Int
    BY RolesAssumption, RatesAssumption DEF Payers
<1>2. Commit(t) /\ Counted /\ Frame /\ amount <= pos.margin /\ markets[m].exists
    BY DEF RemoveMargin, Frame
<1>3. TypeOK /\ Good(s) /\ TiedAt(s, m, a) /\ s.positions[m][a] = pos
    BY <1>1, StartGood DEF Inv, Tied, Scratch
<1> HIDE DEF s, pos
<1>4. /\ pos \in LoosePositions
      /\ pos.margin \in Int
      /\ pos.marginTierVersion <= Len(tierHistory[m])
      /\ s.ok => pos.margin \in Nat
    BY <1>1, <1>3, GoodPosition
<1>5. /\ less \in LoosePositions
      /\ less.size = pos.size
      /\ s.ok => less.margin \in Nat
      /\ less.marginTierVersion <= Len(tierHistory[m])
    <2> DEFINE margin == pos.margin - amount
    <2>1. margin \in Int /\ (s.ok => margin \in Nat)
        BY <1>1, <1>2, <1>4
    <2>2. less = [pos EXCEPT !.margin = margin]
        BY <1>4 DEF LoosePositions
    <2> HIDE DEF margin, less
    <2> QED
        BY <1>4, <2>1, <2>2 DEF LoosePositions
<1> HIDE DEF less
<1>6. written = SetPosition(s, m, a, less)
    OBVIOUS
<1>7. t = Pay(written, Engine, a, amount)
    OBVIOUS
<1> HIDE DEF written, t
<1>8. /\ Good(written)
      /\ Works(s, written, m, a)
      /\ written.positions[m][a] = less
      /\ written.index = s.index
    <2>1. less.size = s.positions[m][a].size
        BY <1>3, <1>5
    <2> QED
        BY <1>1, <1>3, <1>5, <1>6, <2>1, RewrittenWorks
<1>9. Paid(written, t, a)
    BY <1>1, <1>7, <1>8, PayPaid
<1>10. /\ Good(t) /\ Works(written, t, m, a)
       /\ t.positions = written.positions /\ t.index = written.index
    BY <1>1, <1>9, PaidWorks
<1>11. Works(s, t, m, a)
    BY <1>1, <1>3, <1>8, <1>10, WorksTransitive
<1>12. t.positions[m][a].size = pos.size
    BY <1>5, <1>8, <1>10
<1>13. TiedAt(t, m, a)
    BY <1>3, <1>8, <1>10, <1>12 DEF TiedAt
<1>14. /\ Inv' /\ Effects(a) /\ OneTouched(m, a)
       /\ positions'[m][a] = t.positions[m][a]
    BY <1>1, <1>2, <1>10, <1>11, <1>13, WorkCommitted DEF s
<1>15. positions'[m][a].size = positions[m][a].size
    BY <1>12, <1>14 DEF pos
<1>16. ExposureStep
    BY <1>1, <1>14, <1>15, NoGrowth
<1> QED
    BY <1>14, <1>16

(* liquidatePosition keeps the invariant and obeys the action properties. *)
LEMMA LiquidatePositionKeeps ==
    ASSUME Inv, NEW m \in Markets, NEW a \in Traders, NEW keeper \in Keepers,
           LiquidatePosition(m, a, keeper)
    PROVE  Inv' /\ Effects(a) /\ ExposureStep
<1> DEFINE s == ApplyFunding(Scratch, m, a)
           t == LiquidationRound(s, m, a, keeper)
<1>1. a \in Accounts /\ keeper \in Accounts
    BY RolesAssumption
<1>2. Commit(t) /\ Counted /\ Frame /\ positions[m][a].size # 0 /\ markets[m].exists
    BY DEF LiquidatePosition, Frame
<1>3. /\ TypeOK /\ Good(Scratch) /\ TiedAt(Scratch, m, a)
      /\ Scratch.positions[m][a] = positions[m][a]
    BY <1>1, StartGood DEF Inv, Tied, Scratch
<1>4. s = ApplyFunding(Scratch, m, a) /\ t = LiquidationRound(s, m, a, keeper)
    OBVIOUS
<1> HIDE DEF s, t
<1>5. /\ Good(s) /\ Works(Scratch, s, m, a)
      /\ s.positions[m][a].size = Scratch.positions[m][a].size
      /\ s.index = Scratch.index
    BY <1>1, <1>3, <1>4, ApplyFundingWorks
<1>6. TiedAt(s, m, a) /\ s.positions[m][a].size # 0
    BY <1>2, <1>3, <1>5 DEF TiedAt
<1>7. /\ Good(t)
      /\ Works(s, t, m, a)
      /\ Abs(t.positions[m][a].size) < Abs(s.positions[m][a].size)
      /\ \/ t.positions[m][a].size = 0
         \/ SameSign(s.positions[m][a].size, t.positions[m][a].size)
      /\ TiedAt(t, m, a)
    BY <1>1, <1>3, <1>4, <1>5, <1>6, LiquidationRoundWorks
<1>8. Works(Scratch, t, m, a)
    BY <1>1, <1>3, <1>5, <1>7, WorksTransitive
<1>9. /\ Inv' /\ Effects(a) /\ OneTouched(m, a)
      /\ positions'[m][a] = t.positions[m][a]
    BY <1>1, <1>2, <1>7, <1>8, WorkCommitted
<1>10. /\ ~(Abs(positions'[m][a].size) > Abs(positions[m][a].size))
       /\ \/ positions'[m][a].size = 0
          \/ SameSign(positions[m][a].size, positions'[m][a].size)
    <2>1. t.positions[m][a].size \in Int /\ s.positions[m][a].size \in Int
        BY <1>1, <1>5, <1>7, GoodPosition
    <2>2. Abs(t.positions[m][a].size) \in Nat /\ Abs(s.positions[m][a].size) \in Nat
        BY <2>1, AbsType
    <2> QED
        BY <1>3, <1>5, <1>7, <1>9, <2>2
<1>11. ExposureStep
    BY <1>1, <1>9, <1>10, NoGrowth
<1> QED
    BY <1>9, <1>11

(* liquidateAccount keeps the invariant and obeys the action properties. *)
LEMMA LiquidateAccountKeeps ==
    ASSUME Inv, NEW a \in Traders, NEW keeper \in Keepers, LiquidateAccount(a, keeper)
    PROVE  Inv' /\ Effects(a) /\ ExposureStep
<1> DEFINE t == AccountClosed(a)
           tracked == IF t.notional > 0
                      THEN TrackLiquidation(t.s, activeMarkets[a][1], t.notional)
                      ELSE t.s
           cleared == [tracked EXCEPT !.active[a] = <<>>,
                                      !.index[a] = [m \in Markets |-> 0]]
           u == DistributeRewards(cleared, keeper, t.notional, t.effective)
<1>1. a \in Accounts /\ keeper \in Accounts
    BY RolesAssumption
<1>2. Commit(u) /\ Counted /\ Frame
    BY DEF LiquidateAccount, Frame
<1>3. TypeOK /\ Good(Scratch) /\ Tied(Scratch) /\ Scratch.positions = positions
    BY StartGood DEF Inv, Scratch
<1>4. /\ Good(u)
      /\ Tied(u)
      /\ Served(Scratch, u, a)
      /\ \A k \in Markets : u.positions[k][a].size = 0
    BY <1>1, <1>3, AccountLiquidated, ZenonT(60)
<1> HIDE DEF u
<1>5. Inv' /\ Effects(a)
    BY <1>1, <1>2, <1>4, CommitInv
<1>6. ASSUME NEW m \in Markets, NEW b \in Traders
      PROVE  positions'[m][b].size \in {0, positions[m][b].size}
    <2>1. positions' = u.positions
        BY <1>2 DEF Commit
    <2>2. CASE b = a
        BY <1>4, <2>1, <2>2
    <2>3. CASE b # a
        <3>1. b \in Accounts
            BY RolesAssumption
        <3> QED
            BY <1>5, <2>3, <3>1 DEF Effects
    <2> QED
        BY <2>2, <2>3
<1>7. ExposureStep
    BY <1>6 DEF ExposureStep
<1> QED
    BY <1>5, <1>7

-----------------------------------------------------------------------------
(* The start, and the steps that leave positions alone *)

MarketSet ==
    [exists : BOOLEAN, active : BOOLEAN, markPrice : Nat, indexPrice : Nat,
     lastPriceUpdate : 0..now, cumulativeFunding : Int, lastFundingUpdate : 0..now,
     openInterestLong : Nat, openInterestShort : Nat]

\* With no position in a market, neither side of it holds anything.
LEMMA EmptySides ==
    ASSUME NEW m \in Markets, \A a \in Accounts : positions[m][a].size = 0
    PROVE  SumTo(LongSizes(m), N) = 0 /\ SumTo(ShortSizes(m), N) = 0
<1>1. LongSizes(m) = [a \in 1..N |-> 0] /\ ShortSizes(m) = [a \in 1..N |-> 0]
    BY DEF LongSizes, ShortSizes, LongPart, ShortPart, Accounts
<1> QED
    BY <1>1, SumOfZeros, AccountsAssumption

\* The engine is deployed with no market, and so with no position.
LEMMA InitInv == Init => Inv
<1> SUFFICES ASSUME Init PROVE Inv
    OBVIOUS
<1>1. \A m \in Markets, a \in Accounts : positions[m][a] = NoPosition
    BY DEF Init
<1>2. \A m \in Markets : markets[m] = NoMarket /\ tierHistory[m] = <<>>
    BY DEF Init
<1>3. TypeOK
    <2>1. now \in 0..MaxTime /\ calls \in 0..MaxCalls /\ paused \in BOOLEAN
        <3>1. now = 0 /\ calls = 0 /\ paused = FALSE
            BY DEF Init
        <3>2. MaxTime \in Nat /\ MaxCalls \in Nat
            BY RatesAssumption
        <3>3. now \in 0..MaxTime /\ calls \in 0..MaxCalls
            BY <3>1, <3>2
        <3>4. paused \in BOOLEAN
            BY <3>1
        <3> QED
            BY <3>3, <3>4
    <2>2. /\ balances \in [Accounts -> Nat]
          /\ collateralBalances \in [Accounts -> Nat]
          /\ params \in Params
        BY RolesAssumption, RatesAssumption DEF Init
    <2>3. markets \in [Markets -> MarketSet]
        BY DEF Init, NoMarket, MarketSet
    <2>4. positions \in [Markets -> [Accounts ->
                             [size : Int, entryPrice : Nat, margin : Nat,
                              lastCumulativeFunding : Int, marginTierVersion : Nat]]]
        BY DEF Init, NoPosition
    <2>5. /\ marginMode \in [Accounts -> {"ISOLATED", "CROSS"}]
          /\ activeMarkets \in [Accounts -> Seq(Markets)]
          /\ activeIndex \in [Accounts -> [Markets -> Nat]]
        BY DEF Init
    <2>6. /\ breaker \in [active : BOOLEAN, triggeredAt : 0..now]
          /\ window \in [Markets -> [start : 0..now, liquidated : Nat]]
        BY DEF Init
    <2>7. /\ tierHistory \in [Markets -> Seq(Seq(Tiers))]
          /\ \A m \in Markets : /\ Len(tierHistory[m]) <= MaxTierVersions
                                /\ \A v \in 1..Len(tierHistory[m]) :
                                       TiersValid(tierHistory[m][v])
        BY RatesAssumption DEF Init
    <2> QED
        BY <2>1, <2>2, <2>3, <2>4, <2>5, <2>6, <2>7 DEF TypeOK, MarketSet
<1>4. OpenInterestConsistent
    <2>1. ASSUME NEW m \in Markets
          PROVE  /\ markets[m].openInterestLong = SumTo(LongSizes(m), N)
                 /\ markets[m].openInterestShort = SumTo(ShortSizes(m), N)
        <3>1. \A a \in Accounts : positions[m][a].size = 0
            BY <1>1 DEF NoPosition
        <3>2. markets[m].openInterestLong = 0 /\ markets[m].openInterestShort = 0
            BY <1>2 DEF NoMarket
        <3> QED
            BY <3>1, <3>2, EmptySides
    <2> QED
        BY <2>1 DEF OpenInterestConsistent
<1>5. ActiveListsExact
    <2>1. \A a \in Accounts, m \in Markets :
              /\ activeIndex[a][m] = 0
              /\ activeMarkets[a] = <<>>
              /\ positions[m][a].size = 0
        BY <1>1 DEF Init, NoPosition
    <2> QED
        BY <2>1 DEF ActiveListsExact
<1>6. VersionsExist /\ MarketsFirst
    BY <1>1, <1>2 DEF VersionsExist, MarketsFirst, NoPosition
<1> QED
    BY <1>3, <1>4, <1>5, <1>6 DEF Inv

\* What the books say of positions stays true while positions, open interest and the
\* lists stay, no market is dropped and no version of the tiers is taken back.
LEMMA QuietKeeps ==
    ASSUME Inv, TypeOK', UNCHANGED bookVars,
           \A m \in Markets :
               /\ markets'[m].openInterestLong = markets[m].openInterestLong
               /\ markets'[m].openInterestShort = markets[m].openInterestShort
               /\ markets[m].exists => markets'[m].exists
               /\ Len(tierHistory'[m]) >= Len(tierHistory[m])
    PROVE  Inv'
<1>1. /\ positions' = positions
      /\ activeMarkets' = activeMarkets
      /\ activeIndex' = activeIndex
    BY DEF bookVars
<1>2. OpenInterestConsistent'
    <2>1. \A m \in Markets : /\ LongSizes(m)' = LongSizes(m)
                             /\ ShortSizes(m)' = ShortSizes(m)
        BY <1>1 DEF LongSizes, ShortSizes
    <2> QED
        BY <2>1 DEF OpenInterestConsistent, Inv
<1>3. ActiveListsExact'
    BY <1>1 DEF ActiveListsExact, Inv
<1>4. VersionsExist'
    <2>1. ASSUME NEW m \in Markets, NEW a \in Accounts
          PROVE  positions[m][a].marginTierVersion <= Len(tierHistory'[m])
        <3>1. positions[m][a].marginTierVersion \in Nat
            BY DEF Inv, TypeOK
        <3>2. Len(tierHistory[m]) \in Nat /\ Len(tierHistory'[m]) \in Nat
            <4>1. tierHistory \in [Markets -> Seq(Seq(Tiers))]
                BY DEF Inv, TypeOK
            <4>2. tierHistory' \in [Markets -> Seq(Seq(Tiers))]
                BY DEF TypeOK
            <4>3. tierHistory[m] \in Seq(Seq(Tiers)) /\ tierHistory'[m] \in Seq(Seq(Tiers))
                BY <4>1, <4>2
            <4> QED
                BY <4>3
        <3> QED
            BY <3>1, <3>2 DEF Inv, VersionsExist
    <2> QED
        BY <1>1, <2>1 DEF VersionsExist
<1>5. MarketsFirst'
    BY <1>1 DEF MarketsFirst, Inv
<1> QED
    BY <1>2, <1>3, <1>4, <1>5 DEF Inv

\* A market rewritten with the open interest it had.
LEMMA MarketRewritten ==
    ASSUME Inv, NEW m \in Markets, NEW k \in MarketSet,
           k.openInterestLong = markets[m].openInterestLong,
           k.openInterestShort = markets[m].openInterestShort,
           markets[m].exists => k.exists,
           markets' = [markets EXCEPT ![m] = k],
           UNCHANGED <<now, paused, ledgerVars, bookVars, marginMode, tierHistory, riskVars,
                       params>>,
           calls' \in 0..MaxCalls
    PROVE  Inv'
<1>1. markets \in [Markets -> MarketSet]
    BY DEF Inv, TypeOK, MarketSet
<1>2. markets' \in [Markets -> MarketSet]
    BY <1>1
<1>3. TypeOK'
    BY <1>2 DEF Inv, TypeOK, MarketSet, ledgerVars, bookVars, riskVars
<1>4. \A j \in Markets :
          /\ markets'[j].openInterestLong = markets[j].openInterestLong
          /\ markets'[j].openInterestShort = markets[j].openInterestShort
          /\ markets[j].exists => markets'[j].exists
    BY <1>1
<1>5. \A j \in Markets : Len(tierHistory'[j]) >= Len(tierHistory[j])
    BY DEF Inv, TypeOK
<1> QED
    BY <1>3, <1>4, <1>5, QuietKeeps

\* The steps of markets: prices, funding, a new market, one put on hold.
LEMMA MarketStepKeeps ==
    ASSUME Inv, NEW m \in Markets, MarketStep(m)
    PROVE  Inv'
<1> DEFINE mk == markets[m]
<1>1. /\ mk \in MarketSet
      /\ mk.openInterestLong \in Nat /\ mk.openInterestShort \in Nat
      /\ mk.cumulativeFunding \in Int /\ mk.lastFundingUpdate \in 0..now
    BY DEF Inv, TypeOK, MarketSet
<1>2. markets \in [Markets -> MarketSet]
    BY DEF Inv, TypeOK, MarketSet
<1>3. now \in Nat /\ calls \in 0..MaxCalls
    BY DEF Inv, TypeOK
<1>4. ASSUME NEW mark \in Prices, NEW index \in IndexPrices, UpdateMarkPrice(m, mark, index)
      PROVE  Inv'
    <2> DEFINE k == [mk EXCEPT !.markPrice = mark, !.indexPrice = index,
                               !.lastPriceUpdate = now]
    <2>1. mark \in Nat /\ index \in Nat /\ now \in 0..now
        BY <1>3, RatesAssumption
    <2>2. /\ k \in MarketSet
          /\ k.openInterestLong = mk.openInterestLong
          /\ k.openInterestShort = mk.openInterestShort
          /\ k.exists = mk.exists
        <3> HIDE DEF mk
        <3> QED
            BY <1>1, <2>1 DEF MarketSet
    <2>3. markets' = [markets EXCEPT ![m] = k]
        BY <1>2, <1>4 DEF UpdateMarkPrice
    <2> HIDE DEF k
    <2>4. UNCHANGED <<now, paused, ledgerVars, bookVars, marginMode, tierHistory, riskVars,
                      params, calls>>
        BY <1>4 DEF UpdateMarkPrice
    <2> QED
        BY <1>3, <2>2, <2>3, <2>4, MarketRewritten
<1>5. ASSUME ApplyFundingRate(m)
      PROVE  Inv'
    <2> DEFINE elapsed == now - mk.lastFundingUpdate
               interval == Config[m].fundingIntervalSecs
               rate == Clamped(Quotient((mk.markPrice - mk.indexPrice) * FUNDING_PRECISION,
                                        mk.indexPrice),
                               MaxFundingRate)
               periods == Least(elapsed \div interval, 3)
               sum == mk.cumulativeFunding + rate * periods
               next == mk.lastFundingUpdate + interval * periods
               k == [mk EXCEPT !.cumulativeFunding = sum, !.lastFundingUpdate = next]
    <2>1. /\ elapsed >= interval
          /\ mk.indexPrice # 0
          /\ markets' = [markets EXCEPT ![m].cumulativeFunding = @ + rate * periods,
                                        ![m].lastFundingUpdate = @ + interval * periods]
          /\ UNCHANGED <<now, paused, ledgerVars, bookVars, marginMode, tierHistory, riskVars,
                         params, calls>>
        BY <1>5 DEF ApplyFundingRate
    <2>2. markets' = [markets EXCEPT ![m] = k]
        <3> HIDE DEF rate, periods
        <3> QED
            BY <1>2, <2>1
    <2>3. interval \in Nat \ {0} /\ elapsed \in Nat
        BY <1>1, <1>3, RatesAssumption
    <2>4. periods \in Nat /\ interval * periods \in 0..elapsed
        <3> DEFINE q == elapsed \div interval
        <3> HIDE DEF elapsed, interval
        <3>1. q \in Nat /\ interval * q <= elapsed
            BY <2>3
        <3>2. periods \in 0..q
            BY <3>1 DEF Least
        <3> HIDE DEF q, periods
        <3>3. interval * periods \in Nat /\ interval * periods <= interval * q
            BY <2>3, <3>1, <3>2
        <3> QED
            BY <2>3, <3>1, <3>2, <3>3
    <2>5. rate \in Int
        <3>1. mk.indexPrice \in Nat \ {0} /\ mk.markPrice \in Nat
            BY <1>1, <2>1 DEF MarketSet
        <3>2. (mk.markPrice - mk.indexPrice) * FUNDING_PRECISION \in Int
            BY <3>1, ScalesAssumption
        <3>3. Quotient((mk.markPrice - mk.indexPrice) * FUNDING_PRECISION, mk.indexPrice) \in Int
            BY <3>1, <3>2, QuotientType
        <3>4. MaxFundingRate \in Nat
            BY RatesAssumption
        <3> QED
            BY <3>3, <3>4 DEF Clamped
    <2> HIDE DEF rate, periods, interval
    <2>6. sum \in Int
        BY <1>1, <2>4, <2>5
    <2>7. next \in 0..now
        BY <1>1, <1>3, <2>4
    <2> HIDE DEF sum, next
    <2>8. /\ k \in MarketSet
          /\ k.openInterestLong = mk.openInterestLong
          /\ k.openInterestShort = mk.openInterestShort
          /\ k.exists = mk.exists
        <3> HIDE DEF mk
        <3> QED
            BY <1>1, <2>6, <2>7 DEF MarketSet
    <2> HIDE DEF k
    <2> QED
        BY <1>3, <2>1, <2>2, <2>8, MarketRewritten
<1>6. ASSUME AddMarket(m)
      PROVE  Inv'
    <2> DEFINE k == [NoMarket EXCEPT !.exists = TRUE, !.active = TRUE,
                                     !.lastFundingUpdate = now]
    <2>1. k \in MarketSet /\ k.exists /\ k.openInterestLong = 0 /\ k.openInterestShort = 0
        <3>1. /\ NoMarket \in MarketSet
              /\ NoMarket.openInterestLong = 0 /\ NoMarket.openInterestShort = 0
            BY <1>3 DEF NoMarket, MarketSet
        <3>2. now \in 0..now
            BY <1>3
        <3> QED
            BY <3>1, <3>2 DEF MarketSet
    <2>2. mk.openInterestLong = 0 /\ mk.openInterestShort = 0
        <3>1. \A a \in Accounts : positions[m][a].size = 0
            BY <1>6 DEF AddMarket, Inv, MarketsFirst
        <3> QED
            BY <3>1, EmptySides DEF Inv, OpenInterestConsistent
    <2>3. /\ markets' = [markets EXCEPT ![m] = k]
          /\ UNCHANGED <<now, paused, ledgerVars, bookVars, marginMode, tierHistory, riskVars,
                         params, calls>>
        BY <1>6 DEF AddMarket
    <2> HIDE DEF k
    <2> QED
        BY <1>3, <2>1, <2>2, <2>3, MarketRewritten
<1> QED
    BY <1>4, <1>5, <1>6 DEF MarketStep

\* A step that changes no market, no position and no tiers keeps the books if it keeps
\* the types.
LEMMA RestKeeps ==
    ASSUME Inv, TypeOK', UNCHANGED <<markets, bookVars, tierHistory>>
    PROVE  Inv'
<1>1. \A m \in Markets : /\ markets'[m].openInterestLong = markets[m].openInterestLong
                         /\ markets'[m].openInterestShort = markets[m].openInterestShort
                         /\ markets[m].exists => markets'[m].exists
    OBVIOUS
<1>2. \A m \in Markets : Len(tierHistory'[m]) >= Len(tierHistory[m])
    <2>1. tierHistory \in [Markets -> Seq(Seq(Tiers))]
        BY DEF Inv, TypeOK
    <2>2. \A m \in Markets : Len(tierHistory[m]) \in Nat
        BY <2>1
    <2> QED
        BY <2>2
<1> QED
    BY <1>1, <1>2, QuietKeeps

\* Parameters that are what the setters accept.
LEMMA ParamsKeep ==
    ASSUME Inv, params' \in Params, calls' \in 0..MaxCalls,
           UNCHANGED <<now, paused, ledgerVars, markets, bookVars, marginMode, tierHistory,
                       riskVars>>
    PROVE  Inv'
<1>1. TypeOK'
    BY DEF Inv, TypeOK, ledgerVars, bookVars, riskVars
<1> QED
    BY <1>1, RestKeeps

(* The counter of the calls, which bounds the runs, stays within its bound. *)
LEMMA CountedType ==
    ASSUME Inv, Counted
    PROVE  calls' \in 0..MaxCalls
<1>1. calls \in 0..MaxCalls /\ calls < MaxCalls /\ calls' = calls + 1 /\ MaxCalls \in Nat
    BY RatesAssumption DEF Inv, TypeOK, Counted
<1> QED
    BY <1>1

\* The setters of the owner, and the steps of the clock, the vault and the margin modes.
LEMMA OwnerStepKeeps ==
    ASSUME Inv, OwnerStep
    PROVE  Inv'
<1>1. ASSUME NEW m \in Markets, NEW status \in Statuses, SetMarketActive(m, status)
      PROVE  Inv'
    <2> DEFINE k == [markets[m] EXCEPT !.active = status]
    <2>1. markets[m] \in MarketSet /\ status \in BOOLEAN
        BY RatesAssumption DEF Inv, TypeOK, MarketSet
    <2>2. /\ k \in MarketSet
          /\ k.openInterestLong = markets[m].openInterestLong
          /\ k.openInterestShort = markets[m].openInterestShort
          /\ k.exists = markets[m].exists
        BY <2>1 DEF MarketSet
    <2>3. /\ markets' = [markets EXCEPT ![m] = k]
          /\ UNCHANGED <<now, paused, ledgerVars, bookVars, marginMode, tierHistory, riskVars,
                         params>>
        BY <1>1 DEF SetMarketActive
    <2> HIDE DEF k
    <2> QED
        BY <1>1, <2>2, <2>3, CountedType, MarketRewritten DEF SetMarketActive
<1>2. ASSUME NEW m \in Markets, NEW tiers \in TierLists, SetMarginTiers(m, tiers)
      PROVE  Inv'
    <2> DEFINE old == tierHistory[m]
               new == Append(old, tiers)
    <2>1. /\ old \in Seq(Seq(Tiers)) /\ tiers \in Seq(Tiers) /\ TiersValid(tiers)
          /\ Len(old) <= MaxTierVersions
          /\ \A v \in 1..Len(old) : TiersValid(old[v])
          /\ tierHistory \in [Markets -> Seq(Seq(Tiers))]
        BY <1>2, RatesAssumption DEF Inv, TypeOK, SetMarginTiers
    <2>2. /\ Len(old) < MaxTierVersions /\ MaxTierVersions \in Nat
          /\ tierHistory' = [tierHistory EXCEPT ![m] = new]
        BY <1>2, RatesAssumption DEF SetMarginTiers
    <2> HIDE DEF old
    <2>3. /\ new \in Seq(Seq(Tiers))
          /\ Len(new) = Len(old) + 1
          /\ \A v \in 1..Len(new) : TiersValid(new[v])
        BY <2>1
    <2>4. Len(new) <= MaxTierVersions /\ Len(new) >= Len(old)
        BY <2>1, <2>2, <2>3
    <2> HIDE DEF new
    <2>5. /\ tierHistory' \in [Markets -> Seq(Seq(Tiers))]
          /\ \A j \in Markets : /\ Len(tierHistory'[j]) <= MaxTierVersions
                                /\ \A v \in 1..Len(tierHistory'[j]) :
                                       TiersValid(tierHistory'[j][v])
        <3>1. \A j \in Markets : /\ Len(tierHistory[j]) <= MaxTierVersions
                                 /\ \A v \in 1..Len(tierHistory[j]) :
                                        TiersValid(tierHistory[j][v])
            BY DEF Inv, TypeOK
        <3>2. \A j \in Markets : tierHistory'[j] = IF j = m THEN new ELSE tierHistory[j]
            BY <2>1, <2>2
        <3> QED
            BY <2>1, <2>2, <2>3, <2>4, <3>1, <3>2
    <2>6. UNCHANGED <<now, paused, ledgerVars, markets, bookVars, marginMode, riskVars, params,
                      calls>>
        BY <1>2 DEF SetMarginTiers
    <2>7. TypeOK'
        BY <2>5, <2>6 DEF Inv, TypeOK, ledgerVars, bookVars, riskVars
    <2>8. \A j \in Markets : Len(tierHistory'[j]) >= Len(tierHistory[j])
        <3>1. \A j \in Markets : Len(tierHistory[j]) \in Nat
            BY <2>1
        <3> QED
            BY <2>1, <2>2, <2>4, <3>1 DEF old
    <2> QED
        BY <2>6, <2>7, <2>8, QuietKeeps
<1>3. ASSUME NEW field \in DOMAIN ParamSets, NEW value \in ParamSets[field],
             SetParam(field, value)
      PROVE  Inv'
    <2>1. params \in Params /\ value \in ParamRange[field]
        BY <1>3 DEF Inv, TypeOK, SetParam
    <2>2. params' \in Params
        <3>1. /\ field \in {"maxPriceAge", "maxExposureBps", "oiSkewCapBps",
                            "reserveFactorBps"}
              /\ params' = [params EXCEPT ![field] = value]
            BY <1>3, RatesAssumption DEF SetParam
        <3>2. CASE field = "maxPriceAge"
            BY <2>1, <3>1, <3>2 DEF Params, ParamRange
        <3>3. CASE field = "maxExposureBps"
            BY <2>1, <3>1, <3>3 DEF Params, ParamRange
        <3>4. CASE field = "oiSkewCapBps"
            BY <2>1, <3>1, <3>4 DEF Params, ParamRange
        <3>5. CASE field = "reserveFactorBps"
            BY <2>1, <3>1, <3>5 DEF Params, ParamRange
        <3> QED
            BY <3>1, <3>2, <3>3, <3>4, <3>5
    <2> QED
        BY <1>3, <2>2, CountedType, ParamsKeep DEF SetParam
<1>4. ASSUME NEW m \in Markets, NEW field \in DOMAIN MarketParamSets,
             NEW value \in MarketParamSets[field], SetMarketParam(m, field, value)
      PROVE  Inv'
    <2>1. params \in Params /\ value \in Nat
        BY RatesAssumption DEF Inv, TypeOK
    <2>2. params' \in Params
        <3>1. /\ field \in {"oiCap", "impactFactorBps"}
              /\ params' = [params EXCEPT ![field][m] = value]
            BY <1>4, RatesAssumption DEF SetMarketParam
        <3>2. CASE field = "oiCap"
            BY <2>1, <3>1, <3>2 DEF Params
        <3>3. CASE field = "impactFactorBps"
            BY <2>1, <3>1, <3>3 DEF Params
        <3> QED
            BY <3>1, <3>2, <3>3
    <2> QED
        BY <1>4, <2>2, CountedType, ParamsKeep DEF SetMarketParam
<1>5. ASSUME NEW p \in BreakerParams,
             SetCircuitBreakerParams(p.windowSecs, p.thresholdBps, p.cooldown)
      PROVE  Inv'
    <2> DEFINE first == p.windowSecs
               second == p.thresholdBps
               third == p.cooldown
    <2>1. /\ params \in Params
          /\ first \in BreakerTimes /\ third \in BreakerTimes /\ second \in 1..BPS
          /\ params' = [params EXCEPT !.windowSecs = first, !.thresholdBps = second,
                                      !.cooldown = third]
        BY <1>5 DEF Inv, TypeOK, SetCircuitBreakerParams
    <2> HIDE DEF first, second, third
    <2>2. params' \in Params
        <3> DEFINE one == [params EXCEPT !.windowSecs = first]
                   two == [one EXCEPT !.thresholdBps = second]
        <3>1. one \in Params
            BY <2>1 DEF Params
        <3>2. params' = [two EXCEPT !.cooldown = third]
            BY <2>1
        <3> HIDE DEF one
        <3>3. two \in Params
            BY <2>1, <3>1 DEF Params
        <3> HIDE DEF two
        <3> QED
            BY <2>1, <3>2, <3>3 DEF Params
    <2> QED
        BY <1>5, <2>2, CountedType, ParamsKeep DEF SetCircuitBreakerParams
<1>6. ASSUME ResetCircuitBreaker
      PROVE  Inv'
    <2>1. calls' \in 0..MaxCalls
        BY <1>6, CountedType DEF ResetCircuitBreaker
    <2>2. breaker' \in [active : BOOLEAN, triggeredAt : 0..now]
        BY <1>6 DEF ResetCircuitBreaker, Inv, TypeOK
    <2>3. UNCHANGED <<now, paused, ledgerVars, markets, bookVars, marginMode, tierHistory,
                      window, params>>
        BY <1>6 DEF ResetCircuitBreaker
    <2>4. TypeOK'
        BY <2>1, <2>2, <2>3 DEF Inv, TypeOK, ledgerVars, bookVars
    <2> QED
        BY <2>3, <2>4, RestKeeps
<1>7. ASSUME Pause \/ Unpause
      PROVE  Inv'
    <2>1. calls' \in 0..MaxCalls
        BY <1>7, CountedType DEF Pause, Unpause
    <2>2. paused' \in BOOLEAN
        BY <1>7 DEF Pause, Unpause
    <2>3. UNCHANGED <<now, ledgerVars, markets, bookVars, marginMode, tierHistory, riskVars,
                      params>>
        BY <1>7 DEF Pause, Unpause
    <2>4. TypeOK'
        BY <2>1, <2>2, <2>3 DEF Inv, TypeOK, ledgerVars, bookVars, riskVars
    <2> QED
        BY <2>3, <2>4, RestKeeps
<1> QED
    BY <1>1, <1>2, <1>3, <1>4, <1>5, <1>6, <1>7 DEF OwnerStep

\* The clock only moves forward, so that what was in the past stays there.
LEMMA TickKeeps ==
    ASSUME Inv, Tick
    PROVE  Inv'
<1>1. /\ now \in 0..MaxTime /\ now < MaxTime /\ now' = now + 1 /\ MaxTime \in Nat
      /\ UNCHANGED <<paused, ledgerVars, markets, bookVars, marginMode, tierHistory, riskVars,
                     params, calls>>
    BY RatesAssumption DEF Inv, TypeOK, Tick
<1>2. now' \in 0..MaxTime /\ 0..now \subseteq 0..now'
    BY <1>1
<1>3. (markets \in [Markets -> MarketSet])'
    <2>1. markets \in [Markets -> MarketSet]
        BY DEF Inv, TypeOK, MarketSet
    <2>2. ASSUME NEW m \in Markets
          PROVE  markets[m] \in MarketSet'
        BY <1>2, <2>1 DEF MarketSet
    <2> QED
        BY <1>1, <2>1, <2>2
<1>4. (breaker \in [active : BOOLEAN, triggeredAt : 0..now])'
    BY <1>1, <1>2 DEF Inv, TypeOK, riskVars
<1>5. (window \in [Markets -> [start : 0..now, liquidated : Nat]])'
    <2>1. window \in [Markets -> [start : 0..now, liquidated : Nat]] /\ window' = window
        BY <1>1 DEF Inv, TypeOK, riskVars
    <2>2. ASSUME NEW m \in Markets
          PROVE  window[m] \in [start : 0..now', liquidated : Nat]
        BY <1>2, <2>1
    <2> QED
        BY <2>1, <2>2
<1>6. TypeOK'
    BY <1>1, <1>2, <1>3, <1>4, <1>5 DEF Inv, TypeOK, MarketSet, ledgerVars, bookVars
<1> QED
    BY <1>1, <1>6, RestKeeps

(* A withdrawal from the vault keeps the invariant of the engine. *)
LEMMA WithdrawFreeKeeps ==
    ASSUME Inv, NEW a \in Traders, NEW amount \in Withdrawals, WithdrawFree(a, amount)
    PROVE  Inv'
<1>1. /\ a \in Accounts /\ amount \in Nat /\ amount <= balances[a]
      /\ balances \in [Accounts -> Nat]
      /\ balances' = [balances EXCEPT ![a] = @ - amount]
    BY RolesAssumption, RatesAssumption DEF WithdrawFree, Inv, TypeOK
<1>2. balances' \in [Accounts -> Nat]
    BY <1>1
<1>3. UNCHANGED <<now, paused, collateralBalances, markets, bookVars, marginMode, tierHistory,
                  riskVars, params>>
    BY DEF WithdrawFree
<1>4. calls' \in 0..MaxCalls
    BY CountedType DEF WithdrawFree
<1>5. TypeOK'
    BY <1>2, <1>3, <1>4 DEF Inv, TypeOK, bookVars, riskVars
<1> QED
    BY <1>3, <1>5, RestKeeps

(* setMarginMode keeps the invariant: it is refused while a position is open. *)
LEMMA SetMarginModeKeeps ==
    ASSUME Inv, NEW a \in Traders, NEW mode \in MarginModes, SetMarginMode(a, mode)
    PROVE  Inv'
<1>1. marginMode' \in [Accounts -> {"ISOLATED", "CROSS"}]
    BY RolesAssumption DEF SetMarginMode, Inv, TypeOK
<1>2. UNCHANGED <<now, paused, ledgerVars, markets, bookVars, tierHistory, riskVars, params,
                  calls>>
    BY DEF SetMarginMode
<1>3. TypeOK'
    BY <1>1, <1>2 DEF Inv, TypeOK, ledgerVars, bookVars, riskVars
<1> QED
    BY <1>2, <1>3, RestKeeps

-----------------------------------------------------------------------------
(* Every step *)

\* What a step does to positions: nothing, or what a transaction for one trader may do.
Accounted ==
    \/ UNCHANGED positions
    \/ \E a \in Traders : Effects(a) /\ ExposureStep

(* Each step of the engine keeps the invariant and obeys the action properties. *)
LEMMA StepKeeps ==
    ASSUME Inv, [Next]_vars
    PROVE  Inv' /\ Accounted
<1>1. ASSUME NEW a \in Traders, TraderStep(a)
      PROVE  Inv' /\ Accounted
    <2>1. ASSUME NEW m \in Markets, NEW sizeDelta \in SizeDeltas, NEW price \in Prices,
                 OpenPosition(m, a, sizeDelta, price)
          PROVE  Inv' /\ Accounted
        BY <2>1, OpenPositionKeeps DEF Accounted
    <2>2. ASSUME NEW m \in Markets, NEW price \in Prices, ClosePosition(m, a, price)
          PROVE  Inv' /\ Accounted
        BY <2>2, ClosePositionKeeps DEF Accounted
    <2>3. ASSUME NEW m \in Markets, NEW amount \in Amounts, AddMargin(m, a, amount)
          PROVE  Inv' /\ Accounted
        BY <2>3, AddMarginKeeps DEF Accounted
    <2>4. ASSUME NEW m \in Markets, NEW amount \in Amounts, RemoveMargin(m, a, amount)
          PROVE  Inv' /\ Accounted
        BY <2>4, RemoveMarginKeeps DEF Accounted
    <2>5. ASSUME NEW mode \in MarginModes, SetMarginMode(a, mode)
          PROVE  Inv' /\ Accounted
        <3>1. UNCHANGED positions
            BY <2>5 DEF SetMarginMode, bookVars
        <3> QED
            BY <2>5, <3>1, SetMarginModeKeeps DEF Accounted
    <2>6. ASSUME NEW amount \in Withdrawals, WithdrawFree(a, amount)
          PROVE  Inv' /\ Accounted
        <3>1. UNCHANGED positions
            BY <2>6 DEF WithdrawFree, bookVars
        <3> QED
            BY <2>6, <3>1, WithdrawFreeKeeps DEF Accounted
    <2> QED
        BY <1>1, <2>1, <2>2, <2>3, <2>4, <2>5, <2>6 DEF TraderStep
<1>2. ASSUME NEW keeper \in Keepers, KeeperStep(keeper)
      PROVE  Inv' /\ Accounted
    <2>1. ASSUME NEW a \in Traders, NEW m \in Markets, LiquidatePosition(m, a, keeper)
          PROVE  Inv' /\ Accounted
        BY <2>1, LiquidatePositionKeeps DEF Accounted
    <2>2. ASSUME NEW a \in Traders, LiquidateAccount(a, keeper)
          PROVE  Inv' /\ Accounted
        BY <2>2, LiquidateAccountKeeps DEF Accounted
    <2> QED
        BY <1>2, <2>1, <2>2 DEF KeeperStep
<1>3. ASSUME NEW m \in Markets, MarketStep(m)
      PROVE  Inv' /\ Accounted
    <2>1. UNCHANGED positions
        BY <1>3 DEF MarketStep, UpdateMarkPrice, ApplyFundingRate, AddMarket, bookVars
    <2> QED
        BY <1>3, <2>1, MarketStepKeeps DEF Accounted
<1>4. ASSUME OwnerStep
      PROVE  Inv' /\ Accounted
    <2>1. UNCHANGED positions
        BY <1>4 DEF OwnerStep, SetMarketActive, SetMarginTiers, SetParam, SetMarketParam,
                    SetCircuitBreakerParams, ResetCircuitBreaker, Pause, Unpause, bookVars
    <2> QED
        BY <1>4, <2>1, OwnerStepKeeps DEF Accounted
<1>5. ASSUME Tick
      PROVE  Inv' /\ Accounted
    <2>1. UNCHANGED positions
        BY <1>5 DEF Tick, bookVars
    <2> QED
        BY <1>5, <2>1, TickKeeps DEF Accounted
<1>6. ASSUME UNCHANGED vars
      PROVE  Inv' /\ Accounted
    <2>1. /\ UNCHANGED <<now, paused, balances, collateralBalances, markets, positions,
                         activeMarkets, activeIndex, marginMode, tierHistory, breaker, window,
                         params, calls>>
        BY <1>6 DEF vars, ledgerVars, bookVars, riskVars
    <2>2. TypeOK'
        BY <2>1 DEF TypeOK, Inv
    <2>3. UNCHANGED <<markets, bookVars, tierHistory>>
        BY <2>1 DEF bookVars
    <2> QED
        BY <2>1, <2>2, <2>3, RestKeeps DEF Accounted
<1> QED
    BY <1>1, <1>2, <1>3, <1>4, <1>5, <1>6 DEF Next

\* The margin mode changes in setMarginMode alone.
LEMMA ModeStep ==
    ASSUME [Next]_vars, marginMode' # marginMode
    PROVE  \E a \in Traders, mode \in MarginModes : SetMarginMode(a, mode)
<1>1. ASSUME NEW a \in Traders, TraderStep(a)
      PROVE  \E mode \in MarginModes : SetMarginMode(a, mode)
    BY <1>1 DEF TraderStep, OpenPosition, ClosePosition, AddMargin, RemoveMargin, WithdrawFree
<1>2. ASSUME NEW keeper \in Keepers, KeeperStep(keeper) PROVE FALSE
    BY <1>2 DEF KeeperStep, LiquidatePosition, LiquidateAccount
<1>3. ASSUME NEW m \in Markets, MarketStep(m) PROVE FALSE
    BY <1>3 DEF MarketStep, UpdateMarkPrice, ApplyFundingRate, AddMarket
<1>4. ASSUME OwnerStep PROVE FALSE
    BY <1>4 DEF OwnerStep, SetMarketActive, SetMarginTiers, SetParam, SetMarketParam,
                SetCircuitBreakerParams, ResetCircuitBreaker, Pause, Unpause
<1>5. ASSUME Tick \/ UNCHANGED vars PROVE FALSE
    BY <1>5 DEF Tick, vars
<1> QED
    BY <1>1, <1>2, <1>3, <1>4, <1>5 DEF Next

\* The history of tiers only grows, and at its end.
LEMMA TiersStep ==
    ASSUME Inv, [Next]_vars, NEW m \in Markets, NEW v \in 1..Len(tierHistory[m])
    PROVE  tierHistory'[m][v] = tierHistory[m][v]
<1>1. ASSUME NEW k \in Markets, NEW tiers \in TierLists, SetMarginTiers(k, tiers)
      PROVE  tierHistory'[m][v] = tierHistory[m][v]
    <2>1. /\ tierHistory \in [Markets -> Seq(Seq(Tiers))]
          /\ tierHistory' = [tierHistory EXCEPT ![k] = Append(@, tiers)]
        BY <1>1 DEF SetMarginTiers, Inv, TypeOK
    <2>2. CASE k = m
        <3>1. tierHistory[m] \in Seq(Seq(Tiers)) /\ tierHistory'[m] = Append(tierHistory[m], tiers)
            BY <2>1, <2>2
        <3> QED
            BY <3>1
    <2>3. CASE k # m
        BY <2>1, <2>3
    <2> QED
        BY <2>2, <2>3
<1>2. CASE UNCHANGED tierHistory
    BY <1>2
<1>3. ASSUME NEW a \in Traders, TraderStep(a) PROVE UNCHANGED tierHistory
    BY <1>3 DEF TraderStep, OpenPosition, ClosePosition, AddMargin, RemoveMargin, WithdrawFree,
                SetMarginMode
<1>4. ASSUME NEW keeper \in Keepers, KeeperStep(keeper) PROVE UNCHANGED tierHistory
    BY <1>4 DEF KeeperStep, LiquidatePosition, LiquidateAccount
<1>5. ASSUME NEW k \in Markets, MarketStep(k) PROVE UNCHANGED tierHistory
    BY <1>5 DEF MarketStep, UpdateMarkPrice, ApplyFundingRate, AddMarket
<1>6. ASSUME OwnerStep
      PROVE  \/ UNCHANGED tierHistory
             \/ \E k \in Markets, tiers \in TierLists : SetMarginTiers(k, tiers)
    BY <1>6 DEF OwnerStep, SetMarketActive, SetParam, SetMarketParam,
                SetCircuitBreakerParams, ResetCircuitBreaker, Pause, Unpause
<1>7. ASSUME Tick \/ UNCHANGED vars PROVE UNCHANGED tierHistory
    BY <1>7 DEF Tick, vars
<1> QED
    BY <1>1, <1>2, <1>3, <1>4, <1>5, <1>6, <1>7 DEF Next

-----------------------------------------------------------------------------
(* What holds of every instance *)

\* The inductive invariant holds of every state of the engine: the types, the sums of
\* _updateOpenInterest, the lists of _addActiveMarket and _removeActiveMarket, the tier
\* versions of positions, and that positions are held in markets that were added.
THEOREM Invariance == Spec => []Inv
<1>1. Init => Inv
    BY InitInv
<1>2. Inv /\ [Next]_vars => Inv'
    BY StepKeeps
<1> QED
    BY <1>1, <1>2, PTL DEF Spec

\* No transaction of the engine leaves a balance, a margin or an open interest below
\* zero, or a clock reading in the future.
THEOREM TypeCorrect == Spec => []TypeOK
<1>1. Inv => TypeOK
    BY DEF Inv
<1> QED
    BY <1>1, Invariance, PTL

\* openInterestLong and openInterestShort, which _updateOpenInterest adjusts by
\* differences, are what the positions of all accounts add up to.
THEOREM OpenInterestAlwaysConsistent == Spec => []OpenInterestConsistent
<1>1. Inv => OpenInterestConsistent
    BY DEF Inv
<1> QED
    BY <1>1, Invariance, PTL

\* traderActiveMarkets and _activeMarketIndex name just the markets with a position, once
\* each, after any number of removals by swapping.
THEOREM ListsAlwaysExact == Spec => []ActiveListsExact
<1>1. Inv => ActiveListsExact
    BY DEF Inv
<1> QED
    BY <1>1, Invariance, PTL

\* Only openPosition makes a position larger or flips it, and only past its checks of the
\* pause, the market, the price and the circuit breaker: not funding, a liquidation that
\* leaves a rest, or anything that moves margin.
THEOREM ExposureChecked == Spec => ExposureGrowsOnlyWhenOpen
<1>1. Inv /\ [Next]_vars => ExposureStep
    <2>1. UNCHANGED positions => ExposureStep
        BY DEF ExposureStep
    <2> QED
        BY <2>1, StepKeeps DEF Accounted
<1>2. Inv /\ [Next]_vars
          => \A m \in Markets, a \in Traders :
                 LET old == positions[m][a].size
                     new == positions'[m][a].size
                 IN  (new # 0 /\ (Abs(new) > Abs(old) \/ ~SameSign(old, new)) /\ new # old)
                         => /\ ~paused
                            /\ markets[m].active
                            /\ markets[m].markPrice # 0
                            /\ now - markets[m].lastPriceUpdate <= params.maxPriceAge
                            /\ breaker.active
                                   => now - breaker.triggeredAt >= params.cooldown
    BY <1>1 DEF ExposureStep
<1> QED
    BY <1>2, Invariance, PTL DEF Spec, ExposureGrowsOnlyWhenOpen

\* What is done to a trader's position is paid for by that trader and the accounts of the
\* protocol: no other trader loses free balance or a position over it.
THEOREM BystandersKeepTheirs == Spec => BystandersUntouched
<1>1. ASSUME Inv, [Next]_vars, NEW a \in Traders, NEW b \in Traders \ {InsuranceFund, FundingPool},
             NEW m \in Markets, a # b, positions'[m][a] # positions[m][a]
      PROVE  /\ balances'[b] >= balances[b]
             /\ \A k \in Markets : positions'[k][b] = positions[k][b]
    <2>1. a \in Accounts /\ b \in Accounts /\ b # Engine
        BY RolesAssumption
    <2>2. PICK c \in Traders : Effects(c)
        BY <1>1, StepKeeps DEF Accounted
    <2>3. a = c
        BY <1>1, <2>1, <2>2 DEF Effects
    <2>4. b \in Accounts \ Payers(c)
        BY <1>1, <2>1, <2>3 DEF Payers
    <2> QED
        BY <1>1, <2>1, <2>2, <2>3, <2>4 DEF Effects
<1>2. Inv /\ [Next]_vars
          => \A a \in Traders, b \in Traders \ {InsuranceFund, FundingPool}, m \in Markets :
                 (a # b /\ positions'[m][a] # positions[m][a])
                     => /\ balances'[b] >= balances[b]
                        /\ \A k \in Markets : positions'[k][b] = positions[k][b]
    BY <1>1
<1> QED
    BY <1>2, Invariance, PTL DEF Spec, BystandersUntouched

\* setMarginMode looks at the active list alone, and that is enough: the list is empty
\* only when the trader has no position.
THEOREM ModeStaysWhileOpen == Spec => ModeFixedWhileOpen
<1>1. ASSUME Inv, [Next]_vars, NEW a \in Traders, marginMode'[a] # marginMode[a],
             NEW m \in Markets
      PROVE  positions[m][a].size = 0
    <2>1. PICK b \in Traders, mode \in MarginModes : SetMarginMode(b, mode)
        BY <1>1, ModeStep
    <2>2. marginMode \in [Accounts -> {"ISOLATED", "CROSS"}] /\ a \in Accounts
        BY <1>1, RolesAssumption DEF Inv, TypeOK
    <2>3. activeMarkets[a] = <<>>
        BY <1>1, <2>1, <2>2 DEF SetMarginMode
    <2>4. /\ (activeIndex[a][m] # 0) = (positions[m][a].size # 0)
          /\ activeIndex[a][m] # 0 => activeIndex[a][m] \in 1..Len(activeMarkets[a])
        BY <1>1, <2>2 DEF Inv, ActiveListsExact
    <2> QED
        BY <2>3, <2>4
<1>2. Inv /\ [Next]_vars
          => \A a \in Traders : marginMode'[a] # marginMode[a]
                                    => \A m \in Markets : positions[m][a].size = 0
    BY <1>1
<1> QED
    BY <1>2, Invariance, PTL DEF Spec, ModeFixedWhileOpen

\* No call of the owner changes whether an isolated position can be liquidated: it is held
\* to the tiers of its version, which setMarginTiers never rewrites, or to flat rates that
\* never change.
THEOREM ParametersApplyForward == Spec => ParametersProspective
<1>1. ASSUME Inv, [Next]_vars, NEW m \in Markets, NEW a \in Traders,
             positions'[m][a] = positions[m][a], markets'[m] = markets[m]
      PROVE  IsBelowMaintenance(m, a)' = IsBelowMaintenance(m, a)
    <2> DEFINE pos == positions[m][a]
               v == pos.marginTierVersion
    <2>1. v \in Nat /\ v <= Len(tierHistory[m]) /\ Len(tierHistory[m]) \in Nat
        <3>1. a \in Accounts
            BY RolesAssumption
        <3>2. tierHistory[m] \in Seq(Seq(Tiers)) /\ v \in Nat
            BY <1>1, <3>1 DEF Inv, TypeOK
        <3> QED
            BY <1>1, <3>1, <3>2 DEF Inv, VersionsExist
    <2>2. v # 0 => tierHistory'[m][v] = tierHistory[m][v]
        BY <1>1, <2>1, TiersStep
    <2>3. /\ Scratch.markets[m] = markets[m]
          /\ Scratch'.markets[m] = markets'[m]
        BY DEF Scratch
    <2>4. /\ PositionNotional(Scratch, m, pos)' = PositionNotional(Scratch, m, pos)
          /\ PositionPnl(Scratch, m, pos)' = PositionPnl(Scratch, m, pos)
        BY <1>1, <2>3 DEF PositionNotional, PositionPnl
    <2>5. ASSUME NEW notional
          PROVE  MarginForVersion(m, notional, FALSE, v)' = MarginForVersion(m, notional, FALSE, v)
        BY <1>1, <2>2 DEF MarginForVersion
    <2> QED
        BY <1>1, <2>4, <2>5 DEF IsBelowMaintenance, BelowMaintenance, MaintenanceVersion
<1>2. Inv /\ [Next]_vars
          => \A m \in Markets, a \in Traders :
                 (positions'[m][a] = positions[m][a] /\ markets'[m] = markets[m])
                     => IsBelowMaintenance(m, a)' = IsBelowMaintenance(m, a)
    BY <1>1
<1> QED
    BY <1>2, Invariance, PTL DEF Spec, ParametersProspective

-----------------------------------------------------------------------------
(* The settlement *)

settlementAll == <<vars, settlementVars>>

-----------------------------------------------------------------------------
(* What settling works on *)

SignedOf(p) == [a \in Accounts |-> p[a].size]

Balanced(s) == \A m \in Markets : SumTo(SignedOf(s.positions[m]), N) = 0

\* What is known of a batch after some of its trades: the books, and, unless it reverted,
\* that no order is filled beyond its size, that whatever was filled has its nonce used,
\* and that positions are in markets there are.
SettledWell(t) ==
    /\ Good(t.s)
    /\ Tied(t.s)
    /\ Balanced(t.s)
    /\ t.filled \in [Orders -> Nat]
    /\ t.used \subseteq {NonceOf(o) : o \in Orders}
    /\ t.s.ok => /\ \A o \in Orders : t.filled[o] <= o.size
                 /\ \A o \in Orders : t.filled[o] # 0 => NonceOf(o) \in t.used
                 /\ \A m \in Markets, a \in Accounts :
                        t.s.positions[m][a].size # 0 => markets[m].exists

\* Whatever was filled has its nonce used: what keeps orders from being filled twice.
NoncesSpent == \A o \in Orders : filled[o] # 0 => NonceOf(o) \in usedNonces

\* The inductive invariant: that of the engine, and of the settlement.
SettlementInv ==
    /\ Inv
    /\ SettlementTypeOK
    /\ NoOverfill
    /\ NoncesSpent
    /\ LegsBalance

\* What is known of a trade offered for settlement.
Offered(trade) == trade \in Matches /\ TradeValid(usedNonces, trade)

\* An order, and what a trade moves of it.
LEMMA OfferedType ==
    ASSUME NEW trade, Offered(trade)
    PROVE  /\ trade.maker \in Orders /\ trade.taker \in Orders
           /\ trade.maker.trader \in Accounts /\ trade.taker.trader \in Accounts
           /\ trade.maker.market \in Markets /\ trade.taker.market = trade.maker.market
           /\ trade.maker.trader # trade.taker.trader
           /\ trade.price \in Nat /\ trade.size \in Nat \ {0}
           /\ Delta(trade.maker, trade.size) \in Int \ {0}
           /\ Delta(trade.taker, trade.size) = -Delta(trade.maker, trade.size)
<1>1. /\ trade.maker \in Orders /\ trade.taker \in Orders
      /\ trade.price \in Prices /\ trade.size \in ExecutionSizes
      /\ trade.maker.isLong # trade.taker.isLong
      /\ trade.maker.trader # trade.taker.trader
      /\ trade.maker.market = trade.taker.market
      /\ trade.size # 0
    BY DEF Offered, Matches, Trades, TradeValid
<1>2. trade.price \in Nat /\ trade.size \in Nat \ {0}
    BY <1>1, RatesAssumption, OrdersAssumption
<1>3. \A o \in Orders : o.trader \in Accounts /\ o.market \in Markets /\ o.isLong \in BOOLEAN
    BY OrdersAssumption
<1>4. /\ Delta(trade.maker, trade.size) \in Int \ {0}
      /\ Delta(trade.taker, trade.size) = -Delta(trade.maker, trade.size)
    BY <1>1, <1>2, <1>3 DEF Delta
<1> QED
    BY <1>1, <1>2, <1>3, <1>4

\* Fees are integers: whether the vault accepts them is another matter.
LEMMA FeesType ==
    ASSUME SettlementTypeOK, NEW trade, Offered(trade), NEW s, Good(s)
    PROVE  MakerFee(trade) \in Int /\ TakerFee(s, trade) \in Int
<1>1. /\ trade.maker \in Orders /\ trade.taker \in Orders
      /\ trade.maker.market \in Markets /\ trade.taker.market = trade.maker.market
      /\ trade.price \in Nat /\ trade.size \in Nat
    BY OfferedType
<1>2. TradeNotional(trade) \in Nat
    BY <1>1, NotionalType DEF TradeNotional
<1>3. ASSUME NEW o \in {trade.maker, trade.taker}
      PROVE  TermsOf(trade, o) \in Settings
    BY <1>3 DEF TermsOf, BothCommitted, Committed, SettlementTypeOK
<1>4. \A terms \in Settings :
          /\ terms.makerFeeBps \in Nat /\ terms.takerFeeBps \in Nat
          /\ \A i \in 1..3 : terms.spreadTiers[i] \in Nat
    <2>1. MaxFeeBps \in Nat
        BY OrdersAssumption
    <2> QED
        BY <2>1 DEF Settings
<1>5. BPS \in Nat \ {0}
    BY ScalesAssumption
<1>6. MakerFee(trade) \in Int
    <2> DEFINE rate == TermsOf(trade, trade.maker).makerFeeBps
    <2>1. rate \in Nat
        BY <1>3, <1>4
    <2> HIDE DEF rate
    <2>2. TradeNotional(trade) * rate \in Nat
        BY <1>2, <2>1
    <2>3. (TradeNotional(trade) * rate) \div BPS \in Int
        <3> DEFINE product == TradeNotional(trade) * rate
        <3>1. product \in Nat
            BY <2>2
        <3> HIDE DEF product
        <3>2. product \div BPS \in Int
            BY ONLY <1>5, <3>1
        <3> QED
            BY <3>2 DEF product
    <2> QED
        BY <2>3 DEF MakerFee, rate
<1>7. TakerFee(s, trade) \in Int
    <2> DEFINE terms == TermsOf(trade, trade.taker)
               m == trade.taker.market
               spread == DynamicSpread(s, m, trade.taker.isLong, terms)
               rate == terms.takerFeeBps + spread
    <2>1. terms \in Settings
        BY <1>3
    <2> HIDE DEF terms
    <2>2. spread \in Nat
        <3> DEFINE tiers == terms.spreadTiers
        <3>1. tiers[1] \in Nat /\ tiers[2] \in Nat /\ tiers[3] \in Nat
            BY <2>1 DEF Settings
        <3>2. spread \in {0, tiers[1], tiers[2], tiers[3]}
            BY DEF DynamicSpread
        <3> HIDE DEF tiers, spread
        <3> QED
            BY <3>1, <3>2
    <2> HIDE DEF spread
    <2>3. rate \in Nat
        BY <1>4, <2>1, <2>2
    <2>4. TakerFee(s, trade) = (TradeNotional(trade) * rate) \div BPS
        BY DEF TakerFee, terms, spread
    <2> HIDE DEF rate
    <2>5. TradeNotional(trade) * rate \in Nat
        BY <1>2, <2>3
    <2> QED
        BY <1>5, <2>4, <2>5
<1> QED
    BY <1>6, <1>7

\* Work on one position that adds delta to it adds delta to the balance of its market.
LEMMA WorkShiftsBalance ==
    ASSUME NEW s, NEW t, NEW m \in Markets, NEW a \in Accounts, NEW delta \in Int,
           Good(s), Good(t), Works(s, t, m, a),
           t.positions[m][a].size = s.positions[m][a].size + delta
    PROVE  /\ SumTo(SignedOf(t.positions[m]), N) = SumTo(SignedOf(s.positions[m]), N) + delta
           /\ \A k \in Markets \ {m} : SignedOf(t.positions[k]) = SignedOf(s.positions[k])
<1> DEFINE b == SignedOf(s.positions[m])
           c == SignedOf(t.positions[m])
           v == s.positions[m][a].size + delta
<1>1. \A k \in Markets, x \in Accounts : s.positions[k][x].size \in Int
    BY GoodPosition
<1>2. b \in [1..N -> Int] /\ b[a] = s.positions[m][a].size /\ a \in 1..N /\ N \in Nat
    BY <1>1, AccountsAssumption DEF SignedOf, Accounts
<1>3. v \in Int
    BY <1>1
<1>4. c = [b EXCEPT ![a] = v]
    <2>1. \A x \in Accounts : x # a => t.positions[m][x] = s.positions[m][x]
        BY DEF Works
    <2> QED
        BY <2>1 DEF SignedOf
<1>5. SumTo(c, N) = SumTo(b, N) - b[a] + v
    <2> HIDE DEF b, c, v
    <2> QED
        BY <1>2, <1>3, <1>4, SumOneChange
<1>6. SumTo(b, N) \in Int
    <2> HIDE DEF b
    <2> QED
        BY <1>2, SumType
<1>7. SumTo(c, N) = SumTo(b, N) + delta
    <2>1. b[a] \in Int
        BY <1>1, <1>2
    <2> QED
        BY <1>2, <1>5, <1>6, <2>1
<1>8. ASSUME NEW k \in Markets \ {m}
      PROVE  SignedOf(t.positions[k]) = SignedOf(s.positions[k])
    BY DEF Works, SignedOf
<1> QED
    BY <1>7, <1>8

\* A trade that settles leaves everything as well as the trades before it: its two orders
\* had not been used, so that they were not filled, and its two legs cancel out.
LEMMA SettledKeeps ==
    ASSUME SettlementInv, NEW trade, Offered(trade), NEW t, SettledWell(t), t.s.ok,
           NEW u, u = Settled(t, trade)
    PROVE  SettledWell(u)
<1> DEFINE maker == trade.maker
           taker == trade.taker
           m == maker.market
           a == maker.trader
           b == taker.trader
           delta == Delta(maker, trade.size)
           valid == TradeValid(t.used, trade)
           makerFee == MakerFee(trade)
           takerFee == TakerFee(t.s, trade)
           checked == Require(t.s, valid)
           first == PayIfAny(checked, a, FeeRecipient, makerFee)
           charged == PayIfAny(first, b, FeeRecipient, takerFee)
           made == Opened(charged, m, a, delta, trade.price)
           taken == Opened(made, m, b, -delta, trade.price)
<1>1. /\ maker \in Orders /\ taker \in Orders
      /\ a \in Accounts /\ b \in Accounts /\ a # b
      /\ m \in Markets /\ taker.market = m
      /\ trade.price \in Nat /\ trade.size \in Nat \ {0}
      /\ delta \in Int \ {0} /\ -delta \in Int \ {0}
      /\ Delta(taker, trade.size) = -delta
    BY OfferedType
<1>2. TypeOK /\ SettlementTypeOK /\ Good(t.s) /\ Tied(t.s)
    BY DEF SettlementInv, Inv, SettledWell
<1>3. makerFee \in Int /\ takerFee \in Int
    BY <1>2, FeesType
<1>4. FeeRecipient \in Accounts /\ a \in Payers(a) /\ b \in Payers(b)
    BY RolesAssumption DEF Payers
<1>5. u.s = taken
    BY <1>1 DEF Settled
<1>6. /\ u.used = t.used \union NoncesOf(trade)
      /\ u.filled = [t.filled EXCEPT ![maker] = @ + trade.size, ![taker] = @ + trade.size]
    BY DEF Settled
<1> HIDE DEF makerFee, takerFee
<1>7. Paid(t.s, checked, a) /\ (checked.ok => valid)
    <2>1. checked.ok => valid
        BY <1>2 DEF Require, Good, Scratches
    <2> QED
        BY <1>1, <1>2, <2>1, RequirePaid
<1> HIDE DEF checked
<1>8. Paid(checked, first, a)
    BY <1>1, <1>3, <1>4, <1>7, PayIfAnyPaid DEF Paid
<1> HIDE DEF first
<1>9. Paid(first, charged, b)
    BY <1>1, <1>3, <1>4, <1>8, PayIfAnyPaid DEF Paid
<1> HIDE DEF charged
<1>10. /\ Good(charged) /\ Tied(charged)
       /\ charged.positions = t.s.positions
       /\ charged.ok => valid /\ t.s.ok
    <2>1. charged.positions = t.s.positions /\ charged.index = t.s.index
        BY <1>7, <1>8, <1>9 DEF Paid, SameBooks
    <2>2. charged.ok => valid /\ t.s.ok
        BY <1>7, <1>8, <1>9 DEF Paid, Served
    <2> QED
        BY <1>2, <1>9, <2>1, <2>2 DEF Paid, Tied, TiedAt
<1>11. made = Opened(charged, m, a, delta, trade.price)
    OBVIOUS
<1>12. taken = Opened(made, m, b, -delta, trade.price)
    OBVIOUS
<1> HIDE DEF made, taken
<1>13. /\ Good(made)
       /\ Works(charged, made, m, a)
       /\ made.positions[m][a].size = charged.positions[m][a].size + delta
       /\ TiedAt(made, m, a)
       /\ made.ok => OpenAllowed(charged, m, delta, trade.price)
    <2>1. TiedAt(charged, m, a)
        BY <1>1, <1>10 DEF Tied
    <2>2. trade.price \in Nat /\ delta \in Int \ {0} /\ m \in Markets /\ a \in Accounts
        BY <1>1, <1>2
    <2>3. TypeOK
        BY <1>2
    <2> HIDE DEF maker, taker, m, a, b, delta
    <2> QED
        BY ONLY <1>10, <1>11, <2>1, <2>2, <2>3, OpenedWorks, SMTT(60)
<1>14. Tied(made)
    BY <1>1, <1>10, <1>13, WorksTied DEF Tied, TiedBut
<1>15. /\ Good(taken)
       /\ Works(made, taken, m, b)
       /\ taken.positions[m][b].size = made.positions[m][b].size + (-delta)
       /\ TiedAt(taken, m, b)
    <2>1. TiedAt(made, m, b)
        BY <1>1, <1>14 DEF Tied
    <2> HIDE DEF maker, taker, m, a, b, delta
    <2> QED
        BY <1>1, <1>2, <1>12, <1>13, <2>1, OpenedWorks
<1>16. Tied(taken)
    BY <1>1, <1>14, <1>15, WorksTied DEF Tied, TiedBut
<1>17. Balanced(taken)
    <2>1. /\ SumTo(SignedOf(made.positions[m]), N) = SumTo(SignedOf(charged.positions[m]), N) + delta
          /\ \A k \in Markets \ {m} : SignedOf(made.positions[k]) = SignedOf(charged.positions[k])
        <3>1. m \in Markets /\ a \in Accounts /\ delta \in Int
            BY <1>1
        <3>2. /\ Good(charged) /\ Good(made)
              /\ Works(charged, made, m, a)
              /\ made.positions[m][a].size = charged.positions[m][a].size + delta
            BY <1>10, <1>13
        <3> HIDE DEF maker, taker, m, a, b, delta
        <3> QED
            BY ONLY <3>1, <3>2, WorkShiftsBalance
    <2>2. /\ SumTo(SignedOf(taken.positions[m]), N) = SumTo(SignedOf(made.positions[m]), N) + (-delta)
          /\ \A k \in Markets \ {m} : SignedOf(taken.positions[k]) = SignedOf(made.positions[k])
        <3> HIDE DEF maker, taker, m, a, b, delta
        <3> QED
            BY <1>1, <1>13, <1>15, WorkShiftsBalance
    <2>3. \A k \in Markets : SumTo(SignedOf(charged.positions[k]), N) = 0
        BY <1>10 DEF SettledWell, Balanced
    <2>4. SumTo(SignedOf(taken.positions[m]), N) = 0
        <3> HIDE DEF maker, m, delta
        <3> QED
            BY <1>1, <2>1, <2>2, <2>3
    <2>5. \A k \in Markets \ {m} : SumTo(SignedOf(taken.positions[k]), N) = 0
        BY <2>1, <2>2, <2>3
    <2> QED
        BY <2>4, <2>5 DEF Balanced
<1>18. u.used \subseteq {NonceOf(o) : o \in Orders}
    BY <1>1, <1>6 DEF NoncesOf, SettledWell
<1>19. maker # taker
    BY <1>1
<1>20. /\ u.filled \in [Orders -> Nat]
       /\ u.filled[maker] = t.filled[maker] + trade.size
       /\ u.filled[taker] = t.filled[taker] + trade.size
       /\ \A o \in Orders \ {maker, taker} : u.filled[o] = t.filled[o]
    <2>1. t.filled \in [Orders -> Nat]
        BY DEF SettledWell
    <2> DEFINE half == [t.filled EXCEPT ![maker] = t.filled[maker] + trade.size]
    <2>2. /\ half \in [Orders -> Nat]
          /\ half[maker] = t.filled[maker] + trade.size
          /\ \A o \in Orders \ {maker} : half[o] = t.filled[o]
        BY <1>1, <2>1
    <2>3. u.filled = [half EXCEPT ![taker] = half[taker] + trade.size]
        BY <1>1, <1>6, <2>1
    <2> HIDE DEF half, maker, taker
    <2> QED
        BY <1>1, <1>19, <2>2, <2>3
<1>21. ASSUME u.s.ok
       PROVE  /\ \A o \in Orders : u.filled[o] <= o.size
              /\ \A o \in Orders : u.filled[o] # 0 => NonceOf(o) \in u.used
              /\ \A k \in Markets, x \in Accounts :
                     u.s.positions[k][x].size # 0 => markets[k].exists
    <2>1. taken.ok /\ made.ok /\ charged.ok
        BY <1>5, <1>13, <1>15, <1>21 DEF Works, Served
    <2>3. \A o \in {maker, taker} : NonceOf(o) \notin t.used /\ trade.size <= o.size
        BY <1>10, <2>1 DEF TradeValid
    <2>4. \A o \in {maker, taker} : t.filled[o] = 0
        BY <1>1, <2>3 DEF SettledWell
    <2>5. \A o \in Orders : u.filled[o] <= o.size
        <3>1. \A o \in {maker, taker} : u.filled[o] <= o.size
            BY <1>1, <1>20, <2>3, <2>4
        <3> QED
            BY <1>20, <3>1 DEF SettledWell
    <2>6. ASSUME NEW o \in Orders, u.filled[o] # 0
          PROVE  NonceOf(o) \in u.used
        <3>1. CASE o \in {maker, taker}
            BY <1>6, <3>1 DEF NoncesOf
        <3>2. CASE o \notin {maker, taker}
            BY <1>6, <1>20, <2>6, <3>2 DEF SettledWell
        <3> QED
            BY <3>1, <3>2
    <2>7. ASSUME NEW k \in Markets, NEW x \in Accounts, u.s.positions[k][x].size # 0
          PROVE  markets[k].exists
        <3>1. CASE k = m
            <4>1. OpenAllowed(charged, m, delta, trade.price)
                BY ONLY <1>13, <2>1
            <4> QED
                BY <3>1, <4>1 DEF OpenAllowed
        <3>2. CASE k # m
            <4>1. taken.positions[k][x] = made.positions[k][x]
                BY ONLY k \in Markets, x \in Accounts, <1>15, <3>2 DEF Works
            <4>2. made.positions[k][x] = charged.positions[k][x]
                BY ONLY k \in Markets, x \in Accounts, <1>13, <3>2 DEF Works
            <4> QED
                BY <1>5, <1>10, <2>7, <4>1, <4>2 DEF SettledWell
        <3> QED
            BY <3>1, <3>2
    <2> QED
        BY <2>5, <2>6, <2>7
<1> QED
    BY <1>5, <1>15, <1>16, <1>17, <1>18, <1>20, <1>21 DEF SettledWell

-----------------------------------------------------------------------------
(* A batch, trade by trade *)

\* One more trade of a batch, unless one before it reverted.
SettledNext(t, trade) == IF t.s.ok THEN Settled(t, trade) ELSE t

SettleStart == [s |-> Scratch, used |-> usedNonces, filled |-> filled]

\* The recursion over the trades of a batch has a solution.
LEMMA SettledAlongExists ==
    ASSUME NEW trades, NEW n \in Nat
    PROVE  \E f : f = [i \in 0..n |->
                          IF i = 0 THEN SettleStart ELSE SettledNext(f[i - 1], trades[i])]
<1> DEFINE Step(t, i) == SettledNext(t, trades[i])
           Solves(f, m) ==
               f = [i \in 0..m |-> IF i = 0 THEN SettleStart ELSE Step(f[i - 1], i)]
           S == {m \in Nat : \E f : Solves(f, m)}
<1> HIDE DEF Step
<1>1. 0 \in S
    <2> DEFINE z == [i \in 0..0 |-> SettleStart]
    <2>1. Solves(z, 0)
        OBVIOUS
    <2> HIDE DEF Solves, z
    <2> QED
        BY <2>1
<1>2. ASSUME NEW m \in Nat, m \in S PROVE m + 1 \in S
    <2>1. PICK f : Solves(f, m)
        BY <1>2
    <2> DEFINE g == [i \in 0..m + 1 |-> IF i <= m THEN f[i] ELSE Step(f[m], i)]
    <2>2. ASSUME NEW i \in 0..m + 1
          PROVE  g[i] = IF i = 0 THEN SettleStart ELSE Step(g[i - 1], i)
        <3>1. CASE i <= m
            <4>1. i \in 0..m
                BY <3>1
            <4>2. f[i] = IF i = 0 THEN SettleStart ELSE Step(f[i - 1], i)
                BY <2>1, <4>1
            <4>3. g[i] = f[i] /\ (i # 0 => g[i - 1] = f[i - 1])
                BY <4>1
            <4> QED
                BY <4>2, <4>3
        <3>2. CASE i = m + 1
            <4>1. g[i] = Step(f[m], i) /\ g[i - 1] = f[m]
                BY <3>2
            <4> QED
                BY <3>2, <4>1
        <3> QED
            BY <3>1, <3>2
    <2>3. Solves(g, m + 1)
        BY <2>2
    <2> HIDE DEF Solves, g
    <2> QED
        BY <2>3
<1>3. n \in S
    <2> HIDE DEF S
    <2> QED
        BY <1>1, <1>2, NatSets
<1> QED
    BY <1>3 DEF Step

\* Where a batch starts, and each trade from what the one before it left.
LEMMA SettledAlongEntries ==
    ASSUME NEW trades, Len(trades) \in Nat
    PROVE  /\ SettledAlong(trades)[0] = SettleStart
           /\ \A i \in 1..Len(trades) :
                  SettledAlong(trades)[i] = SettledNext(SettledAlong(trades)[i - 1], trades[i])
<1> DEFINE Solves(f) == f = [i \in 0..Len(trades) |->
                                IF i = 0 THEN SettleStart ELSE SettledNext(f[i - 1], trades[i])]
           g == SettledAlong(trades)
<1>1. PICK f : Solves(f)
    BY SettledAlongExists
<1>2. g = CHOOSE q : Solves(q)
    BY DEF SettledAlong, SettledNext, SettleStart
<1> HIDE DEF g
<1>3. Solves(g)
    <2> HIDE DEF Solves
    <2> QED
        BY <1>1, <1>2
<1>4. ASSUME NEW i \in 0..Len(trades)
      PROVE  g[i] = IF i = 0 THEN SettleStart ELSE SettledNext(g[i - 1], trades[i])
    BY <1>3
<1>5. /\ g[0] = SettleStart
      /\ \A i \in 1..Len(trades) : g[i] = SettledNext(g[i - 1], trades[i])
    BY <1>4
<1> QED
    BY <1>5 DEF g

\* A batch starts from books in order.
LEMMA SettleStartWell ==
    ASSUME SettlementInv
    PROVE  SettledWell(SettleStart)
<1>1. Good(Scratch) /\ Tied(Scratch)
    BY StartGood DEF SettlementInv
<1>2. /\ SettleStart.s = Scratch
      /\ SettleStart.used = usedNonces
      /\ SettleStart.filled = filled
      /\ Scratch.positions = positions
    BY DEF SettleStart, Scratch
<1>3. Balanced(Scratch)
    <2>1. \A m \in Markets : SignedOf(positions[m]) = SignedSizes(m)
        BY DEF SignedOf, SignedSizes
    <2> QED
        BY <1>2, <2>1 DEF Balanced, SettlementInv, LegsBalance
<1>4. filled \in [Orders -> Nat] /\ usedNonces \subseteq {NonceOf(o) : o \in Orders}
    BY DEF SettlementInv, SettlementTypeOK
<1>5. /\ \A o \in Orders : filled[o] <= o.size
      /\ \A o \in Orders : filled[o] # 0 => NonceOf(o) \in usedNonces
      /\ \A m \in Markets, a \in Accounts : positions[m][a].size # 0 => markets[m].exists
    BY DEF SettlementInv, NoOverfill, NoncesSpent, Inv, MarketsFirst
<1> QED
    BY <1>1, <1>2, <1>3, <1>4, <1>5 DEF SettledWell

\* A batch of any length leaves everything well.
LEMMA BatchWell ==
    ASSUME SettlementInv, NEW trades, Len(trades) \in Nat,
           \A i \in 1..Len(trades) : Offered(trades[i])
    PROVE  SettledWell(SettledAll(trades))
<1> DEFINE along == SettledAlong(trades)
           n == Len(trades)
           S == {i \in Nat : i <= n => SettledWell(along[i])}
<1>1. /\ along[0] = SettleStart
      /\ \A i \in 1..n : along[i] = SettledNext(along[i - 1], trades[i])
    BY SettledAlongEntries
<1> HIDE DEF along
<1>2. 0 \in S
    BY <1>1, SettleStartWell
<1>3. ASSUME NEW i \in Nat, i \in S PROVE i + 1 \in S
    <2>1. SUFFICES ASSUME i + 1 <= n PROVE SettledWell(along[i + 1])
        OBVIOUS
    <2>2. SettledWell(along[i])
        BY <1>3, <2>1
    <2>3. i + 1 \in 1..n /\ (i + 1) - 1 = i
        BY <2>1
    <2>4. along[i + 1] = SettledNext(along[i], trades[i + 1]) /\ Offered(trades[i + 1])
        BY <1>1, <2>3
    <2>5. CASE along[i].s.ok
        <3>1. along[i + 1] = Settled(along[i], trades[i + 1])
            BY <2>4, <2>5 DEF SettledNext
        <3> QED
            BY <2>2, <2>4, <2>5, <3>1, SettledKeeps
    <2>6. CASE ~along[i].s.ok
        BY <2>2, <2>4, <2>6 DEF SettledNext
    <2> QED
        BY <2>5, <2>6
<1>4. n \in S
    <2> HIDE DEF S
    <2> QED
        BY <1>2, <1>3, NatSets
<1> QED
    BY <1>4 DEF SettledAll, along

\* What a settlement, of one trade or of many, commits.
LEMMA SettlementCommitted ==
    ASSUME SettlementInv, Counted, NEW t, SettledWell(t), CommitSettlement(t)
    PROVE  SettlementInv'
<1>1. /\ Commit(t.s) /\ Frame
      /\ usedNonces' = t.used /\ filled' = t.filled
      /\ UNCHANGED <<now, settlementPaused, settings, maxSettlementDelay, commits>>
    BY DEF CommitSettlement, Frame
<1>2. t.s.ok /\ positions' = t.s.positions /\ balances' = t.s.ledger.balances
    BY <1>1 DEF Commit
<1>3. Inv'
    <2>1. Inv /\ Good(t.s) /\ Tied(t.s)
        BY DEF SettlementInv, SettledWell
    <2>2. \A m \in Markets, b \in Accounts : t.s.positions[m][b].size # 0 => markets[m].exists
        BY <1>2 DEF SettledWell
    <2> QED
        BY <1>1, <2>1, <2>2, CommitGood
<1>4. SettlementTypeOK'
    BY <1>1, <1>3 DEF SettlementTypeOK, SettlementInv, SettledWell, Inv
<1>5. NoOverfill' /\ NoncesSpent'
    BY <1>1, <1>2 DEF NoOverfill, NoncesSpent, SettledWell
<1>6. LegsBalance'
    <2>1. \A m \in Markets : SignedSizes(m)' = SignedOf(t.s.positions[m])
        BY <1>2 DEF SignedOf, SignedSizes
    <2> QED
        BY <2>1 DEF LegsBalance, SettledWell, Balanced
<1> QED
    BY <1>3, <1>4, <1>5, <1>6 DEF SettlementInv

-----------------------------------------------------------------------------
(* Every step *)

\* Settling one trade is settling a batch of one.
LEMMA SettleKeeps ==
    ASSUME SettlementInv,
           \/ \E trade \in Matches : SettleOne(trade)
           \/ \E n \in 2..MaxTrades : \E trades \in [1..n -> Matches] : SettleBatch(trades)
    PROVE  SettlementInv'
<1>1. ASSUME NEW trade \in Matches, SettleOne(trade)
      PROVE  SettlementInv'
    <2> DEFINE trades == <<trade>>
    <2>1. Len(trades) = 1 /\ trades[1] = trade
        OBVIOUS
    <2>2. Offered(trade) /\ Counted /\ CommitSettlement(SettledAll(trades))
        BY <1>1 DEF SettleOne, Offered
    <2> HIDE DEF trades
    <2>3. Len(trades) \in Nat /\ \A i \in 1..Len(trades) : Offered(trades[i])
        BY <2>1, <2>2
    <2>4. SettledWell(SettledAll(trades))
        BY <2>3, BatchWell
    <2> QED
        BY <2>2, <2>4, SettlementCommitted
<1>2. ASSUME NEW n \in 2..MaxTrades, NEW trades \in [1..n -> Matches], SettleBatch(trades)
      PROVE  SettlementInv'
    <2>1. n \in Nat /\ trades \in Seq(Matches)
        BY SeqDef
    <2>2. Len(trades) \in Nat /\ DOMAIN trades = 1..Len(trades)
        BY <2>1, LenProperties
    <2>3. Counted /\ CommitSettlement(SettledAll(trades))
        BY <1>2 DEF SettleBatch
    <2>4. \A i \in 1..Len(trades) : Offered(trades[i])
        <3>1. \A i \in 1..Len(trades) : TradeValid(usedNonces, trades[i])
            BY <1>2 DEF SettleBatch
        <3>2. \A i \in 1..Len(trades) : trades[i] \in Matches
            BY <2>2
        <3> QED
            BY <3>1, <3>2 DEF Offered
    <2>5. SettledWell(SettledAll(trades))
        BY <2>2, <2>4, BatchWell
    <2> QED
        BY <2>3, <2>5, SettlementCommitted
<1> QED
    BY <1>1, <1>2

\* A step that leaves the engine's state, the nonces and the filled sizes alone.
LEMMA SettlementRestKeeps ==
    ASSUME SettlementInv, UNCHANGED <<engineVars, usedNonces, filled>>,
           calls' \in 0..MaxCalls, settlementPaused' \in BOOLEAN, settings' \in Settings,
           maxSettlementDelay' \in settings'.minSettlementDelay..LongestDelay,
           DOMAIN commits' \subseteq Orders,
           \A o \in DOMAIN commits' : commits'[o] \in [time : 0..now, terms : Settings]
    PROVE  SettlementInv' /\ UNCHANGED positions
<1>1. /\ UNCHANGED <<now, paused, ledgerVars, markets, bookVars, marginMode, tierHistory,
                     riskVars, params>>
      /\ UNCHANGED <<usedNonces, filled, positions>>
    BY DEF engineVars, bookVars
<1>2. Inv'
    <2>1. Inv /\ params \in Params
        BY DEF SettlementInv, Inv, TypeOK
    <2> QED
        BY <1>1, <2>1, ParamsKeep
<1>3. SettlementTypeOK'
    BY <1>1, <1>2 DEF SettlementTypeOK, SettlementInv, Inv
<1>4. NoOverfill' /\ NoncesSpent' /\ LegsBalance'
    <2>1. \A m \in Markets : SignedSizes(m)' = SignedSizes(m)
        BY <1>1 DEF SignedSizes
    <2> QED
        BY <1>1, <2>1 DEF SettlementInv, NoOverfill, NoncesSpent, LegsBalance
<1> QED
    BY <1>1, <1>2, <1>3, <1>4 DEF SettlementInv

\* Committing gives orders a time and the settings of the moment.
LEMMA CommitKeeps ==
    ASSUME SettlementInv, Counted, NEW os \in SUBSET Orders, commits' = Fixed(os),
           UNCHANGED <<engineVars, settlementPaused, settings, maxSettlementDelay, usedNonces,
                       filled>>
    PROVE  SettlementInv' /\ UNCHANGED positions
<1>1. /\ settlementPaused \in BOOLEAN /\ settings \in Settings
      /\ maxSettlementDelay \in settings.minSettlementDelay..LongestDelay
      /\ DOMAIN commits \subseteq Orders
      /\ \A o \in DOMAIN commits : commits[o] \in [time : 0..now, terms : Settings]
      /\ now \in Nat
    BY DEF SettlementInv, SettlementTypeOK, TypeOK
<1>2. DOMAIN commits' \subseteq Orders
    BY <1>1 DEF Fixed
<1>3. ASSUME NEW o \in DOMAIN commits'
      PROVE  commits'[o] \in [time : 0..now, terms : Settings]
    <2>1. commits'[o] = IF Committed(o) THEN commits[o] ELSE [time |-> now, terms |-> settings]
        BY <1>3 DEF Fixed
    <2>2. [time |-> now, terms |-> settings] \in [time : 0..now, terms : Settings]
        BY <1>1
    <2> QED
        BY <1>1, <2>1, <2>2 DEF Committed
<1>4. calls' \in 0..MaxCalls
    BY CountedType DEF SettlementInv
<1> QED
    BY <1>1, <1>2, <1>3, <1>4, SettlementRestKeeps

\* The setters leave settings that they accept, and no order committed before changed.
LEMMA SettingKeeps ==
    ASSUME SettlementInv, SettingStep
    PROVE  SettlementInv' /\ UNCHANGED positions
<1>1. /\ settlementPaused \in BOOLEAN /\ settings \in Settings
      /\ maxSettlementDelay \in settings.minSettlementDelay..LongestDelay
      /\ DOMAIN commits \subseteq Orders
      /\ \A o \in DOMAIN commits : commits[o] \in [time : 0..now, terms : Settings]
    BY DEF SettlementInv, SettlementTypeOK
<1>2. LongestDelay \in Nat /\ MaxFeeBps \in Nat
    BY OrdersAssumption
<1>3. settings.minSettlementDelay \in 0..LongestDelay
    BY <1>1 DEF Settings
<1>4. ASSUME NEW new \in Settings, SetSettings(new),
             maxSettlementDelay' \in new.minSettlementDelay..LongestDelay
      PROVE  SettlementInv' /\ UNCHANGED positions
    <2>1. /\ Counted /\ settings' = new
          /\ UNCHANGED <<engineVars, settlementPaused, commits, usedNonces, filled>>
        BY <1>4 DEF SetSettings
    <2>2. calls' \in 0..MaxCalls
        BY <2>1, CountedType DEF SettlementInv
    <2> QED
        BY <1>1, <1>4, <2>1, <2>2, SettlementRestKeeps
<1>5. ASSUME NEW fees \in Fees, SetFees(fees)
      PROVE  SettlementInv' /\ UNCHANGED positions
    <2> DEFINE maker == fees.maker
               taker == fees.taker
               new == [settings EXCEPT !.makerFeeBps = maker, !.takerFeeBps = taker]
    <2>1. maker \in 0..MaxFeeBps /\ taker \in 0..MaxFeeBps
        BY <1>2, <1>5, OrdersAssumption DEF SetFees
    <2> HIDE DEF maker, taker
    <2>2. new \in Settings /\ new.minSettlementDelay = settings.minSettlementDelay
        BY <1>1, <2>1 DEF Settings
    <2>3. SetSettings(new) /\ maxSettlementDelay' = maxSettlementDelay
        BY <1>5 DEF SetFees, maker, taker
    <2> HIDE DEF new
    <2> QED
        BY <1>1, <1>4, <2>2, <2>3
<1>6. ASSUME NEW delay \in Delays, SetSettlementDelay(delay)
      PROVE  SettlementInv' /\ UNCHANGED positions
    <2> DEFINE min == delay.min
               new == [settings EXCEPT !.minSettlementDelay = min]
    <2>1. /\ min \in 0..LongestDelay /\ delay.max \in min..LongestDelay
        BY <1>2, <1>6, OrdersAssumption DEF SetSettlementDelay
    <2> HIDE DEF min
    <2>2. new \in Settings /\ new.minSettlementDelay = min
        BY <1>1, <2>1 DEF Settings
    <2>3. SetSettings(new) /\ maxSettlementDelay' = delay.max
        BY <1>6 DEF SetSettlementDelay, min
    <2> HIDE DEF new
    <2> QED
        BY <1>4, <2>1, <2>2, <2>3
<1>7. ASSUME NEW enabled \in BOOLEAN, SetDynamicSpreadEnabled(enabled)
      PROVE  SettlementInv' /\ UNCHANGED positions
    <2> DEFINE new == [settings EXCEPT !.dynamicSpreadEnabled = enabled]
    <2>1. new \in Settings /\ new.minSettlementDelay = settings.minSettlementDelay
        BY <1>1 DEF Settings
    <2>2. SetSettings(new) /\ maxSettlementDelay' = maxSettlementDelay
        BY <1>7 DEF SetDynamicSpreadEnabled
    <2> HIDE DEF new
    <2> QED
        BY <1>1, <1>4, <2>1, <2>2
<1>8. ASSUME NEW tiers \in SpreadTiers, SetDynamicSpreadTiers(tiers)
      PROVE  SettlementInv' /\ UNCHANGED positions
    <2> DEFINE new == [settings EXCEPT !.spreadTiers = tiers]
    <2>1. tiers \in [1..3 -> Nat]
        BY OrdersAssumption
    <2>2. new \in Settings /\ new.minSettlementDelay = settings.minSettlementDelay
        BY <1>1, <2>1 DEF Settings
    <2>3. SetSettings(new) /\ maxSettlementDelay' = maxSettlementDelay
        BY <1>8 DEF SetDynamicSpreadTiers
    <2> HIDE DEF new
    <2> QED
        BY <1>1, <1>4, <2>2, <2>3
<1>9. ASSUME NEW status \in BOOLEAN, SetSettlementPaused(status)
      PROVE  SettlementInv' /\ UNCHANGED positions
    <2>1. /\ Counted /\ settlementPaused' = status
          /\ UNCHANGED <<engineVars, settings, maxSettlementDelay, commits, usedNonces, filled>>
        BY <1>9 DEF SetSettlementPaused
    <2>2. calls' \in 0..MaxCalls
        BY <2>1, CountedType DEF SettlementInv
    <2> QED
        BY <1>1, <2>1, <2>2, SettlementRestKeeps
<1> QED
    BY <1>5, <1>6, <1>7, <1>8, <1>9 DEF SettingStep

\* What goes on below leaves the settlement, and the positions, as they are.
LEMMA EngineKeeps ==
    ASSUME SettlementInv, Inv', UNCHANGED <<positions, settlementVars>>, now' >= now
    PROVE  SettlementInv'
<1>1. UNCHANGED <<settlementPaused, settings, maxSettlementDelay, commits, usedNonces, filled>>
    BY DEF settlementVars
<1>2. SettlementTypeOK'
    <2>1. ASSUME NEW o \in DOMAIN commits
          PROVE  commits[o] \in [time : 0..now', terms : Settings]
        <3>1. commits[o] \in [time : 0..now, terms : Settings]
            BY DEF SettlementInv, SettlementTypeOK
        <3>2. now \in Nat /\ now' \in Nat
            BY DEF SettlementInv, Inv, TypeOK
        <3> QED
            BY <3>1, <3>2
    <2> QED
        BY <1>1, <2>1 DEF SettlementInv, SettlementTypeOK, Inv
<1>3. NoOverfill' /\ NoncesSpent' /\ LegsBalance'
    <2>1. \A m \in Markets : SignedSizes(m)' = SignedSizes(m)
        BY DEF SignedSizes
    <2> QED
        BY <1>1, <2>1 DEF SettlementInv, NoOverfill, NoncesSpent, LegsBalance
<1> QED
    BY <1>2, <1>3 DEF SettlementInv

\* Every step of the settlement, of its owner and of the engine below it.
LEMMA SettlementStepKeeps ==
    ASSUME SettlementInv, [SettlementNext]_settlementAll
    PROVE  SettlementInv'
<1>1. ASSUME NEW o \in Orders, CommitOrder(o)
      PROVE  SettlementInv'
    <2>1. {o} \in SUBSET Orders
        OBVIOUS
    <2> QED
        BY <1>1, <2>1, CommitKeeps DEF CommitOrder
<1>2. ASSUME NEW os \in CommitBatches, CommitOrderBatch(os)
      PROVE  SettlementInv'
    <2>1. os \in SUBSET Orders
        BY OrdersAssumption
    <2> QED
        BY <1>2, <2>1, CommitKeeps DEF CommitOrderBatch
<1>3. ASSUME SettlementStep
      PROVE  SettlementInv'
    BY <1>1, <1>2, <1>3, SettleKeeps DEF SettlementStep
<1>4. ASSUME SettingStep
      PROVE  SettlementInv'
    BY <1>4, SettingKeeps
<1>5. ASSUME EngineStep
      PROVE  SettlementInv'
    <2>1. Inv /\ UNCHANGED settlementVars
        BY <1>5 DEF EngineStep, SettlementInv
    <2>2. CASE Tick
        <3>1. Inv' /\ UNCHANGED positions /\ now' = now + 1 /\ now \in Nat
            <4>1. Inv'
                BY <2>1, <2>2, TickKeeps
            <4>2. now \in Nat
                BY <2>1 DEF Inv, TypeOK
            <4>3. UNCHANGED positions /\ now' = now + 1
                BY ONLY <2>2 DEF Tick, bookVars
            <4> QED
                BY <4>1, <4>2, <4>3
        <3> QED
            BY <2>1, <3>1, EngineKeeps
    <2>3. ASSUME NEW m \in Markets, MarketStep(m)
          PROVE  SettlementInv'
        <3>1. Inv'
            BY <2>1, <2>3, MarketStepKeeps
        <3>2. UNCHANGED <<positions, now>>
            BY <2>3 DEF MarketStep, UpdateMarkPrice, ApplyFundingRate, AddMarket, bookVars
        <3>3. now \in Nat
            BY DEF SettlementInv, Inv, TypeOK
        <3> QED
            BY <2>1, <3>1, <3>2, <3>3, EngineKeeps
    <2> QED
        BY <1>5, <2>2, <2>3 DEF EngineStep
<1>6. ASSUME UNCHANGED settlementAll
      PROVE  SettlementInv'
    <2>1. UNCHANGED vars /\ UNCHANGED settlementVars
        BY <1>6 DEF settlementAll
    <2>2. Inv'
        BY <2>1, StepKeeps DEF SettlementInv
    <2>3. UNCHANGED <<positions, now>> /\ now \in Nat
        BY <2>1 DEF vars, bookVars, SettlementInv, Inv, TypeOK
    <2> QED
        BY <2>1, <2>2, <2>3, EngineKeeps
<1> QED
    BY <1>3, <1>4, <1>5, <1>6 DEF SettlementNext

\* Nothing is committed, filled or settled at the start.
LEMMA SettlementStart == SettlementInit => SettlementInv
<1> SUFFICES ASSUME SettlementInit PROVE SettlementInv
    OBVIOUS
<1>1. Inv
    BY InitInv DEF SettlementInit
<1>2. SettlementTypeOK
    <2>1. settlementPaused \in BOOLEAN /\ settings \in Settings
        BY OrdersAssumption DEF SettlementInit
    <2>2. maxSettlementDelay \in settings.minSettlementDelay..LongestDelay
        BY OrdersAssumption DEF SettlementInit
    <2>3. DOMAIN commits = {}
        BY DEF SettlementInit
    <2>4. usedNonces = {} /\ filled \in [Orders -> Nat]
        BY DEF SettlementInit
    <2> QED
        BY <1>1, <2>1, <2>2, <2>3, <2>4 DEF SettlementTypeOK, Inv
<1>3. NoOverfill /\ NoncesSpent
    BY OrdersAssumption DEF SettlementInit, NoOverfill, NoncesSpent
<1>4. LegsBalance
    <2>1. ASSUME NEW m \in Markets
          PROVE  SignedSizes(m) = [a \in 1..N |-> 0]
        BY DEF SettlementInit, Init, SignedSizes, NoPosition, Accounts
    <2> QED
        BY <2>1, SumOfZeros, AccountsAssumption DEF LegsBalance
<1> QED
    BY <1>1, <1>2, <1>3, <1>4 DEF SettlementInv

\* A commit, once made, stays what it is: no second commit and no setter rewrites it.
LEMMA CommitsStay ==
    ASSUME [SettlementNext]_settlementAll, NEW o, Committed(o)
    PROVE  Committed(o)' /\ commits'[o] = commits[o]
<1>1. ASSUME NEW os, commits' = Fixed(os)
      PROVE  Committed(o)' /\ commits'[o] = commits[o]
    BY <1>1 DEF Fixed, Committed
<1>2. ASSUME UNCHANGED commits
      PROVE  Committed(o)' /\ commits'[o] = commits[o]
    BY <1>2 DEF Committed
<1>3. ASSUME SettlementStep
      PROVE  UNCHANGED commits \/ \E os : commits' = Fixed(os)
    BY <1>3 DEF SettlementStep, CommitOrder, CommitOrderBatch, SettleOne, SettleBatch,
                CommitSettlement
<1>4. ASSUME SettingStep
      PROVE  UNCHANGED commits
    BY <1>4 DEF SettingStep, SetFees, SetSettlementDelay, SetDynamicSpreadEnabled,
                SetDynamicSpreadTiers, SetSettings, SetSettlementPaused
<1>5. ASSUME EngineStep \/ UNCHANGED settlementAll
      PROVE  UNCHANGED commits
    BY <1>5 DEF EngineStep, settlementAll, settlementVars
<1> QED
    BY <1>1, <1>2, <1>3, <1>4, <1>5 DEF SettlementNext

-----------------------------------------------------------------------------
(* What holds of every instance *)

\* The inductive invariant of the settlement, the engine's own among its parts.
THEOREM SettlementInvariance == SettlementSpec => []SettlementInv
<1>1. SettlementInv /\ [SettlementNext]_settlementAll => SettlementInv'
    BY SettlementStepKeeps
<1> QED
    BY <1>1, SettlementStart, PTL DEF SettlementSpec, settlementAll

\* Fees, delays and snapshots stay within what the setters accept, nonces are those of
\* orders there are, and the engine's types hold under settlement.
THEOREM SettlementTypeCorrect == SettlementSpec => []SettlementTypeOK
<1>1. SettlementInv => SettlementTypeOK
    BY DEF SettlementInv
<1> QED
    BY <1>1, SettlementInvariance, PTL

\* No order is executed beyond the size it was signed for, in batches of any length, as
\* maker or as taker: _settleTrade uses up the nonce the first time.
THEOREM OrdersNeverOverfilled == SettlementSpec => []NoOverfill
<1>1. SettlementInv => NoOverfill
    BY DEF SettlementInv
<1> QED
    BY <1>1, SettlementInvariance, PTL

\* The positions of a market cancel out after every settlement: the two calls of
\* openPosition in _settleTrade both happen, with opposite sizes, or neither does.
THEOREM LegsAlwaysBalance == SettlementSpec => []LegsBalance
<1>1. SettlementInv => LegsBalance
    BY DEF SettlementInv
<1> QED
    BY <1>1, SettlementInvariance, PTL

\* Open interest and the lists of markets are exact under settlement too, where one
\* transaction chains two openPosition calls for every trade of a batch.
THEOREM SettlementKeepsEngineBooks ==
    SettlementSpec => [](OpenInterestConsistent /\ ActiveListsExact)
<1>1. SettlementInv => OpenInterestConsistent /\ ActiveListsExact
    BY DEF SettlementInv, Inv
<1> QED
    BY <1>1, SettlementInvariance, PTL

\* Two committed orders settle under the terms of their commits: while time and markets
\* stand still, no step of the owner or the operator changes their fees or their delay.
THEOREM TermsStayCommitted == SettlementSpec => CommittedTermsFixed
<1>1. ASSUME [SettlementNext]_settlementAll, NEW trade \in CommittedTrades,
             UNCHANGED <<now, markets>>
      PROVE  TradeTerms(trade)' = TradeTerms(trade)
    <2>0. BothCommitted(trade)
        BY DEF CommittedTrades, BothCommitted, Committed
    <2>1. /\ BothCommitted(trade)'
          /\ commits'[trade.maker] = commits[trade.maker]
          /\ commits'[trade.taker] = commits[trade.taker]
        BY <1>1, <2>0, CommitsStay DEF BothCommitted
    <2>2. ASSUME NEW o \in {trade.maker, trade.taker}
          PROVE  TermsOf(trade, o)' = TermsOf(trade, o)
        BY <2>0, <2>1 DEF TermsOf
    <2>3. MakerFee(trade)' = MakerFee(trade)
        BY <2>2 DEF MakerFee
    <2>4. Scratch.markets = markets /\ Scratch'.markets = markets'
        BY DEF Scratch
    <2>5. TakerFee(Scratch, trade)' = TakerFee(Scratch, trade)
        <3> DEFINE terms == TermsOf(trade, trade.taker)
        <3>1. terms' = terms
            BY <2>2
        <3> HIDE DEF terms
        <3>2. DynamicSpread(Scratch, trade.taker.market, trade.taker.isLong, terms)'
                  = DynamicSpread(Scratch, trade.taker.market, trade.taker.isLong, terms)
            BY <1>1, <2>4, <3>1 DEF DynamicSpread
        <3> QED
            BY <3>1, <3>2 DEF TakerFee, terms
    <2>6. DelayOver(trade)' = DelayOver(trade)
        BY <1>1, <2>0, <2>1 DEF DelayOver
    <2> QED
        BY <2>3, <2>5, <2>6 DEF TradeTerms
<1>2. [SettlementNext]_settlementAll
          => (UNCHANGED <<now, markets>>
                 => \A trade \in CommittedTrades : TradeTerms(trade)' = TradeTerms(trade))
    BY <1>1
<1> QED
    BY <1>2, PTL DEF SettlementSpec, settlementAll, CommittedTermsFixed
=============================================================================
