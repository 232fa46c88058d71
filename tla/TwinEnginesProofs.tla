------------------------- MODULE TwinEnginesProofs -------------------------
(***************************************************************************)
(* The books of both matching engines stay consistent, and their answers    *)
(* true, for any orders and any rules of the market: totals and index agree *)
(* with the queues after every submission and every cancellation.  And each *)
(* implements AbstractBook: the rounds of its matching, level by level and  *)
(* order by order, are the one step that price-time priority asks for.      *)
(* From the same books the port makes the same trades, in the same order.   *)
(***************************************************************************)
EXTENDS TwinEngines, PriceLevels, SumTheorems, SequenceTheorems, FiniteSetTheorems

-----------------------------------------------------------------------------
(* Queues *)

\* What may wait on a book.
Waiting == {o \in Orders : o.remaining <= o.quantity}

Ids(orders) == {orders[i].id : i \in 1..Len(orders)}

Distinct(orders) ==
    \A i, j \in 1..Len(orders) : orders[i].id = orders[j].id => i = j

\* r is q without its k-th order.
Without(r, q, k) ==
    /\ Len(r) = Len(q) - 1
    /\ \A i \in 1..k - 1 : r[i] = q[i]
    /\ \A i \in k..Len(q) - 1 : r[i] = q[i + 1]

\* The fields of an order that waits.
LEMMA WaitingType ==
    ASSUME NEW o \in Waiting
    PROVE  /\ o.id \in 1..MaxOrders /\ o.side \in Sides /\ o.price \in Nat \ {0}
           /\ o.quantity \in Nat \ {0} /\ o.remaining \in Nat \ {0}
           /\ o.remaining <= o.quantity /\ o.hidden \in BOOLEAN
           /\ Shown(o, o.remaining) \in Nat /\ Shown(o, o.remaining) <= o.remaining
BY DEF Waiting, Orders, Sides, Shown

\* What a queue holds and shows are sums of naturals.
LEMMA QueueTotals ==
    ASSUME NEW q \in Seq(Waiting)
    PROVE  /\ Len(q) \in Nat
           /\ Remainders(q) \in [1..Len(q) -> Nat] /\ Visibles(q) \in [1..Len(q) -> Nat]
           /\ RemainingOf(q) \in Nat /\ ShownOf(q) \in Nat
           /\ \A i \in 1..Len(q) : q[i].remaining <= RemainingOf(q)
           /\ \A i \in 1..Len(q) : Shown(q[i], q[i].remaining) <= ShownOf(q)
<1>1. Len(q) \in Nat /\ \A i \in 1..Len(q) : q[i] \in Waiting
    OBVIOUS
<1>2. /\ Remainders(q) \in [1..Len(q) -> Nat]
      /\ \A i \in 1..Len(q) : Remainders(q)[i] = q[i].remaining
    BY <1>1, WaitingType DEF Remainders
<1>3. /\ Visibles(q) \in [1..Len(q) -> Nat]
      /\ \A i \in 1..Len(q) : Visibles(q)[i] = Shown(q[i], q[i].remaining)
    BY <1>1, WaitingType DEF Visibles
<1>4. RemainingOf(q) \in Nat /\ \A i \in 1..Len(q) : Remainders(q)[i] <= RemainingOf(q)
    BY <1>1, <1>2, SumOfNaturals DEF RemainingOf
<1>5. ShownOf(q) \in Nat /\ \A i \in 1..Len(q) : Visibles(q)[i] <= ShownOf(q)
    BY <1>1, <1>3, SumOfNaturals DEF ShownOf
<1> QED
    BY <1>1, <1>2, <1>3, <1>4, <1>5

\* An order less.
LEMMA WithoutOrder ==
    ASSUME NEW q \in Seq(Waiting), NEW r \in Seq(Waiting), NEW k \in 1..Len(q),
           Without(r, q, k), Distinct(q)
    PROVE  /\ Distinct(r)
           /\ Ids(r) = Ids(q) \ {q[k].id}
           /\ \A i \in 1..Len(r) : \E j \in 1..Len(q) : r[i] = q[j]
           /\ RemainingOf(r) = RemainingOf(q) - q[k].remaining
           /\ ShownOf(r) = ShownOf(q) - Shown(q[k], q[k].remaining)
<1> DEFINE n == Len(q)
           from(i) == IF i < k THEN i ELSE i + 1
<1>1. n \in Nat /\ k \in 1..n /\ Len(r) = n - 1 /\ n - 1 \in Nat
    BY DEF Without
<1>2. ASSUME NEW i \in 1..n - 1
      PROVE  from(i) \in 1..n /\ from(i) # k /\ r[i] = q[from(i)]
    BY <1>1 DEF Without
<1>3. ASSUME NEW j \in 1..n, j # k
      PROVE  \E i \in 1..n - 1 : from(i) = j
    <2>1. CASE j < k
        <3>1. j \in 1..n - 1 /\ from(j) = j
            BY <1>1, <2>1
        <3> QED
            BY <3>1
    <2>2. CASE j > k
        <3>1. j - 1 \in 1..n - 1 /\ from(j - 1) = j
            BY <1>1, <2>2
        <3> QED
            BY <3>1
    <2> QED
        BY <1>1, <1>3, <2>1, <2>2
<1>4. \A i, j \in 1..n - 1 : from(i) = from(j) => i = j
    BY <1>1
<1>5. \A i \in 1..n - 1 : from(i) \in 1..n /\ from(i) # k /\ r[i] = q[from(i)]
    BY <1>2
<1>6. \A j \in 1..n : j # k => \E i \in 1..n - 1 : from(i) = j
    BY <1>3
<1>7. Len(r) = n - 1
    BY <1>1
<1> HIDE DEF from
<1>8. Distinct(r)
    <2>1. ASSUME NEW i \in 1..n - 1, NEW j \in 1..n - 1, r[i].id = r[j].id
          PROVE  i = j
        <3>1. q[from(i)].id = q[from(j)].id
            BY <1>5, <2>1
        <3>2. from(i) = from(j)
            BY <1>5, <3>1 DEF Distinct
        <3> QED
            BY <1>4, <3>2
    <2> QED
        BY <1>7, <2>1 DEF Distinct
<1>9. Ids(r) = Ids(q) \ {q[k].id}
    <2>1. ASSUME NEW i \in 1..n - 1
          PROVE  r[i].id \in Ids(q) /\ r[i].id # q[k].id
        BY <1>1, <1>5, <2>1, Zenon DEF Ids, Distinct, n
    <2>2. ASSUME NEW j \in 1..n, q[j].id # q[k].id
          PROVE  q[j].id \in Ids(r)
        BY <1>5, <1>6, <1>7, <2>2, Zenon DEF Ids
    <2> QED
        BY <2>1, <2>2, <1>7, Zenon DEF Ids, n
<1>10. RemainingOf(r) = RemainingOf(q) - q[k].remaining
    <2> DEFINE b == Remainders(q)
               c == Remainders(r)
    <2>1. b \in [1..n -> Int] /\ c \in [1..n - 1 -> Int]
        <3>1. b \in [1..n -> Nat] /\ c \in [1..n - 1 -> Nat]
            BY <1>1, QueueTotals
        <3> HIDE DEF b, c
        <3> QED
            BY <3>1
    <2>2. /\ \A i \in 1..n : b[i] = q[i].remaining
          /\ \A i \in 1..n - 1 : c[i] = r[i].remaining
        BY <1>1 DEF Remainders
    <2>3. /\ \A i \in 1..k - 1 : c[i] = b[i]
          /\ \A i \in k..n - 1 : c[i] = b[i + 1]
        <3>1. \A i \in 1..k - 1 : r[i] = q[i] /\ i \in 1..n - 1 /\ i \in 1..n
            BY <1>1 DEF Without
        <3>2. \A i \in k..n - 1 : r[i] = q[i + 1] /\ i \in 1..n - 1 /\ i + 1 \in 1..n
            BY <1>1 DEF Without
        <3> HIDE DEF b, c, n
        <3>3. ASSUME NEW i \in 1..k - 1 PROVE c[i] = b[i]
            BY <2>2, <3>1
        <3>4. ASSUME NEW i \in k..n - 1 PROVE c[i] = b[i + 1]
            BY <2>2, <3>2
        <3> QED
            BY <3>3, <3>4
    <2>4. SumTo(c, n - 1) = SumTo(b, n) - b[k]
        <3> HIDE DEF b, c, n
        <3> QED
            BY <1>1, <2>1, <2>3, SumWithout
    <2> QED
        BY <1>1, <2>2, <2>4 DEF RemainingOf
<1>11. ShownOf(r) = ShownOf(q) - Shown(q[k], q[k].remaining)
    <2> DEFINE b == Visibles(q)
               c == Visibles(r)
    <2>1. b \in [1..n -> Int] /\ c \in [1..n - 1 -> Int]
        <3>1. b \in [1..n -> Nat] /\ c \in [1..n - 1 -> Nat]
            BY <1>1, QueueTotals
        <3> HIDE DEF b, c
        <3> QED
            BY <3>1
    <2>2. /\ \A i \in 1..n : b[i] = Shown(q[i], q[i].remaining)
          /\ \A i \in 1..n - 1 : c[i] = Shown(r[i], r[i].remaining)
        BY <1>1 DEF Visibles
    <2>3. /\ \A i \in 1..k - 1 : c[i] = b[i]
          /\ \A i \in k..n - 1 : c[i] = b[i + 1]
        <3>1. \A i \in 1..k - 1 : r[i] = q[i] /\ i \in 1..n - 1 /\ i \in 1..n
            BY <1>1 DEF Without
        <3>2. \A i \in k..n - 1 : r[i] = q[i + 1] /\ i \in 1..n - 1 /\ i + 1 \in 1..n
            BY <1>1 DEF Without
        <3> HIDE DEF b, c, n
        <3> QED
            BY <2>2, <3>1, <3>2
    <2>4. SumTo(c, n - 1) = SumTo(b, n) - b[k]
        <3> HIDE DEF b, c, n
        <3> QED
            BY <1>1, <2>1, <2>3, SumWithout
    <2> QED
        BY <1>1, <2>2, <2>4 DEF ShownOf
<1> QED
    BY <1>1, <1>5, <1>8, <1>9, <1>10, <1>11

\* An order at the back.
LEMMA QueuedOrder ==
    ASSUME NEW q \in Seq(Waiting), NEW o \in Waiting, o.id \notin Ids(q), Distinct(q)
    PROVE  /\ Queued(q, o) \in Seq(Waiting) /\ Queued(q, o) # <<>>
           /\ Distinct(Queued(q, o))
           /\ Ids(Queued(q, o)) = Ids(q) \union {o.id}
           /\ \A i \in 1..Len(Queued(q, o)) :
                  Queued(q, o)[i] = o \/ \E j \in 1..Len(q) : Queued(q, o)[i] = q[j]
           /\ RemainingOf(Queued(q, o)) = RemainingOf(q) + o.remaining
           /\ ShownOf(Queued(q, o)) = ShownOf(q) + Shown(o, o.remaining)
<1> DEFINE r == Append(q, o)
           n == Len(q)
<1>1. n \in Nat /\ r \in Seq(Waiting) /\ Len(r) = n + 1 /\ r # <<>>
    OBVIOUS
<1>2. r[n + 1] = o /\ \A i \in 1..n : r[i] = q[i]
    OBVIOUS
<1>3. \A i \in 1..n : q[i].id \in Ids(q)
    BY DEF Ids
<1> HIDE DEF r
<1>4. Distinct(r)
    <2>1. ASSUME NEW i \in 1..n + 1, NEW j \in 1..n + 1, r[i].id = r[j].id
          PROVE  i = j
        <3>1. CASE i \in 1..n /\ j \in 1..n
            BY <1>2, <2>1, <3>1 DEF Distinct
        <3>2. CASE i = n + 1 \/ j = n + 1
            BY <1>1, <1>2, <1>3, <2>1, <3>2
        <3> QED
            BY <1>1, <3>1, <3>2
    <2> QED
        BY <1>1, <2>1 DEF Distinct
<1>5. Without(q, r, n + 1)
    BY <1>1, <1>2 DEF Without
<1>6. n + 1 \in 1..Len(r)
    BY <1>1
<1>7. /\ Ids(q) = Ids(r) \ {o.id}
      /\ RemainingOf(q) = RemainingOf(r) - o.remaining
      /\ ShownOf(q) = ShownOf(r) - Shown(o, o.remaining)
    BY <1>1, <1>2, <1>4, <1>5, <1>6, WithoutOrder
<1>8. o.id \in Ids(r)
    BY <1>1, <1>2, <1>6 DEF Ids
<1>9. /\ RemainingOf(r) \in Nat /\ ShownOf(r) \in Nat
      /\ o.remaining \in Nat /\ Shown(o, o.remaining) \in Nat
    BY <1>1, QueueTotals, WaitingType
<1>10. \A i \in 1..Len(r) : r[i] = o \/ \E j \in 1..n : r[i] = q[j]
    BY <1>1, <1>2
<1>11. /\ RemainingOf(r) = RemainingOf(q) + o.remaining
       /\ ShownOf(r) = ShownOf(q) + Shown(o, o.remaining)
    BY <1>7, <1>9
<1>12. Ids(r) = Ids(q) \union {o.id}
    BY <1>7, <1>8
<1>13. r = Queued(q, o)
    BY DEF r, Queued
<1> QED
    BY <1>1, <1>4, <1>10, <1>11, <1>12, <1>13

\* The queue without its i-th order.
LEMMA RemovedOrder ==
    ASSUME NEW q \in Seq(Waiting), NEW k \in 1..Len(q)
    PROVE  /\ Removed(q, k) \in Seq(Waiting) /\ Without(Removed(q, k), q, k)
           /\ Tail(q) \in Seq(Waiting) /\ Without(Tail(q), q, 1)
<1> DEFINE x == SubSeq(q, 1, k - 1)
           y == SubSeq(q, k + 1, Len(q))
<1>1. /\ x \in Seq(Waiting) /\ Len(x) = k - 1
      /\ \A i \in 1..k - 1 : x[i] = q[i]
    BY SubSeqProperties
<1>2. /\ y \in Seq(Waiting) /\ Len(y) = Len(q) - k
      /\ \A i \in 1..Len(q) - k : y[i] = q[k + i]
    BY SubSeqProperties
<1> HIDE DEF x, y
<1>3. /\ x \o y \in Seq(Waiting) /\ Len(x \o y) = Len(q) - 1
      /\ \A i \in 1..k - 1 : (x \o y)[i] = q[i]
      /\ \A i \in k..Len(q) - 1 : (x \o y)[i] = q[i + 1]
    <2>1. /\ x \o y \in Seq(Waiting) /\ Len(x \o y) = Len(x) + Len(y)
          /\ \A i \in 1..Len(x) + Len(y) :
                 (x \o y)[i] = IF i <= Len(x) THEN x[i] ELSE y[i - Len(x)]
        BY <1>1, <1>2, ConcatProperties
    <2>2. ASSUME NEW i \in k..Len(q) - 1 PROVE (x \o y)[i] = q[i + 1]
        <3> DEFINE j == i - (k - 1)
        <3>1. /\ j \in 1..Len(q) - k /\ k + j = i + 1
              /\ i \in 1..(k - 1) + (Len(q) - k) /\ ~(i <= k - 1)
            OBVIOUS
        <3>2. (x \o y)[i] = y[j]
            BY <1>1, <1>2, <2>1, <3>1
        <3> HIDE DEF j
        <3>3. y[j] = q[k + j]
            BY <1>2, <3>1
        <3> QED
            BY <3>1, <3>2, <3>3
    <2>3. ASSUME NEW i \in 1..k - 1 PROVE (x \o y)[i] = q[i]
        <3>1. i \in 1..Len(x) + Len(y) /\ i <= Len(x)
            BY <1>1, <1>2
        <3> QED
            BY <1>1, <2>1, <3>1
    <2>4. Len(x) + Len(y) = Len(q) - 1
        BY <1>1, <1>2
    <2> QED
        BY <2>1, <2>2, <2>3, <2>4
<1>4. Removed(q, k) = x \o y
    BY DEF Removed, x, y
<1>5. Tail(q) \in Seq(Waiting) /\ Without(Tail(q), q, 1)
    BY DEF Without
<1> QED
    BY <1>3, <1>4, <1>5 DEF Without

\* What is left of an order that was filled in part.
LEMMA PartLeft ==
    ASSUME NEW o \in Waiting, NEW rest \in Nat \ {0}, rest <= o.quantity
    PROVE  LET part == [o EXCEPT !.remaining = rest]
           IN  /\ part \in Waiting /\ part.remaining = rest /\ part.hidden = o.hidden
               /\ part.id = o.id /\ part.side = o.side /\ part.price = o.price
BY DEF Waiting, Orders

\* r is q with a smaller rest of its front order.
Reduced(r, q, rest) ==
    /\ r \in Seq(Waiting) /\ Len(r) = Len(q) /\ r # <<>>
    /\ Distinct(r)
    /\ Ids(r) = Ids(q)
    /\ \A i \in 1..Len(q) : /\ r[i].id = q[i].id
                            /\ r[i].side = q[i].side /\ r[i].price = q[i].price
    /\ RemainingOf(r) = RemainingOf(q) - q[1].remaining + rest
    /\ ShownOf(r) = ShownOf(q) - Shown(q[1], q[1].remaining) + Shown(q[1], rest)

\* The front order filled in part: what is left of it keeps its place.
LEMMA ReducedOrder ==
    ASSUME NEW q \in Seq(Waiting), q # <<>>, Distinct(q),
           NEW rest \in Nat \ {0}, rest <= q[1].remaining
    PROVE  Reduced([q EXCEPT ![1].remaining = rest], q, rest)
<1> DEFINE n == Len(q)
           o == [q[1] EXCEPT !.remaining = rest]
           r == [q EXCEPT ![1].remaining = rest]
<1>1. n \in Nat /\ 1 \in 1..n /\ q[1] \in Waiting
    OBVIOUS
<1>2. /\ o \in Waiting /\ o.remaining = rest /\ o.hidden = q[1].hidden
      /\ o.id = q[1].id /\ o.side = q[1].side /\ o.price = q[1].price
    <2>1. rest <= q[1].quantity
        BY <1>1, WaitingType
    <2> QED
        BY <1>1, <2>1, PartLeft
<1>3. /\ r = [q EXCEPT ![1] = o]
      /\ r \in Seq(Waiting) /\ Len(r) = n
      /\ r[1] = o /\ \A i \in 2..n : r[i] = q[i]
    <2>1. r = [q EXCEPT ![1] = o]
        OBVIOUS
    <2> HIDE DEF o, r
    <2> QED
        BY <1>1, <1>2, <2>1
<1> HIDE DEF o, r
<1>4. \A i \in 1..n : /\ r[i].id = q[i].id
                      /\ r[i].side = q[i].side /\ r[i].price = q[i].price
    <2>1. ASSUME NEW i \in 1..n
          PROVE  /\ r[i].id = q[i].id
                 /\ r[i].side = q[i].side /\ r[i].price = q[i].price
        <3>1. CASE i = 1
            BY <1>2, <1>3, <3>1
        <3>2. CASE i # 1
            <4>1. r[i] = q[i]
                BY <1>1, <1>3, <3>2
            <4> QED
                BY <4>1
        <3> QED
            BY <3>1, <3>2
    <2> QED
        BY <2>1
<1>5. Distinct(r) /\ Ids(r) = Ids(q)
    BY <1>3, <1>4 DEF Distinct, Ids
<1>6. RemainingOf(r) = RemainingOf(q) - q[1].remaining + rest
    <2> DEFINE b == Remainders(q)
    <2>1. b \in [1..n -> Int] /\ b[1] = q[1].remaining
        <3>1. b \in [1..n -> Nat]
            BY QueueTotals
        <3>2. b[1] = q[1].remaining
            BY <1>1 DEF Remainders
        <3> HIDE DEF b
        <3> QED
            BY <3>1, <3>2
    <2>2. Remainders(r) = [b EXCEPT ![1] = rest]
        <3>1. \A i \in 1..n : r[i].remaining = IF i = 1 THEN rest ELSE q[i].remaining
            BY <1>2, <1>3
        <3> QED
            BY <1>3, <3>1 DEF Remainders
    <2>3. SumTo([b EXCEPT ![1] = rest], n) = SumTo(b, n) - b[1] + rest
        <3> HIDE DEF b, n
        <3> QED
            BY <1>1, <2>1, rest \in Int, SumOneChange
    <2> QED
        BY <1>3, <2>1, <2>2, <2>3 DEF RemainingOf
<1>7. ShownOf(r) = ShownOf(q) - Shown(q[1], q[1].remaining) + Shown(q[1], rest)
    <2> DEFINE b == Visibles(q)
               v == Shown(q[1], rest)
    <2>1. b \in [1..n -> Int] /\ b[1] = Shown(q[1], q[1].remaining) /\ v \in Int
        <3>1. b \in [1..n -> Nat]
            BY QueueTotals
        <3>2. b[1] = Shown(q[1], q[1].remaining)
            BY <1>1 DEF Visibles
        <3>3. v \in Int
            BY DEF Shown
        <3> HIDE DEF b, v
        <3> QED
            BY <3>1, <3>2, <3>3
    <2>2. Visibles(r) = [b EXCEPT ![1] = v]
        <3>1. \A i \in 1..n : Shown(r[i], r[i].remaining)
                                  = IF i = 1 THEN v ELSE Shown(q[i], q[i].remaining)
            <4>1. Shown(r[1], r[1].remaining) = v
                BY <1>2, <1>3 DEF Shown
            <4> HIDE DEF v
            <4> QED
                BY <1>1, <1>3, <4>1
        <3> HIDE DEF v
        <3> QED
            BY <1>3, <3>1 DEF Visibles
    <2>3. SumTo([b EXCEPT ![1] = v], n) = SumTo(b, n) - b[1] + v
        <3> HIDE DEF b, n, v
        <3> QED
            BY <1>1, <2>1, SumOneChange
    <2> HIDE DEF v
    <2>4. ShownOf(r) = ShownOf(q) - Shown(q[1], q[1].remaining) + v
        BY <1>3, <2>1, <2>2, <2>3 DEF ShownOf
    <2> QED
        BY <2>4 DEF v
<1>8. r # <<>>
    BY <1>1, <1>3
<1> QED
    <2>1. Reduced(r, q, rest)
        BY <1>3, <1>4, <1>5, <1>6, <1>7, <1>8 DEF Reduced
    <2> QED
        BY <2>1 DEF r

-----------------------------------------------------------------------------
(* Books *)

Levels == [orders : Seq(Waiting), total : Nat, visible : Nat]
At(side, price) == [side |-> side, price |-> price]

\* A level of a side and price: its totals agree with its queue, in which no order is twice.
LevelExact(level, side, price, shows) ==
    /\ level.total = RemainingOf(level.orders)
    /\ shows => level.visible = ShownOf(level.orders)
    /\ Distinct(level.orders)
    /\ \A i \in 1..Len(level.orders) :
           level.orders[i].side = side /\ level.orders[i].price = price

IsBook(b) == b = [levels |-> [side \in Sides |-> b.levels[side]], index |-> b.index]

\* A book in which levels and index agree; shows says whether visible sizes do.
Sound(b, shows) ==
    /\ IsBook(b)
    /\ DOMAIN b.index \subseteq 1..MaxOrders
    /\ \A side \in Sides : \A price \in DOMAIN b.levels[side] :
           /\ price \in Nat \ {0}
           /\ b.levels[side][price] \in Levels
           /\ b.levels[side][price].orders # <<>>
           /\ LevelExact(b.levels[side][price], side, price, shows)
           /\ \A id \in Ids(b.levels[side][price].orders) :
                  id \in DOMAIN b.index /\ b.index[id] = At(side, price)
    /\ \A id \in DOMAIN b.index :
           \E side \in Sides : \E price \in DOMAIN b.levels[side] :
               b.index[id] = At(side, price) /\ id \in Ids(b.levels[side][price].orders)

\* What putting a level into book b changes, and what it leaves alone.
Replaced(b, c, side, price, level) ==
    /\ IsBook(c)
    /\ c.index = b.index
    /\ \A s \in Sides : s # side => c.levels[s] = b.levels[s]
    /\ level.orders = <<>> => DOMAIN c.levels[side] = DOMAIN b.levels[side] \ {price}
    /\ level.orders # <<>> => DOMAIN c.levels[side] = DOMAIN b.levels[side] \union {price}
    /\ level.orders # <<>> => c.levels[side][price] = level
    /\ \A p \in DOMAIN b.levels[side] : p # price => c.levels[side][p] = b.levels[side][p]

(* WithLevel does just that. *)
LEMMA WithLevelReplaces ==
    ASSUME NEW b, IsBook(b), NEW side \in Sides, NEW price, NEW level
    PROVE  Replaced(b, WithLevel(b, side, price, level), side, price, level)
<1> DEFINE old == b.levels[side]
           new == IF level.orders = <<>>
                  THEN Restrict(old, DOMAIN old \ {price})
                  ELSE [p \in DOMAIN old \union {price} |-> IF p = price THEN level ELSE old[p]]
           c == WithLevel(b, side, price, level)
<1>1. c = [levels |-> [s \in Sides |-> IF s = side THEN new ELSE b.levels[s]],
           index |-> b.index]
    <2> HIDE DEF new
    <2>1. c = [b EXCEPT !.levels[side] = new]
        BY DEF c, WithLevel, new
    <2> HIDE DEF c
    <2> DEFINE f == [s \in Sides |-> b.levels[s]]
    <2>2. b = [levels |-> f, index |-> b.index]
        BY DEF IsBook
    <2>3. [b EXCEPT !.levels[side] = new] = [b EXCEPT !.levels = [f EXCEPT ![side] = new]]
        <3>1. b.levels = f
            <4> HIDE DEF f
            <4> QED
                BY <2>2
        <3> HIDE DEF f
        <3> QED
            BY <3>1
    <2>4. [f EXCEPT ![side] = new] = [s \in Sides |-> IF s = side THEN new ELSE b.levels[s]]
        OBVIOUS
    <2>5. ASSUME NEW g PROVE [b EXCEPT !.levels = g] = [levels |-> g, index |-> b.index]
        <3> HIDE DEF f
        <3> QED
            BY <2>2
    <2> QED
        BY <2>1, <2>3, <2>4, <2>5
<1> HIDE DEF c
<1>2. IsBook(c) /\ c.index = b.index
    <2> HIDE DEF new
    <2> QED
        BY <1>1 DEF IsBook
<1>3. c.levels[side] = new /\ \A s \in Sides : s # side => c.levels[s] = b.levels[s]
    <2> HIDE DEF new
    <2> QED
        BY <1>1
<1>4. /\ level.orders = <<>> => DOMAIN new = DOMAIN old \ {price}
      /\ level.orders # <<>> => DOMAIN new = DOMAIN old \union {price}
      /\ level.orders # <<>> => new[price] = level
      /\ \A p \in DOMAIN old : p # price => new[p] = old[p]
    <2> HIDE DEF old
    <2> QED
        BY DEF Restrict
<1>5. Replaced(b, c, side, price, level)
    BY <1>2, <1>3, <1>4 DEF Replaced
<1> QED
    BY <1>5 DEF c

\* Book c is b, but that its index leads to this level, an exact one, instead of the one at
\* its place.
Relisted(b, c, side, price, level, shows) ==
    /\ price \in Nat \ {0} /\ level \in Levels /\ LevelExact(level, side, price, shows)
    /\ IsBook(c) /\ c.levels = b.levels /\ DOMAIN c.index \subseteq 1..MaxOrders
    /\ \A id \in Ids(level.orders) : id \in DOMAIN c.index /\ c.index[id] = At(side, price)
    /\ \A id \in DOMAIN b.index :
           b.index[id] # At(side, price) => id \in DOMAIN c.index /\ c.index[id] = b.index[id]
    /\ \A id \in DOMAIN c.index :
           \/ id \in Ids(level.orders)
           \/ /\ id \in DOMAIN b.index /\ b.index[id] # At(side, price)
              /\ c.index[id] = b.index[id]

(* A level is replaced together with the part of the index that leads to it. *)
LEMMA LevelPlaced ==
    ASSUME NEW shows \in BOOLEAN, NEW b, Sound(b, shows),
           NEW side \in Sides, NEW price, NEW level,
           NEW c, Relisted(b, c, side, price, level, shows)
    PROVE  /\ Sound(WithLevel(c, side, price, level), shows)
           /\ WithLevel(c, side, price, level).index = c.index
<1> DEFINE d == WithLevel(c, side, price, level)
<1> USE DEF Relisted
<1>1. /\ IsBook(d)
      /\ d.index = c.index
      /\ \A s \in Sides : s # side => d.levels[s] = b.levels[s]
      /\ level.orders = <<>> => DOMAIN d.levels[side] = DOMAIN b.levels[side] \ {price}
      /\ level.orders # <<>> => DOMAIN d.levels[side] = DOMAIN b.levels[side] \union {price}
      /\ level.orders # <<>> => d.levels[side][price] = level
      /\ \A p \in DOMAIN b.levels[side] :
             p # price => d.levels[side][p] = b.levels[side][p]
    <2>1. Replaced(c, d, side, price, level)
        BY WithLevelReplaces
    <2> HIDE DEF d
    <2> QED
        BY <2>1 DEF Replaced
<1> HIDE DEF d
<1>2. \A s \in Sides, p \in Nat : At(s, p) = At(side, price) <=> s = side /\ p = price
    BY DEF At
<1>3. ASSUME NEW s \in Sides, NEW p \in DOMAIN d.levels[s], s = side => p # price
      PROVE  /\ p \in DOMAIN b.levels[s]
             /\ d.levels[s][p] = b.levels[s][p]
             /\ p \in Nat \ {0}
             /\ At(s, p) # At(side, price)
    <2>1. p \in DOMAIN b.levels[s] /\ d.levels[s][p] = b.levels[s][p]
        <3>1. CASE s = side
            BY <1>1, <1>3, <3>1
        <3>2. CASE s # side
            BY <1>1, <3>2
        <3> QED
            BY <3>1, <3>2
    <2>2. p \in Nat \ {0}
        BY <2>1 DEF Sound
    <2> QED
        BY <1>2, <1>3, <2>1, <2>2
<1>4. ASSUME NEW s \in Sides, NEW p \in DOMAIN d.levels[s]
      PROVE  /\ p \in Nat \ {0}
             /\ d.levels[s][p] \in Levels
             /\ d.levels[s][p].orders # <<>>
             /\ LevelExact(d.levels[s][p], s, p, shows)
             /\ \A id \in Ids(d.levels[s][p].orders) :
                    id \in DOMAIN d.index /\ d.index[id] = At(s, p)
    <2>1. CASE s = side /\ p = price
        <3>1. level.orders # <<>> /\ d.levels[s][p] = level
            BY <1>1, <2>1
        <3> QED
            BY <1>1, <2>1, <3>1
    <2>2. CASE ~(s = side /\ p = price)
        <3>1. /\ p \in DOMAIN b.levels[s] /\ d.levels[s][p] = b.levels[s][p]
              /\ p \in Nat \ {0} /\ At(s, p) # At(side, price)
            BY <1>3, <2>2
        <3>2. /\ b.levels[s][p] \in Levels
              /\ b.levels[s][p].orders # <<>>
              /\ LevelExact(b.levels[s][p], s, p, shows)
              /\ \A id \in Ids(b.levels[s][p].orders) :
                     id \in DOMAIN b.index /\ b.index[id] = At(s, p)
            BY <3>1 DEF Sound
        <3>3. ASSUME NEW id \in Ids(b.levels[s][p].orders)
              PROVE  id \in DOMAIN d.index /\ d.index[id] = At(s, p)
            BY <1>1, <3>1, <3>2
        <3> QED
            BY <3>1, <3>2, <3>3
    <2> QED
        BY <2>1, <2>2
<1>5. ASSUME NEW id \in DOMAIN d.index
      PROVE  \E s \in Sides : \E p \in DOMAIN d.levels[s] :
                 d.index[id] = At(s, p) /\ id \in Ids(d.levels[s][p].orders)
    <2>1. CASE id \in Ids(level.orders)
        <3>1. level.orders # <<>>
            BY <2>1 DEF Ids
        <3>2. price \in DOMAIN d.levels[side] /\ d.levels[side][price] = level
            BY <1>1, <3>1
        <3>3. d.index[id] = At(side, price)
            BY <1>1, <2>1
        <3> QED
            BY <2>1, <3>2, <3>3
    <2>2. CASE /\ id \in DOMAIN b.index /\ b.index[id] # At(side, price)
               /\ d.index[id] = b.index[id]
        <3>1. PICK s \in Sides : \E p \in DOMAIN b.levels[s] :
                  b.index[id] = At(s, p) /\ id \in Ids(b.levels[s][p].orders)
            BY <2>2 DEF Sound
        <3>2. PICK p \in DOMAIN b.levels[s] :
                  b.index[id] = At(s, p) /\ id \in Ids(b.levels[s][p].orders)
            BY <3>1
        <3>3. ~(s = side /\ p = price)
            BY <2>2, <3>2
        <3>4. p \in DOMAIN d.levels[s] /\ d.levels[s][p] = b.levels[s][p]
            <4>1. CASE s = side
                BY <1>1, <3>3, <4>1
            <4>2. CASE s # side
                BY <1>1, <4>2
            <4> QED
                BY <4>1, <4>2
        <3> QED
            BY <2>2, <3>2, <3>4
    <2> QED
        BY <1>1, <2>1, <2>2
<1>6. Sound(d, shows)
    <2>1. DOMAIN d.index \subseteq 1..MaxOrders
        BY <1>1
    <2> QED
        BY <1>1, <1>4, <1>5, <2>1 DEF Sound
<1> QED
    BY <1>1, <1>6 DEF d

\* An empty queue holds and shows nothing.
LEMMA EmptyQueue ==
    /\ <<>> \in Seq(Waiting) /\ Distinct(<<>>) /\ Ids(<<>>) = {}
    /\ RemainingOf(<<>>) = 0 /\ ShownOf(<<>>) = 0
<1> DEFINE z == [a \in 1..0 |-> 0]
<1>1. SumTo(z, 0) = 0
    BY SumOfZeros
<1>2. Remainders(<<>>) = z /\ Visibles(<<>>) = z /\ Len(<<>>) = 0
    BY DEF Remainders, Visibles
<1> HIDE DEF z
<1>3. RemainingOf(<<>>) = 0 /\ ShownOf(<<>>) = 0
    BY <1>1, <1>2 DEF RemainingOf, ShownOf
<1>4. <<>> \in Seq(Waiting) /\ Distinct(<<>>) /\ Ids(<<>>) = {}
    BY DEF Distinct, Ids
<1> QED
    BY <1>3, <1>4

\* The level of a price, which is empty if there is none.
LEMMA LevelFound ==
    ASSUME NEW shows \in BOOLEAN, NEW b, Sound(b, shows), NEW side \in Sides,
           NEW price \in Nat \ {0}, NEW level, level = LevelAt(b, side, price)
    PROVE  /\ level \in Levels
           /\ LevelExact(level, side, price, shows)
           /\ \A id \in Ids(level.orders) :
                  id \in DOMAIN b.index /\ b.index[id] = At(side, price)
           /\ \A id \in DOMAIN b.index :
                  b.index[id] = At(side, price) => id \in Ids(level.orders)
<1>1. ASSUME NEW id \in DOMAIN b.index, b.index[id] = At(side, price)
      PROVE  price \in DOMAIN b.levels[side] /\ id \in Ids(b.levels[side][price].orders)
    <2>1. PICK s \in Sides : \E p \in DOMAIN b.levels[s] :
              b.index[id] = At(s, p) /\ id \in Ids(b.levels[s][p].orders)
        BY DEF Sound
    <2>2. PICK p \in DOMAIN b.levels[s] :
              b.index[id] = At(s, p) /\ id \in Ids(b.levels[s][p].orders)
        BY <2>1
    <2>3. s = side /\ p = price
        BY <1>1, <2>2 DEF At
    <2> QED
        BY <2>2, <2>3
<1>2. CASE price \in DOMAIN b.levels[side]
    <2>1. level = b.levels[side][price]
        BY <1>2 DEF LevelAt
    <2> QED
        BY <1>1, <1>2, <2>1 DEF Sound
<1>3. CASE price \notin DOMAIN b.levels[side]
    <2>1. level = [orders |-> <<>>, total |-> 0, visible |-> 0]
        BY <1>3 DEF LevelAt
    <2>2. level.orders = <<>> /\ level.total = 0 /\ level.visible = 0 /\ level \in Levels
        BY <2>1, EmptyQueue DEF Levels
    <2>3. LevelExact(level, side, price, shows)
        BY <2>2, EmptyQueue DEF LevelExact
    <2> QED
        BY <1>1, <1>3, <2>2, <2>3, EmptyQueue
<1> QED
    BY <1>2, <1>3

\* An order placed at the back of its level.
LEMMA PlacedSound ==
    ASSUME NEW shows \in BOOLEAN, NEW b, Sound(b, shows),
           NEW o \in Waiting, o.id \notin DOMAIN b.index
    PROVE  /\ Sound(Placed(b, o), shows)
           /\ DOMAIN Placed(b, o).index = DOMAIN b.index \union {o.id}
<1> DEFINE level == LevelAt(b, o.side, o.price)
           after == [orders |-> Queued(level.orders, o),
                     total |-> level.total + o.remaining,
                     visible |-> level.visible + Shown(o, o.remaining)]
           c == Indexed(b, o)
<1>1. /\ o.id \in 1..MaxOrders /\ o.side \in Sides /\ o.price \in Nat \ {0}
      /\ o.remaining \in Nat /\ Shown(o, o.remaining) \in Nat
    BY WaitingType
<1>2. /\ level \in Levels
      /\ LevelExact(level, o.side, o.price, shows)
      /\ \A id \in Ids(level.orders) :
             id \in DOMAIN b.index /\ b.index[id] = At(o.side, o.price)
      /\ \A id \in DOMAIN b.index :
             b.index[id] = At(o.side, o.price) => id \in Ids(level.orders)
    <2>1. level = LevelAt(b, o.side, o.price)
        OBVIOUS
    <2> HIDE DEF level
    <2> QED
        BY <1>1, <2>1, LevelFound
<1> HIDE DEF level
<1>3. /\ level.orders \in Seq(Waiting) /\ level.total \in Nat /\ level.visible \in Nat
      /\ Distinct(level.orders) /\ o.id \notin Ids(level.orders)
    BY <1>2 DEF Levels, LevelExact
<1>4. /\ Queued(level.orders, o) \in Seq(Waiting)
      /\ Distinct(Queued(level.orders, o))
      /\ Ids(Queued(level.orders, o)) = Ids(level.orders) \union {o.id}
      /\ \A i \in 1..Len(Queued(level.orders, o)) :
             \/ Queued(level.orders, o)[i] = o
             \/ \E j \in 1..Len(level.orders) : Queued(level.orders, o)[i] = level.orders[j]
      /\ RemainingOf(Queued(level.orders, o)) = RemainingOf(level.orders) + o.remaining
      /\ ShownOf(Queued(level.orders, o)) = ShownOf(level.orders) + Shown(o, o.remaining)
    BY <1>3, QueuedOrder
<1>5. /\ after.orders = Queued(level.orders, o)
      /\ after.total = level.total + o.remaining
      /\ after.visible = level.visible + Shown(o, o.remaining)
      /\ after \in Levels
    BY <1>1, <1>3, <1>4 DEF Levels
<1> HIDE DEF after
<1>6. LevelExact(after, o.side, o.price, shows)
    <2>1. ASSUME NEW i \in 1..Len(after.orders)
          PROVE  after.orders[i].side = o.side /\ after.orders[i].price = o.price
        BY <1>2, <1>4, <1>5 DEF LevelExact
    <2> QED
        BY <1>2, <1>4, <1>5, <2>1 DEF LevelExact
<1>7. /\ IsBook(c) /\ c.levels = b.levels
      /\ DOMAIN c.index = DOMAIN b.index \union {o.id}
      /\ c.index[o.id] = At(o.side, o.price)
      /\ \A id \in DOMAIN b.index : id # o.id => c.index[id] = b.index[id]
    <2> DEFINE index == [id \in DOMAIN b.index \union {o.id} |->
                            IF id = o.id THEN At(o.side, o.price) ELSE b.index[id]]
    <2>1. c = [b EXCEPT !.index = index]
        BY DEF Indexed, At
    <2>2. b = [levels |-> [side \in Sides |-> b.levels[side]], index |-> b.index]
        BY DEF Sound, IsBook
    <2>3. c.levels = b.levels /\ c.index = index
        <3> HIDE DEF index, c
        <3> QED
            BY <2>1, <2>2
    <2>4. IsBook(c)
        <3> HIDE DEF index, c
        <3> QED
            BY <2>1, <2>2 DEF IsBook
    <2> HIDE DEF c
    <2> QED
        BY <2>3, <2>4
<1> HIDE DEF c
<1>8. DOMAIN c.index \subseteq 1..MaxOrders
    BY <1>1, <1>7 DEF Sound
<1>9. \A id \in Ids(after.orders) : id \in DOMAIN c.index /\ c.index[id] = At(o.side, o.price)
    BY <1>2, <1>4, <1>5, <1>7
<1>10. \A id \in DOMAIN b.index :
           b.index[id] # At(o.side, o.price)
               => id \in DOMAIN c.index /\ c.index[id] = b.index[id]
    BY <1>7
<1>11. \A id \in DOMAIN c.index :
           \/ id \in Ids(after.orders)
           \/ /\ id \in DOMAIN b.index /\ b.index[id] # At(o.side, o.price)
              /\ c.index[id] = b.index[id]
    BY <1>2, <1>4, <1>5, <1>7
<1>12. /\ Sound(WithLevel(c, o.side, o.price, after), shows)
       /\ WithLevel(c, o.side, o.price, after).index = c.index
    <2>1. Relisted(b, c, o.side, o.price, after, shows)
        BY <1>1, <1>5, <1>6, <1>7, <1>8, <1>9, <1>10, <1>11 DEF Relisted
    <2>2. o.side \in Sides
        BY <1>1
    <2> QED
        BY ONLY <2>1, <2>2, LevelPlaced, Sound(b, shows), shows \in BOOLEAN
<1>13. Placed(b, o) = WithLevel(c, o.side, o.price, after)
    BY DEF Placed, c, after, level
<1> QED
    BY <1>7, <1>12, <1>13

\* The index without one order, and the levels as they were.
Unlisted(b, c, id) ==
    /\ IsBook(c) /\ c.levels = b.levels
    /\ DOMAIN c.index = DOMAIN b.index \ {id}
    /\ \A other \in DOMAIN b.index : other # id => c.index[other] = b.index[other]

(* Unindexed does just that. *)
LEMMA UnindexedUnlists ==
    ASSUME NEW b, IsBook(b), NEW id
    PROVE  Unlisted(b, Unindexed(b, id), id)
<1> DEFINE c == Unindexed(b, id)
           index == Restrict(b.index, DOMAIN b.index \ {id})
<1>1. c = [b EXCEPT !.index = index]
    BY DEF Unindexed
<1> HIDE DEF c
<1>2. b = [levels |-> [side \in Sides |-> b.levels[side]], index |-> b.index]
    BY DEF IsBook
<1>3. c.levels = b.levels /\ c.index = index /\ IsBook(c)
    <2> HIDE DEF index
    <2> QED
        BY <1>1, <1>2 DEF IsBook
<1>4. /\ DOMAIN index = DOMAIN b.index \ {id}
      /\ \A other \in DOMAIN b.index : other # id => index[other] = b.index[other]
    BY DEF Restrict
<1> HIDE DEF index
<1>5. Unlisted(b, c, id)
    BY <1>3, <1>4 DEF Unlisted
<1> QED
    BY <1>5 DEF c

\* A level, where it stands, and what its orders contribute to it.
Fitting(b, level, side, price, shows) ==
    /\ price \in Nat \ {0}
    /\ level \in Levels
    /\ level.orders \in Seq(Waiting) /\ level.total \in Nat /\ level.visible \in Nat
    /\ level.orders # <<>>
    /\ Distinct(level.orders)
    /\ LevelExact(level, side, price, shows)
    /\ \A i \in 1..Len(level.orders) :
           /\ level.orders[i] \in Waiting
           /\ level.orders[i].id \in DOMAIN b.index
           /\ b.index[level.orders[i].id] = At(side, price)
           /\ level.orders[i].remaining <= level.total
           /\ shows => Shown(level.orders[i], level.orders[i].remaining) <= level.visible

(* So are the levels of a sound book. *)
LEMMA LevelParts ==
    ASSUME NEW shows \in BOOLEAN, NEW b, Sound(b, shows), NEW side \in Sides,
           NEW price \in DOMAIN b.levels[side], NEW level, level = b.levels[side][price]
    PROVE  Fitting(b, level, side, price, shows)
<1>1. /\ price \in Nat \ {0}
      /\ level \in Levels
      /\ level.orders # <<>>
      /\ LevelExact(level, side, price, shows)
      /\ \A id \in Ids(level.orders) :
             id \in DOMAIN b.index /\ b.index[id] = At(side, price)
    BY DEF Sound
<1>2. /\ level.orders \in Seq(Waiting) /\ level.total \in Nat /\ level.visible \in Nat
      /\ Distinct(level.orders)
    BY <1>1 DEF Levels, LevelExact
<1>3. ASSUME NEW i \in 1..Len(level.orders)
      PROVE  /\ level.orders[i] \in Waiting
             /\ level.orders[i].id \in DOMAIN b.index
             /\ b.index[level.orders[i].id] = At(side, price)
             /\ level.orders[i].remaining <= level.total
             /\ shows => Shown(level.orders[i], level.orders[i].remaining) <= level.visible
    <2>1. level.orders[i] \in Waiting
        BY <1>2
    <2>2. level.orders[i].id \in Ids(level.orders)
        BY DEF Ids
    <2>3. /\ level.orders[i].remaining <= RemainingOf(level.orders)
          /\ Shown(level.orders[i], level.orders[i].remaining) <= ShownOf(level.orders)
        BY <1>2, QueueTotals
    <2> QED
        BY <1>1, <2>1, <2>2, <2>3 DEF LevelExact
<1> QED
    BY <1>1, <1>2, <1>3 DEF Fitting

\* Level after is this level without its order at place k, in its queue and in its totals.
Lacking(after, level, k, shows) ==
    /\ Without(after.orders, level.orders, k)
    /\ after.total = level.total - level.orders[k].remaining
    /\ shows => after.visible
                    = level.visible - Shown(level.orders[k], level.orders[k].remaining)

\* Level after is the level of this price without the order with this id.
OrderOut(b, side, price, after, id, shows) ==
    /\ price \in DOMAIN b.levels[side]
    /\ after \in Levels
    /\ \E k \in 1..Len(b.levels[side][price].orders) :
           /\ b.levels[side][price].orders[k].id = id
           /\ Lacking(after, b.levels[side][price], k, shows)

(* An order is taken out of its level and out of the index. *)
LEMMA TakenOutSound ==
    ASSUME NEW shows \in BOOLEAN, NEW b, Sound(b, shows), NEW side \in Sides,
           NEW price, NEW id, NEW after, OrderOut(b, side, price, after, id, shows)
    PROVE  /\ Sound(WithLevel(Unindexed(b, id), side, price, after), shows)
           /\ DOMAIN WithLevel(Unindexed(b, id), side, price, after).index
                  = DOMAIN b.index \ {id}
           /\ id \in DOMAIN b.index
<1> DEFINE c == Unindexed(b, id)
           level == b.levels[side][price]
<1>1. after \in Levels /\ price \in DOMAIN b.levels[side]
    BY DEF OrderOut
<1>2. PICK k \in 1..Len(level.orders) :
          /\ level.orders[k].id = id
          /\ Without(after.orders, level.orders, k)
          /\ after.total = level.total - level.orders[k].remaining
          /\ shows => after.visible
                          = level.visible - Shown(level.orders[k], level.orders[k].remaining)
    BY DEF OrderOut, Lacking
<1>3. /\ price \in Nat \ {0}
      /\ level.orders \in Seq(Waiting) /\ after.orders \in Seq(Waiting)
      /\ Distinct(level.orders)
      /\ LevelExact(level, side, price, shows)
      /\ id \in DOMAIN b.index /\ b.index[id] = At(side, price)
    <2>1. Fitting(b, level, side, price, shows)
        BY <1>1, LevelParts
    <2>2. after.orders \in Seq(Waiting)
        BY <1>1 DEF Levels
    <2>3. id \in DOMAIN b.index /\ b.index[id] = At(side, price)
        BY <1>2, <2>1 DEF Fitting
    <2> QED
        BY <2>1, <2>2, <2>3 DEF Fitting
<1>4. /\ Distinct(after.orders)
      /\ Ids(after.orders) = Ids(level.orders) \ {id}
      /\ \A i \in 1..Len(after.orders) :
             \E j \in 1..Len(level.orders) : after.orders[i] = level.orders[j]
      /\ RemainingOf(after.orders) = RemainingOf(level.orders) - level.orders[k].remaining
      /\ ShownOf(after.orders)
             = ShownOf(level.orders) - Shown(level.orders[k], level.orders[k].remaining)
    <2> DEFINE q == level.orders
               r == after.orders
    <2>1. q \in Seq(Waiting) /\ r \in Seq(Waiting) /\ Distinct(q) /\ k \in 1..Len(q)
          /\ Without(r, q, k) /\ q[k].id = id
        BY <1>2, <1>3
    <2> HIDE DEF q, r
    <2>2. /\ Distinct(r)
          /\ Ids(r) = Ids(q) \ {q[k].id}
          /\ \A i \in 1..Len(r) : \E j \in 1..Len(q) : r[i] = q[j]
          /\ RemainingOf(r) = RemainingOf(q) - q[k].remaining
          /\ ShownOf(r) = ShownOf(q) - Shown(q[k], q[k].remaining)
        BY ONLY <2>1, WithoutOrder
    <2> QED
        BY <2>1, <2>2 DEF q, r
<1>5. LevelExact(after, side, price, shows)
    <2>1. ASSUME NEW i \in 1..Len(after.orders)
          PROVE  after.orders[i].side = side /\ after.orders[i].price = price
        <3>1. PICK j \in 1..Len(level.orders) : after.orders[i] = level.orders[j]
            BY <1>4
        <3>2. level.orders[j].side = side /\ level.orders[j].price = price
            BY <1>3 DEF LevelExact
        <3> QED
            BY <3>1, <3>2
    <2> QED
        BY <1>2, <1>3, <1>4, <2>1 DEF LevelExact
<1>6. /\ IsBook(c) /\ c.levels = b.levels
      /\ DOMAIN c.index = DOMAIN b.index \ {id}
      /\ \A other \in DOMAIN b.index : other # id => c.index[other] = b.index[other]
    <2>1. Unlisted(b, c, id)
        BY UnindexedUnlists DEF Sound
    <2> HIDE DEF c
    <2> QED
        BY <2>1 DEF Unlisted
<1> HIDE DEF c
<1>7. DOMAIN c.index \subseteq 1..MaxOrders
    BY <1>6 DEF Sound
<1>8. \A other \in Ids(after.orders) :
          other \in DOMAIN c.index /\ c.index[other] = At(side, price)
    <2>1. \A other \in Ids(level.orders) :
              other \in DOMAIN b.index /\ b.index[other] = At(side, price)
        BY <1>1 DEF Sound
    <2> QED
        BY <1>4, <1>6, <2>1
<1>9. \A other \in DOMAIN b.index :
          b.index[other] # At(side, price)
              => other \in DOMAIN c.index /\ c.index[other] = b.index[other]
    BY <1>3, <1>6
<1>10. \A other \in DOMAIN c.index :
          \/ other \in Ids(after.orders)
          \/ /\ other \in DOMAIN b.index /\ b.index[other] # At(side, price)
             /\ c.index[other] = b.index[other]
    <2>1. level = LevelAt(b, side, price)
        BY <1>1 DEF LevelAt
    <2>2. \A other \in DOMAIN b.index :
              b.index[other] = At(side, price) => other \in Ids(level.orders)
        BY ONLY <1>3, <2>1, LevelFound, Sound(b, shows), shows \in BOOLEAN, side \in Sides
    <2> QED
        BY <1>4, <1>6, <2>2
<1>11. /\ Sound(WithLevel(c, side, price, after), shows)
      /\ WithLevel(c, side, price, after).index = c.index
    <2>1. Relisted(b, c, side, price, after, shows)
        BY <1>1, <1>3, <1>5, <1>6, <1>7, <1>8, <1>9, <1>10 DEF Relisted
    <2> QED
        BY ONLY <2>1, LevelPlaced, side \in Sides, Sound(b, shows), shows \in BOOLEAN
<1> QED
    BY <1>3, <1>6, <1>11 DEF c

\* A cancellation takes the order out.
LEMMA CancelledTakesOut ==
    ASSUME NEW shows \in BOOLEAN, NEW b, Sound(b, shows), NEW id \in DOMAIN b.index
    PROVE  \E side \in Sides : \E price, after :
               /\ OrderOut(b, side, price, after, id, shows)
               /\ Cancelled(b, id) = WithLevel(Unindexed(b, id), side, price, after)
<1>1. PICK side \in Sides : \E price \in DOMAIN b.levels[side] :
          b.index[id] = At(side, price) /\ id \in Ids(b.levels[side][price].orders)
    BY DEF Sound
<1>2. PICK price \in DOMAIN b.levels[side] :
          b.index[id] = At(side, price) /\ id \in Ids(b.levels[side][price].orders)
    BY <1>1
<1> DEFINE level == b.levels[side][price]
           k == PlaceOf(level.orders, id)
           o == level.orders[k]
           after == [orders |-> Removed(level.orders, k),
                     total |-> SaturatingSub(level.total, o.remaining),
                     visible |-> SaturatingSub(level.visible, Shown(o, o.remaining))]
<1>3. k \in 1..Len(level.orders) /\ level.orders[k].id = id
    BY <1>2 DEF PlaceOf, Ids
<1>4. Cancelled(b, id) = WithLevel(Unindexed(b, id), side, price, after)
    <2>1. LevelAt(b, side, price) = level
        BY DEF LevelAt
    <2>2. b.index[id].side = side /\ b.index[id].price = price
        BY <1>2 DEF At
    <2> QED
        BY <2>1, <2>2 DEF Cancelled
<1> HIDE DEF level, k
<1>5. /\ level.orders \in Seq(Waiting) /\ level.total \in Nat /\ level.visible \in Nat
      /\ o \in Waiting
      /\ o.remaining <= level.total
      /\ shows => Shown(o, o.remaining) <= level.visible
    <2>1. level = b.levels[side][price]
        BY DEF level
    <2> QED
        <3>1. Fitting(b, level, side, price, shows)
            BY <2>1, LevelParts
        <3> HIDE DEF after
        <3> QED
            BY <1>3, <3>1 DEF Fitting
<1>6. Removed(level.orders, k) \in Seq(Waiting) /\ Without(Removed(level.orders, k), level.orders, k)
    BY <1>3, <1>5, RemovedOrder
<1>7. o.remaining \in Nat /\ Shown(o, o.remaining) \in Nat
    BY <1>5, WaitingType
<1>8. /\ after.orders = Removed(level.orders, k)
      /\ after.total = level.total - o.remaining
      /\ shows => after.visible = level.visible - Shown(o, o.remaining)
      /\ after \in Levels
    BY <1>5, <1>6, <1>7 DEF SaturatingSub, Levels
<1> HIDE DEF after
<1>9. OrderOut(b, side, price, after, id, shows)
    <2>1. level = b.levels[side][price]
        BY DEF level
    <2>2. Lacking(after, level, k, shows)
        BY <1>3, <1>6, <1>8 DEF Lacking
    <2> QED
        BY <1>3, <1>8, <2>1, <2>2 DEF OrderOut
<1> QED
    BY <1>4, <1>9

\* So the book stays sound.
LEMMA CancelledSound ==
    ASSUME NEW shows \in BOOLEAN, NEW b, Sound(b, shows), NEW id \in DOMAIN b.index
    PROVE  /\ Sound(Cancelled(b, id), shows)
           /\ DOMAIN Cancelled(b, id).index = DOMAIN b.index \ {id}
<1>1. PICK side \in Sides : \E price, after :
          /\ OrderOut(b, side, price, after, id, shows)
          /\ Cancelled(b, id) = WithLevel(Unindexed(b, id), side, price, after)
    BY CancelledTakesOut
<1>2. PICK price, after :
          /\ OrderOut(b, side, price, after, id, shows)
          /\ Cancelled(b, id) = WithLevel(Unindexed(b, id), side, price, after)
    BY <1>1
<1> QED
    BY <1>2, TakenOutSound

-----------------------------------------------------------------------------
(* Matching *)

\* A set of naturals has a least member.
LEMMA LeastExists ==
    ASSUME NEW T \in SUBSET Nat, T # {}
    PROVE  \E p \in T : \A q \in T : p <= q
<1>1. PICK x \in T : \A y \in T : ~(<<y, x>> \in OpToRel(<, Nat))
    BY WFMin, NatLessThanWellFounded
<1>2. ASSUME NEW y \in T PROVE x <= y
    <2>1. x \in Nat /\ y \in Nat
        OBVIOUS
    <2>2. ASSUME y < x PROVE FALSE
        <3>1. <<y, x>> \in OpToRel(<, Nat)
            BY <2>1, <2>2 DEF OpToRel
        <3> QED
            BY <1>1, <3>1
    <2> QED
        BY <2>1, <2>2
<1> QED
    BY <1>2

\* And a greatest one if it is bounded.
LEMMA GreatestExists ==
    ASSUME NEW T \in SUBSET Nat, T # {}, NEW m \in Nat, \A q \in T : q <= m
    PROVE  \E p \in T : \A q \in T : q <= p
<1> DEFINE Below == {m - q : q \in T}
<1>1. Below \in SUBSET Nat /\ Below # {}
    <2>1. ASSUME NEW q \in T PROVE m - q \in Nat
        OBVIOUS
    <2> QED
        BY <2>1
<1>2. PICK x \in Below : \A y \in Below : x <= y
    <2> HIDE DEF Below
    <2> QED
        BY <1>1, LeastExists
<1>3. PICK p \in T : x = m - p
    OBVIOUS
<1>4. ASSUME NEW q \in T PROVE q <= p
    <2>1. m - p <= m - q
        BY <1>2, <1>3
    <2>2. p \in Nat /\ q \in Nat
        OBVIOUS
    <2> QED
        BY <2>1, <2>2
<1> QED
    BY <1>4

\* The prices of a book are bounded, as it holds finitely many orders.
LEMMA PricesBounded ==
    ASSUME NEW shows \in BOOLEAN, NEW b, Sound(b, shows)
    PROVE  \E m \in Nat : \A side \in Sides : \A p \in DOMAIN b.levels[side] : p <= m
<1> DEFINE S == {n \in Nat : \E m \in Nat :
                   \A id \in DOMAIN b.index : id <= n => b.index[id].price <= m}
<1>1. \A id \in DOMAIN b.index : id \in 1..MaxOrders /\ b.index[id].price \in Nat
    <2>1. ASSUME NEW id \in DOMAIN b.index PROVE b.index[id].price \in Nat
        <3>1. PICK side \in Sides : \E price \in DOMAIN b.levels[side] :
                  b.index[id] = At(side, price)
            BY DEF Sound
        <3>2. PICK price \in DOMAIN b.levels[side] : b.index[id] = At(side, price)
            BY <3>1
        <3>3. price \in Nat
            BY DEF Sound
        <3> QED
            BY <3>2, <3>3 DEF At
    <2> QED
        BY <2>1 DEF Sound
<1>2. 0 \in S
    <2>1. \A id \in DOMAIN b.index : id <= 0 => b.index[id].price <= 0
        BY <1>1
    <2> QED
        BY <2>1
<1>3. ASSUME NEW n \in Nat, n \in S PROVE n + 1 \in S
    <2>1. PICK m \in Nat : \A id \in DOMAIN b.index : id <= n => b.index[id].price <= m
        BY <1>3
    <2>2. CASE n + 1 \in DOMAIN b.index
        <3> DEFINE k == m + b.index[n + 1].price
        <3>1. k \in Nat /\ m <= k /\ b.index[n + 1].price <= k
            BY <1>1, <2>2
        <3> HIDE DEF k
        <3>2. ASSUME NEW id \in DOMAIN b.index, id <= n + 1 PROVE b.index[id].price <= k
            <4>1. CASE id = n + 1
                BY <3>1, <4>1
            <4>2. CASE id # n + 1
                <5>1. id <= n
                    BY <1>1, <3>2, <4>2
                <5>2. b.index[id].price <= m /\ b.index[id].price \in Nat
                    BY <1>1, <2>1, <5>1
                <5> QED
                    BY <3>1, <5>2
            <4> QED
                BY <4>1, <4>2
        <3> QED
            BY <3>1, <3>2
    <2>3. CASE n + 1 \notin DOMAIN b.index
        <3>1. \A id \in DOMAIN b.index : id <= n + 1 => id <= n
            BY <1>1, <2>3
        <3> QED
            BY <2>1, <3>1
    <2> QED
        BY <2>2, <2>3
<1>4. MaxOrders \in Nat
    BY MarketAssumption
<1>5. MaxOrders \in S
    <2> HIDE DEF S
    <2> QED
        BY <1>2, <1>3, <1>4, NatSets
<1>6. PICK m \in Nat : \A id \in DOMAIN b.index : id <= MaxOrders => b.index[id].price <= m
    BY <1>5
<1>7. ASSUME NEW side \in Sides, NEW p \in DOMAIN b.levels[side] PROVE p <= m
    <2> DEFINE level == b.levels[side][p]
    <2>1. level.orders # <<>> /\ level.orders \in Seq(Waiting)
        <3>1. level = b.levels[side][p]
            OBVIOUS
        <3> HIDE DEF level
        <3>2. Fitting(b, level, side, p, shows)
            BY <3>1, LevelParts
        <3> QED
            BY <3>2 DEF Fitting
    <2>2. level.orders[1].id \in Ids(level.orders)
        BY <2>1 DEF Ids
    <2>3. level.orders[1].id \in DOMAIN b.index /\ b.index[level.orders[1].id] = At(side, p)
        BY <2>2 DEF Sound
    <2> HIDE DEF level
    <2>4. b.index[level.orders[1].id].price = p
        BY <2>3 DEF At
    <2> QED
        BY <1>1, <1>4, <1>6, <2>3, <2>4
<1> QED
    BY <1>7

\* A side with orders has a best price.
LEMMA BestFound ==
    ASSUME NEW shows \in BOOLEAN, NEW b, Sound(b, shows), NEW side \in Sides,
           HasOrders(b, side)
    PROVE  /\ BestPrice(b, side) \in DOMAIN b.levels[side]
           /\ \A q \in DOMAIN b.levels[side] :
                  BestPrice(b, side) = q \/ Better(side, BestPrice(b, side), q)
<1> DEFINE T == DOMAIN b.levels[side]
<1>1. T \in SUBSET Nat /\ T # {}
    BY DEF Sound, HasOrders
<1>2. \E p \in T : \A q \in T : p = q \/ Better(side, p, q)
    <2>1. CASE side = "buy"
        <3>1. PICK m \in Nat : \A q \in T : q <= m
            BY PricesBounded
        <3> HIDE DEF T
        <3>2. PICK p \in T : \A q \in T : q <= p
            BY <1>1, <3>1, GreatestExists
        <3>3. \A q \in T : p = q \/ p > q
            BY <1>1, <3>2
        <3> QED
            BY <2>1, <3>3 DEF Better
    <2>2. CASE side # "buy"
        <3> HIDE DEF T
        <3>1. PICK p \in T : \A q \in T : p <= q
            BY <1>1, LeastExists
        <3>2. \A q \in T : p = q \/ p < q
            BY <1>1, <3>1
        <3> QED
            BY <2>2, <3>2 DEF Better
    <2> QED
        BY <2>1, <2>2
<1>3. BestPrice(b, side) = CHOOSE p \in T : \A q \in T : p = q \/ Better(side, p, q)
    BY DEF BestPrice
<1> HIDE DEF T
<1>4. /\ BestPrice(b, side) \in T
      /\ \A q \in T : BestPrice(b, side) = q \/ Better(side, BestPrice(b, side), q)
    BY <1>2, <1>3
<1> QED
    BY <1>4 DEF T

\* The front order of a side, and its place.
LEMMA FrontFound ==
    ASSUME NEW shows \in BOOLEAN, NEW b, Sound(b, shows), NEW side \in Sides,
           HasOrders(b, side)
    PROVE  /\ BestPrice(b, side) \in DOMAIN b.levels[side]
           /\ Front(b, side) = b.levels[side][BestPrice(b, side)].orders[1]
           /\ Front(b, side) \in Waiting
           /\ Front(b, side).id \in DOMAIN b.index
<1> DEFINE price == BestPrice(b, side)
           level == b.levels[side][price]
<1>1. price \in DOMAIN b.levels[side]
    BY BestFound
<1> HIDE DEF price
<1>2. /\ level.orders \in Seq(Waiting) /\ level.orders # <<>>
      /\ \A i \in 1..Len(level.orders) :
             level.orders[i] \in Waiting /\ level.orders[i].id \in DOMAIN b.index
    <2>1. level = b.levels[side][price]
        OBVIOUS
    <2> HIDE DEF level
    <2>2. Fitting(b, level, side, price, shows)
        BY <1>1, <2>1, LevelParts
    <2> QED
        BY <2>2 DEF Fitting
<1>3. Front(b, side) = Head(level.orders)
    BY DEF Front, price
<1> HIDE DEF level
<1>4. Head(level.orders) = level.orders[1] /\ 1 \in 1..Len(level.orders)
    BY <1>2
<1>5. level.orders[1] \in Waiting /\ level.orders[1].id \in DOMAIN b.index
    BY <1>2, <1>4
<1> QED
    BY <1>1, <1>3, <1>4, <1>5 DEF price, level

\* Book c is b after its front order on this side was filled: in whole, it is out; in part,
\* its level has less of it.
FilledWith(b, c, side, price, front, qty, left, shows) ==
    IF qty = front.remaining
    THEN /\ OrderOut(b, side, price, left, front.id, shows)
         /\ c = WithLevel(Unindexed(b, front.id), side, price, left)
    ELSE /\ Relisted(b, b, side, price, left, shows)
         /\ left.orders = [b.levels[side][price].orders EXCEPT
                               ![1].remaining = front.remaining - qty]
         /\ c = WithLevel(b, side, price, left)

(* So is a book after a fill of qty. *)
LEMMA FrontFilledFills ==
    ASSUME NEW shows \in BOOLEAN, NEW b, Sound(b, shows), NEW side \in Sides,
           HasOrders(b, side), NEW qty \in 1..Front(b, side).remaining
    PROVE  \E left : FilledWith(b, FrontFilled(b, side, qty, shows), side, BestPrice(b, side),
                                Front(b, side), qty, left, shows)
<1> DEFINE price == BestPrice(b, side)
           level == b.levels[side][price]
           front == Front(b, side)
           rest == SaturatingSub(front.remaining, qty)
           shown == IF shows THEN Shown(front, qty) ELSE 0
           left == [orders |-> IF rest = 0 THEN Tail(level.orders)
                               ELSE [level.orders EXCEPT ![1].remaining = rest],
                    total |-> SaturatingSub(level.total, qty),
                    visible |-> SaturatingSub(level.visible, shown)]
<1>1. FrontFilled(b, side, qty, shows)
          = WithLevel(IF rest = 0 THEN Unindexed(b, front.id) ELSE b, side, price, left)
    BY DEF FrontFilled
<1>2. /\ price \in DOMAIN b.levels[side] /\ front = level.orders[1] /\ front \in Waiting
      /\ front.id \in DOMAIN b.index
    BY FrontFound
<1> HIDE DEF price, front
<1>3. /\ price \in Nat \ {0}
      /\ level.orders \in Seq(Waiting) /\ level.total \in Nat /\ level.visible \in Nat
      /\ level.orders # <<>>
      /\ Distinct(level.orders)
      /\ LevelExact(level, side, price, shows)
      /\ 1 \in 1..Len(level.orders)
      /\ front.remaining <= level.total
      /\ shows => Shown(front, front.remaining) <= level.visible
    <2>1. level = b.levels[side][price]
        OBVIOUS
    <2> HIDE DEF level
    <2>2. Fitting(b, level, side, price, shows)
        BY <1>2, <2>1, LevelParts
    <2>3. 1 \in 1..Len(level.orders)
        BY <2>2 DEF Fitting
    <2> HIDE DEF shown, rest
    <2> QED
        BY <1>2, <2>2, <2>3 DEF Fitting
<1>4. /\ front.remaining \in Nat \ {0} /\ qty \in Nat \ {0} /\ qty <= front.remaining
      /\ rest = front.remaining - qty /\ rest \in Nat
      /\ Shown(front, qty) \in Nat /\ Shown(front, qty) <= Shown(front, front.remaining)
    <2>1. front.remaining \in Nat \ {0} /\ qty \in Nat \ {0} /\ qty <= front.remaining
        BY <1>2, WaitingType DEF front
    <2>2. rest = front.remaining - qty /\ rest \in Nat
        BY <2>1 DEF SaturatingSub
    <2>3. Shown(front, qty) \in Nat /\ Shown(front, qty) <= Shown(front, front.remaining)
        BY <2>1 DEF Shown
    <2> QED
        BY <2>1, <2>2, <2>3
<1>5. left.total = level.total - qty /\ left.total \in Nat
    <2>1. left.total = SaturatingSub(level.total, qty)
        OBVIOUS
    <2> HIDE DEF left, rest, level
    <2> QED
        BY <1>3, <1>4, <2>1 DEF SaturatingSub
<1>6. left.visible \in Nat /\ (shows => left.visible = level.visible - Shown(front, qty))
    <2>1. Shown(front, front.remaining) \in Nat
        BY <1>2, WaitingType
    <2> QED
        BY <1>3, <1>4, <2>1 DEF SaturatingSub
<1>7. CASE rest = 0
    <2>1. left.orders = Tail(level.orders)
        BY <1>7
    <2>2. Tail(level.orders) \in Seq(Waiting) /\ Without(Tail(level.orders), level.orders, 1)
        BY <1>3, RemovedOrder
    <2>3. left \in Levels
        BY <1>5, <1>6, <2>1, <2>2 DEF Levels
    <2>4. qty = front.remaining
        BY <1>4, <1>7
    <2>5. level = b.levels[side][price]
        OBVIOUS
    <2> HIDE DEF left, level, rest, shown
    <2>6. OrderOut(b, side, price, left, front.id, shows)
        <3>1. Lacking(left, level, 1, shows)
            BY <1>2, <1>5, <1>6, <2>1, <2>2, <2>4 DEF Lacking
        <3> QED
            BY <1>2, <1>3, <2>3, <2>5, <3>1 DEF OrderOut
    <2>7. FilledWith(b, FrontFilled(b, side, qty, shows), side, price, front, qty, left, shows)
        BY <1>1, <1>7, <2>4, <2>6 DEF FilledWith
    <2> QED
        BY <2>7 DEF price, front
<1>8. CASE rest # 0
    <2>1. left.orders = [level.orders EXCEPT ![1].remaining = rest]
        BY <1>8
    <2>2. rest \in Nat \ {0} /\ rest <= level.orders[1].remaining
        BY <1>2, <1>4, <1>8
    <2> HIDE DEF rest
    <2>3. /\ left.orders \in Seq(Waiting) /\ Len(left.orders) = Len(level.orders)
          /\ Distinct(left.orders)
          /\ Ids(left.orders) = Ids(level.orders)
          /\ \A i \in 1..Len(level.orders) :
                 /\ left.orders[i].side = level.orders[i].side
                 /\ left.orders[i].price = level.orders[i].price
          /\ RemainingOf(left.orders) = RemainingOf(level.orders) - front.remaining + rest
          /\ ShownOf(left.orders)
                 = ShownOf(level.orders) - Shown(front, front.remaining) + Shown(front, rest)
        <3> DEFINE q == level.orders
                   r == [q EXCEPT ![1].remaining = rest]
        <3>1. q \in Seq(Waiting) /\ q # <<>> /\ Distinct(q) /\ rest <= q[1].remaining
            BY <1>3, <2>2
        <3>2. front = q[1] /\ left.orders = r
            BY <1>2, <2>1
        <3> HIDE DEF q
        <3>3. Reduced(r, q, rest)
            BY <2>2, <3>1, ReducedOrder
        <3> HIDE DEF r, left
        <3> QED
            BY <3>2, <3>3 DEF Reduced, q
    <2>4. left \in Levels
        BY <1>5, <1>6, <2>3 DEF Levels
    <2> HIDE DEF left
    <2>5. LevelExact(left, side, price, shows)
        <3>1. left.total = RemainingOf(left.orders)
            <4>1. level.total = RemainingOf(level.orders)
                BY <1>3 DEF LevelExact
            <4> QED
                BY <1>3, <1>4, <1>5, <2>3, <4>1
        <3>2. shows => left.visible = ShownOf(left.orders)
            <4>1. shows => level.visible = ShownOf(level.orders)
                BY <1>3 DEF LevelExact
            <4>2. Shown(front, qty) = Shown(front, front.remaining) - Shown(front, rest)
                BY <1>4 DEF Shown
            <4>3. /\ Shown(front, front.remaining) \in Int /\ Shown(front, rest) \in Int
                  /\ level.visible \in Int
                BY <1>3, <1>4 DEF Shown
            <4> QED
                BY <1>6, <2>3, <4>1, <4>2, <4>3
        <3>3. \A i \in 1..Len(left.orders) :
                  left.orders[i].side = side /\ left.orders[i].price = price
            BY <1>3, <2>3 DEF LevelExact
        <3> QED
            BY <2>3, <3>1, <3>2, <3>3 DEF LevelExact
    <2>6. /\ IsBook(b) /\ DOMAIN b.index \subseteq 1..MaxOrders
          /\ \A id \in Ids(level.orders) : id \in DOMAIN b.index /\ b.index[id] = At(side, price)
        BY <1>2 DEF Sound
    <2>7. \A id \in DOMAIN b.index :
              b.index[id] = At(side, price) => id \in Ids(level.orders)
        <3>1. level = LevelAt(b, side, price)
            BY <1>2 DEF LevelAt
        <3> HIDE DEF level
        <3> QED
            BY <1>3, <3>1, LevelFound
    <2> HIDE DEF level
    <2>8. Relisted(b, b, side, price, left, shows)
        BY <1>3, <2>3, <2>4, <2>5, <2>6, <2>7 DEF Relisted
    <2>9. FilledWith(b, FrontFilled(b, side, qty, shows), side, price, front, qty, left, shows)
        <3>1. left.orders = [b.levels[side][price].orders EXCEPT
                                ![1].remaining = front.remaining - qty]
            BY <1>4, <2>1 DEF level
        <3>2. qty # front.remaining
            BY <1>4, <1>8
        <3> QED
            BY <1>1, <1>8, <2>8, <3>1, <3>2 DEF FilledWith
    <2> QED
        BY <2>9 DEF price, front
<1> QED
    BY <1>7, <1>8

\* The front order of a side is filled, in whole or in part, and the book stays sound.
LEMMA FrontFilledSound ==
    ASSUME NEW shows \in BOOLEAN, NEW b, Sound(b, shows), NEW side \in Sides,
           HasOrders(b, side), NEW qty \in 1..Front(b, side).remaining
    PROVE  /\ Sound(FrontFilled(b, side, qty, shows), shows)
           /\ DOMAIN FrontFilled(b, side, qty, shows).index
                  = DOMAIN b.index \ (IF qty = Front(b, side).remaining
                                      THEN {Front(b, side).id} ELSE {})
<1> DEFINE c == FrontFilled(b, side, qty, shows)
           front == Front(b, side)
           price == BestPrice(b, side)
<1>1. PICK left : FilledWith(b, c, side, price, front, qty, left, shows)
    BY FrontFilledFills
<1> HIDE DEF c, front, price
<1>2. CASE qty = front.remaining
    <2>1. /\ OrderOut(b, side, price, left, front.id, shows)
          /\ c = WithLevel(Unindexed(b, front.id), side, price, left)
        BY <1>1, <1>2 DEF FilledWith
    <2>2. Sound(c, shows) /\ DOMAIN c.index = DOMAIN b.index \ {front.id}
        BY <2>1, TakenOutSound
    <2> QED
        BY <1>2, <2>2 DEF c, front
<1>3. CASE qty # front.remaining
    <2>1. Relisted(b, b, side, price, left, shows) /\ c = WithLevel(b, side, price, left)
        BY <1>1, <1>3 DEF FilledWith
    <2>2. Sound(c, shows) /\ c.index = b.index
        BY ONLY <2>1, LevelPlaced, side \in Sides, Sound(b, shows), shows \in BOOLEAN
    <2> QED
        BY <1>3, <2>2 DEF c, front
<1> QED
    BY <1>2, <1>3

\* What the rounds of a taker keep: a sound book, with no order that was not on it before,
\* and a rest of the taker that is none of its own making.
Running(t, b, taker, shows) ==
    /\ Sound(t.book, shows)
    /\ DOMAIN t.book.index \subseteq DOMAIN b.index
    /\ t.remaining \in 0..taker.remaining

LEMMA RoundKeeps ==
    ASSUME NEW shows \in BOOLEAN, NEW b, NEW taker, taker.side \in Sides,
           taker.remaining \in Nat, NEW t, Running(t, b, taker, shows)
    PROVE  Running(MatchRound(t, taker, shows), b, taker, shows)
<1> DEFINE side == Opposite(taker.side)
           maker == Front(t.book, side)
           qty == MinQty(t.remaining, maker.remaining)
           next == MatchRound(t, taker, shows)
<1>1. side \in Sides /\ t.remaining \in 0..taker.remaining
    BY DEF Opposite, Sides, Running
<1>2. CASE \/ t.remaining = 0 \/ ~HasOrders(t.book, side)
           \/ ~Reaches(taker, BestPrice(t.book, side))
    <2>1. next = t
        BY <1>2 DEF MatchRound
    <2> QED
        BY <2>1
<1>3. CASE ~(\/ t.remaining = 0 \/ ~HasOrders(t.book, side)
             \/ ~Reaches(taker, BestPrice(t.book, side)))
    <2>1. /\ next.book = FrontFilled(t.book, side, qty, shows)
          /\ next.remaining = t.remaining - qty
        <3>1. next = [book |-> FrontFilled(t.book, side, qty, shows),
                      remaining |-> t.remaining - qty,
                      trades |-> Append(t.trades, [maker |-> maker.id, taker |-> taker.id,
                                                   price |-> maker.price, quantity |-> qty])]
            BY <1>3 DEF MatchRound
        <3> HIDE DEF next, side, maker, qty
        <3> QED
            BY <3>1
    <2> HIDE DEF next, side
    <2>2. maker \in Waiting /\ Sound(t.book, shows) /\ HasOrders(t.book, side)
        BY <1>1, <1>3, FrontFound DEF Running
    <2> HIDE DEF maker
    <2>3. maker.remaining \in Nat \ {0}
        BY <2>2, WaitingType
    <2>4. qty \in 1..maker.remaining /\ qty <= t.remaining
        BY <1>1, <1>3, <2>3 DEF MinQty
    <2> HIDE DEF qty
    <2>5. /\ Sound(FrontFilled(t.book, side, qty, shows), shows)
          /\ DOMAIN FrontFilled(t.book, side, qty, shows).index \subseteq DOMAIN t.book.index
        BY <1>1, <2>2, <2>4, FrontFilledSound DEF maker
    <2>6. t.remaining - qty \in 0..taker.remaining
        BY <1>1, <2>3, <2>4
    <2>7. Running(next, b, taker, shows)
        BY <2>1, <2>5, <2>6 DEF Running
    <2> QED
        BY <2>7 DEF next
<1> QED
    BY <1>2, <1>3

\* after[i] is what i rounds make of the book and the taker.
Rounds(after, n, b, taker, shows) ==
    after = [i \in 0..n |->
                IF i = 0 THEN [book |-> b, remaining |-> taker.remaining, trades |-> <<>>]
                ELSE MatchRound(after[i - 1], taker, shows)]

LEMMA RoundsExist ==
    ASSUME NEW shows, NEW b, NEW taker, NEW n \in Nat
    PROVE  \E after : Rounds(after, n, b, taker, shows)
<1> DEFINE S == {m \in Nat : \E after : Rounds(after, m, b, taker, shows)}
           start == [book |-> b, remaining |-> taker.remaining, trades |-> <<>>]
<1>1. 0 \in S
    <2> DEFINE f == [i \in 0..0 |-> start]
    <2>1. Rounds(f, 0, b, taker, shows)
        <3>1. \A i \in 0..0 : i = 0
            OBVIOUS
        <3> HIDE DEF start
        <3>2. f = [i \in 0..0 |-> IF i = 0 THEN start ELSE MatchRound(f[i - 1], taker, shows)]
            BY <3>1
        <3> QED
            BY <3>2 DEF Rounds, start
    <2> QED
        <3> HIDE DEF f
        <3> QED
            BY <2>1
<1>2. ASSUME NEW m \in Nat, m \in S PROVE m + 1 \in S
    <2>1. PICK f : Rounds(f, m, b, taker, shows)
        BY <1>2
    <2> DEFINE g == [i \in 0..m + 1 |->
                       IF i <= m THEN f[i] ELSE MatchRound(f[m], taker, shows)]
    <2>2. ASSUME NEW i \in 0..m
          PROVE  f[i] = IF i = 0 THEN start ELSE MatchRound(f[i - 1], taker, shows)
        BY <2>1 DEF Rounds
    <2> HIDE DEF start
    <2>3. ASSUME NEW i \in 0..m + 1
          PROVE  g[i] = IF i = 0 THEN start ELSE MatchRound(g[i - 1], taker, shows)
        <3>1. CASE i <= m
            <4>1. i \in 0..m
                BY <3>1
            <4>2. g[i] = f[i] /\ (i # 0 => g[i - 1] = f[i - 1])
                BY <4>1
            <4> HIDE DEF g
            <4> QED
                BY <2>2, <4>1, <4>2
        <3>2. CASE i = m + 1
            <4>1. g[i] = MatchRound(f[m], taker, shows) /\ g[i - 1] = f[m] /\ i # 0
                BY <3>2
            <4> HIDE DEF g
            <4> QED
                BY <4>1
        <3> QED
            BY <3>1, <3>2
    <2>4. g = [i \in 0..m + 1 |->
                  IF i = 0 THEN start ELSE MatchRound(g[i - 1], taker, shows)]
        <3>1. g = [i \in 0..m + 1 |-> g[i]]
            OBVIOUS
        <3> HIDE DEF g
        <3> QED
            BY <2>3, <3>1
    <2>5. Rounds(g, m + 1, b, taker, shows)
        BY <2>4 DEF Rounds, start
    <2> HIDE DEF g
    <2> QED
        BY <2>5
<1> HIDE DEF S
<1>3. n \in S
    BY <1>1, <1>2, NatSets
<1> QED
    BY <1>3 DEF S

\* Any number of rounds keeps what one keeps.
LEMMA RoundsKeep ==
    ASSUME NEW shows \in BOOLEAN, NEW b, Sound(b, shows),
           NEW taker, taker.side \in Sides, taker.remaining \in Nat,
           NEW n \in Nat, NEW after, Rounds(after, n, b, taker, shows)
    PROVE  Running(after[n], b, taker, shows)
<1> DEFINE S == {m \in Nat : m <= n => Running(after[m], b, taker, shows)}
           start == [book |-> b, remaining |-> taker.remaining, trades |-> <<>>]
<1>1. ASSUME NEW i \in 0..n
      PROVE  after[i] = IF i = 0 THEN start ELSE MatchRound(after[i - 1], taker, shows)
    BY DEF Rounds
<1>2. Running(start, b, taker, shows)
    BY DEF Running
<1> HIDE DEF start
<1>3. 0 \in S
    <2>1. after[0] = start
        BY <1>1
    <2> QED
        BY <1>2, <2>1
<1>4. ASSUME NEW m \in Nat, m \in S PROVE m + 1 \in S
    <2>1. SUFFICES ASSUME m + 1 <= n PROVE Running(after[m + 1], b, taker, shows)
        OBVIOUS
    <2>2. Running(after[m], b, taker, shows)
        BY <1>4, <2>1
    <2>3. after[m + 1] = MatchRound(after[m], taker, shows)
        BY <1>1, <2>1
    <2> QED
        BY <2>2, <2>3, RoundKeeps
<1> HIDE DEF S
<1>5. n \in S
    BY <1>3, <1>4, NatSets
<1> QED
    BY <1>5 DEF S

\* There are finitely many orders on a book.
LEMMA IndexFinite ==
    ASSUME NEW shows, NEW b, Sound(b, shows)
    PROVE  IsFiniteSet(DOMAIN b.index) /\ Cardinality(DOMAIN b.index) \in Nat
<1>1. MaxOrders \in Nat /\ DOMAIN b.index \subseteq 1..MaxOrders
    BY MarketAssumption DEF Sound
<1>2. IsFiniteSet(1..MaxOrders)
    BY <1>1, FS_Interval
<1> QED
    BY <1>1, <1>2, FS_Subset, FS_CardinalityType

-----------------------------------------------------------------------------
(* The engines: each has the operators of PriceLevels under its own name *)

LEMMA SamePlacing ==
    ASSUME NEW b, NEW o
    PROVE  Rust!Placed(b, o) = Placed(b, o) /\ Api!Placed(b, o) = Placed(b, o)
<1>1. Rust!Placed(b, o) = Placed(b, o)
    BY DEF Rust!Placed, Rust!LevelAt, Rust!WithLevel, Rust!Indexed, Rust!Shown, Rust!Queued,
           Rust!Restrict, Placed, LevelAt, WithLevel, Indexed, Shown, Queued, Restrict
<1>2. Api!Placed(b, o) = Placed(b, o)
    BY DEF Api!Placed, Api!LevelAt, Api!WithLevel, Api!Indexed, Api!Shown, Api!Queued,
           Api!Restrict, Placed, LevelAt, WithLevel, Indexed, Shown, Queued, Restrict
<1> QED
    BY <1>1, <1>2

LEMMA SameCancelling ==
    ASSUME NEW b, NEW id
    PROVE  Rust!Cancelled(b, id) = Cancelled(b, id) /\ Api!Cancelled(b, id) = Cancelled(b, id)
<1>1. Rust!Cancelled(b, id) = Cancelled(b, id)
    BY DEF Rust!Cancelled, Rust!LevelAt, Rust!PlaceOf, Rust!WithLevel, Rust!Unindexed,
           Rust!Shown, Rust!Removed, Rust!SaturatingSub, Rust!Restrict,
           Cancelled, LevelAt, PlaceOf, WithLevel, Unindexed, Shown, Removed, SaturatingSub,
           Restrict
<1>2. Api!Cancelled(b, id) = Cancelled(b, id)
    BY DEF Api!Cancelled, Api!LevelAt, Api!PlaceOf, Api!WithLevel, Api!Unindexed,
           Api!Shown, Api!Removed, Api!SaturatingSub, Api!Restrict,
           Cancelled, LevelAt, PlaceOf, WithLevel, Unindexed, Shown, Removed, SaturatingSub,
           Restrict
<1> QED
    BY <1>1, <1>2

LEMMA SameRound ==
    ASSUME NEW t, NEW taker, NEW shows
    PROVE  /\ Rust!MatchRound(t, taker, shows) = MatchRound(t, taker, shows)
           /\ Api!MatchRound(t, taker, shows) = MatchRound(t, taker, shows)
<1>1. Rust!MatchRound(t, taker, shows) = MatchRound(t, taker, shows)
    BY DEF Rust!MatchRound, Rust!Opposite, Rust!Front, Rust!MinQty, Rust!HasOrders,
           Rust!Reaches, Rust!BestPrice, Rust!FrontFilled, Rust!Better, Rust!SaturatingSub,
           Rust!WithLevel, Rust!Unindexed, Rust!Restrict, Rust!Shown,
           MatchRound, Opposite, Front, MinQty, HasOrders, Reaches, BestPrice, FrontFilled,
           Better, SaturatingSub, WithLevel, Unindexed, Restrict, Shown
<1>2. Api!MatchRound(t, taker, shows) = MatchRound(t, taker, shows)
    BY DEF Api!MatchRound, Api!Opposite, Api!Front, Api!MinQty, Api!HasOrders,
           Api!Reaches, Api!BestPrice, Api!FrontFilled, Api!Better, Api!SaturatingSub,
           Api!WithLevel, Api!Unindexed, Api!Restrict, Api!Shown,
           MatchRound, Opposite, Front, MinQty, HasOrders, Reaches, BestPrice, FrontFilled,
           Better, SaturatingSub, WithLevel, Unindexed, Restrict, Shown
<1> QED
    BY <1>1, <1>2

LEMMA SameContents ==
    ASSUME NEW b, NEW q
    PROVE  /\ Rust!RemainingOf(q) = RemainingOf(q)
           /\ Api!ShownOf(q) = ShownOf(q)
           /\ Rust!OrdersIn(b) = OrdersIn(b)
           /\ Api!OrdersIn(b) = OrdersIn(b)
<1>1. Rust!RemainingOf(q) = RemainingOf(q)
    BY DEF Rust!RemainingOf, Rust!Remainders, Rust!SumTo, Rust!PartialSums,
           RemainingOf, Remainders, SumTo, PartialSums
<1>2. Api!ShownOf(q) = ShownOf(q)
    BY DEF Api!ShownOf, Api!Visibles, Api!SumTo, Api!PartialSums, Api!Shown,
           ShownOf, Visibles, SumTo, PartialSums, Shown
<1>3. Rust!OrdersIn(b) = OrdersIn(b)
    BY DEF Rust!OrdersIn, Rust!OrdersAt, Rust!Range, Rust!Sides,
           OrdersIn, OrdersAt, Range, Sides
<1>4. Api!OrdersIn(b) = OrdersIn(b)
    BY DEF Api!OrdersIn, Api!OrdersAt, Api!Range, Api!Sides,
           OrdersIn, OrdersAt, Range, Sides
<1> QED
    BY <1>1, <1>2, <1>3, <1>4

\* Matching in either engine is as many rounds as there are orders on the book.
LEMMA MatchedInRounds ==
    ASSUME NEW shows, NEW b, NEW taker, Sound(b, shows), NEW n, n = Cardinality(DOMAIN b.index)
    PROVE  /\ n \in Nat
           /\ \E f : Rounds(f, n, b, taker, shows) /\ Rust!Matched(b, taker, shows) = f[n]
           /\ \E f : Rounds(f, n, b, taker, shows) /\ Api!Matched(b, taker, shows) = f[n]
<1> DEFINE start == [book |-> b, remaining |-> taker.remaining, trades |-> <<>>]
           InRust(f) == f = [i \in 0..n |-> IF i = 0 THEN start
                                            ELSE Rust!MatchRound(f[i - 1], taker, shows)]
           InApi(f) == f = [i \in 0..n |-> IF i = 0 THEN start
                                           ELSE Api!MatchRound(f[i - 1], taker, shows)]
           rust == CHOOSE f : InRust(f)
           api == CHOOSE f : InApi(f)
<1>1. n \in Nat
    BY IndexFinite
<1>2. Rust!Matched(b, taker, shows) = rust[n] /\ Api!Matched(b, taker, shows) = api[n]
    <2>1. Rust!Cardinality(DOMAIN b.index) = n /\ Api!Cardinality(DOMAIN b.index) = n
        BY DEF Rust!Cardinality, Api!Cardinality, Cardinality
    <2> QED
        BY <2>1 DEF Rust!Matched, Api!Matched
<1>3. ASSUME NEW f
      PROVE  /\ InRust(f) <=> Rounds(f, n, b, taker, shows)
             /\ InApi(f) <=> Rounds(f, n, b, taker, shows)
    <2> HIDE DEF start
    <2>1. [i \in 0..n |-> IF i = 0 THEN start ELSE Rust!MatchRound(f[i - 1], taker, shows)]
              = [i \in 0..n |-> IF i = 0 THEN start ELSE MatchRound(f[i - 1], taker, shows)]
        BY SameRound
    <2>2. [i \in 0..n |-> IF i = 0 THEN start ELSE Api!MatchRound(f[i - 1], taker, shows)]
              = [i \in 0..n |-> IF i = 0 THEN start ELSE MatchRound(f[i - 1], taker, shows)]
        BY SameRound
    <2>3. Rounds(f, n, b, taker, shows)
              <=> f = [i \in 0..n |->
                          IF i = 0 THEN start ELSE MatchRound(f[i - 1], taker, shows)]
        BY DEF Rounds, start
    <2> QED
        BY <2>1, <2>2, <2>3
<1> HIDE DEF InRust, InApi
<1>4. Rounds(rust, n, b, taker, shows) /\ Rounds(api, n, b, taker, shows)
    <2>1. PICK f : Rounds(f, n, b, taker, shows)
        BY <1>1, RoundsExist
    <2>2. InRust(rust) /\ InApi(api)
        BY <1>3, <2>1
    <2> HIDE DEF rust, api
    <2> QED
        BY <1>3, <2>2
<1> HIDE DEF rust, api
<1> QED
    BY <1>1, <1>2, <1>4

\* So it keeps what its rounds keep.
LEMMA MatchedByEither ==
    ASSUME NEW shows \in BOOLEAN, NEW b, Sound(b, shows),
           NEW taker, taker.side \in Sides, taker.remaining \in Nat
    PROVE  /\ Running(Rust!Matched(b, taker, shows), b, taker, shows)
           /\ Running(Api!Matched(b, taker, shows), b, taker, shows)
<1> DEFINE n == Cardinality(DOMAIN b.index)
<1>1. n \in Nat
    BY MatchedInRounds
<1>2. PICK f : Rounds(f, n, b, taker, shows) /\ Rust!Matched(b, taker, shows) = f[n]
    BY MatchedInRounds
<1>3. PICK g : Rounds(g, n, b, taker, shows) /\ Api!Matched(b, taker, shows) = g[n]
    BY MatchedInRounds
<1> HIDE DEF n
<1> QED
    BY <1>1, <1>2, <1>3, RoundsKeep

-----------------------------------------------------------------------------
(* Submissions *)

\* An acceptable new order, the n-th.
Submitted(o, n) ==
    /\ o \in [id : {n}, side : {"buy", "sell"}, type : {"limit", "market"}, price : Nat,
              quantity : Nat \ {0}, remaining : Nat \ {0},
              tif : {"GTC", "IOC", "FOK", "PostOnly"}, hidden : BOOLEAN]
    /\ o.remaining = o.quantity
    /\ o.type = "limit" => o.price # 0
    /\ o.type = "market" => o.tif = "IOC"

\* The rest of a limit order to be kept waits; of any other order nothing does.
Waits(o, remaining) == remaining # 0 /\ o.tif \in {"GTC", "PostOnly"} /\ o.type = "limit"

LEMMA NewOrderFields ==
    ASSUME NEW kind \in Kinds, last.id \in Nat
    PROVE  LET o == NewOrder(kind)
           IN  /\ o.id = last.id + 1 /\ o.side \in Sides
               /\ o.quantity \in Nat /\ o.remaining = o.quantity
               /\ (o.quantity # 0 /\ (o.type = "limit" => o.price # 0))
                      => Submitted(o, last.id + 1)
<1> DEFINE o == NewOrder(kind)
<1>1. /\ kind \in [side : {"buy", "sell"}, type : {"limit", "market"}, price : Nat,
                   quantity : Nat, tif : {"GTC", "IOC", "FOK", "PostOnly"},
                   hidden : BOOLEAN]
      /\ kind.type = "market" => kind.tif = "IOC"
    BY MarketAssumption
<1>2. /\ o.id = last.id + 1 /\ o.side = kind.side /\ o.type = kind.type
      /\ o.price = kind.price /\ o.quantity = kind.quantity /\ o.remaining = kind.quantity
      /\ o.tif = kind.tif /\ o.hidden = kind.hidden
    BY DEF NewOrder
<1>3. ASSUME o.quantity # 0, o.type = "limit" => o.price # 0
      PROVE  Submitted(o, last.id + 1)
    <2>1. o \in [id : {last.id + 1}, side : {"buy", "sell"}, type : {"limit", "market"},
                 price : Nat, quantity : Nat \ {0}, remaining : Nat \ {0},
                 tif : {"GTC", "IOC", "FOK", "PostOnly"}, hidden : BOOLEAN]
        BY <1>1, <1>2, <1>3 DEF NewOrder
    <2> QED
        BY <1>1, <1>2, <1>3, <2>1 DEF Submitted
<1> QED
    BY <1>1, <1>2, <1>3 DEF Sides

\* What is left of a submitted order and waits is an order that may.
LEMMA RestWaits ==
    ASSUME NEW n \in Nat, n < MaxOrders, NEW o, Submitted(o, n + 1),
           NEW remaining \in 0..o.remaining, Waits(o, remaining),
           NEW rest, rest = [o EXCEPT !.remaining = remaining]
    PROVE  /\ rest \in Waiting /\ rest.id = o.id /\ rest.side = o.side /\ rest.price = o.price
           /\ rest.remaining = remaining
<1>1. o.type = "limit" /\ o.price # 0 /\ o.tif \in {"GTC", "PostOnly"}
    BY DEF Waits, Submitted
<1>2. n + 1 \in 1..MaxOrders
    BY MarketAssumption
<1>3. remaining \in Nat \ {0} /\ remaining <= o.quantity
    BY DEF Waits, Submitted
<1>4. o \in [id : 1..MaxOrders, side : {"buy", "sell"}, type : {"limit"},
             price : Nat \ {0}, quantity : Nat \ {0}, remaining : Nat \ {0},
             tif : {"GTC", "PostOnly"}, hidden : BOOLEAN]
    BY <1>1, <1>2 DEF Submitted
<1> QED
    BY <1>3, <1>4 DEF Waiting, Orders

\* What is left of a submitted order is put on the book or not; it is there just when it
\* waits.
LEMMA RestedSound ==
    ASSUME NEW shows \in BOOLEAN, NEW b, Sound(b, shows),
           NEW n \in Nat, n < MaxOrders, DOMAIN b.index \subseteq 1..n,
           NEW o, Submitted(o, n + 1), NEW t, Running(t, b, o, shows),
           NEW c, c = IF Waits(o, t.remaining)
                      THEN Placed(t.book, [o EXCEPT !.remaining = t.remaining]) ELSE t.book
    PROVE  /\ Sound(c, shows)
           /\ DOMAIN c.index \subseteq 1..n + 1
           /\ o.id \in DOMAIN c.index <=> Waits(o, t.remaining)
<1>1. /\ Sound(t.book, shows) /\ DOMAIN t.book.index \subseteq 1..n
      /\ t.remaining \in 0..o.remaining
    BY DEF Running
<1>2. o.id = n + 1 /\ o.id \notin DOMAIN t.book.index
    BY <1>1 DEF Submitted
<1>3. CASE Waits(o, t.remaining)
    <2> DEFINE rest == [o EXCEPT !.remaining = t.remaining]
    <2>1. rest \in Waiting /\ rest.id = o.id
        BY <1>1, <1>3, RestWaits
    <2> HIDE DEF rest
    <2>2. /\ Sound(Placed(t.book, rest), shows)
          /\ DOMAIN Placed(t.book, rest).index = DOMAIN t.book.index \union {rest.id}
        BY <1>1, <1>2, <2>1, PlacedSound
    <2>3. c = Placed(t.book, rest)
        BY <1>3 DEF rest
    <2> QED
        BY <1>1, <1>2, <1>3, <2>1, <2>2, <2>3
<1>4. CASE ~Waits(o, t.remaining)
    BY <1>1, <1>2, <1>4
<1> QED
    BY <1>3, <1>4

\* A submission to the Rust engine, and what it answers.
LEMMA RustSubmits ==
    ASSUME Sound(rustBook, FALSE), last.id \in Nat, last.id < MaxOrders,
           DOMAIN rustBook.index \subseteq 1..last.id,
           NEW kind \in Kinds, Rust!SubmitOrder(NewOrder(kind))
    PROVE  /\ Sound(rustBook', FALSE)
           /\ DOMAIN rustBook'.index \subseteq 1..last.id + 1
           /\ AnswerTells(rustResult', rustBook', {"open", "partiallyFilled"})
<1> DEFINE o == NewOrder(kind)
<1>1. /\ o.id = last.id + 1 /\ o.side \in Sides
      /\ o.quantity \in Nat /\ o.remaining = o.quantity
      /\ Rust!Valid(o) => Submitted(o, last.id + 1) /\ o.quantity # 0
    <2>1. Rust!Valid(o) => o.quantity # 0 /\ (o.type = "limit" => o.price # 0)
        BY DEF Rust!Valid
    <2> HIDE DEF o
    <2> QED
        BY <2>1, NewOrderFields DEF o
<1>2. Rust!Reject(o) \/ Rust!Kill(o) \/ Rust!Match(o)
    BY DEF Rust!SubmitOrder
<1> HIDE DEF o
<1>3. DOMAIN rustBook.index \subseteq 1..last.id + 1 /\ o.id \notin DOMAIN rustBook.index
    BY <1>1
<1>4. CASE Rust!Reject(o)
    <2>1. /\ rustBook' = rustBook
          /\ rustResult'.id = o.id /\ rustResult'.status = "rejected"
        BY <1>4 DEF Rust!Reject, Rust!Answer
    <2>2. AnswerTells(rustResult', rustBook', {"open", "partiallyFilled"})
        BY <1>3, <2>1 DEF AnswerTells, Rust!Present
    <2> QED
        BY <1>3, <2>1, <2>2
<1>5. CASE Rust!Kill(o)
    <2>1. /\ rustBook' = rustBook
          /\ rustResult'.id = o.id /\ rustResult'.status = "cancelled"
          /\ rustResult'.remaining = o.remaining
          /\ Rust!Valid(o)
        BY <1>5 DEF Rust!Kill, Rust!Answer, Rust!Refused
    <2>2. AnswerTells(rustResult', rustBook', {"open", "partiallyFilled"})
        BY <1>3, <1>1, <2>1 DEF AnswerTells, Rust!Present
    <2> QED
        BY <1>3, <2>1, <2>2
<1>6. CASE Rust!Match(o)
    <2> DEFINE t == Rust!Matched(rustBook, o, FALSE)
    <2>1. /\ rustBook' = IF Waits(o, t.remaining)
                         THEN Placed(t.book, [o EXCEPT !.remaining = t.remaining])
                         ELSE t.book
          /\ rustResult'.id = o.id
          /\ rustResult'.status = Rust!RestStatus(o, t.remaining)
          /\ rustResult'.remaining = t.remaining
          /\ Rust!Valid(o)
        BY <1>6, SamePlacing
        DEF Rust!Match, Rust!Answer, Rust!Refused, Rust!FillsShow, Rust!Rests, Waits
    <2>2. Running(t, rustBook, o, FALSE)
        BY <1>1, MatchedByEither
    <2> HIDE DEF t
    <2>3. Submitted(o, last.id + 1)
        BY <1>1, <2>1
    <2>4. /\ Sound(rustBook', FALSE)
          /\ DOMAIN rustBook'.index \subseteq 1..last.id + 1
          /\ o.id \in DOMAIN rustBook'.index <=> Waits(o, t.remaining)
        BY <2>1, <2>2, <2>3, RestedSound
    <2>5. /\ (rustResult'.status = "filled") <=> (t.remaining = 0)
          /\ rustResult'.status \in {"open", "partiallyFilled"} <=> Waits(o, t.remaining)
        BY <2>1, <2>3 DEF Rust!RestStatus, Waits, Submitted
    <2>6. AnswerTells(rustResult', rustBook', {"open", "partiallyFilled"})
        BY <2>1, <2>4, <2>5 DEF AnswerTells, Rust!Present
    <2> QED
        BY <2>4, <2>6
<1> QED
    BY <1>2, <1>4, <1>5, <1>6

\* A submission to the engine of the API, and what it answers.
LEMMA ApiSubmits ==
    ASSUME Sound(apiBook, TRUE), last.id \in Nat, last.id < MaxOrders,
           DOMAIN apiBook.index \subseteq 1..last.id,
           NEW kind \in Kinds, Api!SubmitOrder(NewOrder(kind))
    PROVE  /\ Sound(apiBook', TRUE)
           /\ DOMAIN apiBook'.index \subseteq 1..last.id + 1
           /\ AnswerTells(apiResult', apiBook', {"open"})
<1> DEFINE o == NewOrder(kind)
<1>1. /\ o.id = last.id + 1 /\ o.side \in Sides
      /\ o.quantity \in Nat /\ o.remaining = o.quantity
      /\ Api!Valid(o) => Submitted(o, last.id + 1) /\ o.quantity # 0
    <2>1. Api!Valid(o) => o.quantity # 0 /\ (o.type = "limit" => o.price # 0)
        BY DEF Api!Valid
    <2> HIDE DEF o
    <2> QED
        BY <2>1, NewOrderFields DEF o
<1>2. Api!Reject(o) \/ Api!Kill(o) \/ Api!Match(o)
    BY DEF Api!SubmitOrder
<1> HIDE DEF o
<1>3. DOMAIN apiBook.index \subseteq 1..last.id + 1 /\ o.id \notin DOMAIN apiBook.index
    BY <1>1
<1>4. CASE Api!Reject(o)
    <2>1. /\ apiBook' = apiBook
          /\ apiResult'.id = o.id /\ apiResult'.status = "rejected"
        BY <1>4 DEF Api!Reject, Api!Answer
    <2>2. AnswerTells(apiResult', apiBook', {"open"})
        BY <1>3, <2>1 DEF AnswerTells, Rust!Present
    <2> QED
        BY <1>3, <2>1, <2>2
<1>5. CASE Api!Kill(o)
    <2>1. /\ apiBook' = apiBook
          /\ apiResult'.id = o.id /\ apiResult'.status = "cancelled"
          /\ apiResult'.remaining = o.remaining
          /\ Api!Valid(o)
        BY <1>5 DEF Api!Kill, Api!Answer, Api!Refused
    <2>2. AnswerTells(apiResult', apiBook', {"open"})
        BY <1>3, <1>1, <2>1 DEF AnswerTells, Rust!Present
    <2> QED
        BY <1>3, <2>1, <2>2
<1>6. CASE Api!Match(o)
    <2> DEFINE t == Api!Matched(apiBook, o, TRUE)
    <2>1. /\ apiBook' = IF Waits(o, t.remaining)
                         THEN Placed(t.book, [o EXCEPT !.remaining = t.remaining])
                         ELSE t.book
          /\ apiResult'.id = o.id
          /\ apiResult'.status = Api!RestStatus(o, t.remaining)
          /\ apiResult'.remaining = t.remaining
          /\ Api!Valid(o)
        BY <1>6, SamePlacing
        DEF Api!Match, Api!Answer, Api!Refused, Api!FillsShow, Api!Rests, Waits
    <2>2. Running(t, apiBook, o, TRUE)
        BY <1>1, MatchedByEither
    <2> HIDE DEF t
    <2>3. Submitted(o, last.id + 1)
        BY <1>1, <2>1
    <2>4. /\ Sound(apiBook', TRUE)
          /\ DOMAIN apiBook'.index \subseteq 1..last.id + 1
          /\ o.id \in DOMAIN apiBook'.index <=> Waits(o, t.remaining)
        BY <2>1, <2>2, <2>3, RestedSound
    <2>5. /\ (apiResult'.status = "filled") <=> (t.remaining = 0)
          /\ apiResult'.status = "open" => Waits(o, t.remaining)
          /\ apiResult'.status \notin {"open", "partiallyFilled"} => ~Waits(o, t.remaining)
        BY <2>1, <2>3 DEF Api!RestStatus, Waits, Submitted
    <2>6. AnswerTells(apiResult', apiBook', {"open"})
        BY <2>1, <2>4, <2>5 DEF AnswerTells, Rust!Present
    <2> QED
        BY <2>4, <2>6
<1> QED
    BY <1>2, <1>4, <1>5, <1>6

-----------------------------------------------------------------------------
(* The invariant *)

\* Both books are sound, and only orders that were submitted are on them.
BooksSound ==
    /\ last.id \in 0..MaxOrders
    /\ Sound(rustBook, FALSE) /\ Sound(apiBook, TRUE)
    /\ DOMAIN rustBook.index \subseteq 1..last.id
    /\ DOMAIN apiBook.index \subseteq 1..last.id

LEMMA EmptyBookSound ==
    ASSUME NEW shows \in BOOLEAN
    PROVE  /\ Sound(EmptyBook, shows) /\ DOMAIN EmptyBook.index = {}
           /\ Rust!EmptyBook = EmptyBook /\ Api!EmptyBook = EmptyBook
<1>1. /\ EmptyBook.levels = [side \in Sides |-> <<>>] /\ EmptyBook.index = <<>>
      /\ IsBook(EmptyBook)
    BY DEF EmptyBook, IsBook
<1>2. DOMAIN <<>> = {}
    OBVIOUS
<1>3. Sound(EmptyBook, shows)
    BY <1>1, <1>2 DEF Sound
<1>4. Rust!EmptyBook = EmptyBook /\ Api!EmptyBook = EmptyBook
    BY DEF Rust!EmptyBook, Api!EmptyBook, EmptyBook, Rust!Sides, Api!Sides, Sides
<1> QED
    BY <1>1, <1>2, <1>3, <1>4

LEMMA InitSound == Init => BooksSound
<1> SUFFICES ASSUME Init PROVE BooksSound
    OBVIOUS
<1>1. rustBook = EmptyBook /\ apiBook = EmptyBook /\ last.id = 0
    BY EmptyBookSound DEF Init, Rust!Init, Api!Init
<1>2. /\ Sound(EmptyBook, FALSE) /\ Sound(EmptyBook, TRUE)
      /\ DOMAIN EmptyBook.index = {}
    BY EmptyBookSound
<1>3. last.id \in 0..MaxOrders
    BY <1>1, MarketAssumption
<1>4. Sound(rustBook, FALSE) /\ DOMAIN rustBook.index \subseteq 1..last.id
    BY <1>1, <1>2
<1>5. Sound(apiBook, TRUE) /\ DOMAIN apiBook.index \subseteq 1..last.id
    BY <1>1, <1>2
<1> QED
    BY <1>3, <1>4, <1>5 DEF BooksSound

\* A cancellation, in either engine.
LEMMA CancelKeeps ==
    ASSUME BooksSound, NEW id, Cancel(id)
    PROVE  BooksSound'
<1>1. last' = last
    BY DEF Cancel
<1>2. Sound(rustBook', FALSE) /\ DOMAIN rustBook'.index \subseteq DOMAIN rustBook.index
    <2>1. CASE id \in DOMAIN rustBook.index
        <3>1. rustBook' = Cancelled(rustBook, id)
            BY <2>1, SameCancelling DEF Cancel, Rust!Present, Rust!CancelOrder
        <3>2. Sound(rustBook, FALSE)
            BY DEF BooksSound
        <3>3. /\ Sound(Cancelled(rustBook, id), FALSE)
              /\ DOMAIN Cancelled(rustBook, id).index = DOMAIN rustBook.index \ {id}
            BY <2>1, <3>2, CancelledSound
        <3> QED
            BY <3>1, <3>3
    <2>2. CASE id \notin DOMAIN rustBook.index
        <3>1. rustBook' = rustBook
            BY <2>2 DEF Cancel, Rust!Present, rustVars
        <3> QED
            BY <3>1 DEF BooksSound
    <2> QED
        BY <2>1, <2>2
<1>3. Sound(apiBook', TRUE) /\ DOMAIN apiBook'.index \subseteq DOMAIN apiBook.index
    <2>1. CASE id \in DOMAIN apiBook.index
        <3>1. apiBook' = Cancelled(apiBook, id)
            BY <2>1, SameCancelling DEF Cancel, Api!Present, Api!CancelOrder
        <3>2. Sound(apiBook, TRUE)
            BY DEF BooksSound
        <3>3. /\ Sound(Cancelled(apiBook, id), TRUE)
              /\ DOMAIN Cancelled(apiBook, id).index = DOMAIN apiBook.index \ {id}
            BY <2>1, <3>2, CancelledSound
        <3> QED
            BY <3>1, <3>3
    <2>2. CASE id \notin DOMAIN apiBook.index
        <3>1. apiBook' = apiBook
            BY <2>2 DEF Cancel, Api!Present, apiVars
        <3> QED
            BY <3>1 DEF BooksSound
    <2> QED
        BY <2>1, <2>2
<1> QED
    BY <1>1, <1>2, <1>3 DEF BooksSound

\* A submission, to both.
LEMMA SubmitKeeps ==
    ASSUME BooksSound, NEW kind \in Kinds, Submit(kind)
    PROVE  /\ BooksSound'
           /\ AnswerTells(rustResult', rustBook', {"open", "partiallyFilled"})
           /\ AnswerTells(apiResult', apiBook', {"open"})
<1>1. /\ last.id \in Nat /\ last.id < MaxOrders /\ last'.id = last.id + 1
      /\ Rust!SubmitOrder(NewOrder(kind)) /\ Api!SubmitOrder(NewOrder(kind))
    BY MarketAssumption DEF Submit, BooksSound
<1>2. /\ Sound(rustBook', FALSE)
      /\ DOMAIN rustBook'.index \subseteq 1..last.id + 1
      /\ AnswerTells(rustResult', rustBook', {"open", "partiallyFilled"})
    BY <1>1, RustSubmits DEF BooksSound
<1>3. /\ Sound(apiBook', TRUE)
      /\ DOMAIN apiBook'.index \subseteq 1..last.id + 1
      /\ AnswerTells(apiResult', apiBook', {"open"})
    BY <1>1, ApiSubmits DEF BooksSound
<1>4. last'.id \in 0..MaxOrders
    BY <1>1, MarketAssumption
<1>5. BooksSound'
    BY <1>1, <1>2, <1>3, <1>4 DEF BooksSound
<1> QED
    BY <1>2, <1>3, <1>5

LEMMA NextKeeps == BooksSound /\ [Next]_vars => BooksSound'
<1> SUFFICES ASSUME BooksSound, [Next]_vars PROVE BooksSound'
    OBVIOUS
<1>1. ASSUME NEW kind \in Kinds, Submit(kind) PROVE BooksSound'
    BY <1>1, SubmitKeeps
<1>2. ASSUME NEW id \in 1..last.id, Cancel(id) PROVE BooksSound'
    BY <1>2, CancelKeeps
<1>3. ASSUME UNCHANGED vars PROVE BooksSound'
    BY <1>3 DEF BooksSound, vars, rustVars, apiVars
<1> QED
    BY <1>1, <1>2, <1>3 DEF Next

\* In every reachable state, for any kinds of orders, rules of the market and number of
\* orders, the books of both engines are sound.
THEOREM AlwaysSound == Spec => []BooksSound
BY InitSound, NextKeeps, PTL DEF Spec

\* A sound book has its index and totals exact.
LEMMA SoundIsExact ==
    ASSUME NEW shows \in BOOLEAN, NEW b, Sound(b, shows)
    PROVE  /\ IndexAndTotalsExact(b)
           /\ \A o \in OrdersIn(b) : o \in Waiting /\ o.id \in DOMAIN b.index
           /\ shows => \A side \in Sides : \A price \in DOMAIN b.levels[side] :
                  b.levels[side][price].visible = ShownOf(b.levels[side][price].orders)
<1>1. ASSUME NEW side \in Sides, NEW price \in DOMAIN b.levels[side],
             NEW level, level = b.levels[side][price]
      PROVE  /\ level.orders # <<>>
             /\ level.total = RemainingOf(level.orders)
             /\ shows => level.visible = ShownOf(level.orders)
             /\ Distinct(level.orders)
             /\ OrdersAt(b, side, price) = {level.orders[i] : i \in 1..Len(level.orders)}
             /\ \A o \in OrdersAt(b, side, price) :
                    /\ o \in Waiting
                    /\ o.id \in DOMAIN b.index
                    /\ b.index[o.id] = At(side, price)
                    /\ o.side = side /\ o.price = price
    <2>1. /\ level.orders \in Seq(Waiting) /\ level.orders # <<>>
          /\ LevelExact(level, side, price, shows)
          /\ \A i \in 1..Len(level.orders) :
                 /\ level.orders[i] \in Waiting
                 /\ level.orders[i].id \in DOMAIN b.index
                 /\ b.index[level.orders[i].id] = At(side, price)
        <3>1. Fitting(b, level, side, price, shows)
            BY <1>1, LevelParts
        <3> QED
            BY <3>1 DEF Fitting
    <2>2. OrdersAt(b, side, price) = {level.orders[i] : i \in 1..Len(level.orders)}
        BY <1>1, <2>1 DEF OrdersAt, Range
    <2>3. ASSUME NEW o \in OrdersAt(b, side, price)
          PROVE  /\ o \in Waiting
                 /\ o.id \in DOMAIN b.index
                 /\ b.index[o.id] = At(side, price)
                 /\ o.side = side /\ o.price = price
        <3>1. PICK i \in 1..Len(level.orders) : o = level.orders[i]
            BY <2>2
        <3> QED
            BY <2>1, <3>1 DEF LevelExact
    <2> QED
        BY <2>1, <2>2, <2>3 DEF LevelExact
<1>2. ASSUME NEW o
      PROVE  o \in OrdersIn(b) <=> \E side \in Sides : \E price \in DOMAIN b.levels[side] :
                                       o \in OrdersAt(b, side, price)
    BY DEF OrdersIn
<1>3. ASSUME NEW o \in OrdersIn(b) PROVE o \in Waiting /\ o.id \in DOMAIN b.index
    BY <1>1, <1>2
<1>4. ASSUME NEW id \in DOMAIN b.index PROVE \E o \in OrdersIn(b) : id = o.id
    <2>1. PICK side \in Sides : \E price \in DOMAIN b.levels[side] :
              id \in Ids(b.levels[side][price].orders)
        BY DEF Sound
    <2>2. PICK price \in DOMAIN b.levels[side] : id \in Ids(b.levels[side][price].orders)
        BY <2>1
    <2>3. PICK i \in 1..Len(b.levels[side][price].orders) :
              id = b.levels[side][price].orders[i].id
        BY <2>2 DEF Ids
    <2>4. b.levels[side][price].orders[i] \in OrdersAt(b, side, price)
        BY <1>1
    <2> QED
        BY <1>2, <2>3, <2>4
<1>5. DOMAIN b.index = {o.id : o \in Rust!OrdersIn(b)}
    BY <1>3, <1>4, SameContents
<1>6. ASSUME NEW side \in Sides, NEW price \in DOMAIN b.levels[side],
             NEW level, level = b.levels[side][price]
      PROVE  /\ level.orders # <<>>
             /\ level.total = Rust!RemainingOf(level.orders)
             /\ \A i, j \in 1..Len(level.orders) :
                    level.orders[i].id = level.orders[j].id => i = j
             /\ \A o \in Rust!OrdersAt(b, side, price) :
                    /\ o.id \in DOMAIN b.index
                    /\ b.index[o.id] = [side |-> side, price |-> price]
                    /\ o.side = side /\ o.price = price
    <2>1. Rust!OrdersAt(b, side, price) = OrdersAt(b, side, price)
        BY DEF Rust!OrdersAt, Rust!Range, OrdersAt, Range
    <2>2. /\ level.orders # <<>>
          /\ level.total = Rust!RemainingOf(level.orders)
          /\ Distinct(level.orders)
        BY <1>1, <1>6, SameContents
    <2>3. \A o \in OrdersAt(b, side, price) :
              /\ o.id \in DOMAIN b.index
              /\ b.index[o.id] = [side |-> side, price |-> price]
              /\ o.side = side /\ o.price = price
        BY <1>1, <1>6 DEF At
    <2> QED
        BY <2>1, <2>2, <2>3 DEF Distinct
<1>7. IndexAndTotalsExact(b)
    BY <1>5, <1>6 DEF IndexAndTotalsExact, Sides
<1>8. shows => \A side \in Sides : \A price \in DOMAIN b.levels[side] :
          b.levels[side][price].visible = ShownOf(b.levels[side][price].orders)
    BY <1>1
<1> QED
    BY <1>3, <1>7, <1>8

\* In both engines each level's running total is what its queue holds, each order of a queue
\* is found through the index, at its place, and nothing else is; and what the API publishes
\* as the size of a level is what its visible orders have left (orderbook.rs, matching.ts).
THEOREM LevelsStayExact == Spec => []LevelsExact
<1>1. ASSUME BooksSound PROVE LevelsExact
    <2>1. IndexAndTotalsExact(rustBook)
        BY <1>1, SoundIsExact DEF BooksSound
    <2>2. IndexAndTotalsExact(apiBook)
        BY <1>1, SoundIsExact DEF BooksSound
    <2>3. \A side \in Sides : \A price \in DOMAIN apiBook.levels[side] :
              apiBook.levels[side][price].visible
                  = ShownOf(apiBook.levels[side][price].orders)
        BY <1>1, SoundIsExact DEF BooksSound
    <2> QED
        BY <2>1, <2>2, <2>3, SameContents DEF LevelsExact, Sides
<1> QED
    BY <1>1, AlwaysSound, PTL

\* Only limit orders that may wait are on the books, each with something left of it and
\* under an id that was given out.
THEOREM OrdersTyped == Spec => []TypeOK
<1>1. ASSUME BooksSound PROVE TypeOK
    <2>1. ASSUME NEW o \in Rust!OrdersIn(rustBook) \union Api!OrdersIn(apiBook)
          PROVE  o \in Orders /\ o.id <= last.id /\ o.remaining <= o.quantity
        <3>1. o \in Waiting /\ o.id \in 1..last.id
            <4>1. CASE o \in Rust!OrdersIn(rustBook)
                BY <1>1, <4>1, SoundIsExact, SameContents DEF BooksSound
            <4>2. CASE o \in Api!OrdersIn(apiBook)
                BY <1>1, <4>2, SoundIsExact, SameContents DEF BooksSound
            <4> QED
                BY <4>1, <4>2
        <3>2. last.id \in Nat
            BY <1>1 DEF BooksSound
        <3> QED
            BY <3>1, <3>2 DEF Waiting
    <2> QED
        BY <1>1, <2>1 DEF TypeOK, BooksSound
<1> QED
    BY <1>1, AlwaysSound, PTL

\* Every answer of either engine tells what became of the order: who is told that it waits
\* can cancel it, and an order refused, killed or filled is not on the book.
THEOREM AnswersStayTrue == Spec => AnswersTrue
<1> DEFINE Told == last'.id # last.id
                       => /\ AnswerTells(rustResult', rustBook', {"open", "partiallyFilled"})
                          /\ AnswerTells(apiResult', apiBook', {"open"})
<1>1. ASSUME BooksSound, [Next]_vars PROVE [Told]_vars
    <2>1. ASSUME NEW kind \in Kinds, Submit(kind) PROVE Told
        BY <1>1, <2>1, SubmitKeeps
    <2>2. ASSUME NEW id \in 1..last.id, Cancel(id) PROVE Told
        BY <2>2 DEF Cancel
    <2> QED
        BY <1>1, <2>1, <2>2 DEF Next
<1>2. Spec => [][Told]_vars
    BY <1>1, AlwaysSound, PTL DEF Spec
<1> QED
    BY <1>2 DEF AnswersTrue

-----------------------------------------------------------------------------
(* What an order takes: the operators of AbstractBook, for any set of resting orders *)

Amount(S) == SumOver([m \in S |-> m.remaining], S)

\* What order o could trade with, and who of them comes first.
Wanted(S, o) == {m \in S : m.side # o.side /\ Reaches(o, m.price)}

Precedes(x, y) ==
    \/ IF x.side = "buy" THEN x.price > y.price ELSE x.price < y.price
    \/ x.price = y.price /\ x.id < y.id

TakenFrom(S, o, m) ==
    LET ahead == Amount({x \in Wanted(S, o) : Precedes(x, m)})
        left == IF ahead < o.quantity THEN o.quantity - ahead ELSE 0
    IN  IF left < m.remaining THEN left ELSE m.remaining

LeftOver(S, o) ==
    LET q == Amount(Wanted(S, o)) IN IF q < o.quantity THEN o.quantity - q ELSE 0

Trade(o, m, quantity) ==
    [maker |-> m.id, taker |-> o.id, price |-> m.price, quantity |-> quantity]

TradesOf(S, o) ==
    {Trade(o, m, TakenFrom(S, o, m)) : m \in {x \in Wanted(S, o) : TakenFrom(S, o, x) > 0}}

LeftOf(S, o, x) ==
    [x EXCEPT !.remaining = @ - (IF x \in Wanted(S, o) THEN TakenFrom(S, o, x) ELSE 0)]

MakersLeft(S, o) == {m \in {LeftOf(S, o, x) : x \in S} : m.remaining > 0}

LEMMA SameQuantity ==
    ASSUME NEW S
    PROVE  Originals!Quantity(S) = Amount(S) /\ Ports!Quantity(S) = Amount(S)
<1>1. Originals!Quantity(S) = Amount(S)
    BY DEF Originals!Quantity, Originals!SumFunctionOnSet, Originals!FoldFunctionOnSet,
           Originals!MapThenFoldSet, Amount, SumOver, AddsUp
<1>2. Ports!Quantity(S) = Amount(S)
    BY DEF Ports!Quantity, Ports!SumFunctionOnSet, Ports!FoldFunctionOnSet,
           Ports!MapThenFoldSet, Amount, SumOver, AddsUp
<1> QED
    BY <1>1, <1>2

\* What rests on a book, as a trader sees it: no two under the same id.
Briefs == [id : 1..MaxOrders, side : Sides, price : Nat, remaining : Nat \ {0}]

Listing(S) ==
    /\ IsFiniteSet(S) /\ S \subseteq Briefs
    /\ \A x, y \in S : x.id = y.id => x = y

LEMMA AmountOfParts ==
    ASSUME NEW S, Listing(S), NEW U \in SUBSET S, NEW T \in SUBSET U
    PROVE  /\ Amount(T) \in Nat /\ Amount(U) \in Nat
           /\ Amount(T) <= Amount(U)
<1> DEFINE w == [m \in S |-> m.remaining]
<1>1. IsFiniteSet(U) /\ IsFiniteSet(T)
    BY FS_Subset DEF Listing
<1>2. \A m \in S : w[m] \in Nat
    BY DEF Listing, Briefs
<1>3. Amount(T) = SumOver(w, T) /\ Amount(U) = SumOver(w, U)
    BY <1>1, SumsAgree DEF Amount
<1> HIDE DEF w
<1> QED
    BY <1>1, <1>2, <1>3, PartsSumToLess

LEMMA AmountOfMore ==
    ASSUME NEW S, Listing(S), NEW T \in SUBSET S, NEW y \in S, y \notin T
    PROVE  Amount(T \union {y}) = Amount(T) + y.remaining
<1> DEFINE w == [m \in S |-> m.remaining]
<1>1. IsFiniteSet(T) /\ IsFiniteSet(T \union {y})
    BY FS_Subset, FS_AddElement DEF Listing
<1>2. (\A m \in S : w[m] \in Nat) /\ w[y] = y.remaining
    BY DEF Listing, Briefs
<1>3. Amount(T) = SumOver(w, T)
    BY <1>1, SumsAgree DEF Amount
<1>4. Amount(T \union {y}) = SumOver(w, T \union {y})
    <2>1. \A m \in T \union {y} : [n \in T \union {y} |-> n.remaining][m] = w[m]
        OBVIOUS
    <2> HIDE DEF w
    <2> QED
        BY <1>1, <2>1, SumsAgree DEF Amount
<1> HIDE DEF w
<1>5. Weighs(w, T) /\ w[y] \in Int
    BY <1>1, <1>2 DEF Weighs
<1>6. SumOver(w, T \union {y}) = w[y] + SumOver(w, T) /\ SumOver(w, T) \in Int
    BY <1>5, SumGrows, SumOverInt
<1> QED
    BY <1>2, <1>3, <1>4, <1>5, <1>6

\* Of two orders that o wants, one comes first at most.
LEMMA PrecedesOnce ==
    ASSUME NEW S, Listing(S), NEW o, o.side \in Sides,
           NEW x \in Wanted(S, o), NEW y \in Wanted(S, o), Precedes(x, y)
    PROVE  ~Precedes(y, x) /\ x # y
<1>1. /\ x \in Briefs /\ y \in Briefs /\ x.side # o.side /\ y.side # o.side
    BY DEF Wanted, Listing
<1>2. x.side = y.side /\ x.price \in Nat /\ y.price \in Nat /\ x.id \in Nat /\ y.id \in Nat
    BY <1>1, MarketAssumption DEF Briefs, Sides
<1> QED
    BY <1>2 DEF Precedes

\* The orders G are wanted, and come before all others that are.
FirstServed(S, o, G) ==
    /\ G \subseteq Wanted(S, o)
    /\ \A m \in G : \A x \in Wanted(S, o) \ G : Precedes(m, x)

AheadOf(S, o, m) == {x \in Wanted(S, o) : Precedes(x, m)}

LEMMA TakenWhole ==
    ASSUME NEW S, Listing(S), NEW o, o.side \in Sides, o.quantity \in Nat,
           NEW G, FirstServed(S, o, G), Amount(G) <= o.quantity, NEW m \in G
    PROVE  TakenFrom(S, o, m) = m.remaining
<1> DEFINE P == AheadOf(S, o, m)
           H == G \ {m}
<1>1. G \in SUBSET S /\ m \in S /\ m.remaining \in Nat \ {0} /\ m \in Wanted(S, o)
    BY DEF FirstServed, Wanted, Listing, Briefs
<1>2. P \in SUBSET H
    <2>1. SUFFICES ASSUME NEW x \in P PROVE x \in H
        OBVIOUS
    <2>2. x \in Wanted(S, o) /\ Precedes(x, m)
        BY <2>1 DEF AheadOf
    <2>3. ~Precedes(m, x) /\ x # m
        BY <1>1, <2>2, PrecedesOnce
    <2> QED
        BY <2>2, <2>3 DEF FirstServed
<1>3. H \in SUBSET S /\ m \notin H /\ H \union {m} = G
    BY <1>1
<1> HIDE DEF P, H
<1>4. Amount(G) = Amount(H) + m.remaining
    BY <1>1, <1>3, AmountOfMore
<1>5. Amount(P) \in Nat /\ Amount(H) \in Nat /\ Amount(P) <= Amount(H)
    BY <1>2, <1>3, AmountOfParts
<1>6. Amount(P) < o.quantity /\ ~(o.quantity - Amount(P) < m.remaining)
    BY <1>1, <1>4, <1>5
<1> QED
    BY <1>6 DEF TakenFrom, P, AheadOf

LEMMA TakenNone ==
    ASSUME NEW S, Listing(S), NEW o, o.side \in Sides, o.quantity \in Nat,
           NEW G, FirstServed(S, o, G), Amount(G) >= o.quantity, NEW x \in Wanted(S, o) \ G
    PROVE  TakenFrom(S, o, x) = 0
<1> DEFINE P == AheadOf(S, o, x)
<1>1. G \in SUBSET P /\ P \in SUBSET S /\ x.remaining \in Nat \ {0}
    BY DEF FirstServed, AheadOf, Wanted, Listing, Briefs
<1> HIDE DEF P
<1>2. Amount(P) \in Nat /\ Amount(G) \in Nat /\ Amount(G) <= Amount(P)
    BY <1>1, AmountOfParts
<1>3. ~(Amount(P) < o.quantity) /\ 0 < x.remaining
    BY <1>1, <1>2
<1> QED
    BY <1>3 DEF TakenFrom, P, AheadOf

LEMMA TakenPart ==
    ASSUME NEW S, Listing(S), NEW o, o.side \in Sides, o.quantity \in Nat,
           NEW G, FirstServed(S, o, G), NEW f \in Wanted(S, o) \ G,
           FirstServed(S, o, G \union {f}),
           NEW p \in 1..f.remaining - 1, Amount(G) + p = o.quantity
    PROVE  TakenFrom(S, o, f) = p
<1> DEFINE P == AheadOf(S, o, f)
<1>1. G \in SUBSET S /\ f.remaining \in Nat \ {0}
    BY DEF FirstServed, Wanted, Listing, Briefs
<1>2. P = G
    <2>1. ASSUME NEW x \in P PROVE x \in G
        <3>1. x \in Wanted(S, o) /\ Precedes(x, f)
            BY <2>1 DEF AheadOf
        <3>2. ~Precedes(f, x) /\ x # f
            BY <3>1, PrecedesOnce
        <3> QED
            BY <3>1, <3>2 DEF FirstServed
    <2>2. ASSUME NEW x \in G PROVE x \in P
        BY <2>2 DEF FirstServed, AheadOf
    <2> QED
        BY <2>1, <2>2
<1>3. G \in SUBSET G
    OBVIOUS
<1>4. Amount(G) \in Nat
    BY <1>1, <1>3, AmountOfParts
<1> HIDE DEF P
<1>5. Amount(P) < o.quantity /\ o.quantity - Amount(P) = p /\ p < f.remaining
    BY <1>1, <1>2, <1>4
<1> QED
    BY <1>5 DEF TakenFrom, P, AheadOf

\* Order o has filled the orders G and nothing else.
FilledWhole(S, o, G, R, T, left) ==
    /\ FirstServed(S, o, G)
    /\ left \in Nat /\ left + Amount(G) = o.quantity
    /\ R = S \ G
    /\ T = {Trade(o, m, m.remaining) : m \in G}

\* Order o has filled the orders G, and p of order f, and wants no more.
Part(f, p) == [f EXCEPT !.remaining = f.remaining - p]

FilledPart(S, o, G, f, p, R, T, left) ==
    /\ FirstServed(S, o, G)
    /\ f \in Wanted(S, o) \ G /\ FirstServed(S, o, G \union {f})
    /\ p \in 1..f.remaining - 1
    /\ left = 0 /\ Amount(G) + p = o.quantity
    /\ R = (S \ (G \union {f})) \union {Part(f, p)}
    /\ T = {Trade(o, m, m.remaining) : m \in G} \union {Trade(o, f, p)}

\* What o leaves of S is R, its trades so far are T, and this is left of it.
Served(S, o, R, T, left) ==
    \/ \E G : FilledWhole(S, o, G, R, T, left)
    \/ \E G, f, p : FilledPart(S, o, G, f, p, R, T, left)

\* Nothing that o could still take.
Satisfied(o, R, left) == left = 0 \/ Wanted(R, o) = {}

LEMMA LeftOfUntaken ==
    ASSUME NEW S, Listing(S), NEW o, NEW x \in S, x \in Wanted(S, o) => TakenFrom(S, o, x) = 0
    PROVE  LeftOf(S, o, x) = x /\ x.remaining > 0
<1>1. x = [id |-> x.id, side |-> x.side, price |-> x.price, remaining |-> x.remaining]
      /\ x.remaining \in Nat \ {0}
    BY DEF Listing, Briefs
<1>2. LeftOf(S, o, x) = [x EXCEPT !.remaining = x.remaining - 0]
    BY DEF LeftOf
<1> QED
    BY <1>1, <1>2

LEMMA ServedWhole ==
    ASSUME NEW S, Listing(S), NEW o, o.side \in Sides, o.quantity \in Nat,
           NEW G, NEW R, NEW T, NEW left, FilledWhole(S, o, G, R, T, left),
           Satisfied(o, R, left)
    PROVE  R = MakersLeft(S, o) /\ T = TradesOf(S, o) /\ left = LeftOver(S, o)
<1>1. /\ G \in SUBSET S /\ G \subseteq Wanted(S, o) /\ Wanted(S, o) \in SUBSET S
      /\ \A m \in S : m.remaining \in Nat \ {0}
    BY DEF FilledWhole, FirstServed, Wanted, Listing, Briefs
<1>2. Amount(G) \in Nat /\ Amount(Wanted(S, o)) \in Nat /\ Amount(G) <= Amount(Wanted(S, o))
    BY <1>1, AmountOfParts
<1>3. left \in Nat /\ left + Amount(G) = o.quantity /\ Amount(G) <= o.quantity
    BY <1>2 DEF FilledWhole
<1>4. left # 0 => G = Wanted(S, o)
    BY <1>1 DEF FilledWhole, Satisfied, Wanted
<1>5. \A m \in G : TakenFrom(S, o, m) = m.remaining
    BY <1>3, TakenWhole DEF FilledWhole
<1>6. ASSUME NEW x \in Wanted(S, o) \ G PROVE TakenFrom(S, o, x) = 0
    <2>1. left = 0
        BY <1>4
    <2>2. Amount(G) >= o.quantity
        BY <1>2, <1>3, <2>1
    <2> QED
        BY <2>2, TakenNone DEF FilledWhole
<1>7. T = TradesOf(S, o)
    <2>1. {x \in Wanted(S, o) : TakenFrom(S, o, x) > 0} = G
        BY <1>1, <1>5, <1>6
    <2>2. TradesOf(S, o) = {Trade(o, m, TakenFrom(S, o, m)) : m \in G}
        BY <2>1 DEF TradesOf
    <2> QED
        BY <1>5, <2>2 DEF FilledWhole
<1>8. R = MakersLeft(S, o)
    <2>1. ASSUME NEW x \in S \ G PROVE LeftOf(S, o, x) = x /\ x.remaining > 0
        BY <1>6, LeftOfUntaken
    <2>2. ASSUME NEW x \in G PROVE LeftOf(S, o, x).remaining = 0
        <3>1. LeftOf(S, o, x) = [x EXCEPT !.remaining = x.remaining - x.remaining]
            BY <1>1, <1>5 DEF LeftOf
        <3>2. x \in Briefs
            BY <1>1 DEF Listing
        <3> QED
            BY <3>1, <3>2 DEF Briefs
    <2>3. MakersLeft(S, o) = S \ G
        BY <1>1, <2>1, <2>2 DEF MakersLeft
    <2> QED
        BY <2>3 DEF FilledWhole
<1>9. left = LeftOver(S, o)
    <2>1. CASE left = 0
        <3>1. ~(Amount(Wanted(S, o)) < o.quantity)
            BY <1>2, <1>3, <2>1
        <3> QED
            BY <2>1, <3>1 DEF LeftOver
    <2>2. CASE left # 0
        <3>1. Amount(Wanted(S, o)) < o.quantity /\ o.quantity - Amount(Wanted(S, o)) = left
            BY <1>2, <1>3, <1>4, <2>2
        <3> QED
            BY <3>1 DEF LeftOver
    <2> QED
        BY <2>1, <2>2
<1> QED
    BY <1>7, <1>8, <1>9

LEMMA ServedPart ==
    ASSUME NEW S, Listing(S), NEW o, o.side \in Sides, o.quantity \in Nat,
           NEW G, NEW f, NEW p, NEW R, NEW T, NEW left, FilledPart(S, o, G, f, p, R, T, left)
    PROVE  R = MakersLeft(S, o) /\ T = TradesOf(S, o) /\ left = LeftOver(S, o)
<1> DEFINE H == G \union {f}
<1>1. /\ G \in SUBSET S /\ G \subseteq Wanted(S, o) /\ Wanted(S, o) \in SUBSET S
      /\ \A m \in S : m.remaining \in Nat \ {0}
      /\ f \in S /\ f \in Wanted(S, o) /\ f \notin G /\ f \in Briefs
      /\ p \in Nat \ {0} /\ p < f.remaining
    BY DEF FilledPart, FirstServed, Wanted, Listing, Briefs
<1>2. /\ H \in SUBSET S /\ H \subseteq Wanted(S, o) /\ FirstServed(S, o, H)
    BY <1>1 DEF FilledPart
<1>3. Amount(H) = Amount(G) + f.remaining
    BY <1>1, AmountOfMore
<1>4. /\ Amount(G) \in Nat /\ Amount(H) \in Nat /\ Amount(Wanted(S, o)) \in Nat
      /\ Amount(H) <= Amount(Wanted(S, o))
    <2>1. G \in SUBSET G
        OBVIOUS
    <2> HIDE DEF H
    <2> QED
        BY <1>1, <1>2, <2>1, AmountOfParts
<1>5. Amount(G) + p = o.quantity /\ left = 0
    BY DEF FilledPart
<1>6. Amount(G) <= o.quantity /\ Amount(H) >= o.quantity
    BY <1>1, <1>3, <1>4, <1>5
<1>7. \A m \in G : TakenFrom(S, o, m) = m.remaining
    BY <1>6, TakenWhole DEF FilledPart
<1>8. TakenFrom(S, o, f) = p
    BY TakenPart DEF FilledPart
<1>9. \A x \in Wanted(S, o) \ H : TakenFrom(S, o, x) = 0
    <2> HIDE DEF H
    <2> QED
        BY <1>2, <1>6, TakenNone
<1>10. T = TradesOf(S, o)
    <2>1. {x \in Wanted(S, o) : TakenFrom(S, o, x) > 0} = H
        BY <1>1, <1>7, <1>8, <1>9
    <2>2. TradesOf(S, o) = {Trade(o, m, TakenFrom(S, o, m)) : m \in H}
        BY <2>1 DEF TradesOf
    <2>3. @ = {Trade(o, m, m.remaining) : m \in G} \union {Trade(o, f, p)}
        BY <1>7, <1>8
    <2> QED
        BY <2>2, <2>3 DEF FilledPart
<1>11. R = MakersLeft(S, o)
    <2>1. ASSUME NEW x \in S \ H PROVE LeftOf(S, o, x) = x /\ x.remaining > 0
        BY <1>9, LeftOfUntaken
    <2>2. ASSUME NEW x \in G PROVE LeftOf(S, o, x).remaining = 0
        <3>1. LeftOf(S, o, x) = [x EXCEPT !.remaining = x.remaining - x.remaining]
            BY <1>1, <1>7 DEF LeftOf
        <3>2. x \in Briefs
            BY <1>1 DEF Listing
        <3> QED
            BY <3>1, <3>2 DEF Briefs
    <2>3. LeftOf(S, o, f) = Part(f, p) /\ Part(f, p).remaining > 0
        <3>1. LeftOf(S, o, f) = Part(f, p)
            BY <1>1, <1>8 DEF LeftOf, Part
        <3>2. Part(f, p).remaining = f.remaining - p
            BY <1>1 DEF Part, Briefs
        <3> QED
            BY <1>1, <3>1, <3>2
    <2>4. MakersLeft(S, o) = (S \ H) \union {Part(f, p)}
        BY <1>1, <2>1, <2>2, <2>3 DEF MakersLeft
    <2> QED
        BY <2>4 DEF FilledPart
<1>12. left = LeftOver(S, o)
    <2>1. ~(Amount(Wanted(S, o)) < o.quantity)
        BY <1>4, <1>6
    <2> QED
        BY <1>5, <2>1 DEF LeftOver
<1> QED
    BY <1>10, <1>11, <1>12

(* An order that takes from one after the other, best first, until it wants or finds no more   *)
(* takes what AbstractBook says.                                                                *)
LEMMA ServedIs ==
    ASSUME NEW S, Listing(S), NEW o, o.side \in Sides, o.quantity \in Nat,
           NEW R, NEW T, NEW left, Served(S, o, R, T, left), Satisfied(o, R, left)
    PROVE  R = MakersLeft(S, o) /\ T = TradesOf(S, o) /\ left = LeftOver(S, o)
<1>1. CASE \E G : FilledWhole(S, o, G, R, T, left)
    BY <1>1, ServedWhole
<1>2. CASE \E G, f, p : FilledPart(S, o, G, f, p, R, T, left)
    BY <1>2, ServedPart
<1> QED
    BY <1>1, <1>2 DEF Served

\* At the start o has taken nothing.
LEMMA ServedAtFirst ==
    ASSUME NEW S, Listing(S), NEW o, o.quantity \in Nat
    PROVE  Served(S, o, S, {}, o.quantity)
<1>1. Amount({}) = 0
    BY SumOfNone DEF Amount
<1>2. FilledWhole(S, o, {}, S, {}, o.quantity)
    BY <1>1 DEF FilledWhole, FirstServed
<1> QED
    BY <1>2 DEF Served

\* What is left of the orders when o takes qty from f.
FilledIn(R, f, qty) == (R \ {f}) \union (IF qty = f.remaining THEN {} ELSE {Part(f, qty)})

\* Then it takes from the best that it finds.
LEMMA ServedMore ==
    ASSUME NEW S, Listing(S), NEW o, o.side \in Sides, o.quantity \in Nat,
           NEW R, NEW T, NEW left, Served(S, o, R, T, left), left # 0,
           NEW f \in Wanted(R, o), \A x \in Wanted(R, o) \ {f} : Precedes(f, x),
           NEW qty, qty = MinQty(left, f.remaining)
    PROVE  Served(S, o, FilledIn(R, f, qty), T \union {Trade(o, f, qty)}, left - qty)
<1>1. PICK G : FilledWhole(S, o, G, R, T, left)
    BY DEF Served, FilledPart
<1> DEFINE H == G \union {f}
<1>2. /\ G \in SUBSET S /\ R = S \ G /\ f \in S \ G /\ f \in Wanted(S, o) \ G
      /\ f.remaining \in Nat \ {0} /\ left \in Nat \ {0} /\ left + Amount(G) = o.quantity
    BY <1>1 DEF FilledWhole, FirstServed, Wanted, Listing, Briefs
<1>3. Amount(G) \in Nat /\ Amount(H) = Amount(G) + f.remaining
    <2>1. G \in SUBSET G
        OBVIOUS
    <2> QED
        BY <1>2, <2>1, AmountOfParts, AmountOfMore
<1>4. FirstServed(S, o, H)
    <2>1. H \subseteq Wanted(S, o)
        BY <1>1, <1>2 DEF FilledWhole, FirstServed
    <2>2. ASSUME NEW m \in H, NEW x \in Wanted(S, o) \ H PROVE Precedes(m, x)
        <3>1. CASE m \in G
            BY <1>1, <2>2, <3>1 DEF FilledWhole, FirstServed
        <3>2. CASE m = f
            BY <1>2, <2>2, <3>2 DEF Wanted
        <3> QED
            BY <3>1, <3>2
    <2> HIDE DEF H
    <2> QED
        BY <2>1, <2>2 DEF FirstServed
<1>5. T = {Trade(o, m, m.remaining) : m \in G}
    BY <1>1 DEF FilledWhole
<1>6. CASE f.remaining <= left
    <2>1. qty = f.remaining
        BY <1>2, <1>6 DEF MinQty
    <2>2. FilledIn(R, f, qty) = S \ H
        BY <1>2, <2>1 DEF FilledIn
    <2>3. left - qty \in Nat /\ (left - qty) + Amount(H) = o.quantity
        BY <1>2, <1>3, <1>6, <2>1
    <2>4. T \union {Trade(o, f, qty)} = {Trade(o, m, m.remaining) : m \in H}
        BY <1>5, <2>1
    <2>5. FilledWhole(S, o, H, FilledIn(R, f, qty), T \union {Trade(o, f, qty)}, left - qty)
        BY <1>4, <2>2, <2>3, <2>4 DEF FilledWhole
    <2> QED
        BY <2>5 DEF Served
<1>7. CASE ~(f.remaining <= left)
    <2>1. qty = left /\ qty \in 1..f.remaining - 1 /\ left - qty = 0
        BY <1>2, <1>7 DEF MinQty
    <2>2. FilledIn(R, f, qty) = (S \ H) \union {Part(f, qty)}
        BY <1>2, <2>1 DEF FilledIn
    <2>3. Amount(G) + qty = o.quantity
        BY <1>2, <1>3, <2>1
    <2>4. FilledPart(S, o, G, f, qty, FilledIn(R, f, qty), T \union {Trade(o, f, qty)}, left - qty)
        BY <1>1, <1>2, <1>4, <1>5, <2>1, <2>2, <2>3 DEF FilledPart, FilledWhole
    <2> QED
        BY <2>4 DEF Served
<1> QED
    BY <1>6, <1>7

-----------------------------------------------------------------------------
(* What rests on a book, and in what order *)

Brief(o) == [id |-> o.id, side |-> o.side, price |-> o.price, remaining |-> o.remaining]
Listed(b) == {Brief(o) : o \in OrdersIn(b)}

\* The orders of every queue are in the order in which they came.
InTurn(q) == \A i, j \in 1..Len(q) : i < j => q[i].id < q[j].id
TimeOrdered(b) ==
    \A side \in Sides : \A price \in DOMAIN b.levels[side] : InTurn(b.levels[side][price].orders)

\* An order is on the level of its side and price.
OnItsLevel(b, x) ==
    /\ x.side \in Sides /\ x.price \in DOMAIN b.levels[x.side]
    /\ \E i \in 1..Len(b.levels[x.side][x.price].orders) :
           x = b.levels[x.side][x.price].orders[i]

LEMMA OrdersPlace ==
    ASSUME NEW shows \in BOOLEAN, NEW b, Sound(b, shows)
    PROVE  /\ \A x \in OrdersIn(b) : x \in Waiting /\ x.id \in DOMAIN b.index /\ OnItsLevel(b, x)
           /\ \A side \in Sides : \A price \in DOMAIN b.levels[side] :
                  \A i \in 1..Len(b.levels[side][price].orders) :
                      LET x == b.levels[side][price].orders[i]
                      IN  x \in OrdersIn(b) /\ x.side = side /\ x.price = price
<1>1. ASSUME NEW side \in Sides, NEW price \in DOMAIN b.levels[side],
             NEW level, level = b.levels[side][price]
      PROVE  /\ OrdersAt(b, side, price) = {level.orders[i] : i \in 1..Len(level.orders)}
             /\ \A i \in 1..Len(level.orders) :
                    /\ level.orders[i] \in Waiting /\ level.orders[i].id \in DOMAIN b.index
                    /\ level.orders[i].side = side /\ level.orders[i].price = price
    <2>1. Fitting(b, level, side, price, shows)
        BY <1>1, LevelParts
    <2>2. level.orders \in Seq(Waiting)
        BY <2>1 DEF Fitting, LevelExact
    <2>3. OrdersAt(b, side, price) = {level.orders[i] : i \in 1..Len(level.orders)}
        <3>1. DOMAIN level.orders = 1..Len(level.orders)
            BY <2>2
        <3> QED
            BY <1>1, <3>1 DEF OrdersAt, Range
    <2>4. \A i \in 1..Len(level.orders) :
              /\ level.orders[i] \in Waiting /\ level.orders[i].id \in DOMAIN b.index
              /\ level.orders[i].side = side /\ level.orders[i].price = price
        BY <2>1, <2>2 DEF Fitting, LevelExact
    <2> QED
        BY <2>3, <2>4
<1>2. ASSUME NEW x \in OrdersIn(b)
      PROVE  x \in Waiting /\ x.id \in DOMAIN b.index /\ OnItsLevel(b, x)
    <2>1. PICK side \in Sides : \E price \in DOMAIN b.levels[side] : x \in OrdersAt(b, side, price)
        BY DEF OrdersIn
    <2>2. PICK price \in DOMAIN b.levels[side] : x \in OrdersAt(b, side, price)
        BY <2>1
    <2>3. PICK i \in 1..Len(b.levels[side][price].orders) : x = b.levels[side][price].orders[i]
        BY <1>1, <2>2
    <2>4. x \in Waiting /\ x.id \in DOMAIN b.index /\ x.side = side /\ x.price = price
        BY <1>1, <2>3
    <2> QED
        BY <2>3, <2>4 DEF OnItsLevel
<1>3. ASSUME NEW side \in Sides, NEW price \in DOMAIN b.levels[side],
             NEW i \in 1..Len(b.levels[side][price].orders),
             NEW x, x = b.levels[side][price].orders[i]
      PROVE  x \in OrdersIn(b) /\ x.side = side /\ x.price = price
    <2>1. x \in OrdersAt(b, side, price) /\ x.side = side /\ x.price = price
        BY <1>1, <1>3
    <2> QED
        BY <2>1 DEF OrdersIn
<1> QED
    BY <1>2, <1>3

\* No two orders on a book have one id.
LEMMA OneForAnId ==
    ASSUME NEW shows \in BOOLEAN, NEW b, Sound(b, shows),
           NEW x \in OrdersIn(b), NEW y \in OrdersIn(b), x.id = y.id
    PROVE  x = y
<1>1. OnItsLevel(b, x) /\ OnItsLevel(b, y)
    BY OrdersPlace
<1>2. PICK i \in 1..Len(b.levels[x.side][x.price].orders) :
          x = b.levels[x.side][x.price].orders[i]
    BY <1>1 DEF OnItsLevel
<1>3. PICK j \in 1..Len(b.levels[y.side][y.price].orders) :
          y = b.levels[y.side][y.price].orders[j]
    BY <1>1 DEF OnItsLevel
<1>4. /\ b.index[x.id] = At(x.side, x.price) /\ Distinct(b.levels[x.side][x.price].orders)
      /\ b.index[y.id] = At(y.side, y.price)
    <2>1. /\ Fitting(b, b.levels[x.side][x.price], x.side, x.price, shows)
          /\ Fitting(b, b.levels[y.side][y.price], y.side, y.price, shows)
        BY <1>1, LevelParts DEF OnItsLevel
    <2> QED
        BY <1>2, <1>3, <2>1 DEF Fitting
<1>5. x.side = y.side /\ x.price = y.price
    BY <1>4 DEF At
<1> QED
    BY <1>2, <1>3, <1>4, <1>5 DEF Distinct

LEMMA ListingOfBook ==
    ASSUME NEW shows \in BOOLEAN, NEW b, Sound(b, shows)
    PROVE  /\ Listing(Listed(b))
           /\ \A x, y \in OrdersIn(b) : Brief(x) = Brief(y) => x = y
<1>1. ASSUME NEW x \in OrdersIn(b), NEW y \in OrdersIn(b), Brief(x).id = Brief(y).id
      PROVE  x = y
    <2>1. x.id = y.id
        BY <1>1 DEF Brief
    <2> QED
        BY <2>1, OneForAnId
<1>2. \A x \in OrdersIn(b) : Brief(x) \in Briefs /\ Brief(x).id \in DOMAIN b.index
    BY OrdersPlace, WaitingType DEF Brief, Briefs
<1>3. IsFiniteSet(Listed(b))
    <2> DEFINE ids == {m.id : m \in Listed(b)}
               of(i) == CHOOSE m \in Listed(b) : m.id = i
    <2>1. ids \in SUBSET (1..MaxOrders) /\ MaxOrders \in Nat
        BY <1>2, MarketAssumption DEF Listed, Sound
    <2>2. IsFiniteSet(ids)
        <3>1. IsFiniteSet(1..MaxOrders)
            BY <2>1, FS_Interval
        <3> HIDE DEF ids
        <3> QED
            BY <2>1, <3>1, FS_Subset
    <2>3. IsFiniteSet({of(i) : i \in ids})
        <3> HIDE DEF ids, of
        <3>1. [i \in ids |-> of(i)] \in Surjection(ids, {of(i) : i \in ids})
            BY DEF Surjection
        <3> QED
            BY <2>2, <3>1, FS_Surjection
    <2>4. Listed(b) \subseteq {of(i) : i \in ids}
        <3>1. SUFFICES ASSUME NEW m \in Listed(b) PROVE m = of(m.id) /\ m.id \in ids
            OBVIOUS
        <3>2. of(m.id) \in Listed(b) /\ of(m.id).id = m.id
            OBVIOUS
        <3>3. m = of(m.id)
            <4> HIDE DEF of
            <4> QED
                BY <1>1, <3>2 DEF Listed
        <3> QED
            BY <3>3
    <2> QED
        BY <2>3, <2>4, FS_Subset
<1>4. ASSUME NEW m \in Listed(b), NEW n \in Listed(b), m.id = n.id PROVE m = n
    <2>1. PICK x \in OrdersIn(b), y \in OrdersIn(b) : m = Brief(x) /\ n = Brief(y)
        BY DEF Listed
    <2> QED
        BY <1>1, <1>4, <2>1
<1>5. Listed(b) \subseteq Briefs
    BY <1>2 DEF Listed
<1>6. \A x, y \in OrdersIn(b) : Brief(x) = Brief(y) => x = y
    BY <1>1
<1> QED
    BY <1>3, <1>4, <1>5, <1>6 DEF Listing

\* A level for book c, which has the levels of b.
LevelFor(b, c, side, price, level) ==
    /\ IsBook(c) /\ c.levels = b.levels
    /\ level.orders \in Seq(Waiting)
    /\ \A i \in 1..Len(level.orders) :
           level.orders[i].side = side /\ level.orders[i].price = price

\* Book d has the orders of b, but for those of this side and price, which are these.
Relaid(b, d, side, price, orders) ==
    /\ OrdersIn(d) = {x \in OrdersIn(b) : ~(x.side = side /\ x.price = price)}
                         \union {orders[i] : i \in 1..Len(orders)}
    /\ TimeOrdered(b) /\ InTurn(orders) => TimeOrdered(d)

(* So has a book with that level put into it. *)
LEMMA OneLevel ==
    ASSUME NEW shows \in BOOLEAN, NEW b, Sound(b, shows), NEW c, NEW side \in Sides, NEW price,
           NEW level, LevelFor(b, c, side, price, level),
           NEW d, d = WithLevel(c, side, price, level), Sound(d, shows)
    PROVE  Relaid(b, d, side, price, level.orders)
<1> USE DEF LevelFor
<1>1. /\ \A s \in Sides : s # side => d.levels[s] = b.levels[s]
      /\ level.orders = <<>> => DOMAIN d.levels[side] = DOMAIN b.levels[side] \ {price}
      /\ level.orders # <<>> => DOMAIN d.levels[side] = DOMAIN b.levels[side] \union {price}
      /\ level.orders # <<>> => d.levels[side][price] = level
      /\ \A p \in DOMAIN b.levels[side] : p # price => d.levels[side][p] = b.levels[side][p]
    BY WithLevelReplaces DEF Replaced
<1>2. ASSUME NEW s \in Sides, NEW p, ~(s = side /\ p = price)
      PROVE  /\ p \in DOMAIN d.levels[s] <=> p \in DOMAIN b.levels[s]
             /\ p \in DOMAIN b.levels[s] => d.levels[s][p] = b.levels[s][p]
    BY <1>1, <1>2
<1>3. ASSUME NEW x, ~(x.side = side /\ x.price = price)
      PROVE  x \in OrdersIn(d) <=> x \in OrdersIn(b)
    <2>1. OnItsLevel(d, x) <=> OnItsLevel(b, x)
        BY <1>2, <1>3 DEF OnItsLevel
    <2>2. x \in OrdersIn(d) <=> OnItsLevel(d, x)
        BY OrdersPlace DEF OnItsLevel
    <2>3. x \in OrdersIn(b) <=> OnItsLevel(b, x)
        BY OrdersPlace DEF OnItsLevel
    <2> QED
        BY <2>1, <2>2, <2>3
<1>4. ASSUME NEW x, x.side = side, x.price = price
      PROVE  x \in OrdersIn(d) <=> \E i \in 1..Len(level.orders) : x = level.orders[i]
    <2>1. x \in OrdersIn(d) <=> OnItsLevel(d, x)
        BY OrdersPlace DEF OnItsLevel
    <2>2. CASE level.orders = <<>>
        <3>1. ~OnItsLevel(d, x) /\ Len(level.orders) = 0
            BY <1>1, <1>4, <2>2 DEF OnItsLevel
        <3> QED
            BY <2>1, <3>1
    <2>3. CASE level.orders # <<>>
        <3>1. OnItsLevel(d, x) <=> \E i \in 1..Len(level.orders) : x = level.orders[i]
            BY <1>1, <1>4, <2>3 DEF OnItsLevel
        <3> QED
            BY <2>1, <3>1
    <2> QED
        BY <2>2, <2>3
<1>5. OrdersIn(d) = {x \in OrdersIn(b) : ~(x.side = side /\ x.price = price)}
                        \union {level.orders[i] : i \in 1..Len(level.orders)}
    BY <1>3, <1>4
<1>6. ASSUME TimeOrdered(b), InTurn(level.orders) PROVE TimeOrdered(d)
    <2>1. SUFFICES ASSUME NEW s \in Sides, NEW p \in DOMAIN d.levels[s]
                   PROVE  InTurn(d.levels[s][p].orders)
        BY DEF TimeOrdered
    <2>2. CASE s = side /\ p = price
        BY <1>1, <1>6, <2>2
    <2>3. CASE ~(s = side /\ p = price)
        BY <1>2, <1>6, <2>3 DEF TimeOrdered
    <2> QED
        BY <2>2, <2>3
<1> QED
    BY <1>5, <1>6 DEF Relaid

\* A new order joins those on the book, behind them.
LEMMA PlacedJoins ==
    ASSUME NEW shows \in BOOLEAN, NEW b, Sound(b, shows), TimeOrdered(b),
           NEW o \in Waiting, \A id \in DOMAIN b.index : id < o.id
    PROVE  /\ OrdersIn(Placed(b, o)) = OrdersIn(b) \union {o}
           /\ TimeOrdered(Placed(b, o))
<1> DEFINE level == LevelAt(b, o.side, o.price)
           after == [orders |-> Queued(level.orders, o),
                     total |-> level.total + o.remaining,
                     visible |-> level.visible + Shown(o, o.remaining)]
           c == Indexed(b, o)
           d == Placed(b, o)
<1>1. o.side \in Sides /\ o.price \in Nat \ {0} /\ o.id \in Nat /\ o.id \notin DOMAIN b.index
    <2>1. o.id \in Nat
        BY WaitingType, MarketAssumption
    <2> QED
        BY <2>1, WaitingType
<1>2. /\ level \in Levels /\ LevelExact(level, o.side, o.price, shows)
      /\ \A id \in Ids(level.orders) : id \in DOMAIN b.index
    BY <1>1, LevelFound
<1>3. level.orders \in Seq(Waiting) /\ Len(level.orders) \in Nat
    BY <1>2 DEF Levels
<1>4. Sound(d, shows)
    BY <1>1, PlacedSound
<1>5. d = WithLevel(c, o.side, o.price, after)
    BY DEF Placed
<1>6. IsBook(c) /\ c.levels = b.levels
    <2>1. b = [levels |-> [side \in Sides |-> b.levels[side]], index |-> b.index]
        BY DEF Sound, IsBook
    <2>2. \E index : c = [b EXCEPT !.index = index]
        BY DEF Indexed
    <2> HIDE DEF c
    <2> QED
        BY <2>1, <2>2 DEF IsBook
<1>7. /\ after.orders = Append(level.orders, o) /\ after.orders \in Seq(Waiting)
      /\ Len(after.orders) = Len(level.orders) + 1
      /\ \A i \in 1..Len(level.orders) : after.orders[i] = level.orders[i]
      /\ after.orders[Len(level.orders) + 1] = o
    BY <1>3 DEF Queued
<1>8. \A x : x \in OrdersIn(b) /\ x.side = o.side /\ x.price = o.price
                 => \E i \in 1..Len(level.orders) : x = level.orders[i]
    <2>1. SUFFICES ASSUME NEW x \in OrdersIn(b), x.side = o.side, x.price = o.price
                   PROVE  \E i \in 1..Len(level.orders) : x = level.orders[i]
        OBVIOUS
    <2>2. OnItsLevel(b, x)
        BY OrdersPlace
    <2>3. /\ o.price \in DOMAIN b.levels[o.side]
          /\ \E i \in 1..Len(b.levels[o.side][o.price].orders) :
                 x = b.levels[o.side][o.price].orders[i]
        BY <2>1, <2>2 DEF OnItsLevel
    <2>4. level = b.levels[o.side][o.price]
        BY <2>3 DEF LevelAt
    <2> HIDE DEF level
    <2> QED
        BY <2>3, <2>4
<1>9. \A i \in 1..Len(level.orders) : level.orders[i] \in OrdersIn(b)
    <2>1. CASE o.price \in DOMAIN b.levels[o.side]
        <3>1. level = b.levels[o.side][o.price]
            BY <2>1 DEF LevelAt
        <3> HIDE DEF level
        <3> QED
            BY <1>1, <2>1, <3>1, OrdersPlace
    <2>2. CASE o.price \notin DOMAIN b.levels[o.side]
        <3>1. level.orders = <<>>
            BY <2>2 DEF LevelAt
        <3> HIDE DEF level
        <3> QED
            BY <3>1
    <2> QED
        BY <2>1, <2>2
<1>10. InTurn(level.orders) /\ \A i \in 1..Len(level.orders) : level.orders[i].id < o.id
    <2>1. InTurn(level.orders)
        <3>1. CASE o.price \in DOMAIN b.levels[o.side]
            BY <1>1, <3>1 DEF LevelAt, TimeOrdered
        <3>2. CASE o.price \notin DOMAIN b.levels[o.side]
            BY <3>2 DEF LevelAt, InTurn
        <3> QED
            BY <3>1, <3>2
    <2>2. \A i \in 1..Len(level.orders) : level.orders[i].id \in DOMAIN b.index
        BY <1>2 DEF Ids
    <2> QED
        BY <2>1, <2>2
<1> HIDE DEF level, after, c, d
<1>11. InTurn(after.orders)
    <2>1. SUFFICES ASSUME NEW i \in 1..Len(level.orders) + 1, NEW j \in 1..Len(level.orders) + 1,
                          i < j
                   PROVE  after.orders[i].id < after.orders[j].id
        BY <1>7 DEF InTurn
    <2>2. i \in 1..Len(level.orders) /\ after.orders[i] = level.orders[i]
        BY <1>3, <1>7, <2>1
    <2>3. CASE j = Len(level.orders) + 1
        BY <1>7, <1>10, <2>2, <2>3
    <2>4. CASE j # Len(level.orders) + 1
        <3>1. j \in 1..Len(level.orders) /\ after.orders[j] = level.orders[j]
            BY <1>3, <1>7, <2>1, <2>4
        <3> QED
            BY <1>10, <2>1, <2>2, <3>1 DEF InTurn
    <2> QED
        BY <2>3, <2>4
<1>12. \A i \in 1..Len(after.orders) :
           after.orders[i].side = o.side /\ after.orders[i].price = o.price
    BY <1>2, <1>3, <1>7 DEF LevelExact
<1>13. {after.orders[i] : i \in 1..Len(after.orders)}
           = {level.orders[i] : i \in 1..Len(level.orders)} \union {o}
    BY <1>3, <1>7
<1>14. /\ OrdersIn(d) = {x \in OrdersIn(b) : ~(x.side = o.side /\ x.price = o.price)}
                            \union {after.orders[i] : i \in 1..Len(after.orders)}
       /\ TimeOrdered(d)
    <2>1. LevelFor(b, c, o.side, o.price, after)
        BY <1>6, <1>7, <1>12 DEF LevelFor
    <2>2. Relaid(b, d, o.side, o.price, after.orders)
        BY ONLY <1>1, <1>4, <1>5, <2>1, OneLevel, Sound(b, shows), shows \in BOOLEAN
    <2> QED
        BY <1>11, <2>2 DEF Relaid
<1>15. OrdersIn(d) = OrdersIn(b) \union {o}
    <2>1. ASSUME NEW x
          PROVE  x \in OrdersIn(d) <=> x \in OrdersIn(b) \/ x = o
        <3>1. CASE \E i \in 1..Len(level.orders) : x = level.orders[i]
            BY <1>9, <1>13, <1>14, <3>1
        <3>2. CASE ~\E i \in 1..Len(level.orders) : x = level.orders[i]
            BY <1>8, <1>13, <1>14, <3>2
        <3> QED
            BY <3>1, <3>2
    <2> QED
        BY <2>1
<1> QED
    BY <1>14, <1>15 DEF d

\* A queue without one of its orders.
LEMMA TurnsWithout ==
    ASSUME NEW q \in Seq(Waiting), NEW r \in Seq(Waiting), NEW k \in 1..Len(q), Without(r, q, k),
           Distinct(q)
    PROVE  /\ {r[i] : i \in 1..Len(r)} = {q[i] : i \in 1..Len(q)} \ {q[k]}
           /\ InTurn(q) => InTurn(r)
<1> DEFINE n == Len(q)
           from(i) == IF i < k THEN i ELSE i + 1
<1>1. n \in Nat /\ k \in 1..n /\ Len(r) = n - 1
    BY DEF Without
<1>2. ASSUME NEW i \in 1..n - 1
      PROVE  from(i) \in 1..n /\ from(i) # k /\ r[i] = q[from(i)]
    <2>1. CASE i < k
        BY <1>1, <2>1 DEF Without
    <2>2. CASE ~(i < k)
        <3>1. i \in k..n - 1
            BY <1>1, <2>2
        <3> QED
            BY <1>1, <2>2, <3>1 DEF Without
    <2> QED
        BY <2>1, <2>2
<1>3. ASSUME NEW j \in 1..n, j # k PROVE \E i \in 1..n - 1 : from(i) = j
    <2>1. CASE j < k
        <3>1. j \in 1..n - 1 /\ from(j) = j
            BY <1>1, <2>1
        <3> QED
            BY <3>1
    <2>2. CASE ~(j < k)
        <3>1. j - 1 \in 1..n - 1 /\ from(j - 1) = j
            BY <1>1, <1>3, <2>2
        <3> QED
            BY <3>1
    <2> QED
        BY <2>1, <2>2
<1>4. ASSUME NEW i \in 1..n - 1, NEW j \in 1..n - 1, i < j PROVE from(i) < from(j)
    BY <1>1, <1>4
<1> HIDE DEF n, from
<1>5. \A j \in 1..n : j # k => q[j] # q[k]
    BY <1>1 DEF Distinct, n
<1>6. {r[i] : i \in 1..n - 1} = {q[i] : i \in 1..n} \ {q[k]}
    <2>1. ASSUME NEW i \in 1..n - 1 PROVE r[i] \in {q[j] : j \in 1..n} \ {q[k]}
        BY <1>2, <1>5
    <2>2. ASSUME NEW j \in 1..n, q[j] # q[k] PROVE \E i \in 1..n - 1 : r[i] = q[j]
        <3>1. PICK i \in 1..n - 1 : from(i) = j
            BY <1>3, <2>2
        <3> QED
            BY <1>2, <3>1
    <2> QED
        BY <2>1, <2>2
<1>7. ASSUME InTurn(q), NEW i \in 1..n - 1, NEW j \in 1..n - 1, i < j PROVE r[i].id < r[j].id
    <2>1. from(i) \in 1..n /\ from(j) \in 1..n /\ from(i) < from(j)
        BY <1>2, <1>4, <1>7
    <2>2. q[from(i)].id < q[from(j)].id
        BY <1>7, <2>1 DEF InTurn, n
    <2> QED
        BY <1>2, <2>2
<1> QED
    BY <1>1, <1>6, <1>7 DEF InTurn, n

\* A queue whose front order has less left of it.
LEMMA TurnsReduced ==
    ASSUME NEW q \in Seq(Waiting), q # <<>>, Distinct(q),
           NEW rest \in Nat \ {0}, rest <= q[1].remaining,
           NEW r, r = [q EXCEPT ![1].remaining = rest]
    PROVE  /\ {r[i] : i \in 1..Len(r)}
                  = ({q[i] : i \in 1..Len(q)} \ {q[1]}) \union {[q[1] EXCEPT !.remaining = rest]}
           /\ InTurn(q) => InTurn(r)
<1>1. Reduced(r, q, rest)
    BY ReducedOrder
<1>2. /\ Len(r) = Len(q) /\ Len(q) \in Nat /\ 1 \in 1..Len(q)
      /\ \A i \in 1..Len(q) : r[i].id = q[i].id
    BY <1>1 DEF Reduced
<1>3. r[1] = [q[1] EXCEPT !.remaining = rest] /\ \A i \in 1..Len(q) : i # 1 => r[i] = q[i]
    BY <1>2
<1>4. \A i \in 1..Len(q) : i # 1 => q[i] # q[1]
    BY <1>2 DEF Distinct
<1>5. {r[i] : i \in 1..Len(r)}
          = ({q[i] : i \in 1..Len(q)} \ {q[1]}) \union {[q[1] EXCEPT !.remaining = rest]}
    <2> DEFINE part == [q[1] EXCEPT !.remaining = rest]
    <2>1. r[1] = part
        BY <1>3
    <2> HIDE DEF part
    <2>2. {r[i] : i \in 1..Len(r)} = ({q[i] : i \in 1..Len(q)} \ {q[1]}) \union {part}
        <3>1. ASSUME NEW i \in 1..Len(q)
              PROVE  r[i] \in ({q[j] : j \in 1..Len(q)} \ {q[1]}) \union {part}
            BY <1>3, <1>4, <2>1
        <3>2. ASSUME NEW j \in 1..Len(q), q[j] # q[1] PROVE q[j] = r[j]
            BY <1>3, <3>2
        <3> HIDE <1>3
        <3> QED
            BY <1>2, <2>1, <3>1, <3>2
    <2> QED
        BY <2>2 DEF part
<1>6. InTurn(q) => InTurn(r)
    BY <1>2 DEF InTurn
<1> QED
    BY <1>5, <1>6

\* A book from which an order went: the others stay, in their order.
LEMMA OutLeaves ==
    ASSUME NEW shows \in BOOLEAN, NEW b, Sound(b, shows), NEW side \in Sides,
           NEW price, NEW after, NEW id, OrderOut(b, side, price, after, id, shows),
           NEW d, d = WithLevel(Unindexed(b, id), side, price, after)
    PROVE  /\ \E x \in OrdersIn(b) : x.id = id /\ OrdersIn(d) = OrdersIn(b) \ {x}
           /\ TimeOrdered(b) => TimeOrdered(d)
<1> DEFINE level == b.levels[side][price]
           q == level.orders
           c == Unindexed(b, id)
<1>1. after \in Levels /\ price \in DOMAIN b.levels[side]
    BY DEF OrderOut
<1>2. PICK k \in 1..Len(q) : q[k].id = id /\ Without(after.orders, q, k)
    BY DEF OrderOut, Lacking
<1>3. /\ q \in Seq(Waiting) /\ after.orders \in Seq(Waiting) /\ Distinct(q)
      /\ \A i \in 1..Len(q) : q[i].side = side /\ q[i].price = price
    <2>1. Fitting(b, level, side, price, shows)
        BY <1>1, LevelParts
    <2> HIDE DEF level
    <2> QED
        BY <1>1, <2>1 DEF Fitting, LevelExact, Levels
<1>4. IsBook(c) /\ c.levels = b.levels
    <2>1. Unlisted(b, c, id)
        BY UnindexedUnlists DEF Sound
    <2> HIDE DEF c
    <2> QED
        BY <2>1 DEF Unlisted
<1>5. \A i \in 1..Len(q) : q[i] \in OrdersIn(b)
    BY <1>1, OrdersPlace
<1>6. \A x \in OrdersIn(b) :
          x.side = side /\ x.price = price => \E i \in 1..Len(q) : x = q[i]
    BY OrdersPlace DEF OnItsLevel
<1>7. TimeOrdered(b) => InTurn(q)
    BY <1>1 DEF TimeOrdered
<1>8. Sound(d, shows)
    BY TakenOutSound
<1> HIDE DEF level, q, c
<1>9. \A i \in 1..Len(after.orders) : \E j \in 1..Len(q) : after.orders[i] = q[j]
    BY <1>2, <1>3, WithoutOrder
<1>10. LevelFor(b, c, side, price, after)
    <2>1. ASSUME NEW i \in 1..Len(after.orders)
          PROVE  after.orders[i].side = side /\ after.orders[i].price = price
        BY <1>3, <1>9
    <2> QED
        BY <1>3, <1>4, <2>1 DEF LevelFor
<1>11. Relaid(b, d, side, price, after.orders)
    <2>1. d = WithLevel(c, side, price, after)
        BY DEF c
    <2> QED
        BY ONLY <1>8, <1>10, <2>1, OneLevel, side \in Sides, Sound(b, shows), shows \in BOOLEAN
<1>12. {after.orders[i] : i \in 1..Len(after.orders)} = {q[i] : i \in 1..Len(q)} \ {q[k]}
    BY <1>2, <1>3, TurnsWithout
<1>13. OrdersIn(d) = OrdersIn(b) \ {q[k]}
    <2>1. ASSUME NEW x PROVE x \in OrdersIn(d) <=> x \in OrdersIn(b) /\ x # q[k]
        <3>1. x \in OrdersIn(d) <=> \/ x \in OrdersIn(b) /\ ~(x.side = side /\ x.price = price)
                                    \/ (\E i \in 1..Len(q) : x = q[i]) /\ x # q[k]
            BY <1>11, <1>12 DEF Relaid
        <3>2. CASE \E i \in 1..Len(q) : x = q[i]
            <4>1. x \in OrdersIn(b) /\ x.side = side /\ x.price = price
                BY <1>3, <1>5, <3>2
            <4> QED
                BY <3>1, <3>2, <4>1
        <3>3. CASE ~\E i \in 1..Len(q) : x = q[i]
            BY <1>6, <3>1, <3>3
        <3> QED
            BY <3>2, <3>3
    <2> QED
        BY <2>1
<1>14. TimeOrdered(b) => TimeOrdered(d)
    <2>1. TimeOrdered(b) => InTurn(after.orders)
        BY <1>2, <1>3, <1>7, TurnsWithout
    <2> QED
        BY <1>11, <2>1 DEF Relaid
<1> QED
    BY <1>2, <1>5, <1>13, <1>14

\* What a fill of the front order leaves.
LEMMA FillLeaves ==
    ASSUME NEW shows \in BOOLEAN, NEW b, Sound(b, shows), NEW side \in Sides,
           HasOrders(b, side), NEW front, front = Front(b, side), NEW qty \in 1..front.remaining,
           NEW c, c = FrontFilled(b, side, qty, shows)
    PROVE  /\ OrdersIn(c) = (OrdersIn(b) \ {front})
                  \union (IF qty = front.remaining THEN {}
                          ELSE {[front EXCEPT !.remaining = front.remaining - qty]})
           /\ TimeOrdered(b) => TimeOrdered(c)
<1> DEFINE price == BestPrice(b, side)
           level == b.levels[side][price]
           q == level.orders
           rest == front.remaining - qty
           part == [front EXCEPT !.remaining = rest]
<1>1. PICK left : FilledWith(b, c, side, price, front, qty, left, shows)
    BY FrontFilledFills
<1>2. /\ price \in DOMAIN b.levels[side] /\ front = q[1] /\ front \in Waiting
    BY FrontFound
<1> HIDE DEF price
<1>3. /\ q \in Seq(Waiting) /\ Distinct(q) /\ q # <<>> /\ 1 \in 1..Len(q)
      /\ \A i \in 1..Len(q) : q[i].side = side /\ q[i].price = price
    <2>1. Fitting(b, level, side, price, shows)
        BY <1>2, LevelParts
    <2> HIDE DEF level
    <2> QED
        BY <2>1 DEF Fitting, LevelExact
<1>4. \A i \in 1..Len(q) : q[i] \in OrdersIn(b)
    BY <1>2, OrdersPlace
<1>5. \A x \in OrdersIn(b) : x.side = side /\ x.price = price => \E i \in 1..Len(q) : x = q[i]
    BY OrdersPlace DEF OnItsLevel
<1>6. TimeOrdered(b) => InTurn(q)
    BY <1>2 DEF TimeOrdered
<1> HIDE DEF level
<1>7. CASE qty = front.remaining
    <2>1. /\ OrderOut(b, side, price, left, front.id, shows)
          /\ c = WithLevel(Unindexed(b, front.id), side, price, left)
        BY <1>1, <1>7 DEF FilledWith
    <2>2. PICK x \in OrdersIn(b) : x.id = front.id /\ OrdersIn(c) = OrdersIn(b) \ {x}
        BY <2>1, OutLeaves
    <2>3. TimeOrdered(b) => TimeOrdered(c)
        BY <2>1, OutLeaves
    <2>4. x = front
        BY <1>2, <1>3, <1>4, <2>2, OneForAnId
    <2> QED
        BY <1>7, <2>2, <2>3, <2>4
<1>8. CASE qty # front.remaining
    <2>1. /\ Relisted(b, b, side, price, left, shows)
          /\ left.orders = [q EXCEPT ![1].remaining = rest]
          /\ c = WithLevel(b, side, price, left)
        BY <1>1, <1>8 DEF FilledWith, level
    <2>2. rest \in Nat \ {0} /\ rest <= q[1].remaining
        BY <1>2, <1>8, WaitingType
    <2> HIDE DEF rest, q
    <2>3. /\ {left.orders[i] : i \in 1..Len(left.orders)}
                 = ({q[i] : i \in 1..Len(q)} \ {q[1]}) \union {[q[1] EXCEPT !.remaining = rest]}
          /\ InTurn(q) => InTurn(left.orders)
        BY <1>3, <2>1, <2>2, TurnsReduced
    <2>4. Sound(c, shows)
        BY ONLY <2>1, LevelPlaced, side \in Sides, Sound(b, shows), shows \in BOOLEAN
    <2>5. LevelFor(b, b, side, price, left)
        BY <2>1 DEF LevelFor, Relisted, Levels, LevelExact
    <2>6. Relaid(b, c, side, price, left.orders)
        BY ONLY <2>1, <2>4, <2>5, OneLevel, side \in Sides, Sound(b, shows), shows \in BOOLEAN
    <2>7. OrdersIn(c) = (OrdersIn(b) \ {front}) \union {part}
        <3>1. part = [q[1] EXCEPT !.remaining = rest]
            BY <1>2
        <3> HIDE DEF part
        <3>2. ASSUME NEW x PROVE x \in OrdersIn(c) <=> x \in (OrdersIn(b) \ {front}) \union {part}
            <4>1. x \in OrdersIn(c) <=> \/ x \in OrdersIn(b) /\ ~(x.side = side /\ x.price = price)
                                        \/ (\E i \in 1..Len(q) : x = q[i]) /\ x # front
                                        \/ x = part
                BY <1>2, <2>3, <2>6, <3>1 DEF Relaid
            <4>2. CASE \E i \in 1..Len(q) : x = q[i]
                <5>1. x \in OrdersIn(b) /\ x.side = side /\ x.price = price
                    BY <1>3, <1>4, <4>2
                <5> QED
                    BY <4>1, <4>2, <5>1
            <4>3. CASE ~\E i \in 1..Len(q) : x = q[i]
                BY <1>2, <1>3, <1>5, <4>1, <4>3
            <4> QED
                BY <4>2, <4>3
        <3> QED
            BY <3>2
    <2>8. TimeOrdered(b) => TimeOrdered(c)
        BY <1>6, <2>3, <2>6 DEF Relaid
    <2> QED
        BY <1>8, <2>7, <2>8 DEF rest
<1> QED
    BY <1>7, <1>8

\* Nothing on its side of the book comes before the front order.
LEMMA FrontComesFirst ==
    ASSUME NEW shows \in BOOLEAN, NEW b, Sound(b, shows), TimeOrdered(b), NEW side \in Sides,
           HasOrders(b, side), NEW front, front = Front(b, side)
    PROVE  /\ front \in OrdersIn(b) /\ front \in Waiting
           /\ front.side = side /\ front.price = BestPrice(b, side)
           /\ \A x \in OrdersIn(b) :
                  x.side = side /\ x # front => Precedes(Brief(front), Brief(x))
<1> DEFINE price == BestPrice(b, side)
           q == b.levels[side][price].orders
<1>1. /\ price \in DOMAIN b.levels[side] /\ front = q[1] /\ front \in Waiting
    BY FrontFound
<1>2. \A p \in DOMAIN b.levels[side] : price = p \/ Better(side, price, p)
    BY BestFound
<1> HIDE DEF price
<1>3. q # <<>> /\ q \in Seq(Waiting)
    BY <1>1 DEF Sound, Levels
<1>4. Len(q) \in Nat /\ 1 \in 1..Len(q) /\ InTurn(q)
    BY <1>1, <1>3 DEF TimeOrdered
<1>5. front \in OrdersIn(b) /\ front.side = side /\ front.price = price
    BY <1>1, <1>4, OrdersPlace
<1>6. ASSUME NEW x \in OrdersIn(b), x.side = side, x # front
      PROVE  Precedes(Brief(front), Brief(x))
    <2>1. /\ x.price \in DOMAIN b.levels[side]
          /\ \E i \in 1..Len(b.levels[side][x.price].orders) :
                 x = b.levels[side][x.price].orders[i]
        BY <1>6, OrdersPlace DEF OnItsLevel
    <2>2. CASE x.price = price
        <3>1. PICK i \in 1..Len(q) : x = q[i]
            BY <2>1, <2>2
        <3>2. i # 1
            BY <1>1, <1>6, <3>1
        <3>3. 1 < i
            BY <1>4, <3>2
        <3>4. front.id < x.id
            BY <1>1, <1>4, <3>1, <3>3 DEF InTurn
        <3> QED
            BY <1>5, <2>2, <3>4 DEF Precedes, Brief
    <2>3. CASE x.price # price
        <3>1. Better(side, price, x.price)
            BY <1>2, <2>1, <2>3
        <3> QED
            BY <1>5, <1>6, <3>1 DEF Better, Precedes, Brief
    <2> QED
        BY <2>2, <2>3
<1> QED
    BY <1>1, <1>5, <1>6 DEF price

\* What a trader sees of that.
LEMMA FillListed ==
    ASSUME NEW shows \in BOOLEAN, NEW b, Sound(b, shows), TimeOrdered(b), NEW side \in Sides,
           HasOrders(b, side), NEW front, front = Front(b, side), NEW qty \in 1..front.remaining,
           NEW c, c = FrontFilled(b, side, qty, shows)
    PROVE  Listed(c) = FilledIn(Listed(b), Brief(front), qty)
<1> DEFINE part == [front EXCEPT !.remaining = front.remaining - qty]
           rest == IF qty = front.remaining THEN {} ELSE {part}
<1>1. OrdersIn(c) = (OrdersIn(b) \ {front}) \union rest
    BY FillLeaves
<1>2. front \in Waiting /\ front \in OrdersIn(b)
    BY FrontComesFirst
<1>3. \A x \in OrdersIn(b) : Brief(x) = Brief(front) => x = front
    BY <1>2, ListingOfBook
<1>4. Brief(part) = Part(Brief(front), qty) /\ Brief(front).remaining = front.remaining
    <2>1. /\ part.id = front.id /\ part.side = front.side /\ part.price = front.price
          /\ part.remaining = front.remaining - qty
        BY <1>2 DEF Waiting, Orders
    <2> HIDE DEF part
    <2> QED
        BY <2>1 DEF Brief, Part
<1> HIDE DEF part
<1>5. Listed(c) = (Listed(b) \ {Brief(front)}) \union {Brief(x) : x \in rest}
    <2> HIDE DEF rest
    <2> QED
        BY <1>1, <1>3 DEF Listed
<1>6. {Brief(x) : x \in rest}
          = IF qty = Brief(front).remaining THEN {} ELSE {Part(Brief(front), qty)}
    BY <1>4
<1> QED
    BY <1>5, <1>6 DEF FilledIn

-----------------------------------------------------------------------------
(* Rounds *)

Deals == [maker : 1..MaxOrders, taker : Nat, price : Nat, quantity : Nat]

\* The taker has all it wanted, or finds nothing more.
Stopped(t, taker) ==
    LET side == Opposite(taker.side)
    IN  t.remaining = 0 \/ ~HasOrders(t.book, side) \/ ~Reaches(taker, BestPrice(t.book, side))

\* What the first i of n rounds make: the taker is served as AbstractBook has it, and each
\* round but the last takes an order off the book.
Playing(t, b, taker, shows, n, i) ==
    /\ Running(t, b, taker, shows)
    /\ TimeOrdered(t.book)
    /\ t.trades \in Seq(Deals)
    /\ Served(Listed(b), taker, Listed(t.book), TradeSet(t.trades), t.remaining)
    /\ Stopped(t, taker) \/ Cardinality(DOMAIN t.book.index) + i <= n

\* A taker, as it comes.
Taker(o) ==
    /\ o.id \in Nat /\ o.side \in Sides /\ o.price \in Nat
    /\ o.quantity \in Nat /\ o.remaining = o.quantity

\* Where the best price is out of reach, every price is.
LEMMA NoneReached ==
    ASSUME NEW shows \in BOOLEAN, NEW b, Sound(b, shows), NEW o, Taker(o),
           NEW side, side = Opposite(o.side),
           ~HasOrders(b, side) \/ ~Reaches(o, BestPrice(b, side))
    PROVE  Wanted(Listed(b), o) = {}
<1>1. SUFFICES ASSUME NEW m \in Wanted(Listed(b), o) PROVE FALSE
    OBVIOUS
<1>2. PICK x \in OrdersIn(b) : m = Brief(x)
    BY <1>1 DEF Wanted, Listed
<1>3. x.side # o.side /\ Reaches(o, x.price) /\ x.side \in Sides /\ side \in Sides
      /\ x.price \in DOMAIN b.levels[x.side]
    BY <1>1, <1>2, OrdersPlace DEF Wanted, Brief, OnItsLevel, Opposite, Sides, Taker
<1>4. x.side = side
    BY <1>3 DEF Opposite, Sides, Taker
<1>5. HasOrders(b, side)
    BY <1>3, <1>4 DEF HasOrders
<1>6. /\ BestPrice(b, side) \in DOMAIN b.levels[side]
      /\ BestPrice(b, side) = x.price \/ Better(side, BestPrice(b, side), x.price)
    BY <1>3, <1>4, <1>5, BestFound
<1>7. BestPrice(b, side) \in Nat /\ x.price \in Nat
    BY <1>3, <1>4, <1>6 DEF Sound
<1>8. Reaches(o, BestPrice(b, side))
    BY <1>3, <1>6, <1>7 DEF Reaches, Better, Opposite, Sides, Taker
<1> QED
    BY <1>5, <1>8

\* A trade with the front order.
LEMMA RoundServes ==
    ASSUME NEW shows \in BOOLEAN, NEW b, Sound(b, shows), NEW taker, Taker(taker),
           NEW n \in Nat, NEW i \in Nat, NEW t, Playing(t, b, taker, shows, n, i),
           ~Stopped(t, taker)
    PROVE  Playing(MatchRound(t, taker, shows), b, taker, shows, n, i + 1)
<1> DEFINE side == Opposite(taker.side)
           maker == Front(t.book, side)
           qty == MinQty(t.remaining, maker.remaining)
           deal == [maker |-> maker.id, taker |-> taker.id, price |-> maker.price,
                    quantity |-> qty]
           next == MatchRound(t, taker, shows)
           S == Listed(b)
           R == Listed(t.book)
<1>1. /\ Running(t, b, taker, shows) /\ Sound(t.book, shows) /\ TimeOrdered(t.book)
      /\ t.remaining \in Nat \ {0} /\ t.trades \in Seq(Deals)
      /\ Served(S, taker, R, TradeSet(t.trades), t.remaining)
      /\ Cardinality(DOMAIN t.book.index) + i <= n
      /\ HasOrders(t.book, side) /\ Reaches(taker, BestPrice(t.book, side))
    BY DEF Playing, Running, Stopped, Taker
<1>2. side \in Sides /\ side # taker.side /\ taker.side \in Sides
    BY DEF Opposite, Sides, Taker
<1>3. next = [book |-> FrontFilled(t.book, side, qty, shows),
              remaining |-> t.remaining - qty, trades |-> Append(t.trades, deal)]
    BY <1>1 DEF MatchRound
<1> HIDE DEF side
<1>4. /\ maker \in OrdersIn(t.book) /\ maker \in Waiting
      /\ maker.side = side /\ maker.price = BestPrice(t.book, side)
      /\ \A x \in OrdersIn(t.book) :
             x.side = side /\ x # maker => Precedes(Brief(maker), Brief(x))
      /\ maker.id \in DOMAIN t.book.index
    BY <1>1, <1>2, FrontComesFirst, FrontFound
<1>5. maker.remaining \in Nat \ {0} /\ maker.price \in Nat /\ maker.id \in 1..MaxOrders
    BY <1>4, WaitingType
<1> HIDE DEF maker
<1>6. /\ qty \in 1..maker.remaining /\ qty <= t.remaining
      /\ qty = maker.remaining \/ t.remaining - qty = 0
    BY <1>1, <1>5 DEF MinQty
<1>7. Listed(next.book) = FilledIn(R, Brief(maker), qty) /\ TimeOrdered(next.book)
    <2> DEFINE c == FrontFilled(t.book, side, qty, shows)
    <2>1. next.book = c
        BY <1>3
    <2> HIDE DEF c, next, qty
    <2>2. Listed(c) = FilledIn(R, Brief(maker), qty) /\ TimeOrdered(c)
        BY <1>1, <1>2, <1>6, FillListed, FillLeaves DEF maker, c
    <2> QED
        BY <2>1, <2>2
<1>8. TradeSet(next.trades) = TradeSet(t.trades) \union {deal} /\ next.trades \in Seq(Deals)
    <2>1. deal \in Deals
        <3>1. taker.id \in Nat /\ qty \in Nat
            BY <1>5, <1>6 DEF Taker
        <3> QED
            BY <1>5, <3>1 DEF Deals
    <2>2. next.trades = Append(t.trades, deal)
        BY <1>3
    <2> HIDE DEF deal, next
    <2> DEFINE x == t.trades
               y == next.trades
    <2>3. /\ y \in Seq(Deals) /\ Len(y) = Len(x) + 1 /\ Len(x) \in Nat
          /\ \A k \in 1..Len(x) : y[k] = x[k]
          /\ y[Len(x) + 1] = deal
        BY <1>1, <2>1, <2>2, AppendProperties
    <2>4. DOMAIN x = 1..Len(x) /\ DOMAIN y = 1..Len(y)
        BY <1>1, <2>3
    <2> HIDE DEF x, y
    <2>5. 1..Len(y) = 1..Len(x) \union {Len(x) + 1}
        BY <2>3
    <2>6. TradeSet(y) = TradeSet(x) \union {deal}
        BY <2>3, <2>4, <2>5 DEF TradeSet
    <2> QED
        BY <2>3, <2>6 DEF x, y
<1>9. Listing(S)
    BY ListingOfBook
<1>10. /\ Brief(maker) \in Wanted(R, taker)
       /\ \A m \in Wanted(R, taker) \ {Brief(maker)} : Precedes(Brief(maker), m)
    <2>1. Brief(maker) \in Wanted(R, taker)
        BY <1>1, <1>2, <1>4 DEF Wanted, Listed, Brief
    <2>2. ASSUME NEW m \in Wanted(R, taker), m # Brief(maker)
          PROVE  Precedes(Brief(maker), m)
        <3>1. PICK x \in OrdersIn(t.book) : m = Brief(x)
            BY <2>2 DEF Wanted, Listed
        <3>2. x.side # taker.side /\ x.side \in Sides
            BY <1>1, <2>2, <3>1, OrdersPlace DEF Wanted, Brief, OnItsLevel
        <3>3. x.side = side
            BY <1>2, <3>2 DEF Sides, side, Opposite
        <3> QED
            BY <1>4, <2>2, <3>1, <3>3
    <2> QED
        BY <2>1, <2>2
<1>11. Trade(taker, Brief(maker), qty) = deal /\ Brief(maker).remaining = maker.remaining
    BY DEF Trade, Brief
<1>12. Served(S, taker, Listed(next.book), TradeSet(next.trades), next.remaining)
    <2>1. next.remaining = t.remaining - qty
        BY <1>3
    <2>2. taker.quantity \in Nat /\ t.remaining # 0
        BY <1>1 DEF Taker
    <2> DEFINE f == Brief(maker)
               T == TradeSet(t.trades)
    <2>3. f \in Wanted(R, taker) /\ \A m \in Wanted(R, taker) \ {f} : Precedes(f, m)
        BY <1>10
    <2>4. qty = MinQty(t.remaining, f.remaining)
        BY <1>11
    <2>5. Served(S, taker, R, T, t.remaining)
        BY <1>1
    <2> HIDE DEF f, T, S, R, qty, next, deal
    <2>6. Served(S, taker, FilledIn(R, f, qty), T \union {Trade(taker, f, qty)}, t.remaining - qty)
        BY ONLY <1>2, <1>9, <2>2, <2>3, <2>4, <2>5, ServedMore
    <2> QED
        BY <1>7, <1>8, <1>11, <2>1, <2>6 DEF f, T
<1>13. Running(next, b, taker, shows)
    BY <1>1, <1>2, RoundKeeps DEF Taker
<1>14. Stopped(next, taker) \/ Cardinality(DOMAIN next.book.index) + (i + 1) <= n
    <2>1. CASE qty = maker.remaining
        <3> DEFINE I == DOMAIN t.book.index
        <3>1. DOMAIN next.book.index = I \ {maker.id}
            <4> DEFINE c == FrontFilled(t.book, side, qty, shows)
            <4>1. next.book = c
                BY <1>3
            <4> HIDE DEF c, next, qty
            <4>2. DOMAIN c.index = I \ {maker.id}
                BY <1>1, <1>2, <1>6, <2>1, FrontFilledSound DEF maker, c
            <4> QED
                BY <4>1, <4>2
        <3>2. IsFiniteSet(I) /\ maker.id \in I
            BY <1>1, <1>4, IndexFinite
        <3> HIDE DEF I
        <3>3. Cardinality(I \ {maker.id}) = Cardinality(I) - 1 /\ Cardinality(I) \in Nat
            BY <3>2, FS_RemoveElement, FS_CardinalityType
        <3> HIDE DEF next, qty
        <3> QED
            BY <1>1, <3>1, <3>3 DEF I
    <2>2. CASE qty # maker.remaining
        <3>1. next.remaining = 0
            <4>1. next.remaining = t.remaining - qty
                BY <1>3
            <4> HIDE DEF next, qty
            <4> QED
                BY <1>6, <2>2, <4>1
        <3> QED
            BY <3>1 DEF Stopped
    <2> QED
        BY <2>1, <2>2
<1> QED
    BY <1>7, <1>8, <1>12, <1>13, <1>14 DEF Playing

\* Any number of rounds does what one does.
LEMMA RoundsPlay ==
    ASSUME NEW shows \in BOOLEAN, NEW b, Sound(b, shows), TimeOrdered(b), NEW taker, Taker(taker),
           NEW n \in Nat, n = Cardinality(DOMAIN b.index),
           NEW after, Rounds(after, n, b, taker, shows)
    PROVE  Playing(after[n], b, taker, shows, n, n)
<1> DEFINE S == {i \in Nat : i <= n => Playing(after[i], b, taker, shows, n, i)}
           start == [book |-> b, remaining |-> taker.remaining, trades |-> <<>>]
<1>1. ASSUME NEW i \in 0..n
      PROVE  after[i] = IF i = 0 THEN start ELSE MatchRound(after[i - 1], taker, shows)
    BY DEF Rounds
<1>2. Playing(start, b, taker, shows, n, 0)
    <2>1. Running(start, b, taker, shows)
        BY DEF Running, Taker
    <2>2. Served(Listed(b), taker, Listed(b), {}, taker.quantity)
        BY ListingOfBook, ServedAtFirst DEF Taker
    <2>3. start.trades = <<>> /\ start.trades \in Seq(Deals) /\ TradeSet(<<>>) = {}
        BY DEF TradeSet
    <2>4. Served(Listed(b), taker, Listed(start.book), TradeSet(start.trades), start.remaining)
        BY <2>2, <2>3 DEF Taker
    <2>5. Cardinality(DOMAIN start.book.index) + 0 <= n
        OBVIOUS
    <2> QED
        BY <2>1, <2>3, <2>4, <2>5 DEF Playing
<1> HIDE DEF start
<1>3. 0 \in S
    <2>1. after[0] = start
        BY <1>1
    <2> QED
        BY <1>2, <2>1
<1>4. ASSUME NEW i \in Nat, i \in S PROVE i + 1 \in S
    <2>1. SUFFICES ASSUME i + 1 <= n PROVE Playing(after[i + 1], b, taker, shows, n, i + 1)
        OBVIOUS
    <2>2. Playing(after[i], b, taker, shows, n, i)
        BY <1>4, <2>1
    <2>3. after[i + 1] = MatchRound(after[i], taker, shows)
        BY <1>1, <2>1
    <2>4. CASE Stopped(after[i], taker)
        <3>1. after[i + 1] = after[i]
            BY <2>3, <2>4 DEF Stopped, MatchRound
        <3> QED
            BY <2>2, <2>4, <3>1 DEF Playing
    <2>5. CASE ~Stopped(after[i], taker)
        BY <2>2, <2>3, <2>5, RoundServes
    <2> QED
        BY <2>4, <2>5
<1> HIDE DEF S
<1>5. n \in S
    BY <1>3, <1>4, NatSets
<1> QED
    BY <1>5 DEF S

\* What matching makes of a book and a taker: what AbstractBook has in one step.
Delivered(t, b, taker, shows) ==
    /\ Running(t, b, taker, shows)
    /\ TimeOrdered(t.book)
    /\ t.trades \in Seq(Deals)
    /\ Listed(t.book) = MakersLeft(Listed(b), taker)
    /\ TradeSet(t.trades) = TradesOf(Listed(b), taker)
    /\ t.remaining = LeftOver(Listed(b), taker)

(* After as many rounds as there were orders the taker has stopped. *)
LEMMA RoundsDeliver ==
    ASSUME NEW shows \in BOOLEAN, NEW b, Sound(b, shows), TimeOrdered(b), NEW taker, Taker(taker),
           NEW n \in Nat, n = Cardinality(DOMAIN b.index),
           NEW after, Rounds(after, n, b, taker, shows)
    PROVE  Delivered(after[n], b, taker, shows)
<1> DEFINE t == after[n]
           side == Opposite(taker.side)
<1>1. Playing(t, b, taker, shows, n, n)
    BY RoundsPlay
<1> HIDE DEF t
<1>2. Sound(t.book, shows) /\ side \in Sides
    BY <1>1 DEF Playing, Running, Opposite, Sides
<1>3. Stopped(t, taker)
    <2>1. SUFFICES ASSUME ~Stopped(t, taker) PROVE FALSE
        OBVIOUS
    <2>2. HasOrders(t.book, side)
        BY <2>1 DEF Stopped
    <2>3. Front(t.book, side).id \in DOMAIN t.book.index
        BY <1>2, <2>2, FrontFound
    <2>4. Cardinality(DOMAIN t.book.index) + n <= n
        BY <1>1, <2>1 DEF Playing
    <2>5. IsFiniteSet(DOMAIN t.book.index) /\ Cardinality(DOMAIN t.book.index) \in Nat
        BY <1>2, IndexFinite
    <2>6. Cardinality(DOMAIN t.book.index) = 0
        BY <2>4, <2>5
    <2> QED
        BY <2>3, <2>5, <2>6, FS_EmptySet
<1>4. Satisfied(taker, Listed(t.book), t.remaining)
    BY <1>2, <1>3, NoneReached DEF Stopped, Satisfied
<1>5. /\ Listed(t.book) = MakersLeft(Listed(b), taker)
      /\ TradeSet(t.trades) = TradesOf(Listed(b), taker)
      /\ t.remaining = LeftOver(Listed(b), taker)
    <2> DEFINE S == Listed(b)
               R == Listed(t.book)
               T == TradeSet(t.trades)
    <2>1. Served(S, taker, R, T, t.remaining) /\ Satisfied(taker, R, t.remaining)
        BY <1>1, <1>4 DEF Playing
    <2>2. Listing(S) /\ taker.side \in Sides /\ taker.quantity \in Nat
        BY ListingOfBook DEF Taker
    <2> HIDE DEF S, R, T
    <2>3. R = MakersLeft(S, taker) /\ T = TradesOf(S, taker) /\ t.remaining = LeftOver(S, taker)
        BY ONLY <2>1, <2>2, ServedIs
    <2> QED
        BY <2>3 DEF S, R, T
<1>6. Delivered(t, b, taker, shows)
    BY <1>1, <1>5 DEF Delivered, Playing
<1> QED
    BY <1>6 DEF t

LEMMA MatchedDelivers ==
    ASSUME NEW shows \in BOOLEAN, NEW b, Sound(b, shows), TimeOrdered(b), NEW taker, Taker(taker)
    PROVE  /\ Delivered(Rust!Matched(b, taker, shows), b, taker, shows)
           /\ Delivered(Api!Matched(b, taker, shows), b, taker, shows)
<1> DEFINE n == Cardinality(DOMAIN b.index)
<1>1. n \in Nat
    BY MatchedInRounds
<1>2. PICK f : Rounds(f, n, b, taker, shows) /\ Rust!Matched(b, taker, shows) = f[n]
    BY MatchedInRounds
<1>3. PICK g : Rounds(g, n, b, taker, shows) /\ Api!Matched(b, taker, shows) = g[n]
    BY MatchedInRounds
<1>4. Delivered(f[n], b, taker, shows) /\ Delivered(g[n], b, taker, shows)
    BY <1>1, <1>2, <1>3, RoundsDeliver
<1> QED
    BY <1>2, <1>3, <1>4

-----------------------------------------------------------------------------
(* What a fill-or-kill order counts on *)

\* The orders of a queue have as much left as the queue.
LEMMA AmountOfQueue ==
    ASSUME NEW S, Listing(S), NEW q \in Seq(Waiting), Distinct(q),
           \A i \in 1..Len(q) : Brief(q[i]) \in S
    PROVE  Amount({Brief(q[i]) : i \in 1..Len(q)}) = RemainingOf(q)
<1> DEFINE n == Len(q)
           B(k) == {Brief(q[i]) : i \in 1..k}
           r == Remainders(q)
           p == PartialSums(r, n)
           N == {k \in Nat : k <= n => Amount(B(k)) = p[k]}
<1>1. n \in Nat /\ r \in [1..n -> Int] /\ \A i \in 1..n : r[i] = q[i].remaining
    <2>1. n \in Nat /\ r \in [1..n -> Nat]
        BY QueueTotals
    <2>2. \A i \in 1..n : r[i] = q[i].remaining
        BY DEF Remainders
    <2> HIDE DEF r, n
    <2> QED
        BY <2>1, <2>2
<1>2. p \in [0..n -> Int] /\ p[0] = 0 /\ \A i \in 1..n : p[i] = p[i - 1] + r[i]
    <2> HIDE DEF r, n
    <2> QED
        BY <1>1, PartialSumsEntries
<1> HIDE DEF p, r
<1>3. 0 \in N
    <2>1. B(0) = {}
        OBVIOUS
    <2> HIDE DEF B
    <2> QED
        BY <1>2, <2>1, SumOfNone DEF Amount
<1>4. ASSUME NEW k \in Nat, k \in N PROVE k + 1 \in N
    <2>1. SUFFICES ASSUME k + 1 <= n PROVE Amount(B(k + 1)) = p[k + 1]
        OBVIOUS
    <2> DEFINE y == Brief(q[k + 1])
    <2>2. B(k) \in SUBSET S /\ y \in S /\ B(k + 1) = B(k) \union {y}
        BY <1>1, <2>1
    <2>3. y \notin B(k) /\ y.remaining = q[k + 1].remaining
        <3>1. ASSUME NEW i \in 1..k PROVE q[i].id # q[k + 1].id
            <4>1. i \in 1..n /\ k + 1 \in 1..n /\ i # k + 1
                BY <1>1, <2>1
            <4> QED
                BY <4>1 DEF Distinct
        <3>2. \A x : Brief(x).id = x.id /\ Brief(x).remaining = x.remaining
            BY DEF Brief
        <3> QED
            BY <3>1, <3>2
    <2>4. Amount(B(k)) = p[k] /\ p[k + 1] = p[k] + q[k + 1].remaining
        <3>1. k + 1 \in 1..n
            BY <1>1, <2>1
        <3>2. p[k + 1] = p[(k + 1) - 1] + r[k + 1] /\ r[k + 1] = q[k + 1].remaining
            BY <1>1, <1>2, <3>1
        <3> HIDE DEF B
        <3> QED
            BY <1>1, <1>4, <2>1, <3>2
    <2> HIDE DEF B, y
    <2>5. Amount(B(k) \union {y}) = Amount(B(k)) + y.remaining
        BY <2>2, <2>3, AmountOfMore
    <2> QED
        BY <2>2, <2>3, <2>4, <2>5
<1> HIDE DEF N
<1>5. n \in N
    BY <1>1, <1>3, <1>4, NatSets
<1>6. Amount(B(n)) = p[n]
    BY <1>5 DEF N
<1> QED
    BY <1>6 DEF RemainingOf, SumTo, p, r

LEMMA AmountsJoin ==
    ASSUME NEW S, Listing(S), NEW A \in SUBSET S, NEW B \in SUBSET S, A \cap B = {}
    PROVE  Amount(A \union B) = Amount(A) + Amount(B)
<1> DEFINE w == [m \in S |-> m.remaining]
<1>1. /\ IsFiniteSet(A) /\ IsFiniteSet(B) /\ IsFiniteSet(A \union B)
      /\ \A m \in A \union B : w[m] \in Int
    BY FS_Subset, FS_Union DEF Listing, Briefs
<1>2. Amount(A) = SumOver(w, A) /\ Amount(B) = SumOver(w, B)
    BY <1>1, SumsAgree DEF Amount
<1>3. Amount(A \union B) = SumOver(w, A \union B)
    <2>1. \A m \in A \union B : [x \in A \union B |-> x.remaining][m] = w[m]
        OBVIOUS
    <2> HIDE DEF w
    <2> QED
        BY <1>1, <2>1, SumsAgree DEF Amount
<1> HIDE DEF w
<1> QED
    BY <1>1, <1>2, <1>3, SumsJoin DEF Weighs

LEMMA LevelsFinite ==
    ASSUME NEW shows \in BOOLEAN, NEW b, Sound(b, shows), NEW side \in Sides
    PROVE  IsFiniteSet(DOMAIN b.levels[side])
<1> DEFINE P == DOMAIN b.levels[side]
           I == {id \in DOMAIN b.index : b.index[id].price \in P}
           f == [id \in I |-> b.index[id].price]
<1>1. IsFiniteSet(I)
    BY IndexFinite, FS_Subset
<1>2. ASSUME NEW p \in P PROVE \E id \in I : f[id] = p
    <2> DEFINE q == b.levels[side][p].orders
    <2>1. q # <<>> /\ q \in Seq(Waiting)
        BY DEF Sound, Levels
    <2>2. 1 \in 1..Len(q)
        BY <2>1
    <2>3. q[1].id \in Ids(q)
        BY <2>2 DEF Ids
    <2>4. q[1].id \in DOMAIN b.index /\ b.index[q[1].id] = At(side, p)
        BY <2>3 DEF Sound
    <2>5. b.index[q[1].id].price = p
        BY <2>4 DEF At
    <2> QED
        BY <2>4, <2>5
<1>3. f \in Surjection(I, P)
    <2>1. f \in [I -> P]
        OBVIOUS
    <2> HIDE DEF f, I, P
    <2> QED
        BY <1>2, <2>1 DEF Surjection
<1> HIDE DEF f, I
<1> QED
    BY <1>1, <1>3, FS_Surjection

\* What rests on a side at these prices.
AtPrices(b, side, P) == {m \in Listed(b) : m.side = side /\ m.price \in P}

LEMMA AmountAtPrice ==
    ASSUME NEW shows \in BOOLEAN, NEW b, Sound(b, shows), NEW side \in Sides,
           NEW price \in DOMAIN b.levels[side]
    PROVE  Amount(AtPrices(b, side, {price})) = RemainingAt(b, side, price)
<1> DEFINE level == b.levels[side][price]
           q == level.orders
<1>1. q \in Seq(Waiting) /\ Distinct(q)
    <2>1. Fitting(b, level, side, price, shows)
        BY LevelParts
    <2> HIDE DEF level
    <2> QED
        BY <2>1 DEF Fitting
<1>2. \A i \in 1..Len(q) : q[i] \in OrdersIn(b) /\ q[i].side = side /\ q[i].price = price
    BY OrdersPlace
<1>3. \A x \in OrdersIn(b) : x.side = side /\ x.price = price => \E i \in 1..Len(q) : x = q[i]
    BY OrdersPlace DEF OnItsLevel
<1> HIDE DEF level
<1>4. AtPrices(b, side, {price}) = {Brief(q[i]) : i \in 1..Len(q)}
    <2> HIDE DEF q
    <2>1. \A x : Brief(x).side = x.side /\ Brief(x).price = x.price
        BY DEF Brief
    <2> QED
        BY <1>2, <1>3, <2>1 DEF AtPrices, Listed
<1>5. \A i \in 1..Len(q) : Brief(q[i]) \in Listed(b)
    BY <1>2 DEF Listed
<1>6. Listing(Listed(b))
    BY ListingOfBook
<1> HIDE DEF q
<1>7. Amount({Brief(q[i]) : i \in 1..Len(q)}) = RemainingOf(q)
    BY <1>1, <1>5, <1>6, AmountOfQueue
<1> QED
    BY <1>4, <1>7 DEF RemainingAt, q, level

\* No more can be counted at some prices than rests there, and all of it if it is all counted
\* at each price.
LEMMA CountedRests ==
    ASSUME NEW shows \in BOOLEAN, NEW b, Sound(b, shows), NEW side \in Sides,
           NEW P \in SUBSET DOMAIN b.levels[side], NEW v,
           \A p \in P : v[p] \in Nat /\ v[p] <= RemainingAt(b, side, p)
    PROVE  /\ SumOver(v, P) <= Amount(AtPrices(b, side, P))
           /\ (\A p \in P : v[p] = RemainingAt(b, side, p))
                  => SumOver(v, P) = Amount(AtPrices(b, side, P))
<1> DEFINE All == \A p \in P : v[p] = RemainingAt(b, side, p)
           Fine(Q) == /\ SumOver(v, Q) <= Amount(AtPrices(b, side, Q))
                      /\ All => SumOver(v, Q) = Amount(AtPrices(b, side, Q))
           N == {k \in Nat : \A Q \in SUBSET P : Cardinality(Q) = k => Fine(Q)}
           S == Listed(b)
<1>1. IsFiniteSet(P)
    BY LevelsFinite, FS_Subset
<1>2. Listing(S)
    BY ListingOfBook
<1>3. ASSUME NEW Q \in SUBSET P
      PROVE  /\ IsFiniteSet(Q) /\ Cardinality(Q) \in Nat /\ AtPrices(b, side, Q) \in SUBSET S
             /\ SumOver(v, Q) \in Nat
    <2>1. IsFiniteSet(Q) /\ Cardinality(Q) \in Nat
        BY <1>1, FS_Subset, FS_CardinalityType
    <2> QED
        BY <2>1, SumOverNat DEF AtPrices
<1>4. 0 \in N
    <2>1. ASSUME NEW Q \in SUBSET P, Cardinality(Q) = 0 PROVE Fine(Q)
        <3>1. Q = {}
            BY <1>3, <2>1, FS_EmptySet
        <3>2. AtPrices(b, side, {}) = {}
            BY DEF AtPrices
        <3>3. SumOver(v, {}) = 0 /\ Amount({}) = 0
            BY SumOfNone DEF Amount
        <3> QED
            BY <3>1, <3>2, <3>3
    <2> HIDE DEF Fine
    <2> QED
        BY <2>1
<1>5. ASSUME NEW k \in Nat, k \in N PROVE k + 1 \in N
    <2>1. ASSUME NEW Q \in SUBSET P, Cardinality(Q) = k + 1 PROVE Fine(Q)
        <3>1. Q # {}
            <4>1. Cardinality({}) = 0
                BY FS_EmptySet
            <4>2. Cardinality(Q) # 0
                BY ONLY <2>1, k \in Nat
            <4> QED
                BY <4>1, <4>2
        <3>2. PICK p \in Q : TRUE
            BY <3>1
        <3> DEFINE R == Q \ {p}
                   A == AtPrices(b, side, R)
                   B == AtPrices(b, side, {p})
        <3>3. R \in SUBSET P /\ Cardinality(R) = k /\ R \union {p} = Q /\ p \notin R /\ p \in P
            BY <1>3, <2>1, FS_RemoveElement
        <3>4. AtPrices(b, side, Q) = A \union B /\ A \cap B = {}
            BY DEF AtPrices
        <3> HIDE DEF R
        <3>5. SumOver(v, R) <= Amount(A) /\ (All => SumOver(v, R) = Amount(A))
            BY <1>5, <3>3
        <3>6. v[p] \in Nat /\ v[p] <= Amount(B) /\ (All => v[p] = Amount(B))
            BY <3>3, AmountAtPrice
        <3>7. A \in SUBSET S /\ B \in SUBSET S
            BY DEF AtPrices
        <3>8. SumOver(v, Q) = v[p] + SumOver(v, R)
            <4>1. Weighs(v, R)
                BY <1>3, <3>3 DEF Weighs
            <4>2. v[p] \in Int
                BY <3>6
            <4>3. SumOver(v, R \union {p}) = v[p] + SumOver(v, R)
                BY ONLY <3>3, <4>1, <4>2, SumGrows
            <4> QED
                BY <3>3, <4>3
        <3> HIDE DEF A, B, All
        <3>9. Amount(A \union B) = Amount(A) + Amount(B)
            BY <1>2, <3>4, <3>7, AmountsJoin
        <3>10. Amount(A) \in Nat /\ Amount(B) \in Nat /\ SumOver(v, R) \in Nat
            <4>1. A \in SUBSET A /\ B \in SUBSET B
                OBVIOUS
            <4> QED
                BY <1>2, <1>3, <3>3, <3>7, <4>1, AmountOfParts
        <3> QED
            BY <3>4, <3>5, <3>6, <3>8, <3>9, <3>10
    <2> HIDE DEF Fine
    <2> QED
        BY <2>1
<1> HIDE DEF N
<1>6. Cardinality(P) \in N
    BY <1>3, <1>4, <1>5, NatSets
<1>7. P \in SUBSET P
    OBVIOUS
<1>8. Fine(P)
    BY <1>3, <1>6, <1>7 DEF N
<1> QED
    BY <1>8

\* If what is counted at prices within reach is enough for an order, nothing of it is left.
LEMMA CountedFills ==
    ASSUME NEW shows \in BOOLEAN, NEW b, Sound(b, shows), NEW o, Taker(o),
           NEW P \in SUBSET DOMAIN b.levels[Opposite(o.side)], \A p \in P : Reaches(o, p),
           NEW v, \A p \in P : v[p] \in Nat /\ v[p] <= RemainingAt(b, Opposite(o.side), p),
           SumOver(v, P) >= o.quantity
    PROVE  LeftOver(Listed(b), o) = 0
<1> DEFINE side == Opposite(o.side)
           S == Listed(b)
           A == AtPrices(b, side, P)
<1>1. side \in Sides /\ side # o.side
    BY DEF Opposite, Sides, Taker
<1>2. SumOver(v, P) <= Amount(A)
    BY <1>1, CountedRests
<1>3. Listing(S) /\ A \in SUBSET Wanted(S, o) /\ Wanted(S, o) \in SUBSET S
    BY <1>1, ListingOfBook DEF AtPrices, Wanted
<1> HIDE DEF A, S
<1>4. Amount(A) \in Nat /\ Amount(Wanted(S, o)) \in Nat /\ Amount(A) <= Amount(Wanted(S, o))
    BY <1>3, AmountOfParts
<1>5. SumOver(v, P) \in Nat
    <2>1. IsFiniteSet(P)
        BY <1>1, LevelsFinite, FS_Subset
    <2> QED
        BY <2>1, SumOverNat
<1>6. ~(Amount(Wanted(S, o)) < o.quantity)
    BY <1>2, <1>4, <1>5 DEF Taker
<1> QED
    BY <1>6 DEF LeftOver, S

\* If all that rests within reach is counted, and only then, what is counted tells whether
\* something of an order will be left.
LEMMA AllCounted ==
    ASSUME NEW shows \in BOOLEAN, NEW b, Sound(b, shows), NEW o, Taker(o),
           NEW side, side = Opposite(o.side),
           NEW P, P = {p \in DOMAIN b.levels[side] : Reaches(o, p)},
           NEW v, \A p \in P : v[p] = RemainingAt(b, side, p)
    PROVE  SumOver(v, P) >= o.quantity <=> LeftOver(Listed(b), o) = 0
<1> DEFINE S == Listed(b)
<1>1. side \in Sides /\ side # o.side /\ P \in SUBSET DOMAIN b.levels[side]
    BY DEF Opposite, Sides, Taker
<1>2. \A p \in P : v[p] \in Nat /\ v[p] <= RemainingAt(b, side, p)
    <2>1. ASSUME NEW p \in P PROVE RemainingAt(b, side, p) \in Nat
        <3>1. b.levels[side][p].orders \in Seq(Waiting)
            BY <1>1 DEF Sound, Levels
        <3> QED
            BY <3>1, QueueTotals DEF RemainingAt
    <2> QED
        BY <2>1
<1>3. SumOver(v, P) = Amount(AtPrices(b, side, P))
    BY <1>1, <1>2, CountedRests
<1>4. AtPrices(b, side, P) = Wanted(S, o)
    <2>1. ASSUME NEW m \in S PROVE m.side \in Sides /\ m.price \in DOMAIN b.levels[m.side]
        <3>1. PICK x \in OrdersIn(b) : m = Brief(x)
            BY DEF Listed
        <3>2. OnItsLevel(b, x)
            BY OrdersPlace
        <3> QED
            BY <3>1, <3>2 DEF OnItsLevel, Brief
    <2>2. \A other \in Sides : other # o.side <=> other = side
        BY DEF Opposite, Sides, Taker
    <2> QED
        BY <2>1, <2>2 DEF AtPrices, Wanted
<1>5. Amount(Wanted(S, o)) \in Nat
    <2>1. Listing(S) /\ Wanted(S, o) \in SUBSET S
        BY ListingOfBook DEF Wanted
    <2> QED
        BY <2>1, AmountOfParts
<1> HIDE DEF S
<1>6. LeftOver(S, o) = 0 <=> Amount(Wanted(S, o)) >= o.quantity
    BY <1>5 DEF LeftOver, Taker
<1> QED
    BY <1>3, <1>4, <1>6 DEF S

-----------------------------------------------------------------------------
(* The engines' own checks *)

\* Within reach means something to take, for an order with a limit.
LEMMA SomeReached ==
    ASSUME NEW shows \in BOOLEAN, NEW b, Sound(b, shows), TimeOrdered(b), NEW o, Taker(o),
           NEW side, side = Opposite(o.side), HasOrders(b, side), Reaches(o, BestPrice(b, side))
    PROVE  Wanted(Listed(b), o) # {}
<1> DEFINE front == Front(b, side)
<1>1. side \in Sides /\ side # o.side
    BY DEF Opposite, Sides, Taker
<1>2. front \in OrdersIn(b) /\ front.side = side /\ front.price = BestPrice(b, side)
    BY <1>1, FrontComesFirst
<1> HIDE DEF front
<1>3. Brief(front) \in Wanted(Listed(b), o)
    BY <1>1, <1>2 DEF Wanted, Listed, Brief
<1> QED
    BY <1>3

\* would_match tells whether an order with a limit would take something.
LEMMA WouldMatchTells ==
    ASSUME NEW o, Taker(o), o.type = "limit"
    PROVE  /\ Sound(rustBook, FALSE) /\ TimeOrdered(rustBook)
                  => (Rust!WouldMatch(o) <=> Wanted(Listed(rustBook), o) # {})
           /\ Sound(apiBook, TRUE) /\ TimeOrdered(apiBook)
                  => (Api!WouldMatch(o) <=> Wanted(Listed(apiBook), o) # {})
<1> DEFINE side == Opposite(o.side)
           Meets(b) == HasOrders(b, side) /\ Reaches(o, BestPrice(b, side))
<1>1. Rust!WouldMatch(o) <=> Meets(rustBook)
    BY DEF Rust!WouldMatch, Rust!HasOrders, Rust!Opposite, Rust!BestPrice, Rust!Better,
           Rust!Reaches, HasOrders, Opposite, BestPrice, Better, Reaches
<1>2. Api!WouldMatch(o) <=> Meets(apiBook)
    BY DEF Api!WouldMatch, Api!HasOrders, Api!Opposite, Api!BestPrice, Api!Better,
           HasOrders, Opposite, BestPrice, Better, Reaches
<1>3. ASSUME NEW shows \in BOOLEAN, NEW b, Sound(b, shows), TimeOrdered(b)
      PROVE  Meets(b) <=> Wanted(Listed(b), o) # {}
    BY <1>3, NoneReached, SomeReached
<1> HIDE DEF Meets
<1> QED
    BY <1>1, <1>2, <1>3

\* can_fill_entirely of the Rust engine counts what there is.
LEMMA RustFills ==
    ASSUME Sound(rustBook, FALSE), NEW o, Taker(o)
    PROVE  Rust!CanFillEntirely(o) <=> LeftOver(Listed(rustBook), o) = 0
<1> DEFINE side == Opposite(o.side)
           P == {p \in DOMAIN rustBook.levels[side] : Reaches(o, p)}
           v == [p \in P |-> RemainingAt(rustBook, side, p)]
<1>1. side \in Sides
    BY DEF Opposite, Sides
<1>2. Rust!CanFillEntirely(o) <=> SumOver(v, P) >= o.remaining
    <2>1. Rust!Opposite(o.side) = side
        BY DEF Rust!Opposite, Opposite
    <2>2. \A p : Rust!Reaches(o, p) <=> Reaches(o, p)
        BY DEF Rust!Reaches, Reaches
    <2>3. \A p : Rust!RemainingAt(rustBook, side, p) = RemainingAt(rustBook, side, p)
        BY SameContents DEF Rust!RemainingAt, RemainingAt
    <2>4. \A w, S : Rust!SumFunctionOnSet(w, S) = SumOver(w, S)
        BY DEF Rust!SumFunctionOnSet, Rust!FoldFunctionOnSet, Rust!MapThenFoldSet,
               SumOver, AddsUp
    <2> HIDE DEF side
    <2>5. {p \in DOMAIN rustBook.levels[side] : Rust!Reaches(o, p)} = P
        BY <2>2
    <2> HIDE DEF P
    <2>6. [p \in P |-> Rust!RemainingAt(rustBook, side, p)] = v
        BY <2>3
    <2> HIDE DEF v
    <2>7. Rust!CanFillEntirely(o) <=> Rust!SumFunctionOnSet(v, P) >= o.remaining
        BY <2>1, <2>5, <2>6 DEF Rust!CanFillEntirely
    <2> QED
        BY <2>4, <2>7
<1>3. \A p \in P : v[p] = RemainingAt(rustBook, side, p)
    OBVIOUS
<1>4. P = {p \in DOMAIN rustBook.levels[side] : Reaches(o, p)}
    OBVIOUS
<1> HIDE DEF v, P, side
<1>5. SumOver(v, P) >= o.quantity <=> LeftOver(Listed(rustBook), o) = 0
    BY <1>3, <1>4, AllCounted DEF side
<1> QED
    BY <1>2, <1>5 DEF Taker

\* A queue holds what it shows, and what it hides.
LEMMA HoldsWhatItShows ==
    ASSUME NEW q \in Seq(Waiting)
    PROVE  /\ ShownOf(q) \in Nat /\ ShownOf(q) <= RemainingOf(q)
           /\ (\A i \in 1..Len(q) : ~q[i].hidden) => ShownOf(q) = RemainingOf(q)
<1> DEFINE n == Len(q)
           x == Visibles(q)
           y == Remainders(q)
<1>1. n \in Nat /\ x \in [1..n -> Nat] /\ y \in [1..n -> Nat] /\ ShownOf(q) \in Nat
    BY QueueTotals
<1>2. \A i \in 1..n : x[i] <= y[i]
    <2>1. \A i \in 1..n : x[i] = Shown(q[i], q[i].remaining) /\ y[i] = q[i].remaining
        BY DEF Visibles, Remainders
    <2>2. \A i \in 1..n : Shown(q[i], q[i].remaining) <= q[i].remaining
        BY WaitingType
    <2> HIDE DEF n, x, y
    <2> QED
        BY <2>1, <2>2
<1>3. SumTo(x, n) <= SumTo(y, n)
    <2> HIDE DEF n, x, y
    <2> QED
        BY <1>1, <1>2, SumOfLess
<1>4. (\A i \in 1..Len(q) : ~q[i].hidden) => x = y
    BY DEF Visibles, Remainders, Shown
<1> QED
    BY <1>1, <1>3, <1>4 DEF ShownOf, RemainingOf

\* Nothing hidden on the book, and no more levels than it looks at.
LooksAtAll(b, o) ==
    /\ \A x \in OrdersIn(b) : ~x.hidden
    /\ Cardinality(DOMAIN b.levels[Opposite(o.side)]) <= Depth

\* Then the port looks at every level, and sees all it holds.
LEMMA AllLevelsSeen ==
    ASSUME Sound(apiBook, TRUE), NEW o, Taker(o), LooksAtAll(apiBook, o),
           NEW side, side = Opposite(o.side)
    PROVE  /\ Api!TopLevels(side) = DOMAIN apiBook.levels[side]
           /\ \A p \in DOMAIN apiBook.levels[side] :
                  apiBook.levels[side][p].visible = RemainingAt(apiBook, side, p)
<1> DEFINE D == DOMAIN apiBook.levels[side]
<1>1. side \in Sides
    BY DEF Opposite, Sides
<1>2. IsFiniteSet(D)
    BY <1>1, LevelsFinite
<1>3. ASSUME NEW p \in D
      PROVE  /\ p \in Nat
             /\ apiBook.levels[side][p].visible = RemainingAt(apiBook, side, p)
             /\ apiBook.levels[side][p].visible > 0
    <2> DEFINE level == apiBook.levels[side][p]
               q == level.orders
    <2>1. /\ q \in Seq(Waiting) /\ q # <<>> /\ level.visible = ShownOf(q) /\ p \in Nat
        BY <1>1 DEF Sound, Levels, LevelExact
    <2>2. \A i \in 1..Len(q) : ~q[i].hidden
        BY <1>1, OrdersPlace DEF LooksAtAll
    <2> HIDE DEF level
    <2>3. RemainingAt(apiBook, side, p) = RemainingOf(q)
        BY DEF RemainingAt, level
    <2> HIDE DEF q
    <2>4. level.visible = RemainingOf(q)
        BY <2>1, <2>2, HoldsWhatItShows
    <2>5. 1 \in 1..Len(q) /\ q[1] \in Waiting
        BY <2>1
    <2>6. q[1].remaining \in Nat \ {0} /\ q[1].remaining <= RemainingOf(q) /\ RemainingOf(q) \in Nat
        BY <2>1, <2>5, QueueTotals, WaitingType
    <2>7. level.visible > 0
        BY <2>4, <2>6
    <2> QED
        BY <2>1, <2>3, <2>4, <2>7 DEF level
<1>4. \A p, q : Api!Better(side, p, q) <=> Better(side, p, q)
    BY DEF Api!Better, Better
<1>5. {p \in D : apiBook.levels[side][p].visible > 0} = D
    BY <1>3
<1>6. ASSUME NEW p \in D PROVE Cardinality({q \in D : Better(side, q, p)}) < Depth
    <2> DEFINE T == {q \in D : Better(side, q, p)}
    <2>1. T \subseteq D \ {p}
        BY <1>3 DEF Better
    <2>2. IsFiniteSet(D \ {p}) /\ Cardinality(D \ {p}) = Cardinality(D) - 1 /\ Cardinality(D) \in Nat
        BY <1>2, OneLess
    <2> HIDE DEF T
    <2>3. Cardinality(T) <= Cardinality(D \ {p}) /\ Cardinality(T) \in Nat
        BY <2>1, <2>2, FS_Subset, FS_CardinalityType
    <2>4. Cardinality(D) <= Depth /\ Depth \in Nat
        BY MarketAssumption DEF LooksAtAll
    <2> HIDE DEF D
    <2>5. Cardinality(T) < Depth
        BY ONLY <2>2, <2>3, <2>4
    <2> QED
        BY <2>5 DEF T
<1>7. \A S : Api!Cardinality(S) = Cardinality(S)
    BY DEF Api!Cardinality, Cardinality
<1>8. Api!TopLevels(side)
          = {p \in {p \in D : apiBook.levels[side][p].visible > 0} :
                Cardinality({q \in {r \in D : apiBook.levels[side][r].visible > 0} :
                                Better(side, q, p)}) < Depth}
    BY <1>4, <1>7 DEF Api!TopLevels
<1>9. Api!TopLevels(side) = {p \in D : Cardinality({q \in D : Better(side, q, p)}) < Depth}
    BY <1>5, <1>8
<1> HIDE DEF D
<1>10. Api!TopLevels(side) = D
    BY <1>6, <1>9
<1> QED
    BY <1>3, <1>10 DEF D

\* So canFillEntirely of the port, which counts only what is shown, counts no more, and
\* nothing less where it looks at all there is.
LEMMA ApiFills ==
    ASSUME Sound(apiBook, TRUE), NEW o, Taker(o)
    PROVE  /\ Api!CanFillEntirely(o) => LeftOver(Listed(apiBook), o) = 0
           /\ LooksAtAll(apiBook, o)
                  => (Api!CanFillEntirely(o) <=> LeftOver(Listed(apiBook), o) = 0)
<1> DEFINE side == Opposite(o.side)
           P == {p \in Api!TopLevels(side) : Reaches(o, p)}
           v == [p \in P |-> apiBook.levels[side][p].visible]
<1>1. side \in Sides
    BY DEF Opposite, Sides
<1>2. Api!CanFillEntirely(o) <=> SumOver(v, P) >= o.remaining
    <2>1. Api!Opposite(o.side) = side
        BY DEF Api!Opposite, Opposite
    <2>2. \A p : Api!Reaches(o, p) <=> Reaches(o, p)
        BY DEF Api!Reaches, Reaches
    <2>3. \A w, S : Api!SumFunctionOnSet(w, S) = SumOver(w, S)
        BY DEF Api!SumFunctionOnSet, Api!FoldFunctionOnSet, Api!MapThenFoldSet,
               SumOver, AddsUp
    <2> HIDE DEF side
    <2>4. {p \in Api!TopLevels(side) : Api!Reaches(o, p)} = P
        BY <2>2
    <2> HIDE DEF P
    <2>5. Api!CanFillEntirely(o) <=> Api!SumFunctionOnSet(v, P) >= o.remaining
        BY <2>1, <2>4 DEF Api!CanFillEntirely
    <2> HIDE DEF v
    <2> QED
        BY <2>3, <2>5
<1>3. P \in SUBSET DOMAIN apiBook.levels[side] /\ \A p \in P : Reaches(o, p)
    BY DEF Api!TopLevels
<1>4. \A p \in P : v[p] \in Nat /\ v[p] <= RemainingAt(apiBook, side, p)
    <2>1. ASSUME NEW p \in P
          PROVE  /\ apiBook.levels[side][p].visible \in Nat
                 /\ apiBook.levels[side][p].visible <= RemainingAt(apiBook, side, p)
        <3> DEFINE level == apiBook.levels[side][p]
        <3>1. level.orders \in Seq(Waiting) /\ level.visible = ShownOf(level.orders)
            BY <1>1, <1>3 DEF Sound, Levels, LevelExact
        <3> QED
            BY <3>1, HoldsWhatItShows DEF RemainingAt
    <2>2. \A p \in P : v[p] = apiBook.levels[side][p].visible
        OBVIOUS
    <2> HIDE DEF v
    <2> QED
        BY <2>1, <2>2
<1>5. LooksAtAll(apiBook, o)
          => /\ P = {p \in DOMAIN apiBook.levels[side] : Reaches(o, p)}
             /\ \A p \in P : v[p] = RemainingAt(apiBook, side, p)
    <2>1. SUFFICES ASSUME LooksAtAll(apiBook, o)
                   PROVE  /\ P = {p \in DOMAIN apiBook.levels[side] : Reaches(o, p)}
                          /\ \A p \in P : v[p] = RemainingAt(apiBook, side, p)
        OBVIOUS
    <2>2. /\ Api!TopLevels(side) = DOMAIN apiBook.levels[side]
          /\ \A p \in DOMAIN apiBook.levels[side] :
                 apiBook.levels[side][p].visible = RemainingAt(apiBook, side, p)
        BY <2>1, AllLevelsSeen
    <2>3. P = {p \in DOMAIN apiBook.levels[side] : Reaches(o, p)}
        BY <2>2
    <2>4. \A p \in P : v[p] = apiBook.levels[side][p].visible
        OBVIOUS
    <2> HIDE DEF v
    <2> QED
        BY <1>3, <2>2, <2>3, <2>4
<1> HIDE DEF v, P, side
<1>6. SumOver(v, P) >= o.quantity => LeftOver(Listed(apiBook), o) = 0
    BY <1>3, <1>4, CountedFills DEF side
<1>7. LooksAtAll(apiBook, o)
          => (SumOver(v, P) >= o.quantity <=> LeftOver(Listed(apiBook), o) = 0)
    BY <1>5, AllCounted DEF side
<1> QED
    BY <1>2, <1>6, <1>7 DEF Taker

-----------------------------------------------------------------------------
(* The steps of AbstractBook *)

\* What is listed of an order that came over a listing S, and after it.
RestOf(S, o) ==
    IF Waits(o, LeftOver(S, o))
    THEN {[id |-> o.id, side |-> o.side, price |-> o.price, remaining |-> LeftOver(S, o)]}
    ELSE {}
ListedAfter(S, o) == MakersLeft(S, o) \union RestOf(S, o)

\* The book when an order is through with it.
BookAfter(t, o) ==
    IF Waits(o, t.remaining) THEN Placed(t.book, [o EXCEPT !.remaining = t.remaining]) ELSE t.book

\* What an order leaves of a book, and joins to it.
LEMMA ArrivedListed ==
    ASSUME NEW shows \in BOOLEAN, NEW b, Sound(b, shows), TimeOrdered(b),
           NEW n \in Nat, n < MaxOrders, DOMAIN b.index \subseteq 1..n,
           NEW o, Submitted(o, n + 1), NEW t, Delivered(t, b, o, shows)
    PROVE  /\ TimeOrdered(BookAfter(t, o))
           /\ Listed(BookAfter(t, o)) = ListedAfter(Listed(b), o)
<1> DEFINE c == BookAfter(t, o)
<1>1. /\ Sound(t.book, shows) /\ DOMAIN t.book.index \subseteq 1..n
      /\ t.remaining \in 0..o.remaining
      /\ TimeOrdered(t.book) /\ Listed(t.book) = MakersLeft(Listed(b), o)
      /\ t.remaining = LeftOver(Listed(b), o)
    BY DEF Delivered, Running
<1>2. CASE Waits(o, t.remaining)
    <2> DEFINE rest == [o EXCEPT !.remaining = t.remaining]
    <2>1. /\ rest \in Waiting /\ rest.id = o.id /\ rest.side = o.side /\ rest.price = o.price
          /\ rest.remaining = t.remaining
        BY <1>1, <1>2, RestWaits
    <2>2. c = Placed(t.book, rest)
        BY <1>2 DEF BookAfter
    <2> HIDE DEF rest, c
    <2>3. \A id \in DOMAIN t.book.index : id < rest.id
        BY <1>1, <2>1 DEF Submitted
    <2>4. OrdersIn(c) = OrdersIn(t.book) \union {rest} /\ TimeOrdered(c)
        BY <1>1, <2>1, <2>2, <2>3, PlacedJoins
    <2>5. Listed(c) = Listed(t.book) \union {Brief(rest)}
        BY <2>4 DEF Listed
    <2>6. RestOf(Listed(b), o) = {Brief(rest)}
        BY <1>1, <1>2, <2>1 DEF RestOf, Brief
    <2>7. Listed(c) = ListedAfter(Listed(b), o)
        BY <1>1, <2>5, <2>6 DEF ListedAfter
    <2> QED
        BY <2>4, <2>7 DEF c
<1>3. CASE ~Waits(o, t.remaining)
    <2>1. c = t.book
        BY <1>3 DEF BookAfter
    <2>2. RestOf(Listed(b), o) = {}
        BY <1>1, <1>3 DEF RestOf
    <2> HIDE DEF c
    <2>3. TimeOrdered(c) /\ Listed(c) = ListedAfter(Listed(b), o)
        BY <1>1, <2>1, <2>2 DEF ListedAfter
    <2> QED
        BY <2>3 DEF c
<1> QED
    BY <1>2, <1>3

\* What rests on a book, in the words of TwinEngines.
LEMMA RestingListed ==
    ASSUME NEW b
    PROVE  Resting(b) = Listed(b)
BY SameContents DEF Resting, Listed, Brief

LEMMA DealsJoin ==
    ASSUME NEW x \in Seq(Deals), NEW y \in Seq(Deals)
    PROVE  TradeSet(x \o y) = TradeSet(x) \union TradeSet(y) /\ x \o y \in Seq(Deals)
<1>1. /\ x \o y \in Seq(Deals) /\ Len(x \o y) = Len(x) + Len(y)
      /\ Len(x) \in Nat /\ Len(y) \in Nat
      /\ \A i \in 1..Len(x) + Len(y) : (x \o y)[i] = IF i <= Len(x) THEN x[i] ELSE y[i - Len(x)]
    BY ConcatProperties
<1>2. \A s \in Seq(Deals) : DOMAIN s = 1..Len(s)
    OBVIOUS
<1>3. ASSUME NEW i \in 1..Len(x) PROVE x[i] = (x \o y)[i] /\ i \in 1..Len(x) + Len(y)
    BY <1>1
<1>4. ASSUME NEW j \in 1..Len(y)
      PROVE  y[j] = (x \o y)[Len(x) + j] /\ Len(x) + j \in 1..Len(x) + Len(y)
    <2>1. Len(x) + j \in 1..Len(x) + Len(y) /\ ~(Len(x) + j <= Len(x)) /\ (Len(x) + j) - Len(x) = j
        BY <1>1
    <2> QED
        BY <1>1, <2>1
<1>5. ASSUME NEW i \in 1..Len(x) + Len(y)
      PROVE  \/ \E j \in 1..Len(x) : (x \o y)[i] = x[j]
             \/ \E j \in 1..Len(y) : (x \o y)[i] = y[j]
    <2>1. CASE i <= Len(x)
        <3>1. i \in 1..Len(x)
            BY <1>1, <2>1
        <3> QED
            BY <1>3, <3>1
    <2>2. CASE ~(i <= Len(x))
        <3>1. i - Len(x) \in 1..Len(y)
            BY <1>1, <2>2
        <3> QED
            BY <1>1, <2>2, <3>1
    <2> QED
        BY <2>1, <2>2
<1>6. /\ TradeSet(x) = {x[i] : i \in 1..Len(x)} /\ TradeSet(y) = {y[i] : i \in 1..Len(y)}
      /\ TradeSet(x \o y) = {(x \o y)[i] : i \in 1..Len(x) + Len(y)}
    BY <1>1, <1>2 DEF TradeSet
<1>7. TradeSet(x \o y) = TradeSet(x) \union TradeSet(y)
    <2>1. ASSUME NEW z \in TradeSet(x \o y) PROVE z \in TradeSet(x) \union TradeSet(y)
        BY <1>5, <1>6
    <2>2. ASSUME NEW z \in TradeSet(x) PROVE z \in TradeSet(x \o y)
        BY <1>3, <1>6
    <2>3. ASSUME NEW z \in TradeSet(y) PROVE z \in TradeSet(x \o y)
        BY <1>4, <1>6
    <2> QED
        BY <2>1, <2>2, <2>3
<1> QED
    BY <1>1, <1>7

\* Order a of AbstractBook is order o of an engine.
SameOrder(a, o) ==
    /\ a.id = o.id /\ a.side = o.side /\ a.type = o.type /\ a.price = o.price
    /\ a.quantity = o.quantity /\ a.tif = o.tif

\* In the Rust engine: what AbstractBook says of an order.
LEMMA OriginalsSay ==
    ASSUME NEW a, NEW o, SameOrder(a, o), NEW S, S = Listed(rustBook), Listing(S),
           a.price \in Nat
    PROVE  /\ Originals!Reachable(a) = Wanted(S, o)
           /\ Originals!Left(a) = LeftOver(S, o)
           /\ Originals!Trades(a) = TradesOf(S, o)
           /\ Originals!MakersAfter(a) = MakersLeft(S, o)
<1>1. Resting(rustBook) = S
    BY RestingListed
<1>2. Originals!Reachable(a) = Wanted(S, o)
    <2>1. ASSUME NEW m \in S PROVE Originals!Reaches(a, m.price) <=> Reaches(o, m.price)
        <3>1. m.price \in Nat
            BY DEF Listing, Briefs
        <3> QED
            BY <3>1 DEF Originals!Reaches, Reaches, SameOrder
    <2> QED
        BY <1>1, <2>1 DEF Originals!Reachable, Wanted, SameOrder
<1>3. \A x, y : Originals!Ahead(x, y) <=> Precedes(x, y)
    BY DEF Originals!Ahead, Precedes
<1>4. \A m : Originals!Take(a, m) = TakenFrom(S, o, m)
    BY <1>2, <1>3, SameQuantity DEF Originals!Take, TakenFrom, SameOrder
<1>5. Originals!Left(a) = LeftOver(S, o)
    BY <1>2, SameQuantity DEF Originals!Left, LeftOver, SameOrder
<1>6. Originals!Trades(a) = TradesOf(S, o)
    BY <1>2, <1>4 DEF Originals!Trades, TradesOf, Trade, SameOrder
<1>7. Originals!MakersAfter(a) = MakersLeft(S, o)
    BY <1>1, <1>2, <1>4 DEF Originals!MakersAfter, MakersLeft, LeftOf
<1> QED
    BY <1>2, <1>5, <1>6, <1>7

\* In its port, likewise.
LEMMA PortsSay ==
    ASSUME NEW a, NEW o, SameOrder(a, o), NEW S, S = Listed(apiBook), Listing(S),
           a.price \in Nat
    PROVE  /\ Ports!Reachable(a) = Wanted(S, o)
           /\ Ports!Left(a) = LeftOver(S, o)
           /\ Ports!Trades(a) = TradesOf(S, o)
           /\ Ports!MakersAfter(a) = MakersLeft(S, o)
<1>1. Resting(apiBook) = S
    BY RestingListed
<1>2. Ports!Reachable(a) = Wanted(S, o)
    <2>1. ASSUME NEW m \in S PROVE Ports!Reaches(a, m.price) <=> Reaches(o, m.price)
        <3>1. m.price \in Nat
            BY DEF Listing, Briefs
        <3> QED
            BY <3>1 DEF Ports!Reaches, Reaches, SameOrder
    <2> QED
        BY <1>1, <2>1 DEF Ports!Reachable, Wanted, SameOrder
<1>3. \A x, y : Ports!Ahead(x, y) <=> Precedes(x, y)
    BY DEF Ports!Ahead, Precedes
<1>4. \A m : Ports!Take(a, m) = TakenFrom(S, o, m)
    BY <1>2, <1>3, SameQuantity DEF Ports!Take, TakenFrom, SameOrder
<1>5. Ports!Left(a) = LeftOver(S, o)
    BY <1>2, SameQuantity DEF Ports!Left, LeftOver, SameOrder
<1>6. Ports!Trades(a) = TradesOf(S, o)
    BY <1>2, <1>4 DEF Ports!Trades, TradesOf, Trade, SameOrder
<1>7. Ports!MakersAfter(a) = MakersLeft(S, o)
    BY <1>1, <1>2, <1>4 DEF Ports!MakersAfter, MakersLeft, LeftOf
<1> QED
    BY <1>2, <1>5, <1>6, <1>7

\* What a submission needs to know of the order.
LEMMA ArrivingOrder ==
    ASSUME NEW kind \in Kinds, last.id \in Nat, NEW o, o = NewOrder(kind)
    PROVE  /\ o.id = last.id + 1 /\ o.type \in {"limit", "market"}
           /\ o.tif = "PostOnly" => o.type = "limit"
           /\ Taker(o)
           /\ o.quantity # 0 /\ (o.type = "limit" => o.price # 0) => Submitted(o, last.id + 1)
           /\ Rust!Valid(kind) <=> Rust!Valid(o)
           /\ Api!Valid(kind) <=> Api!Valid(o)
           /\ SameOrder(Originals!Order(kind, last.id + 1), o)
           /\ SameOrder(Ports!Order(kind, last.id + 1), o)
<1>1. /\ o.id = last.id + 1 /\ o.side = kind.side /\ o.type = kind.type
      /\ o.price = kind.price /\ o.quantity = kind.quantity /\ o.remaining = kind.quantity
      /\ o.tif = kind.tif
    BY DEF NewOrder
<1>2. /\ kind \in [side : {"buy", "sell"}, type : {"limit", "market"}, price : Nat,
                   quantity : Nat, tif : {"GTC", "IOC", "FOK", "PostOnly"}, hidden : BOOLEAN]
      /\ kind.type = "market" => kind.tif = "IOC"
    BY MarketAssumption
<1>3. Taker(o)
    BY <1>1, <1>2 DEF Taker, Sides
<1>4. o.quantity # 0 /\ (o.type = "limit" => o.price # 0) => Submitted(o, last.id + 1)
    BY NewOrderFields
<1>5. Rust!Valid(kind) <=> Rust!Valid(o)
    BY <1>1 DEF Rust!Valid
<1>6. Api!Valid(kind) <=> Api!Valid(o)
    BY <1>1 DEF Api!Valid
<1>7. /\ SameOrder(Originals!Order(kind, last.id + 1), o)
      /\ SameOrder(Ports!Order(kind, last.id + 1), o)
    BY <1>1 DEF SameOrder, Originals!Order, Ports!Order
<1> QED
    BY <1>1, <1>2, <1>3, <1>4, <1>5, <1>6, <1>7

\* Queues in the order of arrival, and trades that are recorded as such.
BooksFair ==
    /\ BooksSound
    /\ TimeOrdered(rustBook) /\ TimeOrdered(apiBook)
    /\ rustTrades \in Seq(Deals) /\ apiTrades \in Seq(Deals)

\* A submission to the Rust engine is an order coming in.
LEMMA RustArrives ==
    ASSUME BooksFair, NEW kind \in Kinds, Submit(kind)
    PROVE  /\ Originals!Arrive(kind, last.id + 1)
           /\ TimeOrdered(rustBook') /\ rustTrades' \in Seq(Deals)
<1> DEFINE o == NewOrder(kind)
           a == Originals!Order(kind, last.id + 1)
           S == Listed(rustBook)
<1>1. /\ last.id \in Nat /\ last.id < MaxOrders /\ Sound(rustBook, FALSE) /\ TimeOrdered(rustBook)
      /\ DOMAIN rustBook.index \subseteq 1..last.id /\ rustTrades \in Seq(Deals)
      /\ Rust!SubmitOrder(o) /\ last' = [id |-> last.id + 1, kind |-> kind]
    <2>1. Rust!SubmitOrder(o) /\ last.id < MaxOrders /\ last' = [id |-> last.id + 1, kind |-> kind]
        BY DEF Submit
    <2> HIDE DEF o
    <2>2. /\ last.id \in Nat /\ Sound(rustBook, FALSE) /\ TimeOrdered(rustBook)
          /\ DOMAIN rustBook.index \subseteq 1..last.id /\ rustTrades \in Seq(Deals)
        <3>1. BooksSound /\ TimeOrdered(rustBook) /\ rustTrades \in Seq(Deals)
            BY DEF BooksFair
        <3>2. MaxOrders \in Nat
            BY MarketAssumption
        <3>3. /\ last.id \in 0..MaxOrders /\ Sound(rustBook, FALSE)
              /\ DOMAIN rustBook.index \subseteq 1..last.id
            BY <3>1, Zenon DEF BooksSound
        <3>4. last.id \in Nat
            BY <3>2, <3>3
        <3> QED
            BY <3>1, <3>3, <3>4, Zenon
    <2> QED
        BY <2>1, <2>2
<1>2. /\ o.id = last.id + 1 /\ o.type \in {"limit", "market"}
      /\ o.tif = "PostOnly" => o.type = "limit"
      /\ Taker(o)
      /\ o.quantity # 0 /\ (o.type = "limit" => o.price # 0) => Submitted(o, last.id + 1)
      /\ Rust!Valid(kind) <=> Rust!Valid(o)
      /\ SameOrder(a, o)
    BY <1>1, ArrivingOrder
<1> HIDE DEF o, a
<1>3. Listing(S) /\ a.price \in Nat
    BY <1>1, <1>2, ListingOfBook DEF SameOrder, Taker
<1>4. /\ Originals!Reachable(a) = Wanted(S, o) /\ Originals!Left(a) = LeftOver(S, o)
      /\ Originals!Trades(a) = TradesOf(S, o) /\ Originals!MakersAfter(a) = MakersLeft(S, o)
    BY <1>2, <1>3, OriginalsSay
<1>5. Resting(rustBook) = S /\ Resting(rustBook') = Listed(rustBook')
    BY RestingListed
<1> HIDE DEF S
<1>6. o.type = "limit" => (Rust!WouldMatch(o) <=> Wanted(S, o) # {})
    BY <1>1, <1>2, WouldMatchTells DEF S
<1>7. SUFFICES ASSUME TRUE
               PROVE  /\ IF Rust!Valid(o)
                         THEN Originals!Accept(a) \/ Originals!Refuse(a)
                         ELSE UNCHANGED <<Resting(rustBook), TradeSet(rustTrades)>>
                      /\ TimeOrdered(rustBook') /\ rustTrades' \in Seq(Deals)
    BY <1>1, <1>2 DEF Originals!Arrive, a
<1>8. CASE Rust!Reject(o)
    <2>1. rustBook' = rustBook /\ rustTrades' = rustTrades
        BY <1>8 DEF Rust!Reject
    <2>2. Rust!Valid(o) => Originals!Refuse(a)
        <3>1. SUFFICES ASSUME Rust!Valid(o) PROVE Originals!Refuse(a)
            OBVIOUS
        <3>2. o.tif = "PostOnly" /\ Wanted(S, o) # {}
            BY <1>2, <1>6, <1>8, <3>1 DEF Rust!Reject, Rust!Refused
        <3> QED
            BY <1>2, <1>4, <2>1, <3>2 DEF Originals!Refuse, SameOrder
    <2> QED
        BY <1>1, <2>1, <2>2
<1>9. CASE Rust!Kill(o)
    <2>1. rustBook' = rustBook /\ rustTrades' = rustTrades /\ o.tif = "FOK"
        BY <1>9 DEF Rust!Kill
    <2>2. Originals!Refuse(a)
        BY <1>2, <2>1 DEF Originals!Refuse, SameOrder
    <2>3. Rust!Valid(o)
        BY <1>9 DEF Rust!Kill, Rust!Refused
    <2> QED
        BY <1>1, <2>1, <2>2, <2>3
<1>10. CASE Rust!Match(o)
    <2> DEFINE t == Rust!Matched(rustBook, o, FALSE)
    <2>1. /\ rustBook' = BookAfter(t, o)
          /\ rustTrades' = rustTrades \o t.trades
          /\ Rust!Valid(o) /\ ~Rust!Refused(o)
          /\ o.tif = "FOK" => Rust!CanFillEntirely(o)
        BY <1>10, SamePlacing
        DEF Rust!Match, Rust!Refused, Rust!FillsShow, Rust!Rests, BookAfter, Waits
    <2>2. Delivered(t, rustBook, o, FALSE)
        BY <1>1, <1>2, MatchedDelivers
    <2> HIDE DEF t
    <2>3. Submitted(o, last.id + 1)
        BY <1>2, <2>1 DEF Rust!Valid
    <2>4. TimeOrdered(rustBook') /\ Listed(rustBook') = ListedAfter(S, o)
        <3>1. /\ TimeOrdered(BookAfter(t, o))
              /\ Listed(BookAfter(t, o)) = ListedAfter(Listed(rustBook), o)
            BY <1>1, <2>2, <2>3, ArrivedListed
        <3> QED
            BY <2>1, <3>1 DEF S
    <2>5. /\ rustTrades' \in Seq(Deals)
          /\ TradeSet(rustTrades') = TradeSet(rustTrades) \union TradesOf(S, o)
        BY <1>1, <2>1, <2>2, DealsJoin DEF Delivered, S
    <2>6. o.tif = "FOK" => LeftOver(S, o) = 0
        BY <1>1, <1>2, <2>1, RustFills DEF S
    <2>7. o.tif = "PostOnly" => Wanted(S, o) = {}
        BY <1>2, <1>6, <2>1 DEF Rust!Refused
    <2>8. LeftOver(S, o) \in Nat
        BY <2>2 DEF Delivered, Running, S
    <2>9. Originals!Rest(a) = RestOf(S, o)
        BY <1>2, <1>4, <2>8 DEF Originals!Rest, RestOf, Waits, SameOrder
    <2>10. Originals!Accept(a)
        BY <1>2, <1>4, <1>5, <2>4, <2>5, <2>6, <2>7, <2>9 DEF Originals!Accept, ListedAfter, SameOrder
    <2> QED
        BY <2>1, <2>4, <2>5, <2>10
<1> QED
    BY <1>1, <1>8, <1>9, <1>10 DEF Rust!SubmitOrder

\* A submission to its port is an order coming in.
LEMMA ApiArrives ==
    ASSUME BooksFair, NEW kind \in Kinds, Submit(kind)
    PROVE  /\ Ports!Arrive(kind, last.id + 1)
           /\ TimeOrdered(apiBook') /\ apiTrades' \in Seq(Deals)
<1> DEFINE o == NewOrder(kind)
           a == Ports!Order(kind, last.id + 1)
           S == Listed(apiBook)
<1>1. /\ last.id \in Nat /\ last.id < MaxOrders /\ Sound(apiBook, TRUE) /\ TimeOrdered(apiBook)
      /\ DOMAIN apiBook.index \subseteq 1..last.id /\ apiTrades \in Seq(Deals)
      /\ Api!SubmitOrder(o) /\ last' = [id |-> last.id + 1, kind |-> kind]
    <2>1. Api!SubmitOrder(o) /\ last.id < MaxOrders /\ last' = [id |-> last.id + 1, kind |-> kind]
        BY DEF Submit
    <2> HIDE DEF o
    <2>2. /\ last.id \in Nat /\ Sound(apiBook, TRUE) /\ TimeOrdered(apiBook)
          /\ DOMAIN apiBook.index \subseteq 1..last.id /\ apiTrades \in Seq(Deals)
        <3>1. BooksSound /\ TimeOrdered(apiBook) /\ apiTrades \in Seq(Deals)
            BY DEF BooksFair
        <3>2. MaxOrders \in Nat
            BY MarketAssumption
        <3>3. /\ last.id \in 0..MaxOrders /\ Sound(apiBook, TRUE)
              /\ DOMAIN apiBook.index \subseteq 1..last.id
            BY <3>1, Zenon DEF BooksSound
        <3>4. last.id \in Nat
            BY <3>2, <3>3
        <3> QED
            BY <3>1, <3>3, <3>4, Zenon
    <2> QED
        BY <2>1, <2>2
<1>2. /\ o.id = last.id + 1 /\ o.type \in {"limit", "market"}
      /\ o.tif = "PostOnly" => o.type = "limit"
      /\ Taker(o)
      /\ o.quantity # 0 /\ (o.type = "limit" => o.price # 0) => Submitted(o, last.id + 1)
      /\ Api!Valid(kind) <=> Api!Valid(o)
      /\ SameOrder(a, o)
    BY <1>1, ArrivingOrder
<1> HIDE DEF o, a
<1>3. Listing(S) /\ a.price \in Nat
    BY <1>1, <1>2, ListingOfBook DEF SameOrder, Taker
<1>4. /\ Ports!Reachable(a) = Wanted(S, o) /\ Ports!Left(a) = LeftOver(S, o)
      /\ Ports!Trades(a) = TradesOf(S, o) /\ Ports!MakersAfter(a) = MakersLeft(S, o)
    BY <1>2, <1>3, PortsSay
<1>5. Resting(apiBook) = S /\ Resting(apiBook') = Listed(apiBook')
    BY RestingListed
<1> HIDE DEF S
<1>6. o.type = "limit" => (Api!WouldMatch(o) <=> Wanted(S, o) # {})
    BY <1>1, <1>2, WouldMatchTells DEF S
<1>7. SUFFICES ASSUME TRUE
               PROVE  /\ IF Api!Valid(o)
                         THEN Ports!Accept(a) \/ Ports!Refuse(a)
                         ELSE UNCHANGED <<Resting(apiBook), TradeSet(apiTrades)>>
                      /\ TimeOrdered(apiBook') /\ apiTrades' \in Seq(Deals)
    BY <1>1, <1>2 DEF Ports!Arrive, a
<1>8. CASE Api!Reject(o)
    <2>1. apiBook' = apiBook /\ apiTrades' = apiTrades
        BY <1>8 DEF Api!Reject
    <2>2. Api!Valid(o) => Ports!Refuse(a)
        <3>1. SUFFICES ASSUME Api!Valid(o) PROVE Ports!Refuse(a)
            OBVIOUS
        <3>2. o.tif = "PostOnly" /\ Wanted(S, o) # {}
            BY <1>2, <1>6, <1>8, <3>1 DEF Api!Reject, Api!Refused
        <3> QED
            BY <1>2, <1>4, <2>1, <3>2 DEF Ports!Refuse, SameOrder
    <2> QED
        BY <1>1, <2>1, <2>2
<1>9. CASE Api!Kill(o)
    <2>1. apiBook' = apiBook /\ apiTrades' = apiTrades /\ o.tif = "FOK"
        BY <1>9 DEF Api!Kill
    <2>2. Ports!Refuse(a)
        BY <1>2, <2>1 DEF Ports!Refuse, SameOrder
    <2>3. Api!Valid(o)
        BY <1>9 DEF Api!Kill, Api!Refused
    <2> QED
        BY <1>1, <2>1, <2>2, <2>3
<1>10. CASE Api!Match(o)
    <2> DEFINE t == Api!Matched(apiBook, o, TRUE)
    <2>1. /\ apiBook' = BookAfter(t, o)
          /\ apiTrades' = apiTrades \o t.trades
          /\ Api!Valid(o) /\ ~Api!Refused(o)
          /\ o.tif = "FOK" => Api!CanFillEntirely(o)
        BY <1>10, SamePlacing
        DEF Api!Match, Api!Refused, Api!FillsShow, Api!Rests, BookAfter, Waits
    <2>2. Delivered(t, apiBook, o, TRUE)
        BY <1>1, <1>2, MatchedDelivers
    <2> HIDE DEF t
    <2>3. Submitted(o, last.id + 1)
        BY <1>2, <2>1 DEF Api!Valid
    <2>4. TimeOrdered(apiBook') /\ Listed(apiBook') = ListedAfter(S, o)
        <3>1. /\ TimeOrdered(BookAfter(t, o))
              /\ Listed(BookAfter(t, o)) = ListedAfter(Listed(apiBook), o)
            BY <1>1, <2>2, <2>3, ArrivedListed
        <3> QED
            BY <2>1, <3>1 DEF S
    <2>5. /\ apiTrades' \in Seq(Deals)
          /\ TradeSet(apiTrades') = TradeSet(apiTrades) \union TradesOf(S, o)
        BY <1>1, <2>1, <2>2, DealsJoin DEF Delivered, S
    <2>6. o.tif = "FOK" => LeftOver(S, o) = 0
        BY <1>1, <1>2, <2>1, ApiFills DEF S
    <2>7. o.tif = "PostOnly" => Wanted(S, o) = {}
        BY <1>2, <1>6, <2>1 DEF Api!Refused
    <2>8. LeftOver(S, o) \in Nat
        BY <2>2 DEF Delivered, Running, S
    <2>9. Ports!Rest(a) = RestOf(S, o)
        BY <1>2, <1>4, <2>8 DEF Ports!Rest, RestOf, Waits, SameOrder
    <2>10. Ports!Accept(a)
        BY <1>2, <1>4, <1>5, <2>4, <2>5, <2>6, <2>7, <2>9 DEF Ports!Accept, ListedAfter, SameOrder
    <2> QED
        BY <2>1, <2>4, <2>5, <2>10
<1> QED
    BY <1>1, <1>8, <1>9, <1>10 DEF Api!SubmitOrder

\* Cancelling takes one order off a book, and nothing else.
LEMMA CancelledListed ==
    ASSUME NEW shows \in BOOLEAN, NEW b, Sound(b, shows), NEW id \in DOMAIN b.index
    PROVE  /\ \E m \in Listed(b) : Listed(Cancelled(b, id)) = Listed(b) \ {m}
           /\ OrdersIn(Cancelled(b, id)) \subseteq OrdersIn(b)
           /\ TimeOrdered(b) => TimeOrdered(Cancelled(b, id))
<1> DEFINE d == Cancelled(b, id)
<1>1. PICK side \in Sides : \E price, after :
          /\ OrderOut(b, side, price, after, id, shows)
          /\ d = WithLevel(Unindexed(b, id), side, price, after)
    BY CancelledTakesOut
<1> HIDE DEF d
<1>2. PICK price, after :
          /\ OrderOut(b, side, price, after, id, shows)
          /\ d = WithLevel(Unindexed(b, id), side, price, after)
    BY <1>1
<1>3. /\ \E x \in OrdersIn(b) : x.id = id /\ OrdersIn(d) = OrdersIn(b) \ {x}
      /\ TimeOrdered(b) => TimeOrdered(d)
    BY <1>2, OutLeaves
<1>4. PICK x \in OrdersIn(b) : OrdersIn(d) = OrdersIn(b) \ {x}
    BY <1>3
<1>5. \A y \in OrdersIn(b) : Brief(x) = Brief(y) => x = y
    BY ListingOfBook
<1>6. Listed(d) = Listed(b) \ {Brief(x)} /\ Brief(x) \in Listed(b)
    BY <1>4, <1>5 DEF Listed
<1> QED
    BY <1>3, <1>4, <1>6 DEF d

\* A cancellation withdraws an order from the Rust engine, or finds none there.
LEMMA RustWithdraws ==
    ASSUME BooksFair, NEW id, Cancel(id)
    PROVE  /\ (\E m \in Resting(rustBook) : Originals!Withdraw(m)) \/ UNCHANGED Originals!vars
           /\ TimeOrdered(rustBook') /\ rustTrades' = rustTrades
<1>1. /\ Sound(rustBook, FALSE) /\ TimeOrdered(rustBook)
      /\ Resting(rustBook) = Listed(rustBook) /\ Resting(rustBook') = Listed(rustBook')
    BY RestingListed, Zenon DEF BooksFair, BooksSound
<1>2. last' = last /\ rustTrades' = rustTrades
    BY DEF Cancel, Rust!CancelOrder, rustVars
<1>3. CASE id \in DOMAIN rustBook.index
    <2>1. rustBook' = Cancelled(rustBook, id)
        BY <1>3, SameCancelling DEF Cancel, Rust!Present, Rust!CancelOrder
    <2>2. /\ \E m \in Listed(rustBook) : Listed(rustBook') = Listed(rustBook) \ {m}
          /\ TimeOrdered(rustBook')
        BY <1>1, <1>3, <2>1, CancelledListed
    <2> QED
        BY <1>1, <1>2, <2>2 DEF Originals!Withdraw
<1>4. CASE id \notin DOMAIN rustBook.index
    <2>1. rustBook' = rustBook
        BY <1>4 DEF Cancel, Rust!Present, rustVars
    <2> QED
        BY <1>1, <1>2, <2>1 DEF Originals!vars
<1> QED
    BY <1>3, <1>4

\* And from its port.
LEMMA ApiWithdraws ==
    ASSUME BooksFair, NEW id, Cancel(id)
    PROVE  /\ (\E m \in Resting(apiBook) : Ports!Withdraw(m)) \/ UNCHANGED Ports!vars
           /\ TimeOrdered(apiBook') /\ apiTrades' = apiTrades
<1>1. /\ Sound(apiBook, TRUE) /\ TimeOrdered(apiBook)
      /\ Resting(apiBook) = Listed(apiBook) /\ Resting(apiBook') = Listed(apiBook')
    BY RestingListed, Zenon DEF BooksFair, BooksSound
<1>2. last' = last /\ apiTrades' = apiTrades
    BY DEF Cancel, Api!CancelOrder, apiVars
<1>3. CASE id \in DOMAIN apiBook.index
    <2>1. apiBook' = Cancelled(apiBook, id)
        BY <1>3, SameCancelling DEF Cancel, Api!Present, Api!CancelOrder
    <2>2. /\ \E m \in Listed(apiBook) : Listed(apiBook') = Listed(apiBook) \ {m}
          /\ TimeOrdered(apiBook')
        BY <1>1, <1>3, <2>1, CancelledListed
    <2> QED
        BY <1>1, <1>2, <2>2 DEF Ports!Withdraw
<1>4. CASE id \notin DOMAIN apiBook.index
    <2>1. apiBook' = apiBook
        BY <1>4 DEF Cancel, Api!Present, apiVars
    <2> QED
        BY <1>1, <1>2, <2>1 DEF Ports!vars
<1> QED
    BY <1>3, <1>4

\* Every step keeps the turns, and is one of AbstractBook, or none, for either engine.
LEMMA NextFair ==
    BooksFair /\ [Next]_vars
        => BooksFair' /\ [Originals!Next]_(Originals!vars) /\ [Ports!Next]_(Ports!vars)
<1> SUFFICES ASSUME BooksFair, [Next]_vars
             PROVE  /\ BooksFair'
                    /\ Originals!Next \/ UNCHANGED Originals!vars
                    /\ Ports!Next \/ UNCHANGED Ports!vars
    OBVIOUS
<1>1. BooksSound'
    BY NextKeeps DEF BooksFair
<1>2. ASSUME NEW kind \in Kinds, Submit(kind)
      PROVE  BooksFair' /\ Originals!Next /\ Ports!Next
    <2>1. /\ Originals!Arrive(kind, last.id + 1)
          /\ TimeOrdered(rustBook') /\ rustTrades' \in Seq(Deals)
        BY <1>2, RustArrives
    <2>2. /\ Ports!Arrive(kind, last.id + 1)
          /\ TimeOrdered(apiBook') /\ apiTrades' \in Seq(Deals)
        BY <1>2, ApiArrives
    <2>3. last.id + 1 \in 1..MaxOrders
        <3>1. last.id \in 0..MaxOrders /\ last.id < MaxOrders
            BY <1>2, Zenon DEF BooksFair, BooksSound, Submit
        <3>2. MaxOrders \in Nat
            BY MarketAssumption
        <3> QED
            BY <3>1, <3>2
    <2>4. BooksFair'
        BY <1>1, <2>1, <2>2 DEF BooksFair
    <2>5. Originals!Next
        BY <2>1, <2>3 DEF Originals!Next
    <2>6. Ports!Next
        BY <2>2, <2>3 DEF Ports!Next
    <2> QED
        BY <2>4, <2>5, <2>6
<1>3. ASSUME NEW id \in 1..last.id, Cancel(id)
      PROVE  /\ BooksFair'
             /\ Originals!Next \/ UNCHANGED Originals!vars
             /\ Ports!Next \/ UNCHANGED Ports!vars
    <2>1. /\ (\E m \in Resting(rustBook) : Originals!Withdraw(m)) \/ UNCHANGED Originals!vars
          /\ TimeOrdered(rustBook') /\ rustTrades' = rustTrades
        BY <1>3, RustWithdraws
    <2>2. /\ (\E m \in Resting(apiBook) : Ports!Withdraw(m)) \/ UNCHANGED Ports!vars
          /\ TimeOrdered(apiBook') /\ apiTrades' = apiTrades
        BY <1>3, ApiWithdraws
    <2>3. BooksFair'
        BY <1>1, <2>1, <2>2 DEF BooksFair
    <2> QED
        BY <2>1, <2>2, <2>3 DEF Originals!Next, Ports!Next
<1>4. ASSUME UNCHANGED vars
      PROVE  BooksFair' /\ UNCHANGED Originals!vars /\ UNCHANGED Ports!vars
    <2>1. /\ last' = last /\ rustBook' = rustBook /\ rustTrades' = rustTrades
          /\ apiBook' = apiBook /\ apiTrades' = apiTrades
        BY <1>4 DEF vars, rustVars, apiVars
    <2>2. BooksFair'
        BY <1>1, <2>1 DEF BooksFair
    <2> QED
        BY <2>1, <2>2 DEF Originals!vars, Ports!vars
<1> QED
    BY <1>2, <1>3, <1>4 DEF Next

LEMMA InitFair == Init => BooksFair /\ Originals!Init /\ Ports!Init
<1> SUFFICES ASSUME Init PROVE BooksFair /\ Originals!Init /\ Ports!Init
    OBVIOUS
<1>1. /\ rustBook = EmptyBook /\ apiBook = EmptyBook /\ rustTrades = <<>> /\ apiTrades = <<>>
      /\ last.id = 0
    BY EmptyBookSound DEF Init, Rust!Init, Api!Init
<1>2. \A side \in Sides : DOMAIN EmptyBook.levels[side] = {}
    BY DEF EmptyBook
<1>3. TimeOrdered(EmptyBook)
    BY <1>2 DEF TimeOrdered
<1>4. Listed(EmptyBook) = {}
    BY <1>2 DEF Listed, OrdersIn
<1>5. TradeSet(<<>>) = {} /\ <<>> \in Seq(Deals)
    BY DEF TradeSet
<1>6. BooksFair
    BY <1>1, <1>3, <1>5, InitSound DEF BooksFair
<1>7. Resting(rustBook) = {} /\ Resting(apiBook) = {}
    BY <1>1, <1>4, RestingListed
<1> QED
    BY <1>1, <1>5, <1>6, <1>7 DEF Originals!Init, Ports!Init

\* For any kinds of orders, rules of the market and number of orders, the Rust engine makes
\* just the trades and leaves just the orders that price-time priority asks for: every
\* submission, through all the rounds of its matching, is one step of AbstractBook.
THEOREM RustRefines == Spec => RustImplementsBook
BY InitFair, NextFair, PTL DEF Spec, RustImplementsBook, Originals!Spec

\* So does its port in the API.
THEOREM ApiRefines == Spec => ApiImplementsBook
BY InitFair, NextFair, PTL DEF Spec, ApiImplementsBook, Ports!Spec

-----------------------------------------------------------------------------
(* The port and the original, side by side *)

\* What is listed of a book tells which orders and which levels it has.
LEMMA ListingTells ==
    ASSUME NEW shows \in BOOLEAN, NEW b, Sound(b, shows)
    PROVE  /\ DOMAIN b.index = {m.id : m \in Listed(b)}
           /\ \A side \in Sides :
                  DOMAIN b.levels[side] = {m.price : m \in {x \in Listed(b) : x.side = side}}
<1>1. \A x : Brief(x).id = x.id /\ Brief(x).side = x.side /\ Brief(x).price = x.price
    BY DEF Brief
<1>2. DOMAIN b.index = {m.id : m \in Listed(b)}
    <2>1. DOMAIN b.index = {x.id : x \in OrdersIn(b)}
        BY SoundIsExact, SameContents DEF IndexAndTotalsExact
    <2> QED
        BY <1>1, <2>1 DEF Listed
<1>3. ASSUME NEW side \in Sides
      PROVE  DOMAIN b.levels[side] = {m.price : m \in {x \in Listed(b) : x.side = side}}
    <2>1. ASSUME NEW price \in DOMAIN b.levels[side]
          PROVE  \E m \in Listed(b) : m.side = side /\ m.price = price
        <3> DEFINE q == b.levels[side][price].orders
        <3>1. q # <<>> /\ q \in Seq(Waiting)
            BY DEF Sound, Levels
        <3>2. 1 \in 1..Len(q)
            BY <3>1
        <3>3. q[1] \in OrdersIn(b) /\ q[1].side = side /\ q[1].price = price
            BY <3>2, OrdersPlace
        <3> HIDE DEF q
        <3> QED
            BY <1>1, <3>3 DEF Listed
    <2>2. ASSUME NEW m \in Listed(b), m.side = side PROVE m.price \in DOMAIN b.levels[side]
        <3>1. PICK x \in OrdersIn(b) : m = Brief(x)
            BY DEF Listed
        <3> QED
            BY <1>1, <2>2, <3>1, OrdersPlace DEF OnItsLevel
    <2> QED
        BY <2>1, <2>2
<1> QED
    BY <1>2, <1>3

\* Books that list the same have the same order in front.
LEMMA SameFront ==
    ASSUME NEW p \in BOOLEAN, NEW b, Sound(b, p), TimeOrdered(b),
           NEW q \in BOOLEAN, NEW c, Sound(c, q), TimeOrdered(c),
           Listed(b) = Listed(c), NEW side \in Sides
    PROVE  /\ HasOrders(b, side) <=> HasOrders(c, side)
           /\ HasOrders(b, side) => /\ BestPrice(b, side) = BestPrice(c, side)
                                    /\ Brief(Front(b, side)) = Brief(Front(c, side))
<1> DEFINE f == Front(b, side)
           g == Front(c, side)
<1>1. HasOrders(b, side) <=> HasOrders(c, side)
    BY ListingTells DEF HasOrders
<1>2. SUFFICES ASSUME HasOrders(b, side)
               PROVE  BestPrice(b, side) = BestPrice(c, side) /\ Brief(f) = Brief(g)
    BY <1>1
<1>3. /\ f \in OrdersIn(b) /\ f \in Waiting /\ f.side = side /\ f.price = BestPrice(b, side)
      /\ \A x \in OrdersIn(b) : x.side = side /\ x # f => Precedes(Brief(f), Brief(x))
    BY <1>2, FrontComesFirst
<1>4. /\ g \in OrdersIn(c) /\ g \in Waiting /\ g.side = side /\ g.price = BestPrice(c, side)
      /\ \A x \in OrdersIn(c) : x.side = side /\ x # g => Precedes(Brief(g), Brief(x))
    BY <1>1, <1>2, FrontComesFirst
<1> HIDE DEF f, g
<1>5. \A x : Brief(x).id = x.id /\ Brief(x).side = x.side /\ Brief(x).price = x.price
    BY DEF Brief
<1>6. PICK y \in OrdersIn(c) : Brief(f) = Brief(y)
    BY <1>3 DEF Listed
<1>7. PICK x \in OrdersIn(b) : Brief(g) = Brief(x)
    BY <1>4 DEF Listed
<1>8. Brief(f) = Brief(g)
    <2>1. SUFFICES ASSUME Brief(f) # Brief(g) PROVE FALSE
        OBVIOUS
    <2>2. y # g /\ x # f /\ y.side = side /\ x.side = side
        BY <1>3, <1>4, <1>5, <1>6, <1>7, <2>1
    <2>3. Precedes(Brief(f), Brief(g)) /\ Precedes(Brief(g), Brief(f))
        BY <1>3, <1>4, <1>6, <1>7, <2>2
    <2>4. /\ f.price \in Nat /\ g.price \in Nat /\ f.id \in Nat /\ g.id \in Nat
        BY <1>3, <1>4, WaitingType, MarketAssumption
    <2> QED
        BY <1>3, <1>4, <1>5, <2>3, <2>4 DEF Precedes
<1> QED
    BY <1>3, <1>4, <1>5, <1>8

\* Every order of a book was on the one before, and as hidden as it is.
Continues(c, b) == \A x \in OrdersIn(c) : \E y \in OrdersIn(b) : y.id = x.id /\ y.hidden = x.hidden

\* A round that is played, for a taker with what is left of it.
LEMMA RoundMoves ==
    ASSUME NEW shows \in BOOLEAN, NEW taker, Taker(taker), NEW t, Sound(t.book, shows),
           TimeOrdered(t.book), t.remaining \in Nat, ~Stopped(t, taker),
           NEW f, f = Brief(Front(t.book, Opposite(taker.side))),
           NEW qty, qty = MinQty(t.remaining, f.remaining),
           NEW u, u = MatchRound(t, taker, shows)
    PROVE  /\ Sound(u.book, shows) /\ TimeOrdered(u.book)
           /\ u.remaining = t.remaining - qty /\ u.remaining \in Nat
           /\ u.trades = Append(t.trades, Trade(taker, f, qty))
           /\ Listed(u.book) = FilledIn(Listed(t.book), f, qty)
           /\ Continues(u.book, t.book)
<1> DEFINE side == Opposite(taker.side)
           maker == Front(t.book, side)
           c == FrontFilled(t.book, side, qty, shows)
<1>1. /\ t.remaining # 0 /\ HasOrders(t.book, side) /\ Reaches(taker, BestPrice(t.book, side))
      /\ side \in Sides
    BY DEF Stopped, Opposite, Sides
<1>2. f.remaining = maker.remaining /\ f.id = maker.id /\ f.price = maker.price
    BY DEF Brief
<1>3. u = [book |-> c, remaining |-> t.remaining - qty,
           trades |-> Append(t.trades, [maker |-> maker.id, taker |-> taker.id,
                                        price |-> maker.price, quantity |-> qty])]
    BY <1>1, <1>2 DEF MatchRound
<1> HIDE DEF side
<1>4. maker \in Waiting /\ maker \in OrdersIn(t.book)
    BY <1>1, FrontComesFirst
<1> HIDE DEF maker, c
<1>5. maker.remaining \in Nat \ {0}
    BY <1>4, WaitingType
<1>6. qty \in 1..maker.remaining /\ qty <= t.remaining
    BY <1>1, <1>2, <1>5 DEF MinQty
<1>7. Sound(c, shows)
    BY <1>1, <1>6, FrontFilledSound DEF maker, c
<1>8. /\ TimeOrdered(c)
      /\ OrdersIn(c) = (OrdersIn(t.book) \ {maker})
                 \union (IF qty = maker.remaining THEN {}
                         ELSE {[maker EXCEPT !.remaining = maker.remaining - qty]})
    BY <1>1, <1>6, FillLeaves DEF maker, c
<1>9. Continues(c, t.book)
    <2> DEFINE part == [maker EXCEPT !.remaining = maker.remaining - qty]
    <2>1. qty # maker.remaining => part.id = maker.id /\ part.hidden = maker.hidden
        <3>1. qty # maker.remaining
                  => /\ maker.remaining - qty \in Nat \ {0}
                     /\ maker.remaining - qty <= maker.quantity
            BY <1>4, <1>5, <1>6, WaitingType
        <3> QED
            BY <1>4, <3>1, PartLeft
    <2> HIDE DEF part
    <2>2. \A x \in OrdersIn(c) : x \in OrdersIn(t.book) \/ (qty # maker.remaining /\ x = part)
        BY <1>8 DEF part
    <2> QED
        BY <1>4, <2>1, <2>2 DEF Continues
<1>10. /\ u.book = c /\ u.remaining = t.remaining - qty
       /\ u.trades = Append(t.trades, Trade(taker, f, qty))
    BY <1>2, <1>3 DEF Trade
<1>11. Listed(c) = FilledIn(Listed(t.book), f, qty)
    BY <1>1, <1>6, FillListed DEF maker, c, side
<1> QED
    BY <1>6, <1>7, <1>8, <1>9, <1>10, <1>11

\* A book from which matching started at b, after some rounds.
Begun(t, b, shows) ==
    /\ Sound(t.book, shows) /\ TimeOrdered(t.book)
    /\ t.remaining \in Nat
    /\ Continues(t.book, b)

LEMMA RoundContinues ==
    ASSUME NEW shows \in BOOLEAN, NEW taker, Taker(taker), NEW b, NEW t, Begun(t, b, shows)
    PROVE  Begun(MatchRound(t, taker, shows), b, shows)
<1> DEFINE f == Brief(Front(t.book, Opposite(taker.side)))
           qty == MinQty(t.remaining, f.remaining)
           u == MatchRound(t, taker, shows)
<1>1. CASE Stopped(t, taker)
    BY <1>1 DEF Stopped, MatchRound
<1>2. CASE ~Stopped(t, taker)
    <2> HIDE DEF f, qty, u
    <2>1. /\ Sound(u.book, shows) /\ TimeOrdered(u.book) /\ u.remaining \in Nat
          /\ Continues(u.book, t.book)
        BY <1>2, RoundMoves DEF Begun, f, qty, u
    <2>2. Continues(u.book, b)
        BY <2>1 DEF Begun, Continues
    <2>3. Begun(u, b, shows)
        BY <2>1, <2>2 DEF Begun
    <2> QED
        BY <2>3 DEF u
<1> QED
    BY <1>1, <1>2

\* The Rust engine and the port in the same round, on books that list the same.
Twins(t, u) ==
    /\ t.remaining = u.remaining /\ t.trades = u.trades
    /\ Listed(t.book) = Listed(u.book)

LEMMA RoundsTwin ==
    ASSUME NEW taker, Taker(taker), NEW p \in BOOLEAN, NEW b, NEW t, Begun(t, b, p),
           NEW q \in BOOLEAN, NEW c, NEW u, Begun(u, c, q), Twins(t, u)
    PROVE  Twins(MatchRound(t, taker, p), MatchRound(u, taker, q))
<1> DEFINE side == Opposite(taker.side)
           f == Brief(Front(t.book, side))
           qty == MinQty(t.remaining, f.remaining)
           v == MatchRound(t, taker, p)
           w == MatchRound(u, taker, q)
<1>1. /\ HasOrders(t.book, side) <=> HasOrders(u.book, side)
      /\ HasOrders(t.book, side) => /\ BestPrice(t.book, side) = BestPrice(u.book, side)
                                    /\ f = Brief(Front(u.book, side))
    <2>1. side \in Sides
        BY DEF Opposite, Sides
    <2> HIDE DEF side
    <2> QED
        BY <2>1, SameFront DEF Begun, Twins
<1>2. Stopped(t, taker) <=> Stopped(u, taker)
    BY <1>1 DEF Stopped, Twins
<1>3. CASE Stopped(t, taker)
    BY <1>2, <1>3 DEF Stopped, MatchRound
<1>4. CASE ~Stopped(t, taker)
    <2>1. HasOrders(t.book, side)
        BY <1>4 DEF Stopped
    <2>2. f = Brief(Front(u.book, side)) /\ qty = MinQty(u.remaining, f.remaining)
        BY <1>1, <2>1 DEF Twins
    <2> HIDE DEF f, qty, v, w
    <2>3. /\ v.remaining = t.remaining - qty
          /\ v.trades = Append(t.trades, Trade(taker, f, qty))
          /\ Listed(v.book) = FilledIn(Listed(t.book), f, qty)
        BY <1>4, RoundMoves DEF Begun, f, qty, v
    <2>4. /\ w.remaining = u.remaining - qty
          /\ w.trades = Append(u.trades, Trade(taker, f, qty))
          /\ Listed(w.book) = FilledIn(Listed(u.book), f, qty)
        BY <1>2, <1>4, <2>2, RoundMoves DEF Begun, w
    <2>5. Twins(v, w)
        BY <2>3, <2>4 DEF Twins
    <2> QED
        BY <2>5 DEF v, w
<1> QED
    BY <1>3, <1>4

\* Any number of rounds, on either side.
LEMMA AllRoundsTwin ==
    ASSUME NEW taker, Taker(taker), NEW n \in Nat, NEW p \in BOOLEAN, NEW q \in BOOLEAN,
           NEW b, Sound(b, p), TimeOrdered(b), NEW f, Rounds(f, n, b, taker, p),
           NEW c, Sound(c, q), TimeOrdered(c), NEW g, Rounds(g, n, c, taker, q),
           Listed(b) = Listed(c)
    PROVE  Twins(f[n], g[n])
<1> DEFINE N == {i \in Nat : i <= n => /\ Begun(f[i], b, p) /\ Begun(g[i], c, q)
                                       /\ Twins(f[i], g[i])}
           atB == [book |-> b, remaining |-> taker.remaining, trades |-> <<>>]
           atC == [book |-> c, remaining |-> taker.remaining, trades |-> <<>>]
<1>1. ASSUME NEW i \in 0..n
      PROVE  /\ f[i] = IF i = 0 THEN atB ELSE MatchRound(f[i - 1], taker, p)
             /\ g[i] = IF i = 0 THEN atC ELSE MatchRound(g[i - 1], taker, q)
    BY DEF Rounds
<1>2. Begun(atB, b, p) /\ Begun(atC, c, q) /\ Twins(atB, atC)
    BY DEF Begun, Continues, Twins, Taker
<1> HIDE DEF atB, atC
<1>3. 0 \in N
    <2>1. f[0] = atB /\ g[0] = atC
        BY <1>1
    <2> QED
        BY <1>2, <2>1
<1>4. ASSUME NEW i \in Nat, i \in N PROVE i + 1 \in N
    <2>1. SUFFICES ASSUME i + 1 <= n
                   PROVE  /\ Begun(f[i + 1], b, p) /\ Begun(g[i + 1], c, q)
                          /\ Twins(f[i + 1], g[i + 1])
        OBVIOUS
    <2>2. Begun(f[i], b, p) /\ Begun(g[i], c, q) /\ Twins(f[i], g[i])
        BY <1>4, <2>1
    <2>3. /\ f[i + 1] = MatchRound(f[i], taker, p)
          /\ g[i + 1] = MatchRound(g[i], taker, q)
        BY <1>1, <2>1
    <2> QED
        BY <2>2, <2>3, RoundContinues, RoundsTwin
<1> HIDE DEF N
<1>5. n \in N
    BY <1>3, <1>4, NatSets
<1> QED
    BY <1>5 DEF N

LEMMA AllRoundsContinue ==
    ASSUME NEW shows \in BOOLEAN, NEW taker, Taker(taker), NEW n \in Nat, NEW b, Sound(b, shows),
           TimeOrdered(b), NEW f, Rounds(f, n, b, taker, shows)
    PROVE  Continues(f[n].book, b)
<1> DEFINE N == {i \in Nat : i <= n => Begun(f[i], b, shows)}
           start == [book |-> b, remaining |-> taker.remaining, trades |-> <<>>]
<1>1. ASSUME NEW i \in 0..n
      PROVE  f[i] = IF i = 0 THEN start ELSE MatchRound(f[i - 1], taker, shows)
    BY DEF Rounds
<1>2. Begun(start, b, shows)
    BY DEF Begun, Continues, Taker
<1> HIDE DEF start
<1>3. 0 \in N
    <2>1. f[0] = start
        BY <1>1
    <2> QED
        BY <1>2, <2>1
<1>4. ASSUME NEW i \in Nat, i \in N PROVE i + 1 \in N
    <2>1. SUFFICES ASSUME i + 1 <= n PROVE Begun(f[i + 1], b, shows)
        OBVIOUS
    <2>2. Begun(f[i], b, shows)
        BY <1>4, <2>1
    <2>3. f[i + 1] = MatchRound(f[i], taker, shows)
        BY <1>1, <2>1
    <2> QED
        BY <2>2, <2>3, RoundContinues
<1> HIDE DEF N
<1>5. n \in N
    BY <1>3, <1>4, NatSets
<1> QED
    BY <1>5 DEF N, Begun

\* Matching makes the same trades in both engines, in the same order, and leaves the same of
\* the taker.
LEMMA MatchedTwin ==
    ASSUME NEW o, Taker(o), NEW p \in BOOLEAN, NEW b, Sound(b, p), TimeOrdered(b),
           NEW q \in BOOLEAN, NEW c, Sound(c, q), TimeOrdered(c), Listed(b) = Listed(c)
    PROVE  Twins(Rust!Matched(b, o, p), Api!Matched(c, o, q))
<1> DEFINE n == Cardinality(DOMAIN b.index)
<1>1. DOMAIN b.index = DOMAIN c.index
    BY ListingTells
<1>2. n \in Nat /\ n = Cardinality(DOMAIN c.index)
    BY <1>1, MatchedInRounds
<1> HIDE DEF n
<1>3. PICK f : Rounds(f, n, b, o, p) /\ Rust!Matched(b, o, p) = f[n]
    BY MatchedInRounds DEF n
<1>4. PICK g : Rounds(g, n, c, o, q) /\ Api!Matched(c, o, q) = g[n]
    BY <1>2, MatchedInRounds
<1>5. Twins(f[n], g[n])
    BY <1>2, <1>3, <1>4, AllRoundsTwin
<1> QED
    BY <1>3, <1>4, <1>5

LEMMA MatchedContinues ==
    ASSUME NEW shows \in BOOLEAN, NEW b, Sound(b, shows), TimeOrdered(b), NEW o, Taker(o)
    PROVE  /\ Continues(Rust!Matched(b, o, shows).book, b)
           /\ Continues(Api!Matched(b, o, shows).book, b)
<1> DEFINE n == Cardinality(DOMAIN b.index)
<1>1. n \in Nat
    BY MatchedInRounds
<1>2. PICK f : Rounds(f, n, b, o, shows) /\ Rust!Matched(b, o, shows) = f[n]
    BY MatchedInRounds
<1>3. PICK g : Rounds(g, n, b, o, shows) /\ Api!Matched(b, o, shows) = g[n]
    BY MatchedInRounds
<1>4. Continues(f[n].book, b) /\ Continues(g[n].book, b)
    BY <1>1, <1>2, <1>3, AllRoundsContinue
<1> QED
    BY <1>2, <1>3, <1>4

\* The orders of both books under one id are hidden in both or in none: a submission reaches
\* both engines, and no engine changes the flag.
HiddenInBoth ==
    \A x \in OrdersIn(rustBook), y \in OrdersIn(apiBook) : x.id = y.id => x.hidden = y.hidden

\* An order on c was on b, as hidden as it is, or is o.
Joins(c, b, o) ==
    \A x \in OrdersIn(c) : \/ \E y \in OrdersIn(b) : y.id = x.id /\ y.hidden = x.hidden
                           \/ x.id = o.id /\ x.hidden = o.hidden

LEMMA ArrivedJoins ==
    ASSUME NEW shows \in BOOLEAN, NEW b, NEW n \in Nat, n < MaxOrders, DOMAIN b.index \subseteq 1..n,
           NEW o, Submitted(o, n + 1), NEW t, Delivered(t, b, o, shows), Continues(t.book, b)
    PROVE  Joins(BookAfter(t, o), b, o)
<1> DEFINE c == BookAfter(t, o)
<1>1. /\ Sound(t.book, shows) /\ DOMAIN t.book.index \subseteq 1..n
      /\ t.remaining \in 0..o.remaining /\ TimeOrdered(t.book)
    BY DEF Delivered, Running
<1>2. CASE Waits(o, t.remaining)
    <2> DEFINE rest == [o EXCEPT !.remaining = t.remaining]
    <2>1. rest \in Waiting /\ rest.id = o.id
        BY <1>1, <1>2, RestWaits
    <2>2. rest.hidden = o.hidden
        BY DEF Submitted
    <2>3. c = Placed(t.book, rest)
        BY <1>2 DEF BookAfter
    <2> HIDE DEF rest, c
    <2>4. \A id \in DOMAIN t.book.index : id < rest.id
        BY <1>1, <2>1 DEF Submitted
    <2>5. OrdersIn(c) = OrdersIn(t.book) \union {rest}
        BY <1>1, <2>1, <2>3, <2>4, PlacedJoins
    <2>6. Joins(c, b, o)
        BY <2>1, <2>2, <2>5 DEF Joins, Continues
    <2> QED
        BY <2>6 DEF c
<1>3. CASE ~Waits(o, t.remaining)
    BY <1>3 DEF BookAfter, Joins, Continues
<1> QED
    BY <1>2, <1>3

\* What a submission makes of an engine: nothing, or what matching makes of its book.
Takes(refused, fills, o, t, b, next, trades, nextTrades) ==
    IF refused \/ (o.tif = "FOK" /\ ~fills)
    THEN next = b /\ nextTrades = trades
    ELSE next = BookAfter(t, o) /\ nextTrades = trades \o t.trades

LEMMA RustTakes ==
    ASSUME NEW o, Rust!SubmitOrder(o)
    PROVE  Takes(Rust!Refused(o), Rust!CanFillEntirely(o), o, Rust!Matched(rustBook, o, FALSE),
                 rustBook, rustBook', rustTrades, rustTrades')
<1>1. CASE Rust!Reject(o)
    BY <1>1 DEF Rust!Reject, Takes
<1>2. CASE Rust!Kill(o)
    BY <1>2 DEF Rust!Kill, Takes
<1>3. CASE Rust!Match(o)
    <2> DEFINE t == Rust!Matched(rustBook, o, FALSE)
    <2>1. /\ rustBook' = BookAfter(t, o) /\ rustTrades' = rustTrades \o t.trades
          /\ ~Rust!Refused(o) /\ (o.tif = "FOK" => Rust!CanFillEntirely(o))
        BY <1>3, SamePlacing
        DEF Rust!Match, Rust!FillsShow, Rust!Rests, BookAfter, Waits
    <2> HIDE DEF t
    <2>2. Takes(Rust!Refused(o), Rust!CanFillEntirely(o), o, t, rustBook, rustBook', rustTrades,
                rustTrades')
        BY <2>1 DEF Takes
    <2> QED
        BY <2>2 DEF t
<1> QED
    BY <1>1, <1>2, <1>3 DEF Rust!SubmitOrder

LEMMA ApiTakes ==
    ASSUME NEW o, Api!SubmitOrder(o)
    PROVE  Takes(Api!Refused(o), Api!CanFillEntirely(o), o, Api!Matched(apiBook, o, TRUE),
                 apiBook, apiBook', apiTrades, apiTrades')
<1>1. CASE Api!Reject(o)
    BY <1>1 DEF Api!Reject, Takes
<1>2. CASE Api!Kill(o)
    BY <1>2 DEF Api!Kill, Takes
<1>3. CASE Api!Match(o)
    <2> DEFINE t == Api!Matched(apiBook, o, TRUE)
    <2>1. /\ apiBook' = BookAfter(t, o) /\ apiTrades' = apiTrades \o t.trades
          /\ ~Api!Refused(o) /\ (o.tif = "FOK" => Api!CanFillEntirely(o))
        BY <1>3, SamePlacing
        DEF Api!Match, Api!FillsShow, Api!Rests, BookAfter, Waits
    <2> HIDE DEF t
    <2>2. Takes(Api!Refused(o), Api!CanFillEntirely(o), o, t, apiBook, apiBook', apiTrades,
                apiTrades')
        BY <2>1 DEF Takes
    <2> QED
        BY <2>2 DEF t
<1> QED
    BY <1>1, <1>2, <1>3 DEF Api!SubmitOrder

\* What is known of a submission to both.
LEMMA SubmissionFacts ==
    ASSUME BooksFair, NEW kind \in Kinds, Submit(kind), NEW o, o = NewOrder(kind)
    PROVE  /\ last.id \in Nat /\ last.id < MaxOrders
           /\ Sound(rustBook, FALSE) /\ TimeOrdered(rustBook)
           /\ Sound(apiBook, TRUE) /\ TimeOrdered(apiBook)
           /\ DOMAIN rustBook.index \subseteq 1..last.id
           /\ DOMAIN apiBook.index \subseteq 1..last.id
           /\ Rust!SubmitOrder(o) /\ Api!SubmitOrder(o)
           /\ last' = [id |-> last.id + 1, kind |-> kind]
           /\ Taker(o) /\ o.id = last.id + 1 /\ o.quantity = kind.quantity /\ o.tif = kind.tif
           /\ o.tif = "PostOnly" => o.type = "limit"
           /\ Rust!Valid(o) \/ Api!Valid(o) => Submitted(o, last.id + 1)
<1>1. /\ Rust!SubmitOrder(o) /\ Api!SubmitOrder(o) /\ last.id < MaxOrders
      /\ last' = [id |-> last.id + 1, kind |-> kind]
    BY DEF Submit
<1>2. BooksSound /\ TimeOrdered(rustBook) /\ TimeOrdered(apiBook) /\ MaxOrders \in Nat
    BY MarketAssumption DEF BooksFair
<1>3. /\ last.id \in 0..MaxOrders /\ Sound(rustBook, FALSE) /\ Sound(apiBook, TRUE)
      /\ DOMAIN rustBook.index \subseteq 1..last.id
      /\ DOMAIN apiBook.index \subseteq 1..last.id
    BY <1>2, Zenon DEF BooksSound
<1>4. last.id \in Nat
    BY <1>2, <1>3
<1>5. /\ o.id = last.id + 1 /\ Taker(o) /\ (o.tif = "PostOnly" => o.type = "limit")
      /\ o.quantity # 0 /\ (o.type = "limit" => o.price # 0) => Submitted(o, last.id + 1)
    BY <1>4, ArrivingOrder
<1>6. o.quantity = kind.quantity /\ o.tif = kind.tif
    BY DEF NewOrder
<1>7. Rust!Valid(o) \/ Api!Valid(o) => Submitted(o, last.id + 1)
    BY <1>5 DEF Rust!Valid, Api!Valid
<1> QED
    BY <1>1, <1>2, <1>3, <1>4, <1>5, <1>6, <1>7, Zenon

\* A submission leaves the flags of what waits, and gives the new order one in both engines.
LEMMA SubmitHides ==
    ASSUME BooksFair, HiddenInBoth, NEW kind \in Kinds, Submit(kind)
    PROVE  HiddenInBoth'
<1> DEFINE o == NewOrder(kind)
           t == Rust!Matched(rustBook, o, FALSE)
           u == Api!Matched(apiBook, o, TRUE)
<1>1. /\ last.id \in Nat /\ last.id < MaxOrders
      /\ Sound(rustBook, FALSE) /\ TimeOrdered(rustBook)
      /\ Sound(apiBook, TRUE) /\ TimeOrdered(apiBook)
      /\ DOMAIN rustBook.index \subseteq 1..last.id
      /\ DOMAIN apiBook.index \subseteq 1..last.id
      /\ Rust!SubmitOrder(o) /\ Api!SubmitOrder(o) /\ Taker(o) /\ o.id = last.id + 1
      /\ Rust!Valid(o) \/ Api!Valid(o) => Submitted(o, last.id + 1)
    BY SubmissionFacts
<1> HIDE DEF o
<1>2. Joins(rustBook', rustBook, o)
    <2>1. Takes(Rust!Refused(o), Rust!CanFillEntirely(o), o, t, rustBook, rustBook', rustTrades,
                rustTrades')
        BY <1>1, RustTakes
    <2>2. Delivered(t, rustBook, o, FALSE) /\ Continues(t.book, rustBook)
        BY <1>1, MatchedDelivers, MatchedContinues
    <2> HIDE DEF t
    <2>3. CASE rustBook' = rustBook
        BY <2>3 DEF Joins
    <2>4. CASE rustBook' = BookAfter(t, o) /\ ~Rust!Refused(o)
        <3>1. Submitted(o, last.id + 1)
            BY <1>1, <2>4 DEF Rust!Refused
        <3>2. Joins(BookAfter(t, o), rustBook, o)
            BY <1>1, <2>2, <3>1, ArrivedJoins
        <3> QED
            BY <2>4, <3>2
    <2> QED
        BY <2>1, <2>3, <2>4 DEF Takes
<1>3. Joins(apiBook', apiBook, o)
    <2>1. Takes(Api!Refused(o), Api!CanFillEntirely(o), o, u, apiBook, apiBook', apiTrades,
                apiTrades')
        BY <1>1, ApiTakes
    <2>2. Delivered(u, apiBook, o, TRUE) /\ Continues(u.book, apiBook)
        BY <1>1, MatchedDelivers, MatchedContinues
    <2> HIDE DEF u
    <2>3. CASE apiBook' = apiBook
        BY <2>3 DEF Joins
    <2>4. CASE apiBook' = BookAfter(u, o) /\ ~Api!Refused(o)
        <3>1. Submitted(o, last.id + 1)
            BY <1>1, <2>4 DEF Api!Refused
        <3>2. Joins(BookAfter(u, o), apiBook, o)
            BY <1>1, <2>2, <3>1, ArrivedJoins
        <3> QED
            BY <2>4, <3>2
    <2> QED
        BY <2>1, <2>3, <2>4 DEF Takes
<1>4. \A x \in OrdersIn(rustBook) \union OrdersIn(apiBook) : x.id # o.id
    <2>1. /\ \A x \in OrdersIn(rustBook) : x.id \in 1..last.id
          /\ \A x \in OrdersIn(apiBook) : x.id \in 1..last.id
        BY <1>1, OrdersPlace
    <2> QED
        BY <1>1, <2>1
<1>5. ASSUME NEW x \in OrdersIn(rustBook'), NEW y \in OrdersIn(apiBook'), x.id = y.id
      PROVE  x.hidden = y.hidden
    <2>1. \/ \E v \in OrdersIn(rustBook) : v.id = x.id /\ v.hidden = x.hidden
          \/ x.id = o.id /\ x.hidden = o.hidden
        BY <1>2 DEF Joins
    <2>2. \/ \E w \in OrdersIn(apiBook) : w.id = y.id /\ w.hidden = y.hidden
          \/ y.id = o.id /\ y.hidden = o.hidden
        BY <1>3 DEF Joins
    <2> QED
        BY <1>4, <1>5, <2>1, <2>2 DEF HiddenInBoth
<1> QED
    BY <1>5 DEF HiddenInBoth

LEMMA CancelHides ==
    ASSUME BooksFair, HiddenInBoth, NEW id, Cancel(id)
    PROVE  HiddenInBoth'
<1>1. Sound(rustBook, FALSE) /\ Sound(apiBook, TRUE)
    BY Zenon DEF BooksFair, BooksSound
<1>2. OrdersIn(rustBook') \subseteq OrdersIn(rustBook)
    <2>1. CASE id \in DOMAIN rustBook.index
        <3>1. rustBook' = Cancelled(rustBook, id)
            BY <2>1, SameCancelling DEF Cancel, Rust!Present, Rust!CancelOrder
        <3> QED
            BY <1>1, <2>1, <3>1, CancelledListed
    <2>2. CASE id \notin DOMAIN rustBook.index
        <3>1. rustBook' = rustBook
            BY <2>2 DEF Cancel, Rust!Present, rustVars
        <3> QED
            BY <3>1
    <2> QED
        BY <2>1, <2>2
<1>3. OrdersIn(apiBook') \subseteq OrdersIn(apiBook)
    <2>1. CASE id \in DOMAIN apiBook.index
        <3>1. apiBook' = Cancelled(apiBook, id)
            BY <2>1, SameCancelling DEF Cancel, Api!Present, Api!CancelOrder
        <3> QED
            BY <1>1, <2>1, <3>1, CancelledListed
    <2>2. CASE id \notin DOMAIN apiBook.index
        <3>1. apiBook' = apiBook
            BY <2>2 DEF Cancel, Api!Present, apiVars
        <3> QED
            BY <3>1
    <2> QED
        BY <2>1, <2>2
<1>4. ASSUME NEW x \in OrdersIn(rustBook'), NEW y \in OrdersIn(apiBook'), x.id = y.id
      PROVE  x.hidden = y.hidden
    BY <1>2, <1>3, <1>4 DEF HiddenInBoth
<1> QED
    BY <1>4 DEF HiddenInBoth

\* The two engines decide alike on an order, and what they do with it lists the same.
LEMMA SubmitAgrees ==
    ASSUME BooksFair, HiddenInBoth, Alike, NEW kind \in Kinds, Submit(kind),
           kind.quantity <= MaxQuantity,
           kind.tif = "FOK"
               => /\ \A o \in Rust!OrdersIn(rustBook) : ~o.hidden
                  /\ \A side \in Sides : Cardinality(DOMAIN rustBook.levels[side]) <= Depth
    PROVE  Alike'
<1> DEFINE o == NewOrder(kind)
           t == Rust!Matched(rustBook, o, FALSE)
           u == Api!Matched(apiBook, o, TRUE)
<1>1. /\ last.id \in Nat /\ last.id < MaxOrders
      /\ Sound(rustBook, FALSE) /\ TimeOrdered(rustBook)
      /\ Sound(apiBook, TRUE) /\ TimeOrdered(apiBook)
      /\ DOMAIN rustBook.index \subseteq 1..last.id
      /\ DOMAIN apiBook.index \subseteq 1..last.id
      /\ Rust!SubmitOrder(o) /\ Api!SubmitOrder(o)
      /\ Taker(o) /\ o.quantity = kind.quantity /\ o.tif = kind.tif
      /\ o.tif = "PostOnly" => o.type = "limit"
      /\ Rust!Valid(o) \/ Api!Valid(o) => Submitted(o, last.id + 1)
    BY SubmissionFacts
<1>2. Listed(rustBook) = Listed(apiBook) /\ rustTrades = apiTrades
    BY RestingListed DEF Alike
<1> HIDE DEF o
<1>3. Rust!Valid(o) <=> Api!Valid(o)
    BY <1>1 DEF Rust!Valid, Api!Valid
<1>4. Rust!Refused(o) <=> Api!Refused(o)
    <2>1. o.tif = "PostOnly" => (Rust!WouldMatch(o) <=> Api!WouldMatch(o))
        BY <1>1, <1>2, WouldMatchTells
    <2> QED
        BY <1>3, <2>1 DEF Rust!Refused, Api!Refused
<1>5. o.tif = "FOK" => (Rust!CanFillEntirely(o) <=> Api!CanFillEntirely(o))
    <2>1. SUFFICES ASSUME o.tif = "FOK"
                   PROVE  Rust!CanFillEntirely(o) <=> Api!CanFillEntirely(o)
        OBVIOUS
    <2>2. ASSUME NEW y \in OrdersIn(apiBook) PROVE ~y.hidden
        <3>1. Brief(y) \in Listed(rustBook)
            BY <1>2 DEF Listed
        <3>2. PICK x \in OrdersIn(rustBook) : Brief(y) = Brief(x)
            BY <3>1 DEF Listed
        <3>3. x.id = y.id
            BY <3>2 DEF Brief
        <3>4. ~x.hidden
            BY <1>1, <2>1, SameContents
        <3> QED
            BY <3>3, <3>4 DEF HiddenInBoth
    <2>3. Opposite(o.side) \in Sides
        BY DEF Opposite, Sides
    <2>4. DOMAIN apiBook.levels[Opposite(o.side)] = DOMAIN rustBook.levels[Opposite(o.side)]
        <3> DEFINE side == Opposite(o.side)
        <3> HIDE DEF side
        <3>1. side \in Sides
            BY <2>3 DEF side
        <3>2. DOMAIN rustBook.levels[side]
                  = {m.price : m \in {x \in Listed(rustBook) : x.side = side}}
            BY <1>1, <3>1, ListingTells
        <3>3. DOMAIN apiBook.levels[side]
                  = {m.price : m \in {x \in Listed(apiBook) : x.side = side}}
            BY <1>1, <3>1, ListingTells
        <3>4. DOMAIN apiBook.levels[side] = DOMAIN rustBook.levels[side]
            BY <1>2, <3>2, <3>3
        <3> QED
            BY <3>4 DEF side
    <2>5. LooksAtAll(apiBook, o)
        BY <1>1, <2>1, <2>2, <2>3, <2>4 DEF LooksAtAll
    <2> QED
        BY <1>1, <1>2, <2>5, RustFills, ApiFills
<1>6. /\ Takes(Rust!Refused(o), Rust!CanFillEntirely(o), o, t, rustBook, rustBook', rustTrades,
               rustTrades')
      /\ Takes(Api!Refused(o), Api!CanFillEntirely(o), o, u, apiBook, apiBook', apiTrades,
               apiTrades')
    BY <1>1, RustTakes, ApiTakes
<1>7. Twins(t, u)
    BY <1>1, <1>2, MatchedTwin
<1>8. Delivered(t, rustBook, o, FALSE) /\ Delivered(u, apiBook, o, TRUE)
    BY <1>1, MatchedDelivers
<1> HIDE DEF t, u
<1>9. CASE Rust!Refused(o) \/ (o.tif = "FOK" /\ ~Rust!CanFillEntirely(o))
    <2>1. /\ rustBook' = rustBook /\ rustTrades' = rustTrades
          /\ apiBook' = apiBook /\ apiTrades' = apiTrades
        BY <1>4, <1>5, <1>6, <1>9 DEF Takes
    <2> QED
        BY <1>2, <2>1, RestingListed DEF Alike
<1>10. CASE ~(Rust!Refused(o) \/ (o.tif = "FOK" /\ ~Rust!CanFillEntirely(o)))
    <2>1. /\ rustBook' = BookAfter(t, o) /\ rustTrades' = rustTrades \o t.trades
          /\ apiBook' = BookAfter(u, o) /\ apiTrades' = apiTrades \o u.trades
        BY <1>4, <1>5, <1>6, <1>10 DEF Takes
    <2>2. Submitted(o, last.id + 1)
        BY <1>1, <1>10 DEF Rust!Refused
    <2>3. /\ Listed(rustBook') = ListedAfter(Listed(rustBook), o)
          /\ Listed(apiBook') = ListedAfter(Listed(apiBook), o)
        BY <1>1, <1>8, <2>1, <2>2, ArrivedListed
    <2>4. rustTrades' = apiTrades'
        BY <1>2, <1>7, <2>1 DEF Twins
    <2> QED
        BY <1>2, <2>3, <2>4, RestingListed DEF Alike
<1> QED
    BY <1>9, <1>10

\* What TwinsAgree asks of a step.
Comparable ==
    /\ Alike
    /\ last'.id # last.id
    /\ last'.kind.quantity <= MaxQuantity
    /\ last'.kind.tif = "FOK"
           => /\ \A o \in Rust!OrdersIn(rustBook) : ~o.hidden
              /\ \A side \in {"buy", "sell"} :
                     Cardinality(DOMAIN rustBook.levels[side]) <= Depth

LEMMA NextAgrees ==
    BooksFair /\ HiddenInBoth /\ [Next]_vars
        => BooksFair' /\ HiddenInBoth' /\ [Comparable => Alike']_vars
<1> SUFFICES ASSUME BooksFair, HiddenInBoth, [Next]_vars
             PROVE  BooksFair' /\ HiddenInBoth' /\ (Comparable => Alike')
    OBVIOUS
<1>1. BooksFair'
    BY NextFair
<1>2. ASSUME NEW kind \in Kinds, Submit(kind) PROVE HiddenInBoth' /\ (Comparable => Alike')
    <2>1. HiddenInBoth'
        BY <1>2, SubmitHides
    <2>2. last'.kind = kind
        BY <1>2 DEF Submit
    <2>3. ASSUME Comparable PROVE Alike'
        BY <1>2, <2>2, <2>3, SubmitAgrees DEF Comparable, Sides
    <2> QED
        BY <2>1, <2>3
<1>3. ASSUME NEW id \in 1..last.id, Cancel(id) PROVE HiddenInBoth' /\ (Comparable => Alike')
    <2>1. last' = last
        BY <1>3 DEF Cancel
    <2> QED
        BY <1>3, <2>1, CancelHides DEF Comparable
<1>4. ASSUME UNCHANGED vars PROVE HiddenInBoth' /\ (Comparable => Alike')
    <2>1. last' = last /\ rustBook' = rustBook /\ apiBook' = apiBook
        BY <1>4 DEF vars, rustVars, apiVars
    <2> QED
        BY <2>1 DEF HiddenInBoth, Comparable
<1> QED
    BY <1>1, <1>2, <1>3, <1>4 DEF Next

LEMMA InitAgrees == Init => BooksFair /\ HiddenInBoth
<1> SUFFICES ASSUME Init PROVE BooksFair /\ HiddenInBoth
    OBVIOUS
<1>1. rustBook = EmptyBook
    BY EmptyBookSound DEF Init, Rust!Init
<1>2. OrdersIn(EmptyBook) = {}
    BY DEF OrdersIn, EmptyBook
<1> QED
    BY <1>1, <1>2, InitFair DEF HiddenInBoth

\* For any kinds of orders and rules of the market: from books and trades that agree, the
\* port answers an order with the trades of the original, in their order, and with the same
\* book; but for orders above the largest size, and fill-or-kill orders on books with hidden
\* orders or more levels than the port looks at.
THEOREM PortAgrees == Spec => TwinsAgree
<1>1. Init => BooksFair /\ HiddenInBoth
    BY InitAgrees
<1>2. BooksFair /\ HiddenInBoth /\ [Next]_vars
          => BooksFair' /\ HiddenInBoth' /\ [Comparable => Alike']_vars
    BY NextAgrees
<1> QED
    BY <1>1, <1>2, PTL DEF Spec, TwinsAgree, Comparable
=============================================================================
