---------------------------- MODULE SumTheorems ----------------------------
(***************************************************************************)
(* What SumTo returns, and how it changes with one entry of its argument,  *)
(* and with one entry more or less; what is in OnlyIn, how long it is and  *)
(* what it weighs; and that a fold of a step that stays in a set stays in  *)
(* it.  Each fact is an induction over the naturals or over sequences,     *)
(* done with NatSets and SeqSets below: the set of the numbers (sequences) *)
(* that satisfy the fact is closed under successor (one more member).      *)
(***************************************************************************)
EXTENDS Sums, FiniteSetTheorems, SequenceTheorems, TLAPS, WellFoundedInduction

(***************************************************************************)
(* Induction over the naturals for a set: one that holds 0 and is closed   *)
(* under successor holds every natural number.  (A least number outside it *)
(* could be neither 0 nor a successor.)                                    *)
(***************************************************************************)
LEMMA NatSets ==
    ASSUME NEW S, 0 \in S, \A i \in Nat : i \in S => i + 1 \in S
    PROVE  Nat \subseteq S
<1> DEFINE Outside == Nat \ S
<1>1. SUFFICES ASSUME Outside # {} PROVE FALSE
    OBVIOUS
<1>2. PICK x \in Outside :
          \A y \in Outside : ~(<<y, x>> \in OpToRel(<, Nat))
    BY <1>1, WFMin, NatLessThanWellFounded
<1>3. x \in Nat /\ x # 0
    OBVIOUS
<1>4. x - 1 \in Nat /\ <<x - 1, x>> \in OpToRel(<, Nat)
    BY <1>3 DEF OpToRel
<1>5. x - 1 \in S
    BY <1>2, <1>4
<1>6. x \in S
    <2>1. (x - 1) + 1 = x
        BY <1>3
    <2>2. (x - 1) + 1 \in S
        BY <1>5, <1>4
    <2> QED
        BY <2>1, <2>2
<1> QED
    BY <1>6, <1>2

\* The recursion that defines the running totals has a solution.
LEMMA PartialSumsExist ==
    ASSUME NEW n \in Nat, NEW b \in [1..n -> Int]
    PROVE  \E s \in [0..n -> Int] :
               s = [i \in 0..n |-> IF i = 0 THEN 0 ELSE s[i - 1] + b[i]]
<1> DEFINE Solves(s, m) ==
               s = [i \in 0..m |-> IF i = 0 THEN 0 ELSE s[i - 1] + b[i]]
           S == {m \in Nat : m <= n => \E s \in [0..m -> Int] : Solves(s, m)}
<1>1. 0 \in S
    <2> DEFINE z == [i \in 0..0 |-> 0]
    <2>1. z \in [0..0 -> Int] /\ Solves(z, 0)
        OBVIOUS
    <2>2. \E s \in [0..0 -> Int] : Solves(s, 0)
        <3> HIDE DEF Solves, z
        <3> QED
            BY <2>1
    <2> QED
        BY <2>2
<1>2. ASSUME NEW m \in Nat, m \in S PROVE m + 1 \in S
    <2>1. SUFFICES ASSUME m + 1 <= n
                   PROVE  \E t \in [0..m + 1 -> Int] : Solves(t, m + 1)
        OBVIOUS
    <2>2. PICK s \in [0..m -> Int] : Solves(s, m)
        <3> HIDE DEF Solves
        <3> QED
            BY <1>2, <2>1
    <2> DEFINE t == [i \in 0..m + 1 |-> IF i <= m THEN s[i] ELSE s[m] + b[i]]
    <2>3. t \in [0..m + 1 -> Int]
        BY <2>1
    <2>4. ASSUME NEW i \in 0..m + 1
          PROVE  t[i] = IF i = 0 THEN 0 ELSE t[i - 1] + b[i]
        <3>1. CASE i <= m
            <4>1. i \in 0..m
                BY <3>1
            <4>2. s[i] = IF i = 0 THEN 0 ELSE s[i - 1] + b[i]
                BY <2>2, <4>1
            <4>3. t[i] = s[i] /\ (i # 0 => t[i - 1] = s[i - 1])
                BY <4>1
            <4> QED
                BY <4>2, <4>3
        <3>2. CASE i = m + 1
            <4>1. t[i] = s[m] + b[i] /\ t[i - 1] = s[m]
                BY <3>2
            <4> QED
                BY <4>1, <3>2
        <3> QED
            BY <3>1, <3>2
    <2>5. Solves(t, m + 1)
        BY <2>4
    <2> QED
        BY <2>3, <2>5
<1>3. n \in S
    <2> HIDE DEF S
    <2> QED
        BY <1>1, <1>2, NatSets
<1> QED
    BY <1>3

\* The running totals, one entry at a time.
LEMMA PartialSumsEntries ==
    ASSUME NEW n \in Nat, NEW b \in [1..n -> Int]
    PROVE  /\ PartialSums(b, n) \in [0..n -> Int]
           /\ PartialSums(b, n)[0] = 0
           /\ \A i \in 1..n :
                  PartialSums(b, n)[i] = PartialSums(b, n)[i - 1] + b[i]
<1> DEFINE Solves(s) ==
               s = [i \in 0..n |-> IF i = 0 THEN 0 ELSE s[i - 1] + b[i]]
           p == PartialSums(b, n)
<1>1. PICK s \in [0..n -> Int] : Solves(s)
    BY PartialSumsExist
<1>2. p = CHOOSE q : Solves(q)
    BY DEF PartialSums
<1>3. Solves(p)
    <2> HIDE DEF Solves, p
    <2> QED
        BY <1>1, <1>2
<1>4. ASSUME NEW i \in 0..n PROVE p[i] = IF i = 0 THEN 0 ELSE p[i - 1] + b[i]
    <2> HIDE DEF p
    <2> QED
        BY <1>3
<1>5. p[0] = 0 /\ \A i \in 1..n : p[i] = p[i - 1] + b[i]
    <2> HIDE DEF p
    <2> QED
        BY <1>4
<1>6. p \in [0..n -> Int]
    <2> HIDE DEF p
    <2> DEFINE S == {m \in Nat : m <= n => p[m] \in Int}
    <2>1. 0 \in S
        BY <1>5
    <2>2. ASSUME NEW m \in Nat, m \in S PROVE m + 1 \in S
        BY <1>5, <2>2
    <2>3. Nat \subseteq S
        <3> HIDE DEF S
        <3> QED
            BY <2>1, <2>2, NatSets
    <2>4. \A i \in 0..n : p[i] \in Int
        BY <2>3
    <2>5. p = [i \in 0..n |-> p[i]]
        BY <1>3
    <2> QED
        BY <2>4, <2>5
<1> QED
    BY <1>5, <1>6

\* The sum of integers is an integer.
LEMMA SumType ==
    ASSUME NEW n \in Nat, NEW b \in [1..n -> Int]
    PROVE  SumTo(b, n) \in Int
BY PartialSumsEntries DEF SumTo

\* A mapping that is zero everywhere sums to zero.
LEMMA SumOfZeros ==
    ASSUME NEW n \in Nat
    PROVE  SumTo([a \in 1..n |-> 0], n) = 0
<1> DEFINE b == [a \in 1..n |-> 0]
           p == PartialSums(b, n)
           S == {m \in Nat : m <= n => p[m] = 0}
<1>1. p[0] = 0 /\ \A i \in 1..n : p[i] = p[i - 1] + b[i]
    <2>1. b \in [1..n -> Int]
        OBVIOUS
    <2> HIDE DEF b
    <2> QED
        BY <2>1, PartialSumsEntries
<1>2. \A i \in 1..n : b[i] = 0
    OBVIOUS
<1>3. n \in S
    <2> HIDE DEF p, b
    <2>1. 0 \in S
        BY <1>1
    <2>2. ASSUME NEW m \in Nat, m \in S PROVE m + 1 \in S
        BY <1>1, <1>2, <2>2
    <2> HIDE DEF S
    <2> QED
        BY <2>1, <2>2, NatSets
<1> QED
    BY <1>3 DEF SumTo

\* Changing one entry changes the sum by as much.
LEMMA SumOneChange ==
    ASSUME NEW n \in Nat, NEW b \in [1..n -> Int], NEW k \in 1..n, NEW v \in Int
    PROVE  SumTo([b EXCEPT ![k] = v], n) = SumTo(b, n) - b[k] + v
<1> DEFINE c == [b EXCEPT ![k] = v]
           p == PartialSums(b, n)
           q == PartialSums(c, n)
           S == {m \in Nat : m <= n =>
                     q[m] = IF m < k THEN p[m] ELSE p[m] - b[k] + v}
<1>1. c \in [1..n -> Int]
    OBVIOUS
<1>2. c[k] = v /\ \A i \in 1..n : i # k => c[i] = b[i]
    OBVIOUS
<1>3. /\ p \in [0..n -> Int]
      /\ p[0] = 0
      /\ \A i \in 1..n : p[i] = p[i - 1] + b[i]
    BY PartialSumsEntries
<1>4. /\ q \in [0..n -> Int]
      /\ q[0] = 0
      /\ \A i \in 1..n : q[i] = q[i - 1] + c[i]
    <2> HIDE DEF c
    <2> QED
        BY <1>1, PartialSumsEntries
<1>5. n \in S
    <2> HIDE DEF p, q, c
    <2>1. 0 \in S
        BY <1>3, <1>4
    <2>2. ASSUME NEW m \in Nat, m \in S PROVE m + 1 \in S
        <3>1. SUFFICES ASSUME m + 1 <= n
                       PROVE  q[m + 1] = IF m + 1 < k THEN p[m + 1]
                                         ELSE p[m + 1] - b[k] + v
            OBVIOUS
        <3>2. q[m] = IF m < k THEN p[m] ELSE p[m] - b[k] + v
            BY <2>2, <3>1
        <3>3. q[m + 1] = q[m] + c[m + 1] /\ p[m + 1] = p[m] + b[m + 1]
            BY <1>3, <1>4, <3>1
        <3>4. /\ p[m] \in Int
              /\ q[m] \in Int
              /\ b[m + 1] \in Int
              /\ c[m + 1] \in Int
              /\ b[k] \in Int
            <4>1. m \in 0..n /\ m + 1 \in 1..n
                BY <3>1
            <4>2. p[m] \in Int /\ q[m] \in Int
                BY <1>3, <1>4, <4>1
            <4>3. b[m + 1] \in Int /\ b[k] \in Int
                BY <4>1
            <4>4. c[m + 1] \in Int
                BY <1>1, <4>1
            <4> QED
                BY <4>2, <4>3, <4>4
        <3>5. CASE m + 1 < k
            BY <3>2, <3>3, <3>4, <3>5, <1>2, <3>1
        <3>6. CASE m + 1 = k
            <4>1. c[m + 1] = v /\ b[m + 1] = b[k]
                BY <1>2, <3>6
            <4>2. q[m] = p[m]
                BY <3>2, <3>6
            <4>3. q[m + 1] = p[m] + v /\ p[m + 1] = p[m] + b[k]
                BY <3>3, <4>1, <4>2
            <4>4. q[m + 1] = p[m + 1] - b[k] + v
                BY <4>3, <3>4
            <4> QED
                BY <4>4, <3>6
        <3>7. CASE m + 1 > k
            BY <3>2, <3>3, <3>4, <3>7, <1>2, <3>1
        <3> QED
            BY <3>5, <3>6, <3>7
    <2> HIDE DEF S
    <2> QED
        BY <2>1, <2>2, NatSets
<1>6. q[n] = p[n] - b[k] + v
    BY <1>5
<1> QED
    BY <1>6 DEF SumTo

\* A sum of naturals is a natural, and no entry exceeds it.
LEMMA SumOfNaturals ==
    ASSUME NEW n \in Nat, NEW b \in [1..n -> Nat]
    PROVE  /\ SumTo(b, n) \in Nat
           /\ \A k \in 1..n : b[k] <= SumTo(b, n)
<1> DEFINE p == PartialSums(b, n)
           S == {m \in Nat : m <= n =>
                     p[m] >= 0 /\ \A k \in 1..m : b[k] <= p[m]}
<1>1. b \in [1..n -> Int]
    OBVIOUS
<1>2. /\ p \in [0..n -> Int]
      /\ p[0] = 0
      /\ \A i \in 1..n : p[i] = p[i - 1] + b[i]
    BY <1>1, PartialSumsEntries
<1>3. n \in S
    <2> HIDE DEF p
    <2>1. 0 \in S
        BY <1>2
    <2>2. ASSUME NEW m \in Nat, m \in S PROVE m + 1 \in S
        <3>1. SUFFICES ASSUME m + 1 <= n
                       PROVE  /\ p[m + 1] >= 0
                              /\ \A k \in 1..m + 1 : b[k] <= p[m + 1]
            OBVIOUS
        <3>2. p[m + 1] = p[m] + b[m + 1] /\ p[m] \in Int /\ b[m + 1] \in Nat
            BY <1>2, <3>1
        <3>3. p[m] >= 0 /\ \A k \in 1..m : b[k] <= p[m]
            BY <2>2, <3>1
        <3>4. ASSUME NEW k \in 1..m + 1 PROVE b[k] <= p[m + 1]
            <4>1. b[k] \in Nat
                BY <3>1
            <4>2. CASE k = m + 1
                BY <4>2, <3>2, <3>3
            <4>3. CASE k \in 1..m
                BY <4>3, <4>1, <3>2, <3>3
            <4> QED
                BY <4>2, <4>3
        <3> QED
            BY <3>2, <3>3, <3>4
    <2> HIDE DEF S
    <2> QED
        BY <2>1, <2>2, NatSets
<1> QED
    BY <1>2, <1>3 DEF SumTo

\* Entry by entry no more, all in all no more.
LEMMA SumOfLess ==
    ASSUME NEW n \in Nat, NEW b \in [1..n -> Int], NEW c \in [1..n -> Int],
           \A i \in 1..n : b[i] <= c[i]
    PROVE  SumTo(b, n) <= SumTo(c, n)
<1> DEFINE p == PartialSums(b, n)
           q == PartialSums(c, n)
           S == {m \in Nat : m <= n => p[m] <= q[m]}
<1>1. /\ p \in [0..n -> Int] /\ p[0] = 0 /\ \A i \in 1..n : p[i] = p[i - 1] + b[i]
      /\ q \in [0..n -> Int] /\ q[0] = 0 /\ \A i \in 1..n : q[i] = q[i - 1] + c[i]
    BY PartialSumsEntries
<1>2. n \in S
    <2> HIDE DEF p, q
    <2>1. 0 \in S
        BY <1>1
    <2>2. ASSUME NEW m \in Nat, m \in S PROVE m + 1 \in S
        <3>1. SUFFICES ASSUME m + 1 <= n PROVE p[m + 1] <= q[m + 1]
            OBVIOUS
        <3>2. m \in 0..n /\ m + 1 \in 1..n /\ (m + 1) - 1 = m
            BY <3>1
        <3>3. /\ p[m + 1] = p[m] + b[m + 1] /\ q[m + 1] = q[m] + c[m + 1]
              /\ p[m] \in Int /\ q[m] \in Int /\ b[m + 1] \in Int /\ c[m + 1] \in Int
            BY <1>1, <3>2
        <3>4. p[m] <= q[m] /\ b[m + 1] <= c[m + 1]
            BY <2>2, <3>1, <3>2
        <3> QED
            BY <3>3, <3>4
    <2> HIDE DEF S
    <2> QED
        BY <2>1, <2>2, NatSets
<1> QED
    BY <1>2 DEF SumTo

\* d taken from one entry of b and then added to another, or to the same one.
Shifted(b, from, to, d) ==
    LET c == [b EXCEPT ![from] = b[from] - d]
    IN  [c EXCEPT ![to] = c[to] + d]

\* Moving part of one entry to another, or to the same one, keeps every entry a
\* natural number and the sum what it was.
LEMMA MovingKeepsSum ==
    ASSUME NEW n \in Nat, NEW b \in [1..n -> Nat], NEW from \in 1..n, NEW to \in 1..n,
           NEW d \in Nat, d <= b[from]
    PROVE  /\ Shifted(b, from, to, d) \in [1..n -> Nat]
           /\ SumTo(Shifted(b, from, to, d), n) = SumTo(b, n)
<1> DEFINE c == [b EXCEPT ![from] = b[from] - d]
           m == [c EXCEPT ![to] = c[to] + d]
<1>1. c \in [1..n -> Nat] /\ c[from] = b[from] - d
    OBVIOUS
<1>2. m \in [1..n -> Nat]
    <2> HIDE DEF c
    <2> QED
        BY <1>1
<1>3. SumTo(c, n) = SumTo(b, n) - b[from] + (b[from] - d)
    <2>1. b \in [1..n -> Int] /\ b[from] - d \in Int
        OBVIOUS
    <2> QED
        BY <2>1, SumOneChange
<1>4. SumTo(m, n) = SumTo(c, n) - c[to] + (c[to] + d)
    <2>1. c \in [1..n -> Int] /\ c[to] + d \in Int
        <3> HIDE DEF c
        <3> QED
            BY <1>1
    <2> HIDE DEF c
    <2> QED
        BY <2>1, SumOneChange
<1>5. SumTo(b, n) \in Int /\ SumTo(c, n) \in Int
    <2>1. b \in [1..n -> Int] /\ c \in [1..n -> Int]
        BY <1>1
    <2> HIDE DEF c
    <2> QED
        BY <2>1, SumType
<1>6. SumTo(m, n) = SumTo(b, n)
    <2>1. b[from] \in Nat /\ c[to] \in Nat
        <3> HIDE DEF c
        <3> QED
            BY <1>1
    <2> HIDE DEF c, m
    <2> QED
        BY <1>3, <1>4, <1>5, <2>1
<1> QED
    BY <1>2, <1>6 DEF Shifted

\* Taking one entry out of a sequence of numbers takes it out of the sum.
LEMMA SumWithout ==
    ASSUME NEW n \in Nat, NEW b \in [1..n -> Int], NEW k \in 1..n, NEW c \in [1..n - 1 -> Int],
           \A i \in 1..k - 1 : c[i] = b[i],
           \A i \in k..n - 1 : c[i] = b[i + 1]
    PROVE  SumTo(c, n - 1) = SumTo(b, n) - b[k]
<1> DEFINE p == PartialSums(b, n)
           q == PartialSums(c, n - 1)
           S == {m \in Nat : m <= n - 1 =>
                     q[m] = IF m < k THEN p[m] ELSE p[m + 1] - b[k]}
<1>1. n - 1 \in Nat
    OBVIOUS
<1>2. /\ p \in [0..n -> Int]
      /\ p[0] = 0
      /\ \A i \in 1..n : p[i] = p[i - 1] + b[i]
    BY PartialSumsEntries
<1>3. /\ q \in [0..n - 1 -> Int]
      /\ q[0] = 0
      /\ \A i \in 1..n - 1 : q[i] = q[i - 1] + c[i]
    BY <1>1, PartialSumsEntries
<1>4. n - 1 \in S
    <2> HIDE DEF p, q
    <2>1. 0 \in S
        BY <1>2, <1>3
    <2>2. ASSUME NEW m \in Nat, m \in S PROVE m + 1 \in S
        <3>1. SUFFICES ASSUME m + 1 <= n - 1
                       PROVE  q[m + 1] = IF m + 1 < k THEN p[m + 1] ELSE p[m + 2] - b[k]
            OBVIOUS
        <3>2. q[m] = IF m < k THEN p[m] ELSE p[m + 1] - b[k]
            BY <2>2, <3>1
        <3>3. q[m + 1] = q[m] + c[m + 1]
            <4>1. m + 1 \in 1..n - 1 /\ (m + 1) - 1 = m
                BY <3>1
            <4> QED
                BY <1>3, <4>1
        <3>4. p[m + 1] = p[m] + b[m + 1] /\ p[m + 2] = p[m + 1] + b[m + 2]
            <4>1. m + 1 \in 1..n /\ m + 2 \in 1..n /\ (m + 1) - 1 = m /\ (m + 2) - 1 = m + 1
                BY <3>1
            <4> QED
                BY <1>2, <4>1
        <3>5. p[m] \in Int /\ b[m + 1] \in Int /\ b[m + 2] \in Int /\ b[k] \in Int
            <4>1. m \in 0..n /\ m + 1 \in 1..n /\ m + 2 \in 1..n
                BY <3>1
            <4> QED
                BY <1>2, <4>1
        <3>6. CASE m + 1 < k
            <4>1. c[m + 1] = b[m + 1]
                BY <3>6
            <4> QED
                BY <3>2, <3>3, <3>4, <3>5, <3>6, <4>1
        <3>7. CASE m + 1 >= k
            <4>1. c[m + 1] = b[(m + 1) + 1]
                BY <3>7, <3>1
            <4>2. c[m + 1] = b[m + 2]
                BY <4>1
            <4>3. CASE m < k
                <5>1. m + 1 = k
                    BY <3>7, <4>3
                <5>2. b[m + 1] = b[k]
                    BY <5>1
                <5>3. q[m + 1] = p[m] + b[m + 2]
                    BY <3>2, <3>3, <4>2, <4>3
                <5>4. p[m + 2] = p[m] + b[k] + b[m + 2]
                    BY <3>4, <5>2
                <5>5. q[m + 1] = p[m + 2] - b[k]
                    BY <5>3, <5>4, <3>5
                <5> QED
                    BY <5>5, <3>7
            <4>4. CASE m >= k
                <5>1. q[m] = p[m + 1] - b[k]
                    BY <3>2, <4>4
                <5>2. q[m + 1] = q[m] + b[m + 2] /\ p[m + 2] = p[m + 1] + b[m + 2]
                    BY <3>3, <3>4, <4>2
                <5>3. p[m + 1] \in Int
                    BY <3>4, <3>5
                <5>4. q[m + 1] = p[m + 2] - b[k]
                    BY <5>1, <5>2, <5>3, <3>5
                <5> QED
                    BY <5>4, <3>7
            <4> QED
                BY <4>3, <4>4
        <3> QED
            BY <3>6, <3>7
    <2> HIDE DEF S
    <2> QED
        BY <2>1, <2>2, <1>1, NatSets
<1>5. q[n - 1] = IF n - 1 < k THEN p[n - 1] ELSE p[(n - 1) + 1] - b[k]
    BY <1>4
<1>6. p[n] = p[n - 1] + b[n] /\ p[n - 1] \in Int /\ b[n] \in Int /\ n \in 1..n
    BY <1>2
<1>7. q[n - 1] = p[n] - b[k]
    <2>1. CASE k = n
        BY <2>1, <1>5, <1>6
    <2>2. CASE k < n
        <3>1. (n - 1) + 1 = n
            OBVIOUS
        <3> QED
            BY <2>2, <1>5, <3>1
    <2> QED
        BY <2>1, <2>2
<1> QED
    BY <1>7 DEF SumTo

-----------------------------------------------------------------------------
(* Sums over a finite set, as the folds of the community modules compute them *)

\* Function h adds up w over every subset of S.
AddsUp(h, w, S) ==
    h = [s \in SUBSET S |->
            IF s = {} THEN 0
            ELSE LET x == CHOOSE c \in s : TRUE IN w[x] + h[s \ {x}]]

SumOver(w, S) == LET h == CHOOSE h : AddsUp(h, w, S) IN h[S]

\* w gives every member of a finite set an integer.
Weighs(w, S) == IsFiniteSet(S) /\ \A x \in S : w[x] \in Int

LEMMA WeighsParts ==
    ASSUME NEW w, NEW S, Weighs(w, S), NEW T \in SUBSET S
    PROVE  Weighs(w, T) /\ Cardinality(T) \in Nat
BY FS_Subset, FS_CardinalityType DEF Weighs

\* A set without one of its members is smaller by one.
LEMMA OneLess ==
    ASSUME NEW S, IsFiniteSet(S), NEW x \in S
    PROVE  /\ IsFiniteSet(S \ {x}) /\ Cardinality(S) \in Nat /\ Cardinality(S) # 0
           /\ Cardinality(S \ {x}) = Cardinality(S) - 1
BY FS_RemoveElement, FS_CardinalityType, FS_EmptySet

\* The member that is added first.
First(s) == CHOOSE c \in s : TRUE

LEMMA FirstIn ==
    ASSUME NEW s, s # {}
    PROVE  First(s) \in s
BY DEF First

LEMMA AddsNone ==
    ASSUME NEW h, NEW w, NEW S, AddsUp(h, w, S)
    PROVE  h[{}] = 0
BY DEF AddsUp

LEMMA AddsFirst ==
    ASSUME NEW h, NEW w, NEW S, AddsUp(h, w, S), NEW s \in SUBSET S, s # {}
    PROVE  h[s] = w[First(s)] + h[s \ {First(s)}]
BY DEF AddsUp, First

\* Two such functions agree on a set that both add up, if the weights do.
LEMMA AddsAgree ==
    ASSUME NEW S, NEW T, NEW w, NEW v, NEW h, NEW k, AddsUp(h, w, S), AddsUp(k, v, T),
           NEW s \in SUBSET S, s \in SUBSET T, IsFiniteSet(s), \A x \in s : w[x] = v[x]
    PROVE  h[s] = k[s]
<1> DEFINE N == {n \in Nat : \A r \in SUBSET s : Cardinality(r) = n => h[r] = k[r]}
<1>1. ASSUME NEW r \in SUBSET s
      PROVE  /\ r \in SUBSET S /\ r \in SUBSET T
             /\ IsFiniteSet(r) /\ Cardinality(r) \in Nat
    BY <1>1, FS_Subset, FS_CardinalityType
<1>2. 0 \in N
    <2>1. ASSUME NEW r \in SUBSET s, Cardinality(r) = 0 PROVE h[r] = k[r]
        <3>1. r = {}
            BY <1>1, <2>1, FS_EmptySet
        <3>2. h[r] = 0 /\ k[r] = 0
            BY <3>1, AddsNone
        <3> QED
            BY <3>2
    <2> QED
        BY <2>1
<1>3. ASSUME NEW n \in Nat, n \in N PROVE n + 1 \in N
    <2>1. ASSUME NEW r \in SUBSET s, Cardinality(r) = n + 1 PROVE h[r] = k[r]
        <3> DEFINE x == First(r)
        <3>1. r # {} /\ x \in r
            <4>1. r # {}
                BY <2>1, FS_EmptySet
            <4> QED
                BY <4>1, FirstIn
        <3>2. h[r] = w[x] + h[r \ {x}]
            <4>1. r \in SUBSET S /\ r # {}
                BY <1>1, <3>1
            <4> QED
                BY ONLY <4>1, AddsUp(h, w, S), AddsFirst
        <3>3. k[r] = v[x] + k[r \ {x}]
            <4>1. r \in SUBSET T /\ r # {}
                BY <1>1, <3>1
            <4> QED
                BY ONLY <4>1, AddsUp(k, v, T), AddsFirst
        <3> HIDE DEF x
        <3>4. Cardinality(r \ {x}) = n /\ r \ {x} \in SUBSET s
            BY <1>1, <2>1, <3>1, OneLess
        <3>5. h[r \ {x}] = k[r \ {x}]
            BY <1>3, <3>4
        <3>6. w[x] = v[x]
            BY <3>1
        <3> QED
            BY <3>2, <3>3, <3>5, <3>6
    <2> QED
        BY <2>1
<1> HIDE DEF N
<1>4. Cardinality(s) \in N
    BY <1>1, <1>2, <1>3, NatSets
<1> QED
    BY <1>4 DEF N

\* There is one for every finite set.
LEMMA AddsExists ==
    ASSUME NEW w, NEW S, IsFiniteSet(S)
    PROVE  \E h : AddsUp(h, w, S)
<1> DEFINE N == {n \in Nat : \A T : IsFiniteSet(T) /\ Cardinality(T) <= n => \E h : AddsUp(h, w, T)}
           Sum1(T) == CHOOSE h : AddsUp(h, w, T)
<1>1. 0 \in N
    <2>1. ASSUME NEW T, IsFiniteSet(T), Cardinality(T) <= 0 PROVE \E h : AddsUp(h, w, T)
        <3>1. T = {}
            <4>1. Cardinality(T) \in Nat
                BY <2>1, FS_CardinalityType
            <4>2. Cardinality(T) = 0
                BY <2>1, <4>1
            <4> QED
                BY <2>1, <4>2, FS_EmptySet
        <3> DEFINE h == [s \in SUBSET T |-> 0]
        <3>2. \A s \in SUBSET T : s = {}
            BY <3>1
        <3>3. h = [s \in SUBSET T |->
                      IF s = {} THEN 0
                      ELSE LET x == CHOOSE c \in s : TRUE IN w[x] + h[s \ {x}]]
            BY <3>2
        <3> HIDE DEF h
        <3>4. AddsUp(h, w, T)
            BY <3>3 DEF AddsUp
        <3> QED
            BY <3>4
    <2> QED
        BY <2>1
<1>2. ASSUME NEW n \in Nat, n \in N PROVE n + 1 \in N
    <2>1. ASSUME NEW T, IsFiniteSet(T), Cardinality(T) <= n + 1 PROVE \E h : AddsUp(h, w, T)
        <3>1. ASSUME NEW s \in SUBSET T, s # T
              PROVE  IsFiniteSet(s) /\ AddsUp(Sum1(s), w, s)
            <4>1. IsFiniteSet(s) /\ Cardinality(s) <= n
                <5>1. PICK y \in T : y \notin s
                    BY <3>1
                <5>2. IsFiniteSet(T \ {y}) /\ Cardinality(T \ {y}) <= n
                    <6>1. /\ IsFiniteSet(T \ {y}) /\ Cardinality(T) \in Nat
                          /\ Cardinality(T \ {y}) = Cardinality(T) - 1
                        BY <2>1, OneLess
                    <6> QED
                        BY <2>1, <6>1
                <5>3. s \in SUBSET (T \ {y})
                    BY <5>1
                <5>4. IsFiniteSet(s) /\ Cardinality(s) <= Cardinality(T \ {y})
                    BY <5>2, <5>3, FS_Subset
                <5>5. Cardinality(s) \in Nat /\ Cardinality(T \ {y}) \in Nat
                    BY <5>2, <5>4, FS_CardinalityType
                <5> QED
                    BY <5>2, <5>4, <5>5
            <4>2. \E h : AddsUp(h, w, s)
                BY <1>2, <4>1
            <4> QED
                BY <4>1, <4>2
        <3> DEFINE x(s) == First(s)
                   below(s) == s \ {x(s)}
                   h == [s \in SUBSET T |->
                            IF s = {} THEN 0 ELSE w[x(s)] + Sum1(below(s))[below(s)]]
        <3>2. ASSUME NEW s \in SUBSET T, s # {}
              PROVE  x(s) \in s /\ below(s) \in SUBSET T /\ below(s) # T
            BY <3>2, FirstIn
        <3>3. ASSUME NEW s \in SUBSET T, s # T PROVE h[s] = Sum1(s)[s]
            <4>1. AddsUp(Sum1(s), w, s) /\ IsFiniteSet(s)
                BY <3>1, <3>3
            <4>2. CASE s = {}
                <5>1. Sum1(s)[s] = 0
                    <6> HIDE DEF Sum1
                    <6> QED
                        BY <4>1, <4>2, AddsNone
                <5> QED
                    BY <4>2, <5>1
            <4>3. CASE s # {}
                <5>1. x(s) \in s /\ below(s) \in SUBSET T /\ below(s) # T
                    BY <3>2, <4>3
                <5>2. AddsUp(Sum1(below(s)), w, below(s)) /\ IsFiniteSet(below(s))
                    BY <3>1, <5>1
                <5>3. Sum1(s)[s] = w[x(s)] + Sum1(s)[below(s)]
                    <6>1. s \in SUBSET s
                        OBVIOUS
                    <6> HIDE DEF Sum1
                    <6> QED
                        BY <4>1, <4>3, <6>1, AddsFirst
                <5>4. Sum1(s)[below(s)] = Sum1(below(s))[below(s)]
                    <6> HIDE DEF x, Sum1
                    <6>1. below(s) \in SUBSET s /\ below(s) \in SUBSET (below(s))
                        OBVIOUS
                    <6> HIDE DEF below
                    <6> QED
                        BY <4>1, <5>2, <6>1, AddsAgree
                <5>5. h[s] = w[x(s)] + Sum1(below(s))[below(s)]
                    BY <4>3
                <5> HIDE DEF h, x, below, Sum1
                <5> QED
                    BY <5>3, <5>4, <5>5
            <4> QED
                BY <4>2, <4>3
        <3>4. ASSUME NEW s \in SUBSET T, s # {} PROVE h[s] = w[x(s)] + h[below(s)]
            <4>1. below(s) \in SUBSET T /\ below(s) # T
                BY <3>2, <3>4
            <4>2. h[below(s)] = Sum1(below(s))[below(s)]
                <5> HIDE DEF h, below, Sum1
                <5> QED
                    BY <3>3, <4>1
            <4>3. h[s] = w[x(s)] + Sum1(below(s))[below(s)]
                BY <3>4
            <4> HIDE DEF h, below, Sum1, x
            <4> QED
                BY <4>2, <4>3
        <3>5. h[{}] = 0 /\ h = [s \in SUBSET T |-> h[s]]
            OBVIOUS
        <3> HIDE DEF h
        <3>6. h = [s \in SUBSET T |-> IF s = {} THEN 0 ELSE w[x(s)] + h[below(s)]]
            <4> HIDE DEF x, below
            <4>1. \A s \in SUBSET T : h[s] = IF s = {} THEN 0 ELSE w[x(s)] + h[below(s)]
                BY <3>4, <3>5
            <4> QED
                BY <3>5, <4>1
        <3>7. AddsUp(h, w, T)
            BY <3>6 DEF AddsUp, First
        <3> QED
            BY <3>7
    <2> QED
        BY <2>1
<1> HIDE DEF N
<1>3. Cardinality(S) \in Nat /\ Cardinality(S) \in N
    BY <1>1, <1>2, NatSets, FS_CardinalityType
<1>4. Cardinality(S) <= Cardinality(S)
    BY <1>3
<1> QED
    BY <1>3, <1>4 DEF N

LEMMA SumOfNone ==
    ASSUME NEW w
    PROVE  SumOver(w, {}) = 0
<1>1. IsFiniteSet({})
    BY FS_EmptySet
<1> DEFINE h == CHOOSE h : AddsUp(h, w, {})
<1>2. AddsUp(h, w, {}) /\ SumOver(w, {}) = h[{}]
    BY <1>1, AddsExists DEF SumOver
<1> HIDE DEF h
<1> QED
    BY <1>2, AddsNone

\* A sum depends on the weights of its members alone.
LEMMA SumsAgree ==
    ASSUME NEW S, IsFiniteSet(S), NEW w, NEW v, \A x \in S : w[x] = v[x]
    PROVE  SumOver(w, S) = SumOver(v, S)
<1> DEFINE h == CHOOSE h : AddsUp(h, w, S)
           k == CHOOSE k : AddsUp(k, v, S)
<1>1. /\ AddsUp(h, w, S) /\ SumOver(w, S) = h[S]
      /\ AddsUp(k, v, S) /\ SumOver(v, S) = k[S]
    BY AddsExists DEF SumOver
<1> HIDE DEF h, k
<1>2. S \in SUBSET S
    OBVIOUS
<1>3. h[S] = k[S]
    BY <1>1, <1>2, AddsAgree
<1> QED
    BY <1>1, <1>3

LEMMA SumOfFirst ==
    ASSUME NEW w, NEW S, IsFiniteSet(S), S # {}
    PROVE  SumOver(w, S) = w[First(S)] + SumOver(w, S \ {First(S)})
<1> DEFINE T == S \ {First(S)}
           h == CHOOSE h : AddsUp(h, w, S)
           k == CHOOSE k : AddsUp(k, w, T)
<1>1. IsFiniteSet(S) /\ IsFiniteSet(T)
    BY FS_Subset
<1>2. T \in SUBSET S /\ T \in SUBSET T /\ S \in SUBSET S
    OBVIOUS
<1> HIDE DEF T
<1>3. AddsUp(h, w, S) /\ SumOver(w, S) = h[S]
    BY <1>1, AddsExists DEF SumOver
<1>4. AddsUp(k, w, T) /\ SumOver(w, T) = k[T]
    BY <1>1, AddsExists DEF SumOver
<1> HIDE DEF h, k
<1>5. h[T] = k[T]
    BY <1>1, <1>2, <1>3, <1>4, AddsAgree
<1>6. h[S] = w[First(S)] + h[T]
    BY <1>2, <1>3, AddsFirst DEF T
<1> QED
    BY <1>3, <1>4, <1>5, <1>6 DEF T

LEMMA SumOverInt ==
    ASSUME NEW w, NEW S, Weighs(w, S)
    PROVE  SumOver(w, S) \in Int
<1> DEFINE N == {n \in Nat : \A T : Weighs(w, T) /\ Cardinality(T) = n => SumOver(w, T) \in Int}
<1>1. 0 \in N
    <2>1. ASSUME NEW T, Weighs(w, T), Cardinality(T) = 0 PROVE SumOver(w, T) \in Int
        <3>1. T = {}
            BY <2>1, FS_EmptySet DEF Weighs
        <3> QED
            BY <3>1, SumOfNone
    <2> QED
        BY <2>1
<1>2. ASSUME NEW n \in Nat, n \in N PROVE n + 1 \in N
    <2>1. ASSUME NEW T, Weighs(w, T), Cardinality(T) = n + 1 PROVE SumOver(w, T) \in Int
        <3> DEFINE x == First(T)
        <3>1. T # {} /\ x \in T
            <4>1. T # {}
                BY <2>1, FS_EmptySet
            <4> QED
                BY <4>1, FirstIn
        <3>2. SumOver(w, T) = w[x] + SumOver(w, T \ {x})
            BY <2>1, <3>1, SumOfFirst DEF Weighs
        <3> HIDE DEF x
        <3>3. Weighs(w, T \ {x})
            <4>1. T \ {x} \in SUBSET T
                OBVIOUS
            <4> QED
                BY <2>1, <4>1, WeighsParts
        <3>4. Cardinality(T \ {x}) = n
            BY <2>1, <3>1, OneLess DEF Weighs
        <3>5. SumOver(w, T \ {x}) \in Int /\ w[x] \in Int
            BY <1>2, <2>1, <3>1, <3>3, <3>4 DEF Weighs
        <3> QED
            BY <3>2, <3>5
    <2> QED
        BY <2>1
<1> HIDE DEF N
<1>3. Cardinality(S) \in N
    BY <1>1, <1>2, NatSets, FS_CardinalityType DEF Weighs
<1> QED
    BY <1>3 DEF N

\* The sum over S is the weight of y and the sum over the others.
TakenOut(w, S, y) == SumOver(w, S) = w[y] + SumOver(w, S \ {y})

(* A sum over a set is that over all of its members but one, and that one's. *)
LEMMA SumTakesOut ==
    ASSUME NEW w, NEW S, Weighs(w, S)
    PROVE  \A y \in S : TakenOut(w, S, y)
<1> DEFINE Fine(T) == \A y \in T : TakenOut(w, T, y)
           N == {n \in Nat : \A T : Weighs(w, T) /\ Cardinality(T) = n => Fine(T)}
<1>1. 0 \in N
    <2>1. ASSUME NEW T, Weighs(w, T), Cardinality(T) = 0 PROVE Fine(T)
        <3>1. T = {}
            BY <2>1, FS_EmptySet DEF Weighs
        <3> QED
            BY <3>1
    <2> HIDE DEF Fine
    <2> QED
        BY <2>1
<1>2. ASSUME NEW n \in Nat, n \in N PROVE n + 1 \in N
    <2>1. ASSUME NEW T, Weighs(w, T), Cardinality(T) = n + 1 PROVE Fine(T)
        <3> DEFINE x == First(T)
        <3>1. T # {} /\ x \in T
            <4>1. T # {}
                BY <2>1, FS_EmptySet
            <4> QED
                BY <4>1, FirstIn
        <3>2. SumOver(w, T) = w[x] + SumOver(w, T \ {x})
            BY <2>1, <3>1, SumOfFirst DEF Weighs
        <3> HIDE DEF x
        <3>3. ASSUME NEW y \in T PROVE Fine(T \ {y}) /\ w[y] \in Int
            <4>1. Weighs(w, T \ {y})
                <5>1. T \ {y} \in SUBSET T
                    OBVIOUS
                <5> QED
                    BY <2>1, <5>1, WeighsParts
            <4>2. Cardinality(T \ {y}) = n
                BY <2>1, OneLess DEF Weighs
            <4> HIDE DEF Fine
            <4> QED
                BY <1>2, <2>1, <4>1, <4>2 DEF Weighs
        <3>4. SumOver(w, T) \in Int
            BY <2>1, SumOverInt
        <3>5. ASSUME NEW y \in T PROVE TakenOut(w, T, y)
            <4>1. CASE y = x
                BY <3>2, <3>4, <4>1 DEF TakenOut
            <4>2. CASE y # x
                <5>1. x \in T \ {y} /\ y \in T \ {x}
                    BY <3>1, <4>2
                <5>2. (T \ {y}) \ {x} = (T \ {x}) \ {y}
                    OBVIOUS
                <5> DEFINE rest == (T \ {x}) \ {y}
                <5>3. SumOver(w, T \ {y}) = w[x] + SumOver(w, rest)
                    BY <3>3, <5>1, <5>2 DEF TakenOut
                <5>4. SumOver(w, T \ {x}) = w[y] + SumOver(w, rest)
                    BY <3>1, <3>3, <5>1 DEF TakenOut
                <5>5. w[x] \in Int /\ w[y] \in Int
                    BY <3>1, <3>3
                <5>6. SumOver(w, rest) \in Int
                    <6>1. rest \in SUBSET T
                        OBVIOUS
                    <6> HIDE DEF rest
                    <6> QED
                        BY <2>1, <6>1, WeighsParts, SumOverInt
                <5> HIDE DEF rest
                <5> QED
                    BY <3>2, <3>4, <5>3, <5>4, <5>5, <5>6 DEF TakenOut
            <4> QED
                BY <4>1, <4>2
        <3> QED
            BY <3>5
    <2> HIDE DEF Fine
    <2> QED
        BY <2>1
<1> HIDE DEF N
<1>3. Cardinality(S) \in N
    BY <1>1, <1>2, NatSets, FS_CardinalityType DEF Weighs
<1> HIDE DEF Fine
<1>4. Fine(S)
    BY <1>3 DEF N
<1> QED
    BY <1>4 DEF Fine

LEMMA SumGrows ==
    ASSUME NEW w, NEW S, NEW y, Weighs(w, S), y \notin S, w[y] \in Int
    PROVE  Weighs(w, S \union {y}) /\ SumOver(w, S \union {y}) = w[y] + SumOver(w, S)
<1>1. Weighs(w, S \union {y})
    BY FS_AddElement DEF Weighs
<1>2. y \in S \union {y} /\ (S \union {y}) \ {y} = S
    OBVIOUS
<1>3. TakenOut(w, S \union {y}, y)
    BY <1>1, <1>2, SumTakesOut
<1> QED
    BY <1>1, <1>2, <1>3 DEF TakenOut

\* The sum over two sets that share nothing.
LEMMA SumsJoin ==
    ASSUME NEW w, NEW A, NEW B, Weighs(w, A \union B), A \cap B = {}
    PROVE  SumOver(w, A \union B) = SumOver(w, A) + SumOver(w, B)
<1> DEFINE Fine(T) == SumOver(w, A \union T) = SumOver(w, A) + SumOver(w, T)
           N == {n \in Nat : \A T \in SUBSET B : Cardinality(T) = n => Fine(T)}
<1>1. ASSUME NEW T \in SUBSET B
      PROVE  /\ Weighs(w, T) /\ Weighs(w, A \union T) /\ Weighs(w, A)
             /\ Cardinality(T) \in Nat /\ IsFiniteSet(T)
    <2>1. T \in SUBSET (A \union B) /\ A \union T \in SUBSET (A \union B) /\ A \in SUBSET (A \union B)
        OBVIOUS
    <2>2. Weighs(w, T) /\ Weighs(w, A \union T) /\ Weighs(w, A) /\ Cardinality(T) \in Nat
        BY <2>1, WeighsParts
    <2> QED
        BY <2>2 DEF Weighs
<1>2. 0 \in N
    <2>1. ASSUME NEW T \in SUBSET B, Cardinality(T) = 0 PROVE Fine(T)
        <3>1. T = {} /\ A \union T = A
            BY <1>1, <2>1, FS_EmptySet
        <3>2. SumOver(w, T) = 0 /\ SumOver(w, A) \in Int
            BY <1>1, <3>1, SumOfNone, SumOverInt
        <3> QED
            BY <3>1, <3>2
    <2> HIDE DEF Fine
    <2> QED
        BY <2>1
<1>3. ASSUME NEW n \in Nat, n \in N PROVE n + 1 \in N
    <2>1. ASSUME NEW T \in SUBSET B, Cardinality(T) = n + 1 PROVE Fine(T)
        <3>1. IsFiniteSet(T) /\ Weighs(w, T) /\ Weighs(w, A \union T) /\ T # {}
            BY <1>1, <2>1, FS_EmptySet
        <3> PICK y \in T : TRUE
            BY <3>1
        <3> DEFINE rest == T \ {y}
        <3>2. rest \in SUBSET B /\ Cardinality(rest) = n
            <4>1. Cardinality(rest) = Cardinality(T) - 1
                BY <3>1, OneLess
            <4> QED
                BY <2>1, <4>1
        <3>3. Fine(rest)
            <4> HIDE DEF Fine, rest
            <4> QED
                BY <1>3, <3>2
        <3>4. y \in A \union T /\ (A \union T) \ {y} = A \union rest
            OBVIOUS
        <3>5. SumOver(w, T) = w[y] + SumOver(w, rest)
            <4>1. TakenOut(w, T, y)
                BY <3>1, SumTakesOut
            <4> QED
                BY <4>1 DEF TakenOut
        <3>6. SumOver(w, A \union T) = w[y] + SumOver(w, A \union rest)
            <4>1. TakenOut(w, A \union T, y)
                BY <3>1, <3>4, SumTakesOut
            <4> QED
                BY <3>4, <4>1 DEF TakenOut
        <3>7. /\ w[y] \in Int /\ SumOver(w, A) \in Int
              /\ SumOver(w, rest) \in Int
            <4>1. w[y] \in Int
                BY <3>1 DEF Weighs
            <4> HIDE DEF rest
            <4> QED
                BY <1>1, <3>2, <4>1, SumOverInt
        <3> HIDE DEF rest
        <3> QED
            BY <3>3, <3>5, <3>6, <3>7
    <2> HIDE DEF Fine
    <2> QED
        BY <2>1
<1> HIDE DEF N
<1>4. B \in SUBSET B /\ Cardinality(B) \in Nat
    BY <1>1
<1>5. Cardinality(B) \in N
    BY <1>2, <1>3, <1>4, NatSets
<1> HIDE DEF Fine
<1>6. Fine(B)
    BY <1>4, <1>5 DEF N
<1> QED
    BY <1>6 DEF Fine

\* A sum of naturals is one.
LEMMA SumOverNat ==
    ASSUME NEW w, NEW S, IsFiniteSet(S), \A x \in S : w[x] \in Nat
    PROVE  Weighs(w, S) /\ SumOver(w, S) \in Nat
<1> DEFINE N == {n \in Nat : \A T \in SUBSET S : Cardinality(T) = n => SumOver(w, T) \in Nat}
<1>1. Weighs(w, S)
    BY DEF Weighs
<1>2. ASSUME NEW T \in SUBSET S PROVE Weighs(w, T) /\ Cardinality(T) \in Nat /\ IsFiniteSet(T)
    <2>1. Weighs(w, T) /\ Cardinality(T) \in Nat
        BY <1>1, WeighsParts
    <2> QED
        BY <2>1 DEF Weighs
<1>3. 0 \in N
    <2>1. ASSUME NEW T \in SUBSET S, Cardinality(T) = 0 PROVE SumOver(w, T) \in Nat
        <3>1. T = {}
            BY <1>2, <2>1, FS_EmptySet
        <3> QED
            BY <3>1, SumOfNone
    <2> QED
        BY <2>1
<1>4. ASSUME NEW n \in Nat, n \in N PROVE n + 1 \in N
    <2>1. ASSUME NEW T \in SUBSET S, Cardinality(T) = n + 1 PROVE SumOver(w, T) \in Nat
        <3>1. IsFiniteSet(T) /\ Weighs(w, T) /\ T # {}
            BY <1>2, <2>1, FS_EmptySet
        <3> PICK y \in T : TRUE
            BY <3>1
        <3>2. T \ {y} \in SUBSET S /\ Cardinality(T \ {y}) = n
            <4>1. Cardinality(T \ {y}) = Cardinality(T) - 1
                BY <3>1, OneLess
            <4> QED
                BY <2>1, <4>1
        <3>3. SumOver(w, T) = w[y] + SumOver(w, T \ {y})
            <4>1. TakenOut(w, T, y)
                BY <3>1, SumTakesOut
            <4> QED
                BY <4>1 DEF TakenOut
        <3>4. SumOver(w, T \ {y}) \in Nat /\ w[y] \in Nat
            BY <1>4, <3>2
        <3> QED
            BY <3>3, <3>4
    <2> QED
        BY <2>1
<1> HIDE DEF N
<1>5. S \in SUBSET S /\ Cardinality(S) \in Nat
    BY <1>2
<1>6. Cardinality(S) \in N
    BY <1>3, <1>4, <1>5, NatSets
<1> QED
    BY <1>1, <1>5, <1>6 DEF N

\* Weights that are all zero add up to zero.
LEMMA SumOverZeros ==
    ASSUME NEW w, NEW S, IsFiniteSet(S), \A x \in S : w[x] = 0
    PROVE  SumOver(w, S) = 0
<1> DEFINE N == {n \in Nat : \A T \in SUBSET S : Cardinality(T) = n => SumOver(w, T) = 0}
<1>1. ASSUME NEW T \in SUBSET S
      PROVE  IsFiniteSet(T) /\ Cardinality(T) \in Nat /\ Weighs(w, T)
    BY FS_Subset, FS_CardinalityType DEF Weighs
<1>2. 0 \in N
    <2>1. ASSUME NEW T \in SUBSET S, Cardinality(T) = 0 PROVE SumOver(w, T) = 0
        <3>1. T = {}
            BY <1>1, <2>1, FS_EmptySet
        <3> QED
            BY <3>1, SumOfNone
    <2> QED
        BY <2>1
<1>3. ASSUME NEW n \in Nat, n \in N PROVE n + 1 \in N
    <2>1. ASSUME NEW T \in SUBSET S, Cardinality(T) = n + 1 PROVE SumOver(w, T) = 0
        <3>1. IsFiniteSet(T) /\ T # {}
            BY <1>1, <2>1, FS_EmptySet
        <3> DEFINE y == First(T)
        <3>2. y \in T
            BY <3>1, FirstIn
        <3>3. SumOver(w, T) = w[y] + SumOver(w, T \ {y})
            BY <3>1, SumOfFirst
        <3> HIDE DEF y
        <3>4. T \ {y} \in SUBSET S /\ Cardinality(T \ {y}) = n
            BY <2>1, <3>1, <3>2, OneLess
        <3>5. SumOver(w, T \ {y}) = 0 /\ w[y] = 0
            BY <1>3, <3>2, <3>4
        <3> QED
            BY <3>3, <3>5
    <2> QED
        BY <2>1
<1> HIDE DEF N
<1>4. Cardinality(S) \in N
    BY <1>1, <1>2, <1>3, NatSets
<1> QED
    BY <1>1, <1>4 DEF N

\* A sum of naturals over a part is no more than that over the whole.
LEMMA PartsSumToLess ==
    ASSUME NEW w, NEW S, IsFiniteSet(S), \A x \in S : w[x] \in Nat, NEW T \in SUBSET S
    PROVE  /\ SumOver(w, T) \in Nat /\ SumOver(w, S) \in Nat
           /\ SumOver(w, T) <= SumOver(w, S)
<1> DEFINE U == S \ T
<1>1. T \union U = S /\ T \cap U = {} /\ U \in SUBSET S
    OBVIOUS
<1> HIDE DEF U
<1>2. Weighs(w, S) /\ SumOver(w, S) \in Nat
    BY SumOverNat
<1>3. SumOver(w, T) \in Nat /\ SumOver(w, U) \in Nat
    BY <1>1, FS_Subset, SumOverNat
<1>4. SumOver(w, S) = SumOver(w, T) + SumOver(w, U)
    BY <1>1, <1>2, SumsJoin
<1> QED
    BY <1>2, <1>3, <1>4

-----------------------------------------------------------------------------
(***************************************************************************)
(* Induction over sequences for a set: one that holds the empty sequence   *)
(* and is closed under one more member holds every sequence.               *)
(***************************************************************************)
LEMMA SeqSets ==
    ASSUME NEW T, NEW Q, <<>> \in Q,
           \A s \in Seq(T) : \A x \in T : s \in Q => Append(s, x) \in Q
    PROVE  Seq(T) \subseteq Q
<1> DEFINE S == {n \in Nat : \A s \in Seq(T) : Len(s) = n => s \in Q}
<1>1. 0 \in S
    BY EmptySeq
<1>2. ASSUME NEW n \in Nat, n \in S PROVE n + 1 \in S
    <2>1. SUFFICES ASSUME NEW s \in Seq(T), Len(s) = n + 1 PROVE s \in Q
        OBVIOUS
    <2> DEFINE t == SubSeq(s, 1, n)
    <2>2. t \in Seq(T) /\ Len(t) = n /\ s[n + 1] \in T
        BY <2>1
    <2>3. s = Append(t, s[n + 1])
        BY <2>1
    <2> QED
        BY <1>2, <2>2, <2>3
<1>3. Nat \subseteq S
    <2> HIDE DEF S
    <2> QED
        BY <1>1, <1>2, NatSets
<1> QED
    BY <1>3

-----------------------------------------------------------------------------
(* What FoldLeft gives: a fold of a step that stays in a set stays in it *)

\* The greatest number of a set.
Highest(s) == CHOOSE x \in s : \A y \in s : x >= y

LEMMA HighestIn ==
    ASSUME NEW n \in Nat, NEW s \in SUBSET (1..n), s # {}
    PROVE  Highest(s) \in s /\ \A y \in s : Highest(s) >= y
<1> DEFINE S == {m \in Nat : \A t \in SUBSET (1..m) : t # {} => \E x \in t : \A y \in t : x >= y}
<1>1. 0 \in S
    <2>1. 1..0 = {}
        OBVIOUS
    <2>2. \A t \in SUBSET (1..0) : t = {}
        BY <2>1
    <2> QED
        BY <2>2
<1>2. ASSUME NEW m \in Nat, m \in S PROVE m + 1 \in S
    <2>1. SUFFICES ASSUME NEW t \in SUBSET (1..m + 1), t # {}
                   PROVE  \E x \in t : \A y \in t : x >= y
        OBVIOUS
    <2>2. CASE m + 1 \in t
        BY <2>2
    <2>3. CASE m + 1 \notin t
        <3>1. t \in SUBSET (1..m)
            BY <2>3
        <3> QED
            BY <3>1, <2>1, <1>2
    <2> QED
        BY <2>2, <2>3
<1>3. n \in S
    <2> HIDE DEF S
    <2> QED
        BY <1>1, <1>2, NatSets
<1>4. \E x \in s : \A y \in s : x >= y
    BY <1>3
<1> QED
    BY <1>4 DEF Highest

LEMMA HighestOfRange ==
    ASSUME NEW n \in Nat, n # 0
    PROVE  Highest(1..n) = n /\ (1..n) \ {n} = 1..(n - 1)
<1>1. n \in 1..n /\ 1..n \in SUBSET (1..n) /\ 1..n # {}
    OBVIOUS
<1>2. Highest(1..n) \in 1..n /\ Highest(1..n) >= n
    BY <1>1, HighestIn
<1> QED
    BY <1>2

\* The recursion that defines a fold has a solution, if the step is a function G.
Folds(h, G, base, seq, n) ==
    h = [s \in SUBSET (1..n) |->
            IF s = {} THEN base ELSE G[<<h[s \ {Highest(s)}], seq[Highest(s)]>>]]

FoldOf(h, G, base, seq, n, W) ==
    /\ \A s \in SUBSET (1..n) : h[s] \in W
    /\ Folds(h, G, base, seq, n)

Foldable(G, base, seq, n, W) == \E h : FoldOf(h, G, base, seq, n, W)

LEMMA FoldExists ==
    ASSUME NEW W, NEW T, NEW G \in [W \X T -> W], NEW base \in W,
           NEW n \in Nat, NEW seq \in [1..n -> T]
    PROVE  Foldable(G, base, seq, n, W)
<1> DEFINE S == {m \in Nat : m <= n => Foldable(G, base, seq, m, W)}
<1>1. 0 \in S
    <2> DEFINE h == [s \in SUBSET (1..0) |-> base]
    <2>1. 1..0 = {}
        OBVIOUS
    <2>2. \A s \in SUBSET (1..0) : s = {}
        BY <2>1
    <2>3. \A s \in SUBSET (1..0) : h[s] \in W
        OBVIOUS
    <2>4. Folds(h, G, base, seq, 0)
        BY <2>2 DEF Folds
    <2> HIDE DEF h
    <2>5. Foldable(G, base, seq, 0, W)
        BY <2>3, <2>4 DEF Foldable, FoldOf
    <2> QED
        BY <2>5
<1>2. ASSUME NEW m \in Nat, m \in S PROVE m + 1 \in S
    <2>1. SUFFICES ASSUME m + 1 <= n
                   PROVE  Foldable(G, base, seq, m + 1, W)
        OBVIOUS
    <2>2. PICK k : FoldOf(k, G, base, seq, m, W)
        BY <1>2, <2>1 DEF Foldable
    <2> HIDE DEF S
    <2> DEFINE h == [s \in SUBSET (1..m + 1) |->
                        IF m + 1 \in s THEN G[<<k[s \ {m + 1}], seq[m + 1]>>] ELSE k[s]]
    <2>3. ASSUME NEW s \in SUBSET (1..m + 1)
          PROVE  /\ h[s] \in W
                 /\ h[s] = IF s = {} THEN base
                           ELSE G[<<h[s \ {Highest(s)}], seq[Highest(s)]>>]
        <3>1. CASE m + 1 \in s
            <4>1. s # {} /\ s \ {m + 1} \in SUBSET (1..m) /\ m + 1 \notin s \ {m + 1}
                BY <3>1
            <4>2. Highest(s) = m + 1
                <5>1. Highest(s) \in s /\ Highest(s) >= m + 1
                    <6>1. m + 1 \in Nat
                        OBVIOUS
                    <6> HIDE DEF h
                    <6> QED
                        BY <3>1, <4>1, <6>1, HighestIn
                <5>2. Highest(s) \in 1..m + 1
                    BY <5>1
                <5> HIDE DEF h
                <5> QED
                    BY <5>1, <5>2
            <4>3. h[s] = G[<<k[s \ {m + 1}], seq[m + 1]>>] /\ h[s \ {m + 1}] = k[s \ {m + 1}]
                BY <3>1, <4>1
            <4>4. k[s \ {m + 1}] \in W /\ seq[m + 1] \in T
                BY <4>1, <2>1, <2>2 DEF FoldOf
            <4> HIDE DEF h
            <4> QED
                BY <4>1, <4>2, <4>3, <4>4
        <3>2. CASE m + 1 \notin s
            <4>1. s \in SUBSET (1..m) /\ s \ {Highest(s)} \in SUBSET (1..m)
                  /\ s \ {Highest(s)} \in SUBSET (1..m + 1) /\ m + 1 \notin s \ {Highest(s)}
                <5>1. s \in SUBSET (1..m)
                    BY <3>2
                <5> HIDE DEF h
                <5> QED
                    BY <5>1, <3>2
            <4>2. h[s] = k[s] /\ h[s \ {Highest(s)}] = k[s \ {Highest(s)}]
                BY <3>2, <4>1
            <4>3. k[s] = IF s = {} THEN base
                         ELSE G[<<k[s \ {Highest(s)}], seq[Highest(s)]>>]
                BY <4>1, <2>2 DEF FoldOf, Folds
            <4>4. k[s] \in W
                BY <4>1, <2>2 DEF FoldOf
            <4> HIDE DEF h
            <4> QED
                BY <4>2, <4>3, <4>4
        <3> QED
            BY <3>1, <3>2
    <2>5. Folds(h, G, base, seq, m + 1)
        <3>1. h = [s \in SUBSET (1..m + 1) |-> h[s]]
            OBVIOUS
        <3> HIDE DEF h
        <3> QED
            BY <2>3, <3>1 DEF Folds
    <2> HIDE DEF h
    <2> QED
        BY <2>3, <2>5 DEF Foldable, FoldOf
<1>3. n \in S
    <2> HIDE DEF S
    <2> QED
        BY <1>1, <1>2, NatSets
<1> QED
    BY <1>3

\* Where each step stays in W, the whole does.
LEMMA FoldStays ==
    ASSUME NEW W, NEW n \in Nat, NEW h, h[{}] \in W,
           \A k \in 1..n : h[1..(k - 1)] \in W => h[1..k] \in W
    PROVE  h[1..n] \in W
<1> DEFINE S == {m \in Nat : m <= n => h[1..m] \in W}
<1>1. 0 \in S
    <2>1. 1..0 = {}
        OBVIOUS
    <2>2. h[1..0] \in W
        BY ONLY <2>1, h[{}] \in W
    <2> QED
        BY <2>2
<1>2. ASSUME NEW m \in Nat, m \in S PROVE m + 1 \in S
    <2>1. SUFFICES ASSUME m + 1 <= n PROVE h[1..m + 1] \in W
        OBVIOUS
    <2>2. m + 1 \in 1..n /\ (m + 1) - 1 = m
        BY <2>1
    <2>3. h[1..m] \in W
        BY <1>2, <2>1
    <2> QED
        BY <2>2, <2>3
<1>3. n \in S
    <2> HIDE DEF S
    <2> QED
        BY <1>1, <1>2, NatSets
<1> QED
    BY <1>3

-----------------------------------------------------------------------------
(* What OnlyIn gives, for one member more, and so for every sequence *)

KeptSoFar(k, s, S) ==
    k = [i \in 0..Len(s) |-> IF i = 0 THEN <<>>
                             ELSE IF s[i] \in S THEN Append(k[i - 1], s[i]) ELSE k[i - 1]]

LEMMA KeptExists ==
    ASSUME NEW s, NEW S, Len(s) \in Nat
    PROVE  \E k : KeptSoFar(k, s, S)
<1> DEFINE Step(l, i) == IF s[i] \in S THEN Append(l, s[i]) ELSE l
           Solves(k, m) == k = [i \in 0..m |-> IF i = 0 THEN <<>> ELSE Step(k[i - 1], i)]
           M == {m \in Nat : \E k : Solves(k, m)}
<1> HIDE DEF Step
<1>1. 0 \in M
    <2> DEFINE z == [i \in 0..0 |-> <<>>]
    <2>1. Solves(z, 0)
        OBVIOUS
    <2> HIDE DEF Solves, z
    <2> QED
        BY <2>1
<1>2. ASSUME NEW m \in Nat, m \in M PROVE m + 1 \in M
    <2>1. PICK k : Solves(k, m)
        BY <1>2
    <2> DEFINE t == [i \in 0..m + 1 |-> IF i <= m THEN k[i] ELSE Step(k[m], i)]
    <2>2. ASSUME NEW i \in 0..m + 1
          PROVE  t[i] = IF i = 0 THEN <<>> ELSE Step(t[i - 1], i)
        <3>1. CASE i <= m
            <4>1. i \in 0..m
                BY <3>1
            <4>2. k[i] = IF i = 0 THEN <<>> ELSE Step(k[i - 1], i)
                BY <2>1, <4>1
            <4>3. t[i] = k[i] /\ (i # 0 => t[i - 1] = k[i - 1])
                BY <4>1
            <4> QED
                BY <4>2, <4>3
        <3>2. CASE i = m + 1
            <4>1. t[i] = Step(k[m], i) /\ t[i - 1] = k[m]
                BY <3>2
            <4> QED
                BY <4>1, <3>2
        <3> QED
            BY <3>1, <3>2
    <2>3. Solves(t, m + 1)
        BY <2>2
    <2> HIDE DEF Solves, t
    <2> QED
        BY <2>3
<1>3. Len(s) \in M
    <2> HIDE DEF M
    <2> QED
        BY <1>1, <1>2, NatSets
<1> QED
    BY <1>3 DEF Step, KeptSoFar

KeptBy(s, S) == CHOOSE k : KeptSoFar(k, s, S)

LEMMA KeptEntries ==
    ASSUME NEW s, NEW S, Len(s) \in Nat
    PROVE  /\ OnlyIn(s, S) = KeptBy(s, S)[Len(s)]
           /\ KeptBy(s, S)[0] = <<>>
           /\ \A i \in 1..Len(s) :
                  KeptBy(s, S)[i] = IF s[i] \in S THEN Append(KeptBy(s, S)[i - 1], s[i])
                                    ELSE KeptBy(s, S)[i - 1]
<1>1. OnlyIn(s, S) = KeptBy(s, S)[Len(s)]
    BY DEF OnlyIn, KeptBy, KeptSoFar
<1> DEFINE k == KeptBy(s, S)
<1>2. KeptSoFar(k, s, S)
    BY KeptExists DEF KeptBy
<1> HIDE DEF k
<1>3. ASSUME NEW i \in 0..Len(s)
      PROVE  k[i] = IF i = 0 THEN <<>>
                    ELSE IF s[i] \in S THEN Append(k[i - 1], s[i]) ELSE k[i - 1]
    BY <1>2 DEF KeptSoFar
<1>4. k[0] = <<>> /\ \A i \in 1..Len(s) :
                        k[i] = IF s[i] \in S THEN Append(k[i - 1], s[i]) ELSE k[i - 1]
    BY <1>3
<1> QED
    BY <1>1, <1>4 DEF k

LEMMA OnlyInNone ==
    ASSUME NEW S
    PROVE  OnlyIn(<<>>, S) = <<>>
BY KeptEntries

LEMMA OnlyInMore ==
    ASSUME NEW T, NEW s \in Seq(T), NEW x \in T, NEW S
    PROVE  OnlyIn(Append(s, x), S) = IF x \in S THEN Append(OnlyIn(s, S), x) ELSE OnlyIn(s, S)
<1> DEFINE r == Append(s, x)
           k == KeptBy(s, S)
           l == KeptBy(r, S)
           M == {m \in Nat : m <= Len(s) => l[m] = k[m]}
<1>1. r \in Seq(T) /\ Len(r) = Len(s) + 1 /\ r[Len(s) + 1] = x /\ Len(s) \in Nat
      /\ \A i \in 1..Len(s) : r[i] = s[i]
    OBVIOUS
<1>2. /\ OnlyIn(s, S) = k[Len(s)]
      /\ k[0] = <<>>
      /\ \A i \in 1..Len(s) : k[i] = IF s[i] \in S THEN Append(k[i - 1], s[i]) ELSE k[i - 1]
    BY <1>1, KeptEntries
<1>3. /\ OnlyIn(r, S) = l[Len(s) + 1]
      /\ l[0] = <<>>
      /\ \A i \in 1..Len(s) + 1 : l[i] = IF r[i] \in S THEN Append(l[i - 1], r[i]) ELSE l[i - 1]
    <2> HIDE DEF r
    <2> QED
        BY <1>1, KeptEntries
<1> HIDE DEF r, k, l
<1>4. 0 \in M
    BY <1>2, <1>3
<1>5. ASSUME NEW m \in Nat, m \in M PROVE m + 1 \in M
    <2>1. SUFFICES ASSUME m + 1 <= Len(s) PROVE l[m + 1] = k[m + 1]
        OBVIOUS
    <2>2. m + 1 \in 1..Len(s) /\ m + 1 \in 1..Len(s) + 1 /\ (m + 1) - 1 = m
        BY <2>1, <1>1
    <2>3. l[m] = k[m]
        BY <1>5, <2>1, <1>1
    <2>4. /\ k[m + 1] = IF s[m + 1] \in S THEN Append(k[m], s[m + 1]) ELSE k[m]
          /\ l[m + 1] = IF r[m + 1] \in S THEN Append(l[m], r[m + 1]) ELSE l[m]
        BY <1>2, <1>3, <2>2
    <2> QED
        BY <1>1, <2>2, <2>3, <2>4
<1>6. Len(s) \in M
    <2> HIDE DEF M
    <2> QED
        BY <1>1, <1>4, <1>5, NatSets
<1>7. l[Len(s)] = k[Len(s)]
    BY <1>1, <1>6
<1>8. Len(s) + 1 \in 1..Len(s) + 1 /\ (Len(s) + 1) - 1 = Len(s)
    BY <1>1
<1>9. l[Len(s) + 1] = IF x \in S THEN Append(l[Len(s)], x) ELSE l[Len(s)]
    BY <1>1, <1>3, <1>8
<1> QED
    BY <1>2, <1>3, <1>7, <1>9 DEF r

\* What is in a sequence.
Members(s) == {s[i] : i \in 1..Len(s)}

LEMMA MembersMore ==
    ASSUME NEW T, NEW s \in Seq(T), NEW x \in T
    PROVE  Members(Append(s, x)) = Members(s) \union {x} /\ Members(s) \subseteq T
BY DEF Members

LEMMA NoMembers == Members(<<>>) = {}
<1>1. Len(<<>>) = 0
    OBVIOUS
<1> QED
    BY <1>1 DEF Members

LEMMA OnlyInType ==
    ASSUME NEW T, NEW S
    PROVE  \A s \in Seq(T) : OnlyIn(s, S) \in Seq(T) /\ Members(OnlyIn(s, S)) = Members(s) \cap S
<1> DEFINE Q == {s \in Seq(T) : /\ OnlyIn(s, S) \in Seq(T)
                                /\ Members(OnlyIn(s, S)) = Members(s) \cap S}
<1>1. <<>> \in Q
    <2>1. OnlyIn(<<>>, S) = <<>> /\ <<>> \in Seq(T)
        BY OnlyInNone
    <2> QED
        BY <2>1, NoMembers
<1>2. ASSUME NEW s \in Seq(T), NEW x \in T, s \in Q PROVE Append(s, x) \in Q
    <2>1. OnlyIn(s, S) \in Seq(T) /\ Members(OnlyIn(s, S)) = Members(s) \cap S
        BY <1>2
    <2>2. Append(s, x) \in Seq(T) /\ Members(Append(s, x)) = Members(s) \union {x}
        BY MembersMore
    <2>3. CASE x \in S
        <3>1. OnlyIn(Append(s, x), S) = Append(OnlyIn(s, S), x)
            BY <2>3, OnlyInMore
        <3>2. Members(Append(OnlyIn(s, S), x)) = Members(OnlyIn(s, S)) \union {x}
            BY <2>1, MembersMore
        <3>3. Append(OnlyIn(s, S), x) \in Seq(T)
            BY <2>1
        <3> QED
            BY <2>1, <2>2, <2>3, <3>1, <3>2, <3>3
    <2>4. CASE x \notin S
        <3>1. OnlyIn(Append(s, x), S) = OnlyIn(s, S)
            BY <2>4, OnlyInMore
        <3> QED
            BY <2>1, <2>2, <2>4, <3>1
    <2> QED
        BY <2>3, <2>4
<1>3. Seq(T) \subseteq Q
    <2> HIDE DEF Q
    <2> QED
        BY <1>1, <1>2, SeqSets
<1> QED
    BY <1>3

\* Only what is in both sets matters.
LEMMA OnlyInAgree ==
    ASSUME NEW T, NEW A, NEW B
    PROVE  \A s \in Seq(T) : Members(s) \cap A = Members(s) \cap B => OnlyIn(s, A) = OnlyIn(s, B)
<1> DEFINE Q == {s \in Seq(T) : Members(s) \cap A = Members(s) \cap B => OnlyIn(s, A) = OnlyIn(s, B)}
<1>1. <<>> \in Q
    BY OnlyInNone
<1>2. ASSUME NEW s \in Seq(T), NEW x \in T, s \in Q PROVE Append(s, x) \in Q
    <2>1. Append(s, x) \in Seq(T) /\ Members(Append(s, x)) = Members(s) \union {x}
        BY MembersMore
    <2>2. SUFFICES ASSUME Members(Append(s, x)) \cap A = Members(Append(s, x)) \cap B
                   PROVE  OnlyIn(Append(s, x), A) = OnlyIn(Append(s, x), B)
        BY <2>1
    <2>3. (x \in A <=> x \in B) /\ Members(s) \cap A = Members(s) \cap B
        BY <2>1, <2>2
    <2>4. OnlyIn(s, A) = OnlyIn(s, B)
        BY <1>2, <2>3
    <2>5. /\ OnlyIn(Append(s, x), A) = IF x \in A THEN Append(OnlyIn(s, A), x) ELSE OnlyIn(s, A)
          /\ OnlyIn(Append(s, x), B) = IF x \in B THEN Append(OnlyIn(s, B), x) ELSE OnlyIn(s, B)
        BY OnlyInMore
    <2> QED
        BY <2>3, <2>4, <2>5
<1>3. Seq(T) \subseteq Q
    <2> HIDE DEF Q
    <2> QED
        BY <1>1, <1>2, SeqSets
<1> QED
    BY <1>3
\* No two members under one id.
DistinctIds(s) == \A i, j \in 1..Len(s) : s[i].id = s[j].id => i = j

LEMMA DistinctMore ==
    ASSUME NEW T, NEW s \in Seq(T), NEW x \in T
    PROVE  DistinctIds(Append(s, x)) <=> DistinctIds(s) /\ \A y \in Members(s) : y.id # x.id
<1> DEFINE r == Append(s, x)
           n == Len(s)
<1>1. n \in Nat /\ Len(r) = n + 1 /\ r[n + 1] = x /\ \A i \in 1..n : r[i] = s[i]
    OBVIOUS
<1> HIDE DEF r, n
<1>2. ASSUME DistinctIds(r) PROVE DistinctIds(s) /\ \A y \in Members(s) : y.id # x.id
    <2>1. ASSUME NEW i \in 1..n, NEW j \in 1..n, s[i].id = s[j].id PROVE i = j
        <3>1. r[i].id = r[j].id /\ i \in 1..n + 1 /\ j \in 1..n + 1
            BY <1>1, <2>1
        <3> QED
            BY <1>1, <1>2, <3>1 DEF DistinctIds
    <2>2. ASSUME NEW i \in 1..n, s[i].id = x.id PROVE FALSE
        <3>1. r[i].id = r[n + 1].id /\ i \in 1..n + 1 /\ n + 1 \in 1..n + 1 /\ i # n + 1
            BY <1>1, <2>2
        <3> QED
            BY <1>1, <1>2, <3>1 DEF DistinctIds
    <2> QED
        BY <2>1, <2>2 DEF DistinctIds, Members, n
<1>3. ASSUME DistinctIds(s), \A y \in Members(s) : y.id # x.id PROVE DistinctIds(r)
    <2>1. SUFFICES ASSUME NEW i \in 1..n + 1, NEW j \in 1..n + 1, r[i].id = r[j].id PROVE i = j
        BY <1>1 DEF DistinctIds
    <2>2. \A k \in 1..n : s[k].id # x.id
        BY <1>3 DEF Members, n
    <2>3. CASE i = n + 1 /\ j = n + 1
        BY <2>3
    <2>4. CASE i \in 1..n /\ j \in 1..n
        BY <1>1, <1>3, <2>1, <2>4 DEF DistinctIds, n
    <2>5. CASE i \in 1..n /\ j = n + 1
        BY <1>1, <2>1, <2>2, <2>5
    <2>6. CASE i = n + 1 /\ j \in 1..n
        BY <1>1, <2>1, <2>2, <2>6
    <2> QED
        BY <1>1, <2>3, <2>4, <2>5, <2>6
<1> QED
    BY <1>2, <1>3 DEF r

LEMMA DistinctMembers ==
    ASSUME NEW s, DistinctIds(s), NEW x \in Members(s), NEW y \in Members(s), x.id = y.id
    PROVE  x = y
BY DEF DistinctIds, Members

LEMMA OnlyInDistinct ==
    ASSUME NEW T, NEW S
    PROVE  \A s \in Seq(T) : DistinctIds(s) => DistinctIds(OnlyIn(s, S))
<1> DEFINE Q == {s \in Seq(T) : DistinctIds(s) => DistinctIds(OnlyIn(s, S))}
<1>1. <<>> \in Q
    BY OnlyInNone
<1>2. ASSUME NEW s \in Seq(T), NEW x \in T, s \in Q PROVE Append(s, x) \in Q
    <2>1. Append(s, x) \in Seq(T)
        OBVIOUS
    <2>2. SUFFICES ASSUME DistinctIds(Append(s, x)) PROVE DistinctIds(OnlyIn(Append(s, x), S))
        BY <2>1
    <2>3. DistinctIds(s) /\ \A y \in Members(s) : y.id # x.id
        BY <2>2, DistinctMore
    <2>4. DistinctIds(OnlyIn(s, S))
        BY <1>2, <2>3
    <2>5. OnlyIn(s, S) \in Seq(T) /\ Members(OnlyIn(s, S)) = Members(s) \cap S
        BY OnlyInType
    <2>6. DistinctIds(Append(OnlyIn(s, S), x))
        <3> HIDE DEF Q
        <3> QED
            BY <2>3, <2>4, <2>5, DistinctMore
    <2>7. OnlyIn(Append(s, x), S) = IF x \in S THEN Append(OnlyIn(s, S), x) ELSE OnlyIn(s, S)
        BY OnlyInMore
    <2> QED
        BY <2>4, <2>6, <2>7
<1>3. Seq(T) \subseteq Q
    <2> HIDE DEF Q
    <2> QED
        BY <1>1, <1>2, SeqSets
<1> QED
    BY <1>3

\* Filtering twice leaves no more than filtering once.
LEMMA OnlyInFewer ==
    ASSUME NEW T, NEW A, NEW B
    PROVE  \A s \in Seq(T) : /\ Len(OnlyIn(OnlyIn(s, A), B)) \in Nat /\ Len(OnlyIn(s, B)) \in Nat
                             /\ Len(OnlyIn(OnlyIn(s, A), B)) <= Len(OnlyIn(s, B))
<1> DEFINE Fewer(s) == Len(OnlyIn(OnlyIn(s, A), B)) <= Len(OnlyIn(s, B))
           Q == {s \in Seq(T) : Fewer(s)}
<1>1. \A s \in Seq(T) : /\ OnlyIn(s, A) \in Seq(T) /\ OnlyIn(s, B) \in Seq(T)
                        /\ OnlyIn(OnlyIn(s, A), B) \in Seq(T)
    BY OnlyInType
<1>2. <<>> \in Q
    <2>1. OnlyIn(OnlyIn(<<>>, A), B) = <<>> /\ OnlyIn(<<>>, B) = <<>>
        BY OnlyInNone
    <2> QED
        BY <2>1
<1>3. ASSUME NEW s \in Seq(T), NEW x \in T, s \in Q PROVE Append(s, x) \in Q
    <2>1. Append(s, x) \in Seq(T)
        OBVIOUS
    <2>2. Fewer(s)
        BY <1>3
    <2> DEFINE a == OnlyIn(s, A)
               ab == OnlyIn(a, B)
               b == OnlyIn(s, B)
    <2>3. a \in Seq(T) /\ ab \in Seq(T) /\ b \in Seq(T)
        BY <1>1
    <2>4. OnlyIn(Append(s, x), A) = IF x \in A THEN Append(a, x) ELSE a
        BY OnlyInMore
    <2>5. OnlyIn(Append(s, x), B) = IF x \in B THEN Append(b, x) ELSE b
        BY OnlyInMore
    <2>6. OnlyIn(Append(a, x), B) = IF x \in B THEN Append(ab, x) ELSE ab
        <3> HIDE DEF a
        <3> QED
            BY <2>3, OnlyInMore
    <2>7. Len(ab) <= Len(b) /\ Len(ab) \in Nat /\ Len(b) \in Nat
        BY <2>2, <2>3
    <2>8. Len(Append(b, x)) = Len(b) + 1 /\ Len(Append(ab, x)) = Len(ab) + 1
        <3> HIDE DEF a, ab, b
        <3> QED
            BY <2>3
    <2>9. Fewer(Append(s, x))
        <3>1. OnlyIn(OnlyIn(Append(s, x), A), B) \in {Append(ab, x), ab}
            BY <2>4, <2>6
        <3>2. x \notin B => OnlyIn(OnlyIn(Append(s, x), A), B) = ab
            BY <2>4, <2>6
        <3> HIDE DEF a, ab, b
        <3> QED
            BY <3>1, <3>2, <2>5, <2>7, <2>8
    <2> QED
        BY <2>1, <2>9
<1>4. Seq(T) \subseteq Q
    <2> HIDE DEF Q
    <2> QED
        BY <1>2, <1>3, SeqSets
<1>5. ASSUME NEW s \in Seq(T)
      PROVE  /\ Fewer(s)
             /\ Len(OnlyIn(OnlyIn(s, A), B)) \in Nat /\ Len(OnlyIn(s, B)) \in Nat
    <2>1. Fewer(s)
        BY <1>4
    <2> HIDE DEF Fewer, Q
    <2> QED
        BY <1>1, <2>1
<1> QED
    BY <1>5

\* Where the same places are in the set, the same number is left.
LEMMA OnlyInSameLength ==
    ASSUME NEW T, NEW S
    PROVE  \A s, t \in Seq(T) :
               Len(s) = Len(t) /\ (\A i \in 1..Len(s) : s[i] \in S <=> t[i] \in S)
                   => Len(OnlyIn(s, S)) = Len(OnlyIn(t, S))
<1> DEFINE Alike(s, t) == Len(s) = Len(t) /\ \A i \in 1..Len(s) : s[i] \in S <=> t[i] \in S
           Q == {s \in Seq(T) : \A t \in Seq(T) : Alike(s, t) => Len(OnlyIn(s, S)) = Len(OnlyIn(t, S))}
<1>1. <<>> \in Q
    <2>1. ASSUME NEW t \in Seq(T), Alike(<<>>, t) PROVE t = <<>>
        BY <2>1, EmptySeq
    <2> QED
        BY <2>1
<1>2. ASSUME NEW s \in Seq(T), NEW x \in T, s \in Q PROVE Append(s, x) \in Q
    <2>1. Append(s, x) \in Seq(T) /\ Len(Append(s, x)) = Len(s) + 1 /\ Len(s) \in Nat
        OBVIOUS
    <2>2. SUFFICES ASSUME NEW t \in Seq(T), Alike(Append(s, x), t)
                   PROVE  Len(OnlyIn(Append(s, x), S)) = Len(OnlyIn(t, S))
        BY <2>1
    <2> DEFINE u == SubSeq(t, 1, Len(s))
               y == t[Len(s) + 1]
    <2>3. Len(t) = Len(s) + 1
        BY <2>1, <2>2
    <2>4. u \in Seq(T) /\ Len(u) = Len(s) /\ y \in T /\ t = Append(u, y)
          /\ \A i \in 1..Len(s) : u[i] = t[i]
        BY <2>1, <2>3
    <2>5. Alike(s, u) /\ (x \in S <=> y \in S)
        <3>1. \A i \in 1..Len(s) : Append(s, x)[i] = s[i] /\ i \in 1..Len(s) + 1
            BY <2>1
        <3>2. Append(s, x)[Len(s) + 1] = x /\ Len(s) + 1 \in 1..Len(s) + 1
            BY <2>1
        <3> HIDE DEF u, Q
        <3> QED
            BY <2>1, <2>2, <2>4, <3>1, <3>2
    <2>6. Len(OnlyIn(s, S)) = Len(OnlyIn(u, S))
        <3> HIDE DEF u, Alike
        <3> QED
            BY <1>2, <2>4, <2>5
    <2>7. /\ OnlyIn(Append(s, x), S) = IF x \in S THEN Append(OnlyIn(s, S), x) ELSE OnlyIn(s, S)
          /\ OnlyIn(t, S) = IF y \in S THEN Append(OnlyIn(u, S), y) ELSE OnlyIn(u, S)
        <3> HIDE DEF u, y, Q, Alike
        <3> QED
            BY <2>4, OnlyInMore
    <2>8. OnlyIn(s, S) \in Seq(T) /\ OnlyIn(u, S) \in Seq(T)
        <3> HIDE DEF u, y, Q, Alike
        <3> QED
            BY <2>4, OnlyInType
    <2> HIDE DEF u, y, Q, Alike
    <2> QED
        BY <2>4, <2>5, <2>6, <2>7, <2>8
<1>3. Seq(T) \subseteq Q
    <2> HIDE DEF Q
    <2> QED
        BY <1>1, <1>2, SeqSets
<1> QED
    BY <1>3
-----------------------------------------------------------------------------
(* The sum of what the members of a sequence weigh *)

WeightOf(s, w) == SumTo([i \in 1..Len(s) |-> w[s[i]]], Len(s))

LEMMA WeightOfNone ==
    ASSUME NEW w
    PROVE  WeightOf(<<>>, w) = 0
<1> DEFINE b == [i \in 1..Len(<<>>) |-> w[<<>>[i]]]
<1>1. Len(<<>>) = 0 /\ 1..0 = {} /\ 0 \in Nat
    OBVIOUS
<1>2. b \in [1..0 -> Int]
    BY <1>1
<1>3. SumTo(b, 0) = 0
    <2> HIDE DEF b
    <2> QED
        BY <1>1, <1>2, PartialSumsEntries DEF SumTo
<1> QED
    BY <1>1, <1>3 DEF WeightOf

LEMMA WeightMore ==
    ASSUME NEW T, NEW w, \A x \in T : w[x] \in Int, NEW s \in Seq(T), NEW x \in T
    PROVE  /\ WeightOf(s, w) \in Int
           /\ WeightOf(Append(s, x), w) = WeightOf(s, w) + w[x]
<1> DEFINE n == Len(s)
           r == Append(s, x)
           c == [i \in 1..n |-> w[s[i]]]
           b == [i \in 1..Len(r) |-> w[r[i]]]
<1>1. n \in Nat /\ Len(r) = n + 1 /\ r[n + 1] = x /\ \A i \in 1..n : r[i] = s[i] /\ s[i] \in T
    OBVIOUS
<1>2. c \in [1..n -> Int] /\ \A i \in 1..n : c[i] = w[s[i]]
    BY <1>1
<1>3. /\ b \in [1..n + 1 -> Int] /\ b[n + 1] = w[x]
      /\ \A i \in 1..n : b[i] = w[s[i]]
    <2>1. \A i \in 1..n + 1 : r[i] \in T
        <3> HIDE DEF n, r
        <3>1. \A i \in 1..n + 1 : i \in 1..n \/ i = n + 1
            BY <1>1
        <3> QED
            BY <1>1, <3>1
    <2>2. n + 1 \in 1..n + 1 /\ \A i \in 1..n : i \in 1..n + 1
        BY <1>1
    <2>3. b = [i \in 1..n + 1 |-> w[r[i]]]
        BY <1>1
    <2> HIDE DEF n, r, b
    <2> QED
        BY <1>1, <2>1, <2>2, <2>3
<1>4. SumTo(c, n) \in Int
    <2> HIDE DEF n, c
    <2> QED
        BY <1>1, <1>2, SumType
<1>5. SumTo(c, n) = SumTo(b, n + 1) - b[n + 1]
    <2>1. n + 1 \in Nat /\ n + 1 \in 1..n + 1 /\ (n + 1) - 1 = n
        BY <1>1
    <2>2. \A i \in 1..(n + 1) - 1 : c[i] = b[i]
        BY <1>2, <1>3, <2>1
    <2>3. (n + 1)..(n + 1) - 1 = {}
        BY <1>1
    <2>4. \A i \in (n + 1)..(n + 1) - 1 : c[i] = b[i + 1]
        BY <2>3
    <2> HIDE DEF n, r, b, c
    <2>5. c \in [1..(n + 1) - 1 -> Int]
        BY <1>2, <2>1
    <2>6. SumTo(c, (n + 1) - 1) = SumTo(b, n + 1) - b[n + 1]
        BY <1>3, <2>1, <2>2, <2>4, <2>5, SumWithout
    <2> QED
        BY <2>1, <2>6
<1>6. SumTo(b, n + 1) \in Int
    <2> HIDE DEF n, b
    <2>1. n + 1 \in Nat
        BY <1>1
    <2> QED
        BY <1>3, <2>1, SumType
<1>7. WeightOf(s, w) = SumTo(c, n) /\ WeightOf(r, w) = SumTo(b, n + 1)
    BY <1>1 DEF WeightOf
<1>8. b[n + 1] \in Int /\ b[n + 1] = w[x]
    BY <1>3
<1> HIDE DEF n, r, b, c
<1> QED
    BY <1>4, <1>5, <1>6, <1>7, <1>8 DEF r

LEMMA WeightType ==
    ASSUME NEW T, NEW w, \A x \in T : w[x] \in Int, NEW s \in Seq(T)
    PROVE  WeightOf(s, w) \in Int
<1> DEFINE b == [i \in 1..Len(s) |-> w[s[i]]]
<1>1. Len(s) \in Nat /\ b \in [1..Len(s) -> Int]
    OBVIOUS
<1> HIDE DEF b
<1>2. SumTo(b, Len(s)) \in Int
    BY <1>1, SumType
<1> QED
    BY <1>2 DEF b, WeightOf

\* A sequence weighs what its parts weigh, when every member is in one of three sets.
InJustOne(x, A, B, C) ==
    \/ x \in A /\ x \notin B /\ x \notin C
    \/ x \notin A /\ x \in B /\ x \notin C
    \/ x \notin A /\ x \notin B /\ x \in C

LEMMA WeightSplits ==
    ASSUME NEW T, NEW w, \A x \in T : w[x] \in Int, NEW A, NEW B, NEW C,
           \A x \in T : InJustOne(x, A, B, C)
    PROVE  \A s \in Seq(T) : WeightOf(s, w) = WeightOf(OnlyIn(s, A), w) + WeightOf(OnlyIn(s, B), w)
                                             + WeightOf(OnlyIn(s, C), w)
<1> DEFINE W(s) == WeightOf(s, w)
           Splits(s) == W(s) = W(OnlyIn(s, A)) + W(OnlyIn(s, B)) + W(OnlyIn(s, C))
           Q == {s \in Seq(T) : Splits(s)}
<1>1. <<>> \in Q
    <2>1. OnlyIn(<<>>, A) = <<>> /\ OnlyIn(<<>>, B) = <<>> /\ OnlyIn(<<>>, C) = <<>>
        BY OnlyInNone
    <2>2. W(<<>>) = 0
        BY WeightOfNone
    <2> HIDE DEF W
    <2> QED
        BY <2>1, <2>2
<1>2. ASSUME NEW s \in Seq(T), NEW x \in T, s \in Q PROVE Append(s, x) \in Q
    <2> DEFINE a == OnlyIn(s, A)
               b == OnlyIn(s, B)
               c == OnlyIn(s, C)
    <2>1. a \in Seq(T) /\ b \in Seq(T) /\ c \in Seq(T)
        BY OnlyInType
    <2>2. /\ OnlyIn(Append(s, x), A) = IF x \in A THEN Append(a, x) ELSE a
          /\ OnlyIn(Append(s, x), B) = IF x \in B THEN Append(b, x) ELSE b
          /\ OnlyIn(Append(s, x), C) = IF x \in C THEN Append(c, x) ELSE c
        BY OnlyInMore
    <2>3. Splits(s)
        BY <1>2
    <2>4. W(s) = W(a) + W(b) + W(c)
        BY <2>3
    <2> HIDE DEF a, b, c, Q, Splits
    <2>5. ASSUME NEW t \in Seq(T)
          PROVE  W(t) \in Int /\ W(Append(t, x)) = W(t) + w[x]
        BY WeightMore
    <2>6. w[x] \in Int
        OBVIOUS
    <2> HIDE DEF W
    <2>9. /\ W(s) \in Int /\ W(Append(s, x)) = W(s) + w[x]
          /\ W(a) \in Int /\ W(Append(a, x)) = W(a) + w[x]
          /\ W(b) \in Int /\ W(Append(b, x)) = W(b) + w[x]
          /\ W(c) \in Int /\ W(Append(c, x)) = W(c) + w[x]
        BY <2>1, <2>5
    <2>7. W(Append(s, x)) = W(OnlyIn(Append(s, x), A)) + W(OnlyIn(Append(s, x), B))
                              + W(OnlyIn(Append(s, x), C))
        <3>1. CASE x \in A /\ x \notin B /\ x \notin C
            BY <2>2, <2>4, <2>9, <2>6, <3>1
        <3>2. CASE x \notin A /\ x \in B /\ x \notin C
            BY <2>2, <2>4, <2>9, <2>6, <3>2
        <3>3. CASE x \notin A /\ x \notin B /\ x \in C
            BY <2>2, <2>4, <2>9, <2>6, <3>3
        <3> QED
            BY <3>1, <3>2, <3>3 DEF InJustOne
    <2>8. Append(s, x) \in Seq(T)
        OBVIOUS
    <2> QED
        BY <2>7, <2>8 DEF Q, Splits
<1>3. Seq(T) \subseteq Q
    <2> HIDE DEF Q
    <2> QED
        BY <1>1, <1>2, SeqSets
<1>4. \A s \in Seq(T) : Splits(s)
    BY <1>3
<1> QED
    BY <1>4

\* Under distinct ids a member is in a sequence once.
LEMMA OnlyInOne ==
    ASSUME NEW T, NEW x
    PROVE  \A s \in Seq(T) : DistinctIds(s) /\ x \in Members(s) => OnlyIn(s, {x}) = <<x>>
<1> DEFINE Q == {s \in Seq(T) : DistinctIds(s) /\ x \in Members(s) => OnlyIn(s, {x}) = <<x>>}
<1>1. <<>> \in Q
    BY NoMembers
<1>2. ASSUME NEW s \in Seq(T), NEW y \in T, s \in Q PROVE Append(s, y) \in Q
    <2>1. Append(s, y) \in Seq(T) /\ Members(Append(s, y)) = Members(s) \union {y}
        BY MembersMore
    <2>2. SUFFICES ASSUME DistinctIds(Append(s, y)), x \in Members(Append(s, y))
                   PROVE  OnlyIn(Append(s, y), {x}) = <<x>>
        BY <2>1
    <2>3. DistinctIds(s) /\ \A z \in Members(s) : z.id # y.id
        BY <2>2, DistinctMore
    <2>4. OnlyIn(Append(s, y), {x}) = IF y = x THEN Append(OnlyIn(s, {x}), y) ELSE OnlyIn(s, {x})
        <3>1. OnlyIn(Append(s, y), {x}) = IF y \in {x} THEN Append(OnlyIn(s, {x}), y) ELSE OnlyIn(s, {x})
            BY OnlyInMore
        <3> QED
            BY <3>1
    <2>5. CASE y = x
        <3>1. OnlyIn(s, {x}) \in Seq(T) /\ Members(OnlyIn(s, {x})) = Members(s) \cap {x}
            BY OnlyInType
        <3>2. Members(OnlyIn(s, {x})) = {}
            BY <2>3, <2>5, <3>1
        <3>3. OnlyIn(s, {x}) = <<>>
            <4> DEFINE r == OnlyIn(s, {x})
            <4>1. r \in Seq(T) /\ Members(r) = {}
                BY <3>1, <3>2
            <4> HIDE DEF r
            <4>2. Len(r) \in Nat
                BY <4>1
            <4>3. 1 \notin 1..Len(r)
                BY <4>1 DEF Members
            <4>4. r = <<>>
                BY <4>1, <4>2, <4>3, EmptySeq
            <4> QED
                BY <4>4 DEF r
        <3> QED
            BY <2>4, <2>5, <3>3
    <2>6. CASE y # x
        <3>1. x \in Members(s)
            BY <2>1, <2>2, <2>6
        <3> QED
            BY <1>2, <2>3, <2>4, <2>6, <3>1
    <2> QED
        BY <2>5, <2>6
<1>3. Seq(T) \subseteq Q
    <2> HIDE DEF Q
    <2> QED
        BY <1>1, <1>2, SeqSets
<1> QED
    BY <1>3
=============================================================================
