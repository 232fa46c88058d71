-------------------------- MODULE PerpVaultProofs ---------------------------
(***************************************************************************)
(* The vault's books balance and its pool covers them, for any number of    *)
(* accounts, any amounts, limits and fees and batches of any length.        *)
(***************************************************************************)
EXTENDS PerpVault, SumTheorems

-----------------------------------------------------------------------------
\* Moving part of one balance to another keeps the sum of the balances.
LEMMA MovedKeepsSum ==
    ASSUME NEW b \in [Accounts -> Nat], NEW from \in Accounts, NEW to \in Accounts,
           NEW d \in Nat, d <= b[from]
    PROVE  /\ Moved(b, from, to, d) \in [Accounts -> Nat]
           /\ SumTo(Moved(b, from, to, d), N) = SumTo(b, N)
<1>1. /\ N \in Nat /\ b \in [1..N -> Nat] /\ from \in 1..N /\ to \in 1..N
      /\ d \in Nat /\ d <= b[from]
    BY AccountsAssumption DEF Accounts
<1>2. /\ Shifted(b, from, to, d) \in [1..N -> Nat]
      /\ SumTo(Shifted(b, from, to, d), N) = SumTo(b, N)
    BY <1>1, MovingKeepsSum
<1>3. Moved(b, from, to, d) = Shifted(b, from, to, d)
    BY DEF Moved, Shifted
<1> QED
    BY <1>2, <1>3 DEF Accounts

\* A leg the vault accepts leaves a ledger with the same totals.
LEMMA TransferredKeepsTotals ==
    ASSUME NEW l \in NatLedgers, NEW from, NEW to, NEW amount \in Nat, NEW cap,
           LegAllowed(l, from, to, amount, cap)
    PROVE  /\ Transferred(l, from, to, amount) \in NatLedgers
           /\ SameTotals(Transferred(l, from, to, amount), l)
<1> DEFINE d == FromDeposit(l, from, amount)
           b == Moved(l.balances, from, to, d)
           c == Moved(l.collateralBalances, from, to, amount - d)
<1>1. /\ from \in Accounts
      /\ to \in Accounts
      /\ amount <= l.balances[from] + l.collateralBalances[from]
    BY DEF LegAllowed, Spendable
<1>2. /\ l.balances \in [Accounts -> Nat]
      /\ l.collateralBalances \in [Accounts -> Nat]
    BY DEF NatLedgers
<1>3. l.balances[from] \in Nat /\ l.collateralBalances[from] \in Nat
    BY <1>1, <1>2
<1>4. /\ d \in Nat /\ d <= l.balances[from]
      /\ amount - d \in Nat /\ amount - d <= l.collateralBalances[from]
    BY <1>1, <1>3 DEF FromDeposit
<1> HIDE DEF d
<1>5. b \in [Accounts -> Nat] /\ SumTo(b, N) = SumTo(l.balances, N)
    BY <1>1, <1>2, <1>4, MovedKeepsSum
<1>6. c \in [Accounts -> Nat] /\ SumTo(c, N) = SumTo(l.collateralBalances, N)
    BY <1>1, <1>2, <1>4, MovedKeepsSum
<1>7. Transferred(l, from, to, amount) = [balances |-> b, collateralBalances |-> c]
    BY DEF Transferred, d
<1> HIDE DEF b, c
<1> QED
    BY <1>5, <1>6, <1>7 DEF NatLedgers, SameTotals

\* The recursion over the legs of a batch has a solution.
LEMMA LedgersAlongExist ==
    ASSUME NEW legs, NEW n \in Nat
    PROVE  \E s : s = [i \in 0..n |->
                         IF i = 0 THEN Ledger
                         ELSE Transferred(s[i - 1], legs[i].from, legs[i].to,
                                          legs[i].amount)]
<1> DEFINE Step(l, i) == Transferred(l, legs[i].from, legs[i].to, legs[i].amount)
           Solves(s, m) ==
               s = [i \in 0..m |-> IF i = 0 THEN Ledger ELSE Step(s[i - 1], i)]
           S == {m \in Nat : \E s : Solves(s, m)}
<1> HIDE DEF Step
<1>1. 0 \in S
    <2> DEFINE z == [i \in 0..0 |-> Ledger]
    <2>1. Solves(z, 0)
        OBVIOUS
    <2> HIDE DEF Solves, z
    <2> QED
        BY <2>1
<1>2. ASSUME NEW m \in Nat, m \in S PROVE m + 1 \in S
    <2>1. PICK s : Solves(s, m)
        BY <1>2
    <2> DEFINE t == [i \in 0..m + 1 |-> IF i <= m THEN s[i] ELSE Step(s[m], i)]
    <2>2. ASSUME NEW i \in 0..m + 1
          PROVE  t[i] = IF i = 0 THEN Ledger ELSE Step(t[i - 1], i)
        <3>1. CASE i <= m
            <4>1. i \in 0..m
                BY <3>1
            <4>2. s[i] = IF i = 0 THEN Ledger ELSE Step(s[i - 1], i)
                BY <2>1, <4>1
            <4>3. t[i] = s[i] /\ (i # 0 => t[i - 1] = s[i - 1])
                BY <4>1
            <4> QED
                BY <4>2, <4>3
        <3>2. CASE i = m + 1
            <4>1. t[i] = Step(s[m], i) /\ t[i - 1] = s[m]
                BY <3>2
            <4> QED
                BY <4>1, <3>2
        <3> QED
            BY <3>1, <3>2
    <2>3. Solves(t, m + 1)
        BY <2>2
    <2> HIDE DEF Solves, t
    <2> QED
        BY <2>3
<1>3. n \in S
    <2> HIDE DEF S
    <2> QED
        BY <1>1, <1>2, NatSets
<1> QED
    BY <1>3 DEF Step

\* The ledger before the first leg, and after each leg in terms of the one before.
LEMMA LedgersAlongEntries ==
    ASSUME NEW legs, Len(legs) \in Nat
    PROVE  /\ LedgersAlong(legs)[0] = Ledger
           /\ \A i \in 1..Len(legs) :
                  LedgersAlong(legs)[i] =
                      Transferred(LedgersAlong(legs)[i - 1], legs[i].from, legs[i].to,
                                  legs[i].amount)
<1> DEFINE Step(l, i) == Transferred(l, legs[i].from, legs[i].to, legs[i].amount)
           Solves(s) ==
               s = [i \in 0..Len(legs) |-> IF i = 0 THEN Ledger ELSE Step(s[i - 1], i)]
           a == LedgersAlong(legs)
<1>1. PICK s : Solves(s)
    BY LedgersAlongExist
<1>2. a = CHOOSE q : Solves(q)
    BY DEF LedgersAlong
<1> HIDE DEF a, Step
<1>3. Solves(a)
    <2> HIDE DEF Solves
    <2> QED
        BY <1>1, <1>2
<1>4. ASSUME NEW i \in 0..Len(legs)
      PROVE  a[i] = IF i = 0 THEN Ledger ELSE Step(a[i - 1], i)
    BY <1>3
<1>5. a[0] = Ledger /\ \A i \in 1..Len(legs) : a[i] = Step(a[i - 1], i)
    BY <1>4
<1> QED
    BY <1>5 DEF a, Step

\* A batch the vault accepts leaves a ledger with the same totals, whatever its length.
LEMMA BatchKeepsTotals ==
    ASSUME Ledger \in NatLedgers, NEW n \in Nat, NEW legs \in [1..n -> Legs],
           Amounts \subseteq Nat, LegsAllowed(legs)
    PROVE  /\ LedgersAlong(legs)[Len(legs)] \in NatLedgers
           /\ SameTotals(LedgersAlong(legs)[Len(legs)], Ledger)
<1> DEFINE a == LedgersAlong(legs)
           k == Len(legs)
           S == {m \in Nat : m <= k => a[m] \in NatLedgers /\ SameTotals(a[m], Ledger)}
<1>1. k \in Nat /\ k = n
    OBVIOUS
<1>2. /\ a[0] = Ledger
      /\ \A i \in 1..k : a[i] = Transferred(a[i - 1], legs[i].from, legs[i].to,
                                            legs[i].amount)
    BY <1>1, LedgersAlongEntries
<1>3. \A i \in 1..k : /\ LegAllowed(a[i - 1], legs[i].from, legs[i].to, legs[i].amount,
                                    maxOperatorTransferPerTx)
                      /\ legs[i].amount \in Nat
    BY <1>1 DEF LegsAllowed, Legs
<1> HIDE DEF a, k
<1>4. 0 \in S
    BY <1>2 DEF SameTotals
<1>5. ASSUME NEW m \in Nat, m \in S PROVE m + 1 \in S
    <2>1. SUFFICES ASSUME m + 1 <= k
                   PROVE  a[m + 1] \in NatLedgers /\ SameTotals(a[m + 1], Ledger)
        OBVIOUS
    <2> DEFINE g == legs[m + 1]
    <2>2. m + 1 \in 1..k /\ (m + 1) - 1 = m
        BY <2>1, <1>1
    <2>3. a[m] \in NatLedgers /\ SameTotals(a[m], Ledger)
        BY <1>5, <2>1, <1>1
    <2>4. /\ a[m + 1] = Transferred(a[m], g.from, g.to, g.amount)
          /\ LegAllowed(a[m], g.from, g.to, g.amount, maxOperatorTransferPerTx)
          /\ g.amount \in Nat
        BY <1>2, <1>3, <2>2
    <2> HIDE DEF g
    <2>5. a[m + 1] \in NatLedgers /\ SameTotals(a[m + 1], a[m])
        BY <2>3, <2>4, TransferredKeepsTotals
    <2> QED
        BY <2>3, <2>5 DEF SameTotals
<1>6. k \in S
    <2> HIDE DEF S
    <2> QED
        BY <1>1, <1>4, <1>5, NatSets
<1> QED
    BY <1>1, <1>6 DEF a, k

-----------------------------------------------------------------------------
(***************************************************************************)
(* The inductive invariant.  TypeOK alone is not one: that totalDeposits    *)
(* stays natural when a balance is withdrawn follows only because it is the *)
(* sum of the balances, and so at least each of them.                       *)
(***************************************************************************)
Inv == TypeOK /\ BooksBalance /\ Solvent

\* Changing one entry of a mapping changes its sum by as much, and the sum is a
\* natural number that no entry exceeds.
LEMMA OneEntry ==
    ASSUME NEW b \in [Accounts -> Nat], NEW k \in Accounts, NEW v \in Nat
    PROVE  /\ [b EXCEPT ![k] = v] \in [Accounts -> Nat]
           /\ SumTo([b EXCEPT ![k] = v], N) = SumTo(b, N) - b[k] + v
           /\ SumTo(b, N) \in Nat
           /\ b[k] <= SumTo(b, N)
<1>1. N \in Nat
    BY AccountsAssumption
<1>2. b \in [1..N -> Int] /\ b \in [1..N -> Nat] /\ k \in 1..N /\ v \in Int
    BY DEF Accounts
<1>3. SumTo([b EXCEPT ![k] = v], N) = SumTo(b, N) - b[k] + v
    BY <1>1, <1>2, SumOneChange
<1>4. SumTo(b, N) \in Nat /\ b[k] <= SumTo(b, N)
    BY <1>1, <1>2, SumOfNaturals
<1> QED
    BY <1>3, <1>4

\* The vault is deployed with empty books and an empty pool.
LEMMA InitInv == Init => Inv
<1> SUFFICES ASSUME Init PROVE Inv
    OBVIOUS
<1>1. SumTo([a \in Accounts |-> 0], N) = 0
    BY AccountsAssumption, SumOfZeros DEF Accounts
<1>2. TypeOK
    <2>1. /\ wallet \in [Accounts -> Nat]
          /\ balances \in [Accounts -> Nat]
          /\ collateralBalances \in [Accounts -> Nat]
        BY LimitsAssumption DEF Init
    <2>2. /\ held \in Nat
          /\ totalDeposits \in Nat
          /\ totalCollateralCredits \in Nat
          /\ operators \subseteq Accounts
          /\ paused \in BOOLEAN
          /\ owner \in Accounts
          /\ depositCap \in DepositCaps
          /\ maxWithdrawalPerTx \in WithdrawalLimits \union {0}
          /\ maxOperatorTransferPerTx \in TransferLimits \union {0}
        BY DEF Init
    <2>3. pendingOwner \in Addresses
        BY AccountsAssumption DEF Init, Addresses, NoAddress
    <2> QED
        BY <2>1, <2>2, <2>3 DEF TypeOK
<1>3. BooksBalance /\ Solvent
    BY <1>1 DEF Init, BooksBalance, Solvent
<1> QED
    BY <1>2, <1>3 DEF Inv

\* A step that leaves the books and the pool alone keeps them balanced.
LEMMA UntouchedBooks ==
    ASSUME Inv, UNCHANGED <<held, ledger, totals>>
    PROVE  BooksBalance' /\ Solvent'
BY DEF Inv, BooksBalance, Solvent, ledger, totals

\* A deposit adds the same amount to the pool, to one balance and to the running total.
LEMMA DepositInv ==
    ASSUME Inv, NEW sender \in Accounts, NEW amount \in Amounts, NEW fee \in TransferFees,
           Deposit(sender, amount, fee)
    PROVE  Inv'
<1> DEFINE got == amount - fee
<1>1. got \in Nat /\ amount \in Nat
    BY LimitsAssumption DEF Deposit
<1>2. /\ balances' = [balances EXCEPT ![sender] = balances[sender] + got]
      /\ held' = held + got
      /\ totalDeposits' = totalDeposits + got
      /\ wallet' = [wallet EXCEPT ![sender] = wallet[sender] - amount]
      /\ amount <= wallet[sender]
      /\ UNCHANGED <<collateralBalances, totalCollateralCredits, roles, limits, paused>>
    BY DEF Deposit, Credited
<1>3. balances[sender] \in Nat /\ balances \in [Accounts -> Nat]
    BY DEF Inv, TypeOK
<1> HIDE DEF got
<1>4. /\ balances' \in [Accounts -> Nat]
      /\ SumTo(balances', N) = SumTo(balances, N) + got
    <2> DEFINE v == balances[sender] + got
    <2>1. v \in Nat
        BY <1>1, <1>3
    <2>2. balances' = [balances EXCEPT ![sender] = v]
        BY <1>2
    <2>3. v = balances[sender] + got
        OBVIOUS
    <2> HIDE DEF v
    <2>4. /\ balances' \in [Accounts -> Nat]
          /\ SumTo(balances', N) = SumTo(balances, N) - balances[sender] + v
          /\ SumTo(balances, N) \in Nat
        BY <2>1, <2>2, <1>3, OneEntry, ZenonT(60)
    <2>5. balances[sender] \in Int /\ got \in Int /\ v \in Int
        BY <1>1, <1>3, <2>1
    <2> QED
        BY ONLY <2>3, <2>4, <2>5
<1>5. TypeOK'
    BY <1>1, <1>2, <1>4 DEF Inv, TypeOK, roles, limits
<1>6. BooksBalance' /\ Solvent'
    <2>1. SumTo(balances, N) \in Nat
        BY <1>3, OneEntry
    <2> QED
        BY <1>1, <1>2, <1>4, <2>1 DEF Inv, TypeOK, BooksBalance, Solvent
<1> QED
    BY <1>5, <1>6 DEF Inv

\* A withdrawal takes the same amount from the pool, from one balance and from the total.
LEMMA WithdrawInv ==
    ASSUME Inv, NEW sender \in Accounts, NEW amount \in Amounts, Withdraw(sender, amount)
    PROVE  Inv'
<1>1. /\ amount \in Nat
      /\ balances \in [Accounts -> Nat]
      /\ balances[sender] \in Nat
      /\ amount <= balances[sender]
    BY LimitsAssumption DEF Withdraw, Withdrawable, Inv, TypeOK
<1>2. /\ balances' = [balances EXCEPT ![sender] = balances[sender] - amount]
      /\ totalDeposits' = totalDeposits - amount
      /\ held' = held - amount
      /\ amount <= held
      /\ wallet' = [wallet EXCEPT ![sender] = wallet[sender] + amount]
      /\ UNCHANGED <<collateralBalances, totalCollateralCredits, roles, limits, paused>>
    BY DEF Withdraw
<1>3. /\ balances' \in [Accounts -> Nat]
      /\ SumTo(balances', N) = SumTo(balances, N) - amount
      /\ SumTo(balances, N) \in Nat
      /\ balances[sender] <= SumTo(balances, N)
    <2> DEFINE v == balances[sender] - amount
    <2>1. v \in Nat
        BY <1>1
    <2>2. balances' = [balances EXCEPT ![sender] = v]
        BY <1>2
    <2>3. v = balances[sender] - amount
        OBVIOUS
    <2> HIDE DEF v
    <2>4. /\ balances' \in [Accounts -> Nat]
          /\ SumTo(balances', N) = SumTo(balances, N) - balances[sender] + v
          /\ SumTo(balances, N) \in Nat
          /\ balances[sender] <= SumTo(balances, N)
        BY <2>1, <2>2, <1>1, OneEntry, ZenonT(60)
    <2> QED
        BY <1>1, <2>3, <2>4
<1>4. totalDeposits' \in Nat
    BY <1>1, <1>2, <1>3 DEF Inv, BooksBalance
<1>5. TypeOK'
    BY <1>1, <1>2, <1>3, <1>4 DEF Inv, TypeOK, roles, limits
<1>6. BooksBalance' /\ Solvent'
    BY <1>1, <1>2, <1>3 DEF Inv, TypeOK, BooksBalance, Solvent
<1> QED
    BY <1>5, <1>6 DEF Inv

\* USDC sent past the contract only adds to the surplus of the pool.
LEMMA DonateInv ==
    ASSUME Inv, NEW sender \in Accounts, NEW amount \in Amounts, Donate(sender, amount)
    PROVE  Inv'
<1>1. /\ amount \in Nat
      /\ balances \in [Accounts -> Nat]
      /\ SumTo(balances, N) \in Nat
    BY LimitsAssumption, OneEntry DEF Inv, TypeOK
<1>2. TypeOK'
    BY <1>1 DEF Donate, Inv, TypeOK, ledger, totals, roles, limits
<1>3. BooksBalance' /\ Solvent'
    BY <1>1 DEF Donate, Inv, TypeOK, BooksBalance, Solvent, ledger, totals
<1> QED
    BY <1>2, <1>3 DEF Inv

\* Both kinds of transfer: a new ledger with the same totals, and nothing else.
LEMMA SameTotalsInv ==
    ASSUME Inv, NEW l \in NatLedgers, SameTotals(l, Ledger), SetLedger(l),
           UNCHANGED <<money, totals, roles, limits, paused>>
    PROVE  Inv'
<1>1. /\ balances' \in [Accounts -> Nat]
      /\ collateralBalances' \in [Accounts -> Nat]
      /\ SumTo(balances', N) = SumTo(balances, N)
      /\ SumTo(collateralBalances', N) = SumTo(collateralBalances, N)
    BY DEF SetLedger, NatLedgers, SameTotals, Ledger
<1>2. TypeOK'
    BY <1>1 DEF Inv, TypeOK, money, totals, roles, limits
<1>3. BooksBalance' /\ Solvent'
    BY <1>1 DEF Inv, BooksBalance, Solvent, money, totals
<1> QED
    BY <1>2, <1>3 DEF Inv

\* What the two kinds of transfer leave in the ledger.
LEMMA OperatorTransfers ==
    ASSUME Inv, NEW sender \in Accounts,
           \/ \E from, to \in Addresses, amount \in Amounts :
                  InternalTransfer(sender, from, to, amount)
           \/ \E n \in 0..MaxLegs : \E legs \in [1..n -> Legs] :
                  BatchInternalTransfer(sender, legs)
    PROVE  \E l \in NatLedgers :
               /\ SameTotals(l, Ledger)
               /\ SetLedger(l)
               /\ ~paused
               /\ UNCHANGED <<money, totals, roles, limits, paused>>
<1>1. Ledger \in NatLedgers
    BY DEF Inv, TypeOK, Ledger, NatLedgers
<1>2. ASSUME NEW from \in Addresses, NEW to \in Addresses, NEW amount \in Amounts,
             InternalTransfer(sender, from, to, amount)
      PROVE  \E l \in NatLedgers :
                 /\ SameTotals(l, Ledger)
                 /\ SetLedger(l)
                 /\ ~paused
                 /\ UNCHANGED <<money, totals, roles, limits, paused>>
    <2> DEFINE l == Transferred(Ledger, from, to, amount)
    <2>1. l \in NatLedgers /\ SameTotals(l, Ledger)
        BY <1>1, <1>2, LimitsAssumption, TransferredKeepsTotals DEF InternalTransfer
    <2>2. /\ SetLedger(l)
          /\ ~paused
          /\ UNCHANGED <<money, totals, roles, limits, paused>>
        BY <1>2 DEF InternalTransfer
    <2> QED
        BY <2>1, <2>2
<1>3. ASSUME NEW n \in 0..MaxLegs, NEW legs \in [1..n -> Legs],
             BatchInternalTransfer(sender, legs)
      PROVE  \E l \in NatLedgers :
                 /\ SameTotals(l, Ledger)
                 /\ SetLedger(l)
                 /\ ~paused
                 /\ UNCHANGED <<money, totals, roles, limits, paused>>
    <2> DEFINE l == LedgersAlong(legs)[Len(legs)]
    <2>1. n \in Nat /\ LegsAllowed(legs)
        BY <1>3, LimitsAssumption DEF BatchInternalTransfer
    <2>2. l \in NatLedgers /\ SameTotals(l, Ledger)
        BY <1>1, <2>1, LimitsAssumption, BatchKeepsTotals
    <2>3. /\ SetLedger(l)
          /\ ~paused
          /\ UNCHANGED <<money, totals, roles, limits, paused>>
        BY <1>3 DEF BatchInternalTransfer
    <2> HIDE DEF l
    <2> QED
        BY <2>2, <2>3
<1> QED
    BY <1>2, <1>3

\* A collateral credit adds the same amount to one credit and to the total of the credits.
LEMMA CreditInv ==
    ASSUME Inv, NEW sender \in Accounts, NEW trader \in Addresses, NEW amount \in Amounts,
           CreditCollateral(sender, trader, amount)
    PROVE  Inv'
<1>1. /\ amount \in Nat
      /\ trader \in Accounts
      /\ collateralBalances \in [Accounts -> Nat]
      /\ collateralBalances[trader] \in Nat
    <2>1. trader \in Accounts
        BY DEF CreditCollateral, Addresses, Accounts, NoAddress
    <2> QED
        BY <2>1, LimitsAssumption DEF Inv, TypeOK
<1>2. /\ collateralBalances' =
             [collateralBalances EXCEPT ![trader] = collateralBalances[trader] + amount]
      /\ totalCollateralCredits' = totalCollateralCredits + amount
      /\ UNCHANGED <<money, balances, totalDeposits, roles, limits, paused>>
    BY DEF CreditCollateral
<1>3. /\ collateralBalances' \in [Accounts -> Nat]
      /\ SumTo(collateralBalances', N) = SumTo(collateralBalances, N) + amount
    <2> DEFINE v == collateralBalances[trader] + amount
    <2>1. v \in Nat
        BY <1>1
    <2>2. collateralBalances' = [collateralBalances EXCEPT ![trader] = v]
        BY <1>2
    <2>3. v = collateralBalances[trader] + amount
        OBVIOUS
    <2> HIDE DEF v
    <2>4. /\ collateralBalances' \in [Accounts -> Nat]
          /\ SumTo(collateralBalances', N) =
                 SumTo(collateralBalances, N) - collateralBalances[trader] + v
          /\ SumTo(collateralBalances, N) \in Nat
        BY <2>1, <2>2, <1>1, OneEntry, ZenonT(60)
    <2> QED
        BY <1>1, <2>3, <2>4
<1>4. TypeOK'
    BY <1>1, <1>2, <1>3 DEF Inv, TypeOK, money, roles, limits
<1>5. BooksBalance' /\ Solvent'
    BY <1>1, <1>2, <1>3 DEF Inv, TypeOK, BooksBalance, Solvent, money
<1> QED
    BY <1>4, <1>5 DEF Inv

\* A collateral debit takes the same amount from one credit and from the total.
LEMMA DebitInv ==
    ASSUME Inv, NEW sender \in Accounts, NEW trader \in Accounts, NEW amount \in Amounts,
           DebitCollateral(sender, trader, amount)
    PROVE  Inv'
<1>1. /\ amount \in Nat
      /\ collateralBalances \in [Accounts -> Nat]
      /\ collateralBalances[trader] \in Nat
      /\ amount <= collateralBalances[trader]
    BY LimitsAssumption DEF DebitCollateral, Inv, TypeOK
<1>2. /\ collateralBalances' =
             [collateralBalances EXCEPT ![trader] = collateralBalances[trader] - amount]
      /\ totalCollateralCredits' = totalCollateralCredits - amount
      /\ UNCHANGED <<money, balances, totalDeposits, roles, limits, paused>>
    BY DEF DebitCollateral
<1>3. /\ collateralBalances' \in [Accounts -> Nat]
      /\ SumTo(collateralBalances', N) = SumTo(collateralBalances, N) - amount
      /\ SumTo(collateralBalances, N) \in Nat
      /\ collateralBalances[trader] <= SumTo(collateralBalances, N)
    <2> DEFINE v == collateralBalances[trader] - amount
    <2>1. v \in Nat
        BY <1>1
    <2>2. collateralBalances' = [collateralBalances EXCEPT ![trader] = v]
        BY <1>2
    <2>3. v = collateralBalances[trader] - amount
        OBVIOUS
    <2> HIDE DEF v
    <2>4. /\ collateralBalances' \in [Accounts -> Nat]
          /\ SumTo(collateralBalances', N) =
                 SumTo(collateralBalances, N) - collateralBalances[trader] + v
          /\ SumTo(collateralBalances, N) \in Nat
          /\ collateralBalances[trader] <= SumTo(collateralBalances, N)
        BY <2>1, <2>2, <1>1, OneEntry, ZenonT(60)
    <2> QED
        BY <1>1, <2>3, <2>4
<1>4. totalCollateralCredits' \in Nat
    BY <1>1, <1>2, <1>3 DEF Inv, BooksBalance
<1>5. TypeOK'
    BY <1>1, <1>2, <1>3, <1>4 DEF Inv, TypeOK, money, roles, limits
<1>6. BooksBalance' /\ Solvent'
    BY <1>1, <1>2, <1>3 DEF Inv, TypeOK, BooksBalance, Solvent, money
<1> QED
    BY <1>5, <1>6 DEF Inv

\* Administration touches no money, no books and no totals.
LEMMA AdminLeavesMoney ==
    ASSUME NEW sender \in Accounts, AdminStep(sender)
    PROVE  UNCHANGED <<money, ledger, totals>>
BY DEF AdminStep, SetOperator, Pause, Unpause, SetDepositCap, SetMaxWithdrawalPerTx,
       SetMaxOperatorTransferPerTx, TransferOwnership, AcceptOwnership

\* Administration keeps the invariant: it moves no money and keeps its own types.
LEMMA AdminInv ==
    ASSUME Inv, NEW sender \in Accounts, AdminStep(sender)
    PROVE  Inv'
<1>1. UNCHANGED <<money, ledger, totals>>
    BY AdminLeavesMoney
<1>2. BooksBalance' /\ Solvent'
    BY <1>1, UntouchedBooks DEF money
<1>3. TypeOK
    BY DEF Inv
<1>4. /\ operators' \subseteq Accounts
      /\ paused' \in BOOLEAN
      /\ owner' \in Accounts
      /\ pendingOwner' \in Addresses
      /\ depositCap' \in DepositCaps
      /\ maxWithdrawalPerTx' \in WithdrawalLimits \union {0}
      /\ maxOperatorTransferPerTx' \in TransferLimits \union {0}
    <2> USE <1>3 DEF TypeOK, roles, limits
    <2>1. CASE \E operator \in Addresses, status \in BOOLEAN :
                   SetOperator(sender, operator, status)
        BY <2>1 DEF SetOperator, Addresses, Accounts, NoAddress
    <2>2. CASE Pause(sender)
        BY <2>2 DEF Pause
    <2>3. CASE Unpause(sender)
        BY <2>3 DEF Unpause
    <2>4. CASE \E newCap \in DepositCaps : SetDepositCap(sender, newCap)
        BY <2>4 DEF SetDepositCap
    <2>5. CASE \E newMax \in WithdrawalLimits : SetMaxWithdrawalPerTx(sender, newMax)
        BY <2>5 DEF SetMaxWithdrawalPerTx
    <2>6. CASE \E newMax \in TransferLimits : SetMaxOperatorTransferPerTx(sender, newMax)
        BY <2>6 DEF SetMaxOperatorTransferPerTx
    <2>7. CASE \E newOwner \in Addresses : TransferOwnership(sender, newOwner)
        BY <2>7 DEF TransferOwnership
    <2>8. CASE AcceptOwnership(sender)
        BY <2>8, AccountsAssumption DEF AcceptOwnership, Addresses, NoAddress
    <2> QED
        BY <2>1, <2>2, <2>3, <2>4, <2>5, <2>6, <2>7, <2>8 DEF AdminStep
<1>5. TypeOK'
    BY <1>1, <1>3, <1>4 DEF TypeOK, money, ledger, totals
<1> QED
    BY <1>2, <1>5 DEF Inv

-----------------------------------------------------------------------------
\* Every step keeps the inductive invariant: one case per kind of transaction.
LEMMA NextInv ==
    ASSUME Inv, [Next]_vars
    PROVE  Inv'
<1>1. CASE UNCHANGED vars
    BY <1>1 DEF vars, money, ledger, totals, roles, limits, Inv, TypeOK, BooksBalance,
                Solvent
<1>2. CASE Next
    <2>1. PICK sender \in Accounts :
              UserStep(sender) \/ OperatorStep(sender) \/ AdminStep(sender)
        BY <1>2 DEF Next
    <2>2. CASE UserStep(sender)
        BY <2>2, DepositInv, WithdrawInv, DonateInv DEF UserStep
    <2>3. CASE OperatorStep(sender)
        <3>1. CASE \/ \E from, to \in Addresses, amount \in Amounts :
                          InternalTransfer(sender, from, to, amount)
                   \/ \E n \in 0..MaxLegs : \E legs \in [1..n -> Legs] :
                          BatchInternalTransfer(sender, legs)
            <4>1. PICK l \in NatLedgers :
                      /\ SameTotals(l, Ledger)
                      /\ SetLedger(l)
                      /\ UNCHANGED <<money, totals, roles, limits, paused>>
                BY <3>1, OperatorTransfers
            <4> QED
                BY <4>1, SameTotalsInv
        <3>2. CASE \E trader \in Addresses, amount \in Amounts :
                       CreditCollateral(sender, trader, amount)
            BY <3>2, CreditInv
        <3>3. CASE \E trader \in Accounts, amount \in Amounts :
                       DebitCollateral(sender, trader, amount)
            BY <3>3, DebitInv
        <3> QED
            BY <2>3, <3>1, <3>2, <3>3 DEF OperatorStep
    <2>4. CASE AdminStep(sender)
        BY <2>4, AdminInv
    <2> QED
        BY <2>1, <2>2, <2>3, <2>4
<1> QED
    BY <1>1, <1>2

\* The inductive invariant of the vault holds in every reachable state.
THEOREM Invariance == Spec => []Inv
<1>1. Init => Inv
    BY InitInv
<1>2. Inv /\ [Next]_vars => Inv'
    BY NextInv
<1> QED
    BY <1>1, <1>2, PTL DEF Spec

\* Every variable keeps its type: no subtraction of the contract goes below zero.
THEOREM TypeCorrect == Spec => []TypeOK
<1>1. Inv => TypeOK
    BY DEF Inv
<1> QED
    BY <1>1, Invariance, PTL

\* The running totals are the sums of the mappings in every reachable state.
THEOREM BooksAlwaysBalance == Spec => []BooksBalance
<1>1. Inv => BooksBalance
    BY DEF Inv
<1> QED
    BY <1>1, Invariance, PTL

\* The USDC held covers every withdrawable balance in every reachable state.
THEOREM AlwaysSolvent == Spec => []Solvent
<1>1. Inv => Solvent
    BY DEF Inv
<1> QED
    BY <1>1, Invariance, PTL

-----------------------------------------------------------------------------
\* While the vault is paused only donations and administration happen.
THEOREM PauseFreezes == Spec => FrozenWhilePaused
<1>1. ASSUME Inv, [Next]_vars, paused
      PROVE  UNCHANGED <<ledger, totals>> /\ held' >= held
    <2>1. held \in Nat
        BY <1>1 DEF Inv, TypeOK
    <2>2. CASE UNCHANGED vars
        BY <2>1, <2>2 DEF vars, money
    <2>3. CASE Next
        <3>1. PICK sender \in Accounts :
                  UserStep(sender) \/ OperatorStep(sender) \/ AdminStep(sender)
            BY <2>3 DEF Next
        <3>2. CASE UserStep(sender)
            <4>1. PICK amount \in Amounts : Donate(sender, amount)
                BY <3>2, <1>1 DEF UserStep, Deposit, Withdraw
            <4> QED
                BY <4>1, <2>1, LimitsAssumption DEF Donate
        <3>3. CASE OperatorStep(sender)
            BY <3>3, <1>1 DEF OperatorStep, InternalTransfer, BatchInternalTransfer,
                              CreditCollateral, DebitCollateral
        <3>4. CASE AdminStep(sender)
            BY <3>4, <2>1, AdminLeavesMoney DEF money
        <3> QED
            BY <3>1, <3>2, <3>3, <3>4
    <2> QED
        BY <1>1, <2>2, <2>3
<1>2. Inv /\ [Next]_vars =>
          [paused => UNCHANGED <<ledger, totals>> /\ held' >= held]_vars
    BY <1>1
<1> QED
    BY <1>2, Invariance, PTL DEF Spec, FrozenWhilePaused

\* No step takes the deposits past the cap in force.
THEOREM CapAlwaysHolds == Spec => CapHolds
<1> DEFINE Capped == (totalDeposits' > totalDeposits /\ depositCap > 0)
                         => totalDeposits' <= depositCap
<1>1. ASSUME Inv, [Next]_vars
      PROVE  Capped
    <2>1. totalDeposits \in Nat /\ depositCap \in Nat
        BY <1>1, LimitsAssumption DEF Inv, TypeOK
    <2>2. CASE UNCHANGED <<totals>>
        BY <2>1, <2>2 DEF totals
    <2>3. CASE Next
        <3>1. PICK sender \in Accounts :
                  UserStep(sender) \/ OperatorStep(sender) \/ AdminStep(sender)
            BY <2>3 DEF Next
        <3>2. ASSUME NEW amount \in Amounts, NEW fee \in TransferFees,
                     Deposit(sender, amount, fee)
              PROVE  Capped
            <4>1. amount \in Nat /\ fee \in Nat /\ fee <= amount
                BY <3>2, LimitsAssumption DEF Deposit
            <4>2. /\ depositCap > 0 => totalDeposits + amount <= depositCap
                  /\ totalDeposits' = totalDeposits + (amount - fee)
                BY <3>2 DEF Deposit, WithinDepositCap, Credited
            <4> QED
                BY <2>1, <4>1, <4>2
        <3>3. ASSUME NEW amount \in Amounts, Withdraw(sender, amount)
              PROVE  Capped
            <4>1. amount \in Nat /\ amount > 0 /\ totalDeposits' = totalDeposits - amount
                BY <3>3, LimitsAssumption DEF Withdraw
            <4> QED
                BY <2>1, <4>1
        <3>4. ASSUME NEW amount \in Amounts, Donate(sender, amount)
              PROVE  Capped
            BY <3>4, <2>2 DEF Donate
        <3>5. CASE OperatorStep(sender)
            <4>1. UNCHANGED totalDeposits
                BY <3>5 DEF OperatorStep, InternalTransfer, BatchInternalTransfer,
                            CreditCollateral, DebitCollateral, totals
            <4> QED
                BY <4>1, <2>1
        <3>6. CASE AdminStep(sender)
            BY <3>6, <2>2, AdminLeavesMoney
        <3> QED
            BY <3>1, <3>2, <3>3, <3>4, <3>5, <3>6 DEF UserStep
    <2> QED
        BY <1>1, <2>2, <2>3 DEF vars
<1>2. Inv /\ [Next]_vars => [Capped]_vars
    BY <1>1
<1> QED
    BY <1>2, Invariance, PTL DEF Spec, CapHolds

-----------------------------------------------------------------------------
\* Every transaction is a step of custody or changes none of its state: deposits pay
\* in, withdrawals pay out, transfers and batches reallocate.
THEOREM Refinement == Spec => ImplementsCustody
<1>1. Init => Pool!Init
    BY DEF Init, Pool!Init, Pool!Holders, Accounts
<1>2. ASSUME Inv, [Next]_vars
      PROVE  [Pool!Next]_(Pool!vars)
    <2> USE DEF Pool!vars
    <2>1. TypeOK
        BY <1>2 DEF Inv
    <2>2. CASE UNCHANGED <<held, ledger>>
        BY <2>2 DEF ledger
    <2>3. CASE Next
        <3>1. PICK sender \in Accounts :
                  UserStep(sender) \/ OperatorStep(sender) \/ AdminStep(sender)
            BY <2>3 DEF Next
        <3>2. ASSUME NEW amount \in Amounts, NEW fee \in TransferFees,
                     Deposit(sender, amount, fee)
              PROVE  Pool!PayIn(sender)
            <4>1. amount - fee \in Nat /\ held \in Nat
                BY <3>2, <2>1, LimitsAssumption DEF Deposit, TypeOK
            <4>2. /\ held' = held + (amount - fee)
                  /\ balances' = [balances EXCEPT ![sender] = @ + (amount - fee)]
                  /\ UNCHANGED collateralBalances
                BY <3>2 DEF Deposit, Credited
            <4>3. held' >= held /\ held' - held = amount - fee
                BY <4>1, <4>2
            <4> QED
                BY <4>2, <4>3 DEF Pool!PayIn
        <3>3. ASSUME NEW amount \in Amounts, Withdraw(sender, amount)
              PROVE  Pool!PayOut(sender)
            <4>1. amount \in Nat /\ held \in Nat /\ amount <= balances[sender]
                BY <3>3, <2>1, LimitsAssumption DEF Withdraw, Withdrawable, TypeOK
            <4>2. /\ held' = held - amount
                  /\ balances' = [balances EXCEPT ![sender] = @ - amount]
                  /\ UNCHANGED collateralBalances
                BY <3>3 DEF Withdraw
            <4>3. held' <= held /\ held - held' = amount
                BY <4>1, <4>2
            <4> QED
                BY <4>1, <4>2, <4>3 DEF Pool!PayOut
        <3>4. ASSUME NEW amount \in Amounts, Donate(sender, amount)
              PROVE  Pool!Gift
            BY <3>4, <2>1, LimitsAssumption DEF Donate, ledger, Pool!Gift, TypeOK
        <3>5. CASE OperatorStep(sender)
            <4>1. CASE \/ \E from, to \in Addresses, amount \in Amounts :
                              InternalTransfer(sender, from, to, amount)
                       \/ \E n \in 0..MaxLegs : \E legs \in [1..n -> Legs] :
                              BatchInternalTransfer(sender, legs)
                <5>1. PICK l \in NatLedgers :
                          /\ SameTotals(l, Ledger)
                          /\ SetLedger(l)
                          /\ UNCHANGED <<money, totals, roles, limits, paused>>
                    BY <4>1, <1>2, OperatorTransfers
                <5>3. \A b : Pool!SumTo(b, N) = SumTo(b, N)
                    BY DEF Pool!SumTo, SumTo, Pool!PartialSums, PartialSums
                <5>2. Pool!Reallocate
                    BY <5>1, <5>3 DEF Pool!Reallocate, Pool!Holders, Accounts, NatLedgers,
                                SameTotals, SetLedger, Ledger, money
                <5> QED
                    BY <5>2 DEF Pool!Next
            <4>2. ASSUME NEW trader \in Addresses, NEW amount \in Amounts,
                         CreditCollateral(sender, trader, amount)
                  PROVE  Pool!Next
                <5>1. trader \in Accounts /\ amount \in Nat
                    BY <4>2, LimitsAssumption
                       DEF CreditCollateral, Addresses, Accounts, NoAddress
                <5>2. Pool!Grant(trader)
                    BY <4>2, <5>1, <2>1 DEF CreditCollateral, Pool!Grant, TypeOK, money
                <5> QED
                    BY <5>1, <5>2 DEF Pool!Next, Pool!Holders, Accounts
            <4>3. ASSUME NEW trader \in Accounts, NEW amount \in Amounts,
                         DebitCollateral(sender, trader, amount)
                  PROVE  Pool!Next
                <5>1. amount \in Nat
                    BY LimitsAssumption
                <5>2. Pool!Grant(trader)
                    BY <4>3, <5>1, <2>1 DEF DebitCollateral, Pool!Grant, TypeOK, money
                <5> QED
                    BY <5>2 DEF Pool!Next, Pool!Holders, Accounts
            <4> QED
                BY <3>5, <4>1, <4>2, <4>3 DEF OperatorStep
        <3>6. CASE AdminStep(sender)
            BY <3>6, <2>2, AdminLeavesMoney DEF money
        <3> QED
            BY <3>1, <3>2, <3>3, <3>4, <3>5, <3>6
               DEF UserStep, Pool!Next, Pool!Holders, Accounts
    <2> QED
        BY <1>2, <2>2, <2>3 DEF vars, money
<1> QED
    BY <1>1, <1>2, Invariance, PTL DEF Spec, ImplementsCustody, Pool!Spec
=============================================================================
