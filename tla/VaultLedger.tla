---------------------------- MODULE VaultLedger -----------------------------
(***************************************************************************)
(* The two mappings of PerpVault and the one algorithm that moves value    *)
(* between accounts.  internalTransfer and every leg of                     *)
(* batchInternalTransfer run it, and so does whatever the engine, the       *)
(* settlement and the insurance fund pay through the vault.                 *)
(*                                                                         *)
(* An account owns withdrawable deposits (balances) and collateral credits *)
(* (collateralBalances), which stand for yield tokens held elsewhere and   *)
(* must never turn into withdrawable USDC.  Addresses are the numbers       *)
(* 1 .. N; 0 is address(0).                                                 *)
(***************************************************************************)
EXTENDS Sums

CONSTANT
    N           \* the number of accounts that hold balances

ASSUME AccountsAssumption == N \in Nat

NoAddress == 0
Accounts == 1..N
Addresses == 0..N

\* The pair of mappings of one vault.
Ledgers == [balances : [Accounts -> Int], collateralBalances : [Accounts -> Int]]

\* A ledger of the running vault: no entry below zero.
NatLedgers == [balances : [Accounts -> Nat], collateralBalances : [Accounts -> Nat]]

\* Two ledgers that hold the same deposits and the same credits in total.
SameTotals(l, m) ==
    /\ SumTo(l.balances, N) = SumTo(m.balances, N)
    /\ SumTo(l.collateralBalances, N) = SumTo(m.collateralBalances, N)

\* What an account may spend on a transfer: deposits and credits together.
Spendable(l, a) == l.balances[a] + l.collateralBalances[a]

\* A leg of a transfer that the vault accepts, under a cap that 0 lifts.
LegAllowed(l, from, to, amount, cap) ==
    /\ amount > 0
    /\ from \in Accounts
    /\ to \in Accounts
    /\ cap > 0 => amount <= cap
    /\ amount <= Spendable(l, from)

\* The part of amount that the deposits of the payer cover; credits give the rest.
FromDeposit(l, from, amount) ==
    IF amount <= l.balances[from] THEN amount ELSE l.balances[from]

\* Faulty form of Moved: the receiver is read before the payer is written.
MovedFromStale(b, from, to, d) == [[b EXCEPT ![from] = @ - d] EXCEPT ![to] = b[to] + d]

\* The books after d is taken from one account of a mapping and given to another.
\* The receiver is read after the payer is written, so paying oneself is neutral.
Moved(b, from, to, d) ==
    LET debited == [b EXCEPT ![from] = b[from] - d]
    IN  [debited EXCEPT ![to] = debited[to] + d]

\* Faulty form of Transferred: what the receiver gets is all deposit.
TransferredAsDeposit(l, from, to, amount) ==
    LET d == FromDeposit(l, from, amount)
        paid == [l EXCEPT !.balances[from] = @ - d, !.collateralBalances[from] = @ - (amount - d)]
    IN  [paid EXCEPT !.balances[to] = @ + amount]

\* The ledger after a leg: deposits go to deposits and credits to credits.
Transferred(l, from, to, amount) ==
    LET d == FromDeposit(l, from, amount)
    IN  [balances |-> Moved(l.balances, from, to, d),
         collateralBalances |-> Moved(l.collateralBalances, from, to, amount - d)]
=============================================================================
