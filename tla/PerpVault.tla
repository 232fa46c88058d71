----------------------------- MODULE PerpVault ------------------------------
(***************************************************************************)
(* src/contracts/src/PerpVault.sol: the one contract that holds USDC.      *)
(* Traders deposit and withdraw; operators (engine, settlement, collateral  *)
(* manager, insurance fund) move balances inside; an owner sets the roles,  *)
(* the limits and the pause.  Every action is one transaction: it happens   *)
(* whole, or its guard is false and it reverts.  The running totals          *)
(* totalDeposits and totalCollateralCredits are state of their own, as in   *)
(* the contract, which cannot sum a mapping.                                *)
(***************************************************************************)
EXTENDS VaultLedger, Sequences

CONSTANTS
    Supply,         \* USDC outside the vault when it is deployed, per account
    Amounts,        \* the amounts callers ask for
    TransferFees,   \* what the token may keep of a transferFrom (0: plain USDC)
    DepositCaps,    \* the values the owner gives the three limits (0: no limit)
    WithdrawalLimits,
    TransferLimits,
    MaxLegs,        \* the longest batch of transfers
    MaxCredits      \* bound on the credits in circulation

ASSUME LimitsAssumption ==
    /\ Supply \in Nat
    /\ Amounts \subseteq Nat
    /\ TransferFees \subseteq Nat
    /\ DepositCaps \subseteq Nat
    /\ WithdrawalLimits \subseteq Nat
    /\ TransferLimits \subseteq Nat
    /\ MaxLegs \in Nat
    /\ MaxCredits \in Nat

VARIABLES
    wallet,                 \* USDC each account holds outside the vault
    held,                   \* usdc.balanceOf(vault)
    balances,
    collateralBalances,
    totalDeposits,
    totalCollateralCredits,
    operators,              \* the accounts that operators maps to true
    paused,
    owner,
    pendingOwner,
    depositCap,
    maxWithdrawalPerTx,
    maxOperatorTransferPerTx

money == <<wallet, held>>
ledger == <<balances, collateralBalances>>
totals == <<totalDeposits, totalCollateralCredits>>
roles == <<operators, owner, pendingOwner>>
limits == <<depositCap, maxWithdrawalPerTx, maxOperatorTransferPerTx>>
vars == <<money, ledger, totals, roles, limits, paused>>

Ledger == [balances |-> balances, collateralBalances |-> collateralBalances]

-----------------------------------------------------------------------------
\* The constructor: everything zero and unlimited but for the owner and the cap.
Init ==
    /\ wallet = [a \in Accounts |-> Supply]
    /\ held = 0
    /\ balances = [a \in Accounts |-> 0]
    /\ collateralBalances = [a \in Accounts |-> 0]
    /\ totalDeposits = 0
    /\ totalCollateralCredits = 0
    /\ operators = {}
    /\ paused = FALSE
    /\ owner \in Accounts
    /\ pendingOwner = NoAddress
    /\ depositCap \in DepositCaps
    /\ maxWithdrawalPerTx = 0
    /\ maxOperatorTransferPerTx = 0

-----------------------------------------------------------------------------
(* Users *)

WithinDepositCap(amount) == depositCap > 0 => totalDeposits + amount <= depositCap

\* Faulty form of Credited: the token's fee is overlooked.
CreditedAsAsked(amount, fee) == amount

\* What a deposit credits: what arrived, which a fee of the token makes less.
Credited(amount, fee) == amount - fee

\* The cap is checked with the amount asked for, the books move by what arrived.
Deposit(sender, amount, fee) ==
    /\ ~paused
    /\ amount > 0
    /\ WithinDepositCap(amount)
    /\ amount <= wallet[sender]
    /\ fee <= amount
    /\ wallet' = [wallet EXCEPT ![sender] = @ - amount]
    /\ held' = held + (amount - fee)
    /\ balances' = [balances EXCEPT ![sender] = @ + Credited(amount, fee)]
    /\ totalDeposits' = totalDeposits + Credited(amount, fee)
    /\ UNCHANGED <<collateralBalances, totalCollateralCredits, roles, limits, paused>>

\* The most an account can take out in all: its deposits, never its credits.
Withdrawable(a) == balances[a]

Withdraw(sender, amount) ==
    /\ ~paused
    /\ amount > 0
    /\ amount <= Withdrawable(sender)
    /\ maxWithdrawalPerTx > 0 => amount <= maxWithdrawalPerTx
    /\ amount <= held               \* the token's own check
    /\ balances' = [balances EXCEPT ![sender] = @ - amount]
    /\ totalDeposits' = totalDeposits - amount
    /\ held' = held - amount
    /\ wallet' = [wallet EXCEPT ![sender] = @ + amount]
    /\ UNCHANGED <<collateralBalances, totalCollateralCredits, roles, limits, paused>>

\* Anyone may send USDC to the vault's address; no code of the vault runs.
Donate(sender, amount) ==
    /\ amount > 0
    /\ amount <= wallet[sender]
    /\ wallet' = [wallet EXCEPT ![sender] = @ - amount]
    /\ held' = held + amount
    /\ UNCHANGED <<ledger, totals, roles, limits, paused>>

-----------------------------------------------------------------------------
(* Operators *)

Legs == [from : Addresses, to : Addresses, amount : Amounts]

\* The ledger after each prefix of the legs, every leg applied to what the one
\* before it left.
LedgersAlong(legs) ==
    LET after[i \in 0..Len(legs)] ==
            IF i = 0 THEN Ledger
            ELSE Transferred(after[i - 1], legs[i].from, legs[i].to, legs[i].amount)
    IN  after

\* Every leg is acceptable when its turn comes.
LegsAllowed(legs) ==
    \A i \in 1..Len(legs) :
        LegAllowed(LedgersAlong(legs)[i - 1], legs[i].from, legs[i].to, legs[i].amount,
                   maxOperatorTransferPerTx)

SetLedger(l) ==
    /\ balances' = l.balances
    /\ collateralBalances' = l.collateralBalances

\* Faulty form of InternalTransfer: the pause is not looked at.
InternalTransferUnpaused(sender, from, to, amount) ==
    /\ sender \in operators
    /\ LegAllowed(Ledger, from, to, amount, maxOperatorTransferPerTx)
    /\ SetLedger(Transferred(Ledger, from, to, amount))
    /\ UNCHANGED <<money, totals, roles, limits, paused>>

InternalTransfer(sender, from, to, amount) ==
    /\ sender \in operators
    /\ ~paused
    /\ LegAllowed(Ledger, from, to, amount, maxOperatorTransferPerTx)
    /\ SetLedger(Transferred(Ledger, from, to, amount))
    /\ UNCHANGED <<money, totals, roles, limits, paused>>

\* All the legs or none; an empty batch succeeds and does nothing.
BatchInternalTransfer(sender, legs) ==
    /\ sender \in operators
    /\ ~paused
    /\ LegsAllowed(legs)
    /\ SetLedger(LedgersAlong(legs)[Len(legs)])
    /\ UNCHANGED <<money, totals, roles, limits, paused>>

CreditCollateral(sender, trader, amount) ==
    /\ sender \in operators
    /\ ~paused
    /\ amount > 0
    /\ trader # NoAddress
    /\ totalCollateralCredits + amount <= MaxCredits
    /\ collateralBalances' = [collateralBalances EXCEPT ![trader] = @ + amount]
    /\ totalCollateralCredits' = totalCollateralCredits + amount
    /\ UNCHANGED <<money, balances, totalDeposits, roles, limits, paused>>

DebitCollateral(sender, trader, amount) ==
    /\ sender \in operators
    /\ ~paused
    /\ amount > 0
    /\ amount <= collateralBalances[trader]
    /\ collateralBalances' = [collateralBalances EXCEPT ![trader] = @ - amount]
    /\ totalCollateralCredits' = totalCollateralCredits - amount
    /\ UNCHANGED <<money, balances, totalDeposits, roles, limits, paused>>

-----------------------------------------------------------------------------
(* Administration: onlyOwner, but for the second step of a change of owner *)

SetOperator(sender, operator, status) ==
    /\ sender = owner
    /\ operator # NoAddress
    /\ operators' = IF status THEN operators \union {operator} ELSE operators \ {operator}
    /\ UNCHANGED <<money, ledger, totals, owner, pendingOwner, limits, paused>>

Pause(sender) ==
    /\ sender = owner
    /\ ~paused
    /\ paused' = TRUE
    /\ UNCHANGED <<money, ledger, totals, roles, limits>>

Unpause(sender) ==
    /\ sender = owner
    /\ paused
    /\ paused' = FALSE
    /\ UNCHANGED <<money, ledger, totals, roles, limits>>

SetDepositCap(sender, newCap) ==
    /\ sender = owner
    /\ depositCap' = newCap
    /\ UNCHANGED <<money, ledger, totals, roles, maxWithdrawalPerTx,
                   maxOperatorTransferPerTx, paused>>

SetMaxWithdrawalPerTx(sender, newMax) ==
    /\ sender = owner
    /\ maxWithdrawalPerTx' = newMax
    /\ UNCHANGED <<money, ledger, totals, roles, depositCap,
                   maxOperatorTransferPerTx, paused>>

SetMaxOperatorTransferPerTx(sender, newMax) ==
    /\ sender = owner
    /\ maxOperatorTransferPerTx' = newMax
    /\ UNCHANGED <<money, ledger, totals, roles, depositCap, maxWithdrawalPerTx, paused>>

TransferOwnership(sender, newOwner) ==
    /\ sender = owner
    /\ newOwner # NoAddress
    /\ pendingOwner' = newOwner
    /\ UNCHANGED <<money, ledger, totals, operators, owner, limits, paused>>

AcceptOwnership(sender) ==
    /\ sender = pendingOwner
    /\ owner' = sender
    /\ pendingOwner' = NoAddress
    /\ UNCHANGED <<money, ledger, totals, operators, limits, paused>>

-----------------------------------------------------------------------------
UserStep(sender) ==
    \E amount \in Amounts :
        \/ \E fee \in TransferFees : Deposit(sender, amount, fee)
        \/ Withdraw(sender, amount)
        \/ Donate(sender, amount)

OperatorStep(sender) ==
    \/ \E from, to \in Addresses, amount \in Amounts :
           InternalTransfer(sender, from, to, amount)
    \/ \E n \in 0..MaxLegs : \E legs \in [1..n -> Legs] :
           BatchInternalTransfer(sender, legs)
    \/ \E trader \in Addresses, amount \in Amounts :
           CreditCollateral(sender, trader, amount)
    \/ \E trader \in Accounts, amount \in Amounts :
           DebitCollateral(sender, trader, amount)

AdminStep(sender) ==
    \/ \E operator \in Addresses, status \in BOOLEAN : SetOperator(sender, operator, status)
    \/ Pause(sender)
    \/ Unpause(sender)
    \/ \E newCap \in DepositCaps : SetDepositCap(sender, newCap)
    \/ \E newMax \in WithdrawalLimits : SetMaxWithdrawalPerTx(sender, newMax)
    \/ \E newMax \in TransferLimits : SetMaxOperatorTransferPerTx(sender, newMax)
    \/ \E newOwner \in Addresses : TransferOwnership(sender, newOwner)
    \/ AcceptOwnership(sender)

Next == \E sender \in Accounts : UserStep(sender) \/ OperatorStep(sender) \/ AdminStep(sender)

Spec == Init /\ [][Next]_vars

-----------------------------------------------------------------------------
(* Properties *)

\* Every variable holds what its Solidity type allows; no unsigned number is negative.
TypeOK ==
    /\ wallet \in [Accounts -> Nat]
    /\ held \in Nat
    /\ balances \in [Accounts -> Nat]
    /\ collateralBalances \in [Accounts -> Nat]
    /\ totalDeposits \in Nat
    /\ totalCollateralCredits \in Nat
    /\ operators \subseteq Accounts
    /\ paused \in BOOLEAN
    /\ owner \in Accounts
    /\ pendingOwner \in Addresses
    /\ depositCap \in DepositCaps
    /\ maxWithdrawalPerTx \in WithdrawalLimits \union {0}
    /\ maxOperatorTransferPerTx \in TransferLimits \union {0}

\* Each running total is the sum of its mapping, through deposits that lose a fee,
\* transfers to oneself, batches, and transfers that spill from deposits to credits.
BooksBalance ==
    /\ totalDeposits = SumTo(balances, N)
    /\ totalCollateralCredits = SumTo(collateralBalances, N)

\* The USDC held covers every withdrawable balance, so a withdrawal within one's
\* balance never fails for lack of USDC; credits are never part of that claim.
Solvent == held >= SumTo(balances, N)

\* While the vault is paused nobody's balance or credit changes and no USDC leaves,
\* whoever still is an operator and in whatever order the owner acts.
FrozenWhilePaused == [][paused => UNCHANGED <<ledger, totals>> /\ held' >= held]_vars

\* Deposits never grow past the cap that is in force, even when the owner lowered it
\* below what is already deposited.
CapHolds ==
    [][ (totalDeposits' > totalDeposits /\ depositCap > 0)
            => totalDeposits' <= depositCap ]_vars

\* The vault implements custody: USDC and claims enter and leave together, and an
\* operator can only pass claims and credits around.
Pool == INSTANCE Custody WITH
            pool <- held, claims <- balances, credits <- collateralBalances
ImplementsCustody == Pool!Spec
=============================================================================
