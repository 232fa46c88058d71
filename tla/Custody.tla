------------------------------ MODULE Custody -------------------------------
(***************************************************************************)
(* What the vault promises to its depositors, whatever its limits, roles,  *)
(* running totals and transfer algorithm are: there is a pool of USDC, and *)
(* every account has a claim on it and a number of credits that are no     *)
(* claim.  A claim arises when as much enters the pool, ends when as much   *)
(* leaves it, and otherwise only changes hands; credits never become claims.*)
(* PerpVault implements this module.                                       *)
(***************************************************************************)
EXTENDS Sums

CONSTANT N      \* the number of accounts

Holders == 1..N

VARIABLES
    pool,       \* the USDC in custody
    claims,     \* what each holder may take out of it
    credits     \* what each holder may spend inside, and never take out

vars == <<pool, claims, credits>>

Init ==
    /\ pool = 0
    /\ claims = [h \in Holders |-> 0]
    /\ credits = [h \in Holders |-> 0]

\* A holder brings USDC and gets a claim on just what arrived.
PayIn(h) ==
    /\ pool' >= pool
    /\ claims' = [claims EXCEPT ![h] = @ + (pool' - pool)]
    /\ UNCHANGED credits

\* A holder takes USDC out of the pool, within its own claim, which shrinks with it.
PayOut(h) ==
    /\ pool' <= pool
    /\ pool - pool' <= claims[h]
    /\ claims' = [claims EXCEPT ![h] = @ - (pool - pool')]
    /\ UNCHANGED credits

\* Claims change hands, and so do credits, neither in total and neither below zero.
Reallocate ==
    /\ claims' \in [Holders -> Nat]
    /\ credits' \in [Holders -> Nat]
    /\ SumTo(claims', N) = SumTo(claims, N)
    /\ SumTo(credits', N) = SumTo(credits, N)
    /\ UNCHANGED pool

\* A holder's credits are granted or taken back; no claim changes.
Grant(h) ==
    /\ credits'[h] \in Nat
    /\ credits' = [credits EXCEPT ![h] = credits'[h]]
    /\ UNCHANGED <<pool, claims>>

\* USDC arrives that nobody has a claim on.
Gift ==
    /\ pool' > pool
    /\ UNCHANGED <<claims, credits>>

Next ==
    \/ \E h \in Holders : PayIn(h) \/ PayOut(h) \/ Grant(h)
    \/ Reallocate
    \/ Gift

Spec == Init /\ [][Next]_vars
=============================================================================
