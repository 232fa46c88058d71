----------------------------- MODULE EngineMath -----------------------------
(***************************************************************************)
(* The arithmetic of PerpEngine.sol: 256-bit integers, every division       *)
(* rounded toward zero as the EVM does.  The three scale factors are        *)
(* parameters so that small instances still round.                          *)
(***************************************************************************)
EXTENDS Sums, Sequences

CONSTANTS
    BPS,                \* 10_000 in the code
    SIZE_PRECISION,     \* 1e8
    FUNDING_PRECISION   \* 1e18

ASSUME ScalesAssumption ==
    /\ BPS \in Nat \ {0}
    /\ SIZE_PRECISION \in Nat \ {0}
    /\ FUNDING_PRECISION \in Nat \ {0}

Abs(x) == IF x >= 0 THEN x ELSE -x
SameSign(x, y) == (x > 0 /\ y > 0) \/ (x < 0 /\ y < 0)
Least(x, y) == IF x <= y THEN x ELSE y
Excess(x, y) == IF x > y THEN x - y ELSE 0
Clamped(x, bound) == IF x > bound THEN bound ELSE IF x < -bound THEN -bound ELSE x

\* Signed division as the EVM does it; d > 0.
Quotient(x, d) == IF x >= 0 THEN x \div d ELSE -((-x) \div d)

\* price * absSize / SIZE_PRECISION
Notional(price, absSize) == (price * absSize) \div SIZE_PRECISION

\* (exit - entry) * size / SIZE_PRECISION
Pnl(entry, exit, size) == Quotient((exit - entry) * size, SIZE_PRECISION)

\* Faulty form of AverageEntry: the price of the first trade stays.
FirstEntry(entry, absSize, price, absDelta) == entry

\* Quantity-weighted entry price of a position and what is added to it.
AverageEntry(entry, absSize, price, absDelta) ==
    (entry * absSize + price * absDelta) \div (absSize + absDelta)

(***************************************************************************)
(* Margin over brackets: the part of the notional that falls in tier i pays *)
(* the rate of tier i.  A tier with maxNotional 0 has no end, and the loop  *)
(* never goes past it; notional above a last tier that has an end pays       *)
(* nothing.                                                                 *)
(***************************************************************************)
TierFloor(tiers, i) == IF i = 1 THEN 0 ELSE tiers[i - 1].maxNotional

TierNotional(tiers, i, notional) ==
    IF \E j \in 1..i - 1 : tiers[j].maxNotional = 0
    THEN 0
    ELSE LET above == Excess(notional, TierFloor(tiers, i))
         IN  IF tiers[i].maxNotional = 0
             THEN above
             ELSE Least(above, tiers[i].maxNotional - TierFloor(tiers, i))

TieredMargin(tiers, notional, isInitial) ==
    SumTo([i \in 1..Len(tiers) |->
              (TierNotional(tiers, i, notional)
                  * (IF isInitial THEN tiers[i].initialMarginBps
                                  ELSE tiers[i].maintenanceMarginBps)) \div BPS],
          Len(tiers))

\* What setMarginTiers accepts.
TiersValid(tiers) ==
    /\ \A i \in 1..Len(tiers) :
           /\ tiers[i].initialMarginBps \in 1..BPS
           /\ tiers[i].maintenanceMarginBps \in 1..tiers[i].initialMarginBps - 1
    /\ \A i \in 2..Len(tiers) :
           tiers[i].maxNotional # 0 => tiers[i].maxNotional > tiers[i - 1].maxNotional
=============================================================================
