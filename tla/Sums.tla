-------------------------------- MODULE Sums --------------------------------
(***************************************************************************)
(* Totals over the addresses 1 .. n.  The contracts keep running totals    *)
(* (totalDeposits, openInterestLong, ...) of mappings they cannot iterate  *)
(* over; the properties compare each running total with the sum of its     *)
(* mapping.  And the members of a sequence that are in a set, which is     *)
(* what the programs filter their lists to.  Recursive functions, and not  *)
(* RECURSIVE operators or SelectSeq, so that the modules that use them can *)
(* be proved about.                                                        *)
(***************************************************************************)
EXTENDS Integers, Sequences

\* The running totals of b: s[i] = b[1] + ... + b[i].
PartialSums(b, n) ==
    LET s[i \in 0..n] == IF i = 0 THEN 0 ELSE s[i - 1] + b[i]
    IN  s

\* b[1] + ... + b[n]
SumTo(b, n) == PartialSums(b, n)[n]

\* The members of the sequence s that are in S, in their order.
OnlyIn(s, S) ==
    LET kept[i \in 0..Len(s)] == IF i = 0 THEN <<>>
                                 ELSE IF s[i] \in S THEN Append(kept[i - 1], s[i]) ELSE kept[i - 1]
    IN  kept[Len(s)]
=============================================================================
