--------------------------- MODULE MCLoanInterest ---------------------------
(***************************************************************************)
(* Instances of LoanInterest: loans that earn 3 and 70 units a day, and two *)
(* providers with 2 and 1 shares, so that every day's split is rounded.    *)
(***************************************************************************)
EXTENDS LoanInterest, TLC

CONSTANTS l1, l2, p1, p2

MCDaily == [l \in Loans |-> IF l = l1 THEN 3 ELSE 70]
MCShares == [p \in Providers |-> IF p = p1 THEN 2 ELSE 1]
Symmetry == Permutations(Accruers) \cup Permutations(Distributors)
=============================================================================
