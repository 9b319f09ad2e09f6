-------------------------- MODULE MCLoanLifecycle ---------------------------
(***************************************************************************)
(* Instances of LoanLifecycle: a loan of 3 cents, created by c and repaid  *)
(* by r1 (2 cents) and r2 (3 cents); the first due date asks for 1.        *)
(***************************************************************************)
EXTENDS LoanLifecycle, TLC

CONSTANTS c, r1, r2, l1

MCKind == [t \in Txs |-> IF t = c THEN "loan_create" ELSE "loan_repay"]
MCLoanOf == [t \in Txs |-> l1]
MCAmount == [t \in Txs |-> CASE t = r1 -> 2 [] t = r2 -> 3 [] OTHER -> 0]
MCTotal == [l \in Loans |-> 3]
MCInstalment == [l \in Loans |-> 1]
Symmetry ==
  Permutations(Admins) \cup Permutations(Workers) \cup Permutations(Detectors)
=============================================================================
