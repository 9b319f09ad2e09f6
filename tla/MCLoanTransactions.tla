------------------------- MODULE MCLoanTransactions -------------------------
(***************************************************************************)
(* Instances of LoanTransactions for TLC: one loan of 3 cents, created by  *)
(* transaction c and repaid by r1 (2 cents) and r2 (3 cents), which        *)
(* together exceed the balance; o is a liquidity transaction.              *)
(***************************************************************************)
EXTENDS LoanTransactions, TLC

CONSTANTS c, r1, r2, o, l1

MCKind == [t \in Txs |-> CASE t = c -> "loan_create"
                           [] t \in {r1, r2} -> "loan_repay"
                           [] OTHER -> "other"]
MCLoanOf == [t \in Txs |-> l1]
MCAmount == [t \in Txs |-> CASE t = r1 -> 2 [] t = r2 -> 3 [] OTHER -> 0]
Symmetry == Permutations(Workers)
MCTotal == [l \in Loans |-> 3]
=============================================================================
