---------------------------- MODULE LoanMachine ----------------------------
(***************************************************************************)
(* The state machine that a loan's status is meant to follow, the one      *)
(* AdminService spells out: what every writer of loans.status is held to.  *)
(***************************************************************************)
EXTENDS LoanStatuses
CONSTANT Loans
VARIABLE status

Init == status = [l \in Loans |-> "pending"]

Move(l) ==
  \E to \in VALID_LOAN_TRANSITIONS[status[l]] :
    status' = [status EXCEPT ![l] = to]

Next == \E l \in Loans : Move(l)

Spec == Init /\ [][Next]_status
=============================================================================
