---------------------------- MODULE LoanStatuses ----------------------------
(* The statuses of a loan and the moves AdminService allows between them.  *)
Statuses == {"pending", "active", "completed", "defaulted", "cancelled"}

VALID_LOAN_TRANSITIONS ==
  [s \in Statuses |->
     CASE s = "pending" -> {"active", "cancelled", "completed"}
       [] s = "active" -> {"completed", "defaulted", "cancelled"}
       [] s = "defaulted" -> {"active", "completed"}
       [] OTHER -> {}]
=============================================================================
