--------------------------- MODULE LoanLifecycle ---------------------------
(***************************************************************************)
(* The writers of loans.status once a loan row exists: the administrator's *)
(* override, the follow-up actions of the status checker and the daily     *)
(* default detector.  Each reads the row, decides, and writes with a call  *)
(* of its own, and the audit trail is written in a later call still.  The  *)
(* LoansRepository of these writers is given no WebhookDispatchService, so *)
(* that dispatchStatusChange returns at once and is no step here.          *)
(*                                                                         *)
(* LoanTransactions shows how a record leads to at most one follow-up; here*)
(* a follow-up is a token that one worker takes.                           *)
(***************************************************************************)
EXTENDS Integers, LoanStatuses

CONSTANTS
  Loans,        \* loan rows
  Txs,          \* transactions with a follow-up
  Kind,         \* Txs -> {"loan_create", "loan_repay"}
  LoanOf,       \* Txs -> Loans
  Amount,       \* Txs -> Nat: cents
  Total,        \* Loans -> Nat: total_repayment, in cents
  Instalment,   \* Loans -> Nat: what the first due date asks for, in cents
  Admins,       \* concurrent override requests
  Workers,      \* status-checker workers
  Detectors,    \* loan-defaults workers, one for each running instance
  MaxOverrides, \* bound: override requests that pass validation
  Regimes,      \* sets of circumstances, one of which a behaviour has
  NoLoan        \* the loan of an idle request or detector

(* "override": administrators intervene; "db": a call fails; "crash": a    *)
(* process dies.                                                           *)
Circumstances == {"override", "db", "crash"}

ASSUME ConstantsAssumption ==
  /\ Kind \in [Txs -> {"loan_create", "loan_repay"}]
  /\ LoanOf \in [Txs -> Loans]
  /\ Amount \in [Txs -> Nat]
  /\ Total \in [Loans -> Nat]
  /\ Instalment \in [Loans -> Nat]
  /\ MaxOverrides \in Nat
  /\ Regimes \subseteq SUBSET Circumstances
  /\ NoLoan \notin Loans \cup Txs

VARIABLES
  regime,    \* what may happen in this behaviour; it never changes
  status,    \* [Loans -> Statuses]: loans.status
  balance,   \* [Loans -> Nat]: loans.remaining_balance
  overdue,   \* loans whose next_payment_due lies three days back
  followUp,  \* [Txs -> ...]: no XDR yet, confirmed, or taken by a worker
  admin,     \* [Admins -> ...]: an override request
  begun,     \* override requests that passed validation
  audits,    \* rows of loan_overrides
  chk,       \* [Workers -> ...]: a worker's follow-up
  claimed,   \* today's row of loan_job_runs exists
  det,       \* [Detectors -> ...]: a run of the detector
  applied,   \* history: overrides written, with the status they replaced
  overtaken, \* history: requests whose loan another changed since they read it
  paid       \* history: cents of repayments applied to each loan

loanVars == <<status, balance, overdue>>
adminVars == <<admin, begun, audits>>
detVars == <<claimed, det>>
history == <<applied, overtaken, paid>>
vars == <<regime, loanVars, followUp, adminVars, chk, detVars, history>>

Idle == [pc |-> "idle", n |-> 0, loan |-> NoLoan,
         from |-> "pending", to |-> "pending"]
Rest == [pc |-> "idle", tx |-> NoLoan, seen |-> "pending", left |-> 0]
Asleep == [pc |-> "idle", todo |-> {}, cur |-> NoLoan]

TypeOK ==
  /\ regime \in Regimes
  /\ status \in [Loans -> Statuses]
  /\ balance \in [Loans -> Nat]
  /\ overdue \subseteq Loans
  /\ followUp \in [Txs -> {"none", "ready", "taken"}]
  /\ admin \in [Admins -> [pc : {"idle", "apply", "audit"},
                           n : 0 .. MaxOverrides, loan : Loans \cup {NoLoan},
                           from : Statuses, to : Statuses]]
  /\ begun \in 0 .. MaxOverrides
  /\ audits \subseteq [n : 1 .. MaxOverrides, loan : Loans,
                       from : Statuses, to : Statuses]
  /\ chk \in [Workers -> [pc : {"idle", "write"}, tx : Txs \cup {NoLoan},
                          seen : Statuses, left : Nat]]
  /\ claimed \in BOOLEAN
  /\ det \in [Detectors -> [pc : {"idle", "select", "mark", "chain"},
                            todo : SUBSET Loans, cur : Loans \cup {NoLoan}]]
  /\ applied \subseteq [n : 1 .. MaxOverrides, loan : Loans, from : Statuses,
                        to : Statuses, was : Statuses]
  /\ overtaken \subseteq 1 .. MaxOverrides
  /\ paid \in [Loans -> Nat]

Init ==
  /\ regime \in Regimes
  /\ status = [l \in Loans |-> "pending"]
  /\ balance = Total
  /\ overdue = {}
  /\ followUp = [t \in Txs |-> "none"]
  /\ admin = [a \in Admins |-> Idle]
  /\ begun = 0
  /\ audits = {}
  /\ chk = [w \in Workers |-> Rest]
  /\ claimed = FALSE
  /\ det = [d \in Detectors |-> Asleep]
  /\ applied = {}
  /\ overtaken = {}
  /\ paid = [l \in Loans |-> 0]

(* The requests that have validated a change of l and not written it yet.  *)
Waiting(l) ==
  {admin[a].n : a \in {b \in Admins : admin[b].pc = "apply" /\ admin[b].loan = l}}

(* loans.status becomes `to`: requests that wait, but for the one that makes*)
(* the change, are overtaken if that is another status.                    *)
SetStatus(l, to, own) ==
  /\ status' = [status EXCEPT ![l] = to]
  /\ overtaken' = IF to = status[l] THEN overtaken
                  ELSE overtaken \cup (Waiting(l) \ own)

-----------------------------------------------------------------------------
(* The world: what has a follow-up, and the calendar.                      *)

(* A loan's creation is confirmed, or a repayment that was built while the *)
(* loan was active: the checker may follow up from now on, at any time.    *)
Confirm(t) ==
  LET l == LoanOf[t] IN
  /\ followUp[t] = "none"
  /\ Kind[t] = "loan_repay" => status[l] = "active" /\ Amount[t] <= balance[l]
  /\ followUp' = [followUp EXCEPT ![t] = "ready"]
  /\ UNCHANGED <<regime, loanVars, adminVars, chk, detVars, history>>

(* Three days after next_payment_due, which nothing ever moves.            *)
FallOverdue(l) ==
  /\ overdue' = overdue \cup {l}
  /\ UNCHANGED <<regime, status, balance, followUp, adminVars, chk, detVars,
                 history>>

(* The next UTC day: runs are over long before, as there is one at 9 AM.   *)
NewDay ==
  /\ \A d \in Detectors : det[d].pc = "idle"
  /\ claimed' = FALSE
  /\ UNCHANGED <<regime, loanVars, followUp, adminVars, chk, det, history>>

-----------------------------------------------------------------------------
(* overrideLoan.                                                           *)

BugAnyTarget(s) == Statuses \ {s}
Targets(s) == VALID_LOAN_TRANSITIONS[s]

(* The loan is read and the target validated.                              *)
AdminRead(a, l, to) ==
  /\ "override" \in regime
  /\ admin[a].pc = "idle"
  /\ begun < MaxOverrides
  /\ to \in Targets(status[l])
  /\ begun' = begun + 1
  /\ admin' = [admin EXCEPT ![a] =
       [pc |-> "apply", n |-> begun + 1, loan |-> l, from |-> status[l],
        to |-> to]]
  /\ UNCHANGED <<regime, loanVars, followUp, audits, chk, detVars, history>>

(* applyLoanOverride: by id, whatever the status now is.                   *)
BugForgetsRest == "idle"
AfterApply == "audit"

AdminApply(a) ==
  LET l == admin[a].loan
      to == admin[a].to
  IN
  /\ admin[a].pc = "apply"
  /\ SetStatus(l, to, {admin[a].n})
  /\ balance' = IF to = "completed" THEN [balance EXCEPT ![l] = 0] ELSE balance
  /\ applied' = applied \cup {[n |-> admin[a].n, loan |-> l,
                               from |-> admin[a].from, to |-> to,
                               was |-> status[l]]}
  /\ admin' = [admin EXCEPT ![a].pc = AfterApply]
  /\ UNCHANGED <<regime, overdue, followUp, begun, audits, chk, detVars, paid>>

(* recordOverride.                                                         *)
AdminAudit(a) ==
  /\ admin[a].pc = "audit"
  /\ audits' = audits \cup {[n |-> admin[a].n, loan |-> admin[a].loan,
                             from |-> admin[a].from, to |-> admin[a].to]}
  /\ admin' = [admin EXCEPT ![a] = Idle]
  /\ UNCHANGED <<regime, loanVars, followUp, begun, chk, detVars, history>>

(* A call fails, or the process dies, between two of them.                 *)
AdminAborts(a) ==
  /\ regime \cap {"db", "crash"} # {}
  /\ admin[a].pc # "idle"
  /\ admin' = [admin EXCEPT ![a] = Idle]
  /\ UNCHANGED <<regime, loanVars, followUp, begun, audits, chk, detVars,
                 history>>

-----------------------------------------------------------------------------
(* The follow-up of a claimed success, as in LoanTransactions.  A further  *)
(* read of the row (findWebhookContext) comes before the write: a call that*)
(* may fail, and of which nothing is used.                                 *)

BugNegative(b, a) == b - a
Repaid(b, a) == IF a <= b THEN b - a ELSE 0

(* The worker has claimed the record and reads the loan.                   *)
TakeFollowUp(w, t) ==
  LET l == LoanOf[t] IN
  /\ chk[w].pc = "idle"
  /\ followUp[t] = "ready"
  /\ followUp' = [followUp EXCEPT ![t] = "taken"]
  /\ chk' = IF Kind[t] = "loan_create" /\ status[l] # "pending"
            THEN chk
            ELSE [chk EXCEPT ![w] =
                   [Rest EXCEPT !.pc = "write", !.tx = t, !.seen = status[l],
                                !.left = Repaid(balance[l], Amount[t])]]
  /\ UNCHANGED <<regime, loanVars, adminVars, detVars, history>>

(* updateStatus(..., 'active', 'pending').                                 *)
BugNoCondition(s) == TRUE
StillPending(s) == s = "pending"

Activate(w) ==
  LET l == LoanOf[chk[w].tx] IN
  /\ chk[w].pc = "write"
  /\ Kind[chk[w].tx] = "loan_create"
  /\ SetStatus(l, IF StillPending(status[l]) THEN "active" ELSE status[l], {})
  /\ chk' = [chk EXCEPT ![w] = Rest]
  /\ UNCHANGED <<regime, balance, overdue, followUp, adminVars, detVars,
                 applied, paid>>

(* updateByLoanIdAndWallet: the status is in the payload only if the       *)
(* repayment clears a loan that was not read as completed.                 *)
Completes(w) == chk[w].left = 0 /\ chk[w].seen # "completed"

ApplyLoanRepayment(w) ==
  LET t == chk[w].tx
      l == LoanOf[t]
  IN
  /\ chk[w].pc = "write"
  /\ Kind[t] = "loan_repay"
  /\ balance' = [balance EXCEPT ![l] = chk[w].left]
  /\ SetStatus(l, IF Completes(w) THEN "completed" ELSE status[l], {})
  /\ paid' = [paid EXCEPT ![l] = @ + Amount[t]]
  /\ chk' = [chk EXCEPT ![w] = Rest]
  /\ UNCHANGED <<regime, overdue, followUp, adminVars, detVars, applied>>

(* A failed call ends the follow-up with a log line; so does a crash.      *)
FollowUpFails(w) ==
  /\ regime \cap {"db", "crash"} # {}
  /\ chk[w].pc # "idle"
  /\ chk' = [chk EXCEPT ![w] = Rest]
  /\ UNCHANGED <<regime, loanVars, followUp, adminVars, detVars, history>>

-----------------------------------------------------------------------------
(* loan-default-detector: one run of process().                            *)

RunIsFree == ~claimed

(* claimRun: the insert succeeds for one worker a day.                     *)
ClaimRun(d) ==
  /\ det[d].pc = "idle"
  /\ RunIsFree
  /\ claimed' = TRUE
  /\ det' = [det EXCEPT ![d].pc = "select"]
  /\ UNCHANGED <<regime, loanVars, followUp, adminVars, chk, history>>

BugWrongDirection == {l \in Loans \ overdue : status[l] = "active"}
OverdueLoans == {l \in overdue : status[l] = "active"}

SelectOverdue(d) ==
  /\ det[d].pc = "select"
  /\ det' = [det EXCEPT ![d].pc = "mark", ![d].todo = OverdueLoans]
  /\ UNCHANGED <<regime, loanVars, followUp, adminVars, chk, claimed, history>>

(* UPDATE ... WHERE id = ... AND status = 'active'.                        *)
BugAnyStatus(s) == TRUE
StillActive(s) == s = "active"

MarkDefaulted(d, l) ==
  /\ det[d].pc = "mark"
  /\ l \in det[d].todo
  /\ SetStatus(l, IF StillActive(status[l]) THEN "defaulted" ELSE status[l], {})
  /\ det' = [det EXCEPT ![d].pc = "chain", ![d].cur = l, ![d].todo = @ \ {l}]
  /\ UNCHANGED <<regime, balance, overdue, followUp, adminVars, chk, claimed,
                 applied, paid>>

(* The update of one loan fails and the run goes on with the next.         *)
MarkFails(d, l) ==
  /\ "db" \in regime
  /\ det[d].pc = "mark"
  /\ l \in det[d].todo
  /\ det' = [det EXCEPT ![d].todo = @ \ {l}]
  /\ UNCHANGED <<regime, loanVars, followUp, adminVars, chk, claimed, history>>

(* creditLine.markDefault: called whether or not a row was updated.  It    *)
(* simulates the call and submits nothing, so Stellar sees no change.      *)
MarkDefaultOnChain(d) ==
  /\ det[d].pc = "chain"
  /\ det' = [det EXCEPT ![d].pc = "mark", ![d].cur = NoLoan]
  /\ UNCHANGED <<regime, loanVars, followUp, adminVars, chk, claimed, history>>

FinishRun(d) ==
  /\ det[d].pc = "mark"
  /\ det[d].todo = {}
  /\ det' = [det EXCEPT ![d] = Asleep]
  /\ UNCHANGED <<regime, loanVars, followUp, adminVars, chk, claimed, history>>

(* The selection fails, or the process dies: the day stays claimed.        *)
RunAborts(d) ==
  /\ \/ "db" \in regime /\ det[d].pc = "select"
     \/ "crash" \in regime /\ det[d].pc # "idle"
  /\ det' = [det EXCEPT ![d] = Asleep]
  /\ UNCHANGED <<regime, loanVars, followUp, adminVars, chk, claimed, history>>

-----------------------------------------------------------------------------
World ==
  \/ \E t \in Txs : Confirm(t)
  \/ \E l \in Loans : FallOverdue(l)
  \/ NewDay
Override(a) ==
  \/ \E l \in Loans, to \in Statuses : AdminRead(a, l, to)
  \/ AdminApply(a)
  \/ AdminAudit(a)
  \/ AdminAborts(a)
FollowUp(w) ==
  \/ \E t \in Txs : TakeFollowUp(w, t)
  \/ Activate(w)
  \/ ApplyLoanRepayment(w)
  \/ FollowUpFails(w)
Detection(d) ==
  \/ ClaimRun(d)
  \/ SelectOverdue(d)
  \/ \E l \in Loans : MarkDefaulted(d, l) \/ MarkFails(d, l)
  \/ MarkDefaultOnChain(d)
  \/ FinishRun(d)
  \/ RunAborts(d)

Next ==
  \/ World
  \/ \E a \in Admins : Override(a)
  \/ \E w \in Workers : FollowUp(w)
  \/ \E d \in Detectors : Detection(d)

Spec == Init /\ [][Next]_vars

(***************************************************************************)
(* Days pass and BullMQ starts the detector on each; a run only waits for  *)
(* its own calls.  Failures are transient: a selection or an update that   *)
(* could be made again and again succeeds at some point.                   *)
(***************************************************************************)
Fairness ==
  /\ WF_vars(NewDay)
  /\ \A d \in Detectors : WF_vars(Detection(d))
  /\ WF_vars(\E d \in Detectors : ClaimRun(d))
  /\ SF_vars(\E d \in Detectors : SelectOverdue(d))
  /\ \A l \in Loans : SF_vars(\E d \in Detectors : MarkDefaulted(d, l))

FairSpec == Spec /\ Fairness

-----------------------------------------------------------------------------
(* The audit trail and the overrides agree: every row tells of an override *)
(* that was validated and written, no request leaves two rows, and the     *)
(* previous_status of a row is the status that its override replaced,      *)
(* unless another writer changed the loan between the request's read and   *)
(* its write.  As long as no call fails and no process dies, every override*)
(* is in the trail or its request is on its way.                           *)
AuditMatchesOverrides ==
  /\ \A x \in audits :
       /\ x.to \in VALID_LOAN_TRANSITIONS[x.from]
       /\ \E y \in applied :
            /\ y.n = x.n /\ y.loan = x.loan /\ y.from = x.from /\ y.to = x.to
            /\ y.was = x.from \/ x.n \in overtaken
       /\ \A z \in audits : z.n = x.n => z = x
  /\ regime \cap {"db", "crash"} = {} => \A y \in applied :
       \/ \E x \in audits : x.n = y.n
       \/ \E a \in Admins : admin[a].n = y.n /\ admin[a].pc = "audit"

(* A worker writes that its repayment has cleared l.                       *)
Clears(w, l) ==
  /\ chk[w].pc = "write" /\ chk'[w].pc = "idle"
  /\ Kind[chk[w].tx] = "loan_repay" /\ LoanOf[chk[w].tx] = l
  /\ Completes(w)
  /\ status'[l] = "completed" /\ balance'[l] = 0

(* An administrator's request writes its status to l.                      *)
Overrides(a, l) ==
  /\ admin[a].pc = "apply" /\ admin'[a].pc # "apply"
  /\ admin[a].loan = l /\ status'[l] = admin[a].to

(* However long ago they read the loan, the activation and the detector    *)
(* overwrite no status but the one they rely on.  That cannot be said of   *)
(* the two others: a repayment that clears the balance writes completed    *)
(* over whatever is there, and an administrator the status asked for.      *)
JobsNeverClobber ==
  [][\A l \in Loans : status'[l] # status[l] =>
       \/ <<status[l], status'[l]>> \in
            {<<"pending", "active">>, <<"active", "defaulted">>}
       \/ \E w \in Workers : Clears(w, l)
       \/ \E a \in Admins : Overrides(a, l)]_vars

(* A loan that is completed or cancelled, which the state machine says is  *)
(* final, stays so whatever the jobs and administrators have read before:  *)
(* but for a repayment that was built before the loan was cancelled and now*)
(* clears it, and for an override that was validated before another writer *)
(* brought the loan there.                                                 *)
EndedStaysEnded ==
  [][\A l \in Loans :
       VALID_LOAN_TRANSITIONS[status[l]] = {} /\ status'[l] # status[l] =>
         \/ status[l] = "cancelled" /\ \E w \in Workers : Clears(w, l)
         \/ \E a \in Admins : Overrides(a, l) /\ admin[a].n \in overtaken]_vars

(* While no administrator intervenes, what the status checker and the      *)
(* detector do to a loan, in any order, is what the state machine allows:  *)
(* it moves with loans.status, and stands still for other behaviours.      *)
Unaided ==
  IF "override" \in regime THEN [l \in Loans |-> "pending"] ELSE status
Machine == INSTANCE LoanMachine WITH status <- Unaided
FollowsMachine == Machine!Spec

(* The detector leaves alone a loan whose borrower has paid what the due   *)
(* date it looks at asked for.                                             *)
PaidUpNotDefaulted ==
  [][\A l \in Loans, d \in Detectors :
       /\ status[l] = "active"
       /\ status'[l] = "defaulted"
       /\ det'[d].cur = l
       => paid[l] < Instalment[l]]_vars

(* An active loan that is overdue does not stay active.                    *)
OverdueIsDefaulted ==
  \A l \in Loans :
    (l \in overdue /\ status[l] = "active") ~> status[l] # "active"
=============================================================================
