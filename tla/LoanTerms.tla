------------------------------ MODULE LoanTerms ------------------------------
(***************************************************************************)
(* The money of one loan: the terms LoansService computes, the schedule it *)
(* regenerates for every list, the next payment LoanPresenter shows, the   *)
(* preview of repayLoan and the balance the status checker writes.         *)
(*                                                                         *)
(* Amounts are in tenths of a cent, so that rounding to the cent shows. A  *)
(* product of floats that is exact in the mind may fall short by a hair:   *)
(* then Math.floor takes a cent less, and Math.round lets a tie go down.   *)
(***************************************************************************)
EXTENDS Integers, FiniteSets

CONSTANTS
  Scores,    \* reputation scores of the borrower
  Amounts,   \* amounts asked for
  Terms,     \* numbers of instalments
  Starts,    \* dates of creation: months since a January, and days of them
  Payments,  \* amounts a borrower pays who does not follow the list
  MaxAsked,  \* bound: repayments, unless the list is followed one by one
  Regimes    \* sets of circumstances, one of which a behaviour has

(* "recorded": every repayment leaves a row in loan_payments, as           *)
(* recordPayment would (nothing in src/ calls it); "free": the borrower    *)
(* pays other amounts than the list shows; "overlap": the list is read, and*)
(* repayments are asked for, while one is under way.                       *)
Circumstances == {"recorded", "free", "overlap"}

CENT == 10
MIN_LOAN_REPUTATION_SCORE == 60

VARIABLES
  regime,  \* what may happen in this behaviour; it never changes
  score,   \* the borrower's reputation
  loan,    \* the row of loans, and whether its floors fall short
  paid,    \* rows of loan_payments
  listed,  \* the next payment the borrower has read and not used, or 0
  asked,   \* the repayments under way, each with its preview
  applied  \* history: [count, sum] of the repayments applied, and whether
           \*   each left what its preview had said

vars == <<regime, score, loan, paid, listed, asked, applied>>

NoLoan == [status |-> "none"]

-----------------------------------------------------------------------------
(* Math.round and Math.floor to the cent of num / den.                     *)
roundCents(num, den) == CENT * ((2 * num + CENT * den) \div (2 * CENT * den))
IsTie(num, den) == (2 * num + CENT * den) % (2 * CENT * den) = 0
Rounded(num, den) ==
  {roundCents(num, den)} \cup
    IF IsTie(num, den) THEN {roundCents(num, den) - CENT} ELSE {}

Tiers == {[from |-> 90, maxCredit |-> 5000000, rate |-> 5],
          [from |-> 75, maxCredit |-> 3000000, rate |-> 8],
          [from |-> 60, maxCredit |-> 1500000, rate |-> 9],
          [from |->  0, maxCredit |->  500000, rate |-> 12]}

mapToReputation(s) ==
  CHOOSE t \in Tiers : /\ t.from <= s
                       /\ \A u \in Tiers : u.from <= s => u.from <= t.from

(* The instalment is the floor of total / term.                            *)
monthlyPayment(l) ==
  LET floor == CENT * (l.total \div (l.term * CENT))
  IN  floor - IF l.short THEN CENT ELSE 0
FallsShort(total, term) ==
  {FALSE} \cup IF total % (term * CENT) = 0 /\ total > CENT * term
               THEN {TRUE} ELSE {}

(* The last instalment takes what the others left.                         *)
BugAllTheSame(l, i) == monthlyPayment(l)
amountOf(l, i) ==
  IF i = l.term
  THEN roundCents(l.total - (l.term - 1) * monthlyPayment(l), 1)
  ELSE monthlyPayment(l)

(* setMonth lets a day the month does not have roll into the next month.   *)
MonthLength == <<31, 28, 31, 30, 31, 30, 31, 31, 30, 31, 30, 31>>
FirstOf[m \in 0 .. 24] ==
  IF m = 0 THEN 1 ELSE FirstOf[m - 1] + MonthLength[((m - 1) % 12) + 1]
dueDate(l, i) == FirstOf[l.start.month + i] + l.start.day - 1

-----------------------------------------------------------------------------
(* The next payment: of the instalment after as many as were recorded, and *)
(* of no more than is left.                                                *)
nextPayment(l, k) ==
  LET i == (IF k < l.term THEN k ELSE l.term - 1) + 1
  IN  roundCents(IF amountOf(l, i) < l.balance THEN amountOf(l, i) ELSE l.balance, 1)

TypeOK ==
  /\ regime \in Regimes
  /\ score \in Scores
  /\ \/ loan = NoLoan
     \/ /\ loan.status \in {"pending", "active", "completed"}
        /\ loan.amount \in Amounts /\ loan.term \in Terms /\ loan.start \in Starts
        /\ loan.guarantee \in Nat /\ loan.short \in BOOLEAN
        /\ loan.total \in Nat /\ loan.balance \in 0 .. loan.total
        /\ loan.balance % CENT = 0
  /\ paid \in Nat
  /\ listed \in Nat
  /\ \A a \in asked : a.amount > 0 /\ a.newBalance >= 0
  /\ applied \in [count : Nat, sum : Nat, asPreviewed : BOOLEAN]

Init ==
  /\ regime \in Regimes
  /\ score \in Scores
  /\ loan = NoLoan
  /\ paid = 0
  /\ listed = 0
  /\ asked = {}
  /\ applied = [count |-> 0, sum |-> 0, asPreviewed |-> TRUE]

(* prepareLoanPreview and createLoan; a quote has the same terms and no    *)
(* least score.                                                            *)
Create(amount, term, start) ==
  LET rep == mapToReputation(score)
      loanAmount == roundCents(4 * amount, 5)
      interest == (loanAmount \div CENT) * rep.rate * term  \* 120ths of a tenth
  IN  /\ loan = NoLoan
      /\ score >= MIN_LOAN_REPUTATION_SCORE
      /\ amount <= rep.maxCredit
      /\ \E charged \in Rounded(interest, 120) :
         \E short \in FallsShort(loanAmount + charged, term) :
           loan' = [status |-> "pending", amount |-> amount, term |-> term,
                    start |-> start, guarantee |-> roundCents(amount, 5),
                    loanAmount |-> loanAmount,
                    total |-> loanAmount + charged,
                    balance |-> loanAmount + charged, short |-> short]
      /\ UNCHANGED <<regime, score, paid, listed, asked, applied>>

(* The transaction that creates the loan is confirmed.                     *)
Activate ==
  /\ loan.status = "pending"
  /\ loan' = [loan EXCEPT !.status = "active"]
  /\ UNCHANGED <<regime, score, paid, listed, asked, applied>>

Settled == asked = {}
InOrder == regime \cap {"free", "overlap"} = {}

(* getMyLoans: only an active loan with a balance has a next payment.      *)
ListLoans ==
  /\ loan.status = "active"
  /\ loan.balance > 0
  /\ Settled \/ "overlap" \in regime
  /\ listed = 0
  /\ listed' = nextPayment(loan, paid)
  /\ UNCHANGED <<regime, score, loan, paid, asked, applied>>

Chosen == IF "free" \in regime THEN Payments ELSE {listed} \ {0}

(* repayLoan: no more than is left, with a preview of what will be left.   *)
Repay ==
  /\ loan.status = "active"
  /\ Settled \/ "overlap" \in regime
  /\ InOrder \/ applied.count + Cardinality(asked) < MaxAsked
  /\ \E amount \in Chosen :
       /\ amount <= loan.balance
       /\ \A a \in asked : a.amount # amount
       /\ asked' = asked \cup {[amount |-> amount,
                                newBalance |-> loan.balance - amount]}
  /\ listed' = 0
  /\ UNCHANGED <<regime, score, loan, paid, applied>>

(* applyLoanRepayment: the balance is rounded to the cent and the loan     *)
(* completed at 0.                                                         *)
Apply(a) ==
  /\ a \in asked
  /\ asked' = asked \ {a}
  /\ \E left \in IF loan.balance > a.amount
                THEN Rounded(loan.balance - a.amount, 1) ELSE {0} :
       /\ loan' = [loan EXCEPT !.balance = left,
                               !.status = IF left = 0 THEN "completed" ELSE @]
       /\ applied' = [count |-> applied.count + 1, sum |-> applied.sum + a.amount,
                      asPreviewed |-> applied.asPreviewed /\ left = a.newBalance]
  /\ paid' = paid + IF "recorded" \in regime THEN 1 ELSE 0
  /\ UNCHANGED <<regime, score, listed>>

Next ==
  \/ \E amount \in Amounts, term \in Terms, start \in Starts :
       Create(amount, term, start)
  \/ Activate
  \/ ListLoans
  \/ Repay
  \/ \E a \in asked : Apply(a)

Spec == Init /\ [][Next]_vars

-----------------------------------------------------------------------------
Min2(a, b) == IF a < b THEN a ELSE b
(* The instalments from the i-th on, summed from the last one.             *)
InstalmentsFrom(l, i) ==
  LET Sum[n \in 0 .. l.term] ==
        IF n = 0 THEN 0 ELSE Sum[n - 1] + amountOf(l, l.term + 1 - n)
  IN  Sum[l.term + 1 - i]

(* The terms split a purchase of whole cents between guarantee and loan,   *)
(* and the instalments are a month apart, wherever their dates roll to.    *)
TermsAreWhole ==
  /\ loan.amount % CENT = 0 => loan.guarantee + loan.loanAmount = loan.amount
  /\ dueDate(loan, 1) > FirstOf[loan.start.month] + loan.start.day
  /\ \A i \in 2 .. loan.term :
       dueDate(loan, i) - dueDate(loan, i - 1) \in 28 .. 31

(* A borrower who pays what the list shows, one repayment after the other, *)
(* always owes exactly the instalments still to come, and is through with  *)
(* the last of them. As long as nobody records the repayments the list     *)
(* keeps showing the first instalment, and never more than is left. Each   *)
(* repayment leaves what its preview said. However a borrower pays, no     *)
(* balance falls by more than was paid, but for half a cent of rounding.   *)
InstalmentsLeftAreOwed ==
  loan # NoLoan =>
    /\ TermsAreWhole
    /\ 2 * (loan.total - loan.balance - applied.sum) <= CENT * applied.count
    /\ InOrder =>
         /\ loan.balance =
              IF "recorded" \in regime THEN InstalmentsFrom(loan, paid + 1)
              ELSE loan.total - Min2(loan.total, applied.count * amountOf(loan, 1))
         /\ loan.status = "active" =>
              loan.balance > 0 /\ nextPayment(loan, paid) \in 1 .. loan.balance
         /\ applied.sum = loan.total - loan.balance
         /\ applied.asPreviewed
=============================================================================
