\* Overrides, follow-ups and two detectors on one loan.
SPECIFICATION FairSpec
CONSTANTS
  c = c
  r1 = r1
  r2 = r2
  l1 = l1
  NoLoan = NoLoan
  Loans = {l1}
  Txs = {c, r2}
  Admins = {a1, a2}
  Workers = {w1}
  Detectors = {d1, d2}
  Kind <- MCKind
  LoanOf <- MCLoanOf
  Amount <- MCAmount
  Total <- MCTotal
  Instalment <- MCInstalment
  MaxOverrides = 2
  Regimes = {
    {"override", "crash"},
    {"db", "crash"},
    {"override"}}
INVARIANTS
  TypeOK
  AuditMatchesOverrides
PROPERTIES
  JobsNeverClobber
  EndedStaysEnded
  FollowsMachine
  OverdueIsDefaulted
CHECK_DEADLOCK FALSE
