\* A borrower who has paid the first instalment.
SPECIFICATION Spec
CONSTANTS
  c = c
  r1 = r1
  r2 = r2
  l1 = l1
  NoLoan = NoLoan
  Loans = {l1}
  Txs = {c, r1}
  Admins = {a1}
  Workers = {w1}
  Detectors = {d1}
  Kind <- MCKind
  LoanOf <- MCLoanOf
  Amount <- MCAmount
  Total <- MCTotal
  Instalment <- MCInstalment
  MaxOverrides = 0
  Regimes = {{}}
PROPERTY
  PaidUpNotDefaulted
CHECK_DEADLOCK FALSE
