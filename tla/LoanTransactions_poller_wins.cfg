\* A poll finalizes the record first.
SPECIFICATION Spec
CONSTANTS
  c = c
  r1 = r1
  r2 = r2
  o = o
  l1 = l1
  NoTx = NoTx
  Txs = {c}
  Loans = {l1}
  Workers = {w1}
  Pollers = {p1}
  Kind <- MCKind
  LoanOf <- MCLoanOf
  Amount <- MCAmount
  Total <- MCTotal
  BatchLimit = 2
  MaxRows = 1
  Regimes = {{"poll"}}
INVARIANTS
  FinalizedIsFollowedUp
