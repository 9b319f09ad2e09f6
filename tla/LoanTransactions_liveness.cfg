\* Everything that may delay a confirmed transaction.
SPECIFICATION FairSpec
CONSTANTS
  c = c
  r1 = r1
  r2 = r2
  o = o
  l1 = l1
  NoTx = NoTx
  Txs = {c, o}
  Loans = {l1}
  Workers = {w1}
  Pollers = {p1}
  Kind <- MCKind
  LoanOf <- MCLoanOf
  Amount <- MCAmount
  Total <- MCTotal
  BatchLimit = 1
  MaxRows = 2
  Regimes = {
    {"poll", "horizon", "db", "crash"},
    {"timeout", "insert", "horizon"},
    {"unchecked", "horizon"}}
PROPERTIES
  ConfirmedIsFinalized
  ConfirmedLoanIsActivated
