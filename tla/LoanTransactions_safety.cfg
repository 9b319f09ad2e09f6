\* A creation, two repayments that exceed the balance, and every mishap.
SPECIFICATION Spec
CONSTANTS
  c = c
  r1 = r1
  r2 = r2
  o = o
  l1 = l1
  NoTx = NoTx
  Txs = {c, r1, r2}
  Loans = {l1}
  Workers = {w1, w2}
  Pollers = {p1}
  Kind <- MCKind
  LoanOf <- MCLoanOf
  Amount <- MCAmount
  Total <- MCTotal
  BatchLimit = 2
  MaxRows = 3
  Regimes = {
    {"overlap", "timeout", "insert", "horizon", "db", "crash"},
    {"poll", "timeout", "insert", "horizon", "db", "crash"},
    {"overlap", "timeout", "insert", "horizon"},
    {"overlap", "resubmit", "age"},
    {"timeout", "resubmit", "age"},
    {"poll", "overlap"},
    {"unchecked"}}
INVARIANTS
  TypeOK
  RecordAgreesWithChain
  FollowUpOncePerRecord
  ActiveOnlyIfConfirmed
  NeverOverCredited
  BalanceIsOutstanding
  FollowedUpUndisturbed
PROPERTIES
  LoanStatusForward
SYMMETRY Symmetry
