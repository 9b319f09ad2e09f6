\* An answer that ends between two events of a ledger.
SPECIFICATION Spec
CONSTANTS
  s1 = s1
  s2 = s2
  Subjects = {s1, s2}
  Settings <- MCCut
  Workers = {w1}
  Retention = 3
  MaxLedger = 3
  Owed <- MCOwed
INVARIANT
  NothingBelowCursorIsMissing
CHECK_DEADLOCK FALSE
