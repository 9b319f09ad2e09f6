\* Five kinds of events, two workers and every mishap.
SPECIFICATION Spec
CONSTANTS
  s1 = s1
  s2 = s2
  Subjects = {s1, s2}
  Settings <- MCSafety
  Workers = {w1, w2}
  Retention = 3
  MaxLedger = 4
  Owed <- MCOwed
INVARIANTS
  TypeOK
  CursorIsBehindIndex
  TablesFollowIndex
PROPERTIES
  InChainOrder
SYMMETRY Symmetry
CHECK_DEADLOCK FALSE
