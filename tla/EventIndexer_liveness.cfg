\* Outages, crashes and lost cursors, all transient.
SPECIFICATION FairSpec
CONSTANTS
  s1 = s1
  s2 = s2
  Subjects = {s1, s2}
  Settings <- MCLiveness
  Workers = {w1}
  Retention = 2
  MaxLedger = 4
  Owed <- MCOwed
PROPERTY
  EmittedIsIndexed
CHECK_DEADLOCK FALSE
