\* Repeated announcements, refusals and every mishap; two workers.
SPECIFICATION FairSpec
CONSTANTS
  Endpoints = {e1, e2}
  Transitions = {t1}
  Callers = {c1, c2}
  Workers = {w1, w2}
  MaxOccurrences = 2
  MaxAttempts = 2
  MaxDispatches <- MCDispatches
  MaxRefusals = 1
  Regimes <- MCRegimes
INVARIANTS
  TypeOK
  OneOpenOccurrence
  AcceptedOnce
PROPERTIES
  RefusalsAreOutlived
CHECK_DEADLOCK FALSE
