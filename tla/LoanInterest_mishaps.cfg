\* Overlapping, late and half-finished runs.
SPECIFICATION Spec
CONSTANTS
  l1 = l1
  l2 = l2
  p1 = p1
  p2 = p2
  Loans = {l1}
  Providers = {p1}
  Accruers = {a1, a2}
  Distributors = {d1}
  Daily <- MCDaily
  Shares <- MCShares
  YieldParts = 17
  TicksPerHour = 2
  HoursPerDay = 2
  Created = 1
  MaxTicks = 9
  Regimes = {
    {"outage", "load", "credit", "checkpoint", "crash"}}
INVARIANTS
  TypeOK
  NeverOvercharged
SYMMETRY Symmetry
CHECK_DEADLOCK FALSE
