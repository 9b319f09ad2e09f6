\* Two loans, and runs of which some fail to load or to credit.
SPECIFICATION FairSpec
CONSTANTS
  l1 = l1
  l2 = l2
  p1 = p1
  p2 = p2
  Loans = {l1, l2}
  Providers = {p1, p2}
  Accruers = {a1}
  Distributors = {d1}
  Daily <- MCDaily
  Shares <- MCShares
  YieldParts = 17
  TicksPerHour = 2
  HoursPerDay = 2
  Created = 1
  MaxTicks = 10
  Regimes = {
    {"load", "credit"},
    {}}
INVARIANTS
  NeverOverpaid
  DaysSlipByHours
PROPERTY
  AccruedIsDistributed
CHECK_DEADLOCK FALSE
