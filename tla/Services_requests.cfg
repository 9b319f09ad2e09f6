\* Eight services, one at a time.
SPECIFICATION Spec
CONSTANTS
  Regimes <- MCRegimes
  Requests = {q1, q2}
  Wallets = {b1}
  MaxApplications = 2
  Devices = {d1, d2}
  TokenLife = 2
  SessionTime = 4
  MaxLogins = 2
  Signers = {b1, b2}
  NonceLife = 1
  MaxNonces = 2
  SignInTime = 3
  MaxSignIns = 3
  Processes = {p1, p2}
  Home = p1
  Keys = {k1}
  Scores = {59, 60}
  HotTtl = 1
  WarmTtl = 2
  KeyTtl = 2
  LoanTime = 4
  MaxLoans = 2
  MaxScores = 2
  Ratings = {59, 60, 90}
  Amounts = {1000, 10015, 777770, 5000000}
  Terms = {1, 3, 7, 12}
  Starts <- MCStarts
  Payments = {10, 3335, 400004}
  MaxAsked = 3
  Merchants = {"m1", "m2", "m3"}
  Sales = {"x", "y"}
  Volume <- MCVolume
  Created <- MCCreated
  Today = {23, 25}
  Metrics = {"volume", "score", "listed"}
  Limits = {2, 3}
  Pools <- MCPools
  Quoted = {1, 3}
  MinDeposit = 3
  FeeBps = 3000
  MaxTotal = 15
  MaxMoves = 1
  Loans = {l1}
  Workers = {w1, w2}
  FirstDue <- MCFirstDue
  MaxDay = 5
  MaxRuns = 2
SYMMETRY Symmetry
INVARIANTS
  TypeOK
  MerchantsMatchApprovals
  HolderIsNotLockedOut
  NonceSignsInOnce
  KeyCreatesOneLoan
  PricedFresh
  InstalmentsLeftAreOwed
  MerchantFiguresAgree
  QuotesComeFromThePool
  OneReminderADay
CHECK_DEADLOCK FALSE
