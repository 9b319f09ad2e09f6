------------------------------ MODULE Services ------------------------------
(***************************************************************************)
(* Eight services that share no state of their own, side by side.  A       *)
(* behaviour exercises one of them, named by service, and leaves the others*)
(* as they are.                                                            *)
(***************************************************************************)
EXTENDS Integers, Sequences, FiniteSets

CONSTANTS
  Regimes,                              \* [Names -> ...]: those of each service
  Requests,                             \* requests to any of them
  Wallets, MaxApplications,                                    \* Accounts
  Devices, TokenLife, SessionTime, MaxLogins,                  \* Sessions
  Signers, NonceLife, MaxNonces, SignInTime, MaxSignIns,       \* SignIn
  Processes, Home, Keys, Scores, HotTtl, WarmTtl, KeyTtl,      \* LoanRequests
  LoanTime, MaxLoans, MaxScores,
  Ratings, Amounts, Terms, Starts, Payments, MaxAsked,         \* LoanTerms
  Merchants, Sales, Volume, Created, Today, Metrics, Limits,   \* MerchantStats
  Pools, Quoted, MinDeposit, FeeBps, MaxTotal, MaxMoves,       \* Liquidity
  Loans, Workers, FirstDue, MaxDay, MaxRuns                    \* Reminders

(* Times to live are positive, but for that of a key, which may be nothing;*)
(* a score is one that a contract may announce.                            *)
LoanRequestConstants ==
  /\ LoanTime \in Nat \ {0} /\ MaxLoans \in Nat
  /\ HotTtl \in Nat \ {0} /\ WarmTtl \in Nat \ {0} /\ KeyTtl \in Nat
  /\ Scores \subseteq 0 .. 100
(* There are as many verifications as there are requests.                  *)
SignInConstants ==
  /\ SignInTime \in Nat \ {0} /\ NonceLife \in Nat /\ MaxNonces \in Nat
  /\ MaxSignIns \in Nat /\ IsFiniteSet(Requests)
(* Scores are those of a contract, amounts start at a dollar, terms are of *)
(* a year at most, dates are of the calendar, and payments are of something*)
LoanTermsConstants ==
  /\ Ratings \subseteq 0 .. 100
  /\ \A a \in Amounts : a \in Nat /\ a >= 1000
  /\ Terms \subseteq 1 .. 12
  /\ Starts \subseteq [month : 0 .. 11, day : 1 .. 31]
  /\ Payments \subseteq Nat \ {0}
(* Loans are of whole amounts and months, pages are not empty, and what    *)
(* merchants are ranked by is a figure they have.                          *)
MerchantStatsConstants ==
  /\ IsFiniteSet(Merchants) /\ IsFiniteSet(Sales)
  /\ Volume \in [Sales -> Nat] /\ Created \in [Sales -> Nat]
  /\ Today \subseteq Nat /\ Limits \subseteq Nat \ {0}
  /\ Metrics \subseteq {"volume", "score", "repaymentRate", "totalLoans", "listed"}
(* A pool without shares is empty, and no one has more than there is.      *)
LiquidityConstants ==
  /\ Quoted \subseteq Nat
  /\ \A p \in Pools :
       /\ p \in [total : Nat, available : Nat, shares : Nat, own : Nat]
       /\ p.available <= p.total /\ p.own <= p.shares
       /\ p.shares = 0 => p.total = 0
SessionConstants == SessionTime \in Nat \ {0} /\ TokenLife \in Nat /\ MaxLogins \in Nat
(* The other bounds are numbers.                                           *)
BoundsConstants ==
  MaxApplications \in Nat /\ MaxMoves \in Nat /\ MaxDay \in Nat /\ MaxRuns \in Nat

ASSUME ConstantsAssumption ==
  /\ LoanRequestConstants /\ SignInConstants
  /\ LoanTermsConstants /\ MerchantStatsConstants
  /\ LiquidityConstants /\ SessionConstants /\ BoundsConstants

VARIABLES
  service, regime,
  role, prefs, merchant, apps,                  \* Accounts
  blocked, session, logins, holds,              \* Sessions
  nonces, verify, signIns,                      \* SignIn
  hashed, hot, warm, recorded, answers, loans,  \* LoanRequests
  score, loan, paid, listed, asked, applied,    \* LoanTerms
  open, rows, pager, folio,                     \* MerchantStats
  pool, moves, cache,                           \* Liquidity
  day, active, sent, runs, job, lasting, whole, \* Reminders
  now,                                          \* of those with a clock
  req                                           \* of those with one req

accounts == <<role, prefs, merchant, apps>>
sessions == <<blocked, session, logins, holds>>
signing == <<nonces, verify, signIns>>
loanRequests == <<hashed, hot, warm, recorded, answers, loans>>
loanTerms == <<score, loan, paid, listed, asked, applied>>
merchantStats == <<open, rows, pager, folio>>
liquidity == <<pool, moves, cache>>
reminders == <<day, active, sent, runs, job, lasting, whole>>
vars == <<service, regime, now, req, accounts, sessions, signing, loanRequests,
          loanTerms, merchantStats, liquidity, reminders>>

A == INSTANCE Accounts WITH Regimes <- Regimes["Accounts"]
S == INSTANCE Sessions WITH Regimes <- Regimes["Sessions"],
       Lifetime <- TokenLife, MaxTime <- SessionTime
N == INSTANCE SignIn WITH Regimes <- Regimes["SignIn"],
       Wallets <- Signers, Lifetime <- NonceLife, MaxTime <- SignInTime
L == INSTANCE LoanRequests WITH Regimes <- Regimes["LoanRequests"],
       MaxTime <- LoanTime
T == INSTANCE LoanTerms WITH Regimes <- Regimes["LoanTerms"], Scores <- Ratings
M == INSTANCE MerchantStats WITH Regimes <- Regimes["MerchantStats"],
       Loans <- Sales
Q == INSTANCE Liquidity WITH Regimes <- Regimes["Liquidity"], Amounts <- Quoted
R == INSTANCE Reminders WITH Regimes <- Regimes["Reminders"]

Names == {"Accounts", "Sessions", "SignIn", "LoanRequests", "LoanTerms",
          "MerchantStats", "Liquidity", "Reminders"}

-----------------------------------------------------------------------------
NoAccounts == role = <<>> /\ prefs = {} /\ merchant = <<>> /\ apps = <<>>
NoSessions == blocked = FALSE /\ session = <<>> /\ logins = 0 /\ holds = <<>>
NoSigning == nonces = <<>> /\ verify = <<>> /\ signIns = {}
NoLoanRequests ==
  /\ hashed = 0 /\ hot = <<>> /\ warm = <<>> /\ recorded = {}
  /\ answers = <<>> /\ loans = <<>>
NoLoanTerms ==
  /\ score = 0 /\ loan = <<>> /\ paid = 0 /\ listed = 0
  /\ asked = {} /\ applied = <<>>
NoMerchantStats == open = {} /\ rows = <<>> /\ pager = <<>> /\ folio = <<>>
NoLiquidity == pool = <<>> /\ moves = 0 /\ cache = <<>>
NoReminders ==
  /\ day = 0 /\ active = {} /\ sent = <<>> /\ runs = 0
  /\ job = <<>> /\ lasting = {} /\ whole = FALSE

Init ==
  /\ service \in Names
  /\ IF service = "Accounts" THEN A!Init ELSE NoAccounts
  /\ IF service = "Sessions" THEN S!Init ELSE NoSessions
  /\ IF service = "SignIn" THEN N!Init ELSE NoSigning
  /\ IF service = "LoanRequests" THEN L!Init ELSE NoLoanRequests
  /\ IF service = "LoanTerms" THEN T!Init ELSE NoLoanTerms
  /\ IF service = "MerchantStats" THEN M!Init ELSE NoMerchantStats
  /\ IF service = "Liquidity" THEN Q!Init ELSE NoLiquidity
  /\ IF service = "Reminders" THEN R!Init ELSE NoReminders
  /\ service \notin {"Sessions", "SignIn", "LoanRequests"} => now = 0
  /\ service \in {"SignIn", "LoanTerms", "MerchantStats", "Reminders"}
       => req = <<>>

Next ==
  /\ UNCHANGED service
  /\ \/ /\ service = "Accounts" /\ A!Next
        /\ UNCHANGED <<now, sessions, signing, loanRequests, loanTerms,
                       merchantStats, liquidity, reminders>>
     \/ /\ service = "Sessions" /\ S!Next
        /\ UNCHANGED <<accounts, signing, loanRequests, loanTerms,
                       merchantStats, liquidity, reminders>>
     \/ /\ service = "SignIn" /\ N!Next
        /\ UNCHANGED <<req, accounts, sessions, loanRequests, loanTerms,
                       merchantStats, liquidity, reminders>>
     \/ /\ service = "LoanRequests" /\ L!Next
        /\ UNCHANGED <<accounts, sessions, signing, loanTerms,
                       merchantStats, liquidity, reminders>>
     \/ /\ service = "LoanTerms" /\ T!Next
        /\ UNCHANGED <<now, req, accounts, sessions, signing, loanRequests,
                       merchantStats, liquidity, reminders>>
     \/ /\ service = "MerchantStats" /\ M!Next
        /\ UNCHANGED <<now, req, accounts, sessions, signing, loanRequests,
                       loanTerms, liquidity, reminders>>
     \/ /\ service = "Liquidity" /\ Q!Next
        /\ UNCHANGED <<now, accounts, sessions, signing, loanRequests,
                       loanTerms, merchantStats, reminders>>
     \/ /\ service = "Reminders" /\ R!Next
        /\ UNCHANGED <<now, req, accounts, sessions, signing, loanRequests,
                       loanTerms, merchantStats, liquidity>>

Spec == Init /\ [][Next]_vars

-----------------------------------------------------------------------------
(* Each service's variables keep to their types.                           *)
TypeOK ==
  /\ service = "Accounts" => A!TypeOK
  /\ service = "Sessions" => S!TypeOK
  /\ service = "SignIn" => N!TypeOK
  /\ service = "LoanRequests" => L!TypeOK
  /\ service = "LoanTerms" => T!TypeOK
  /\ service = "MerchantStats" => M!TypeOK
  /\ service = "Liquidity" => Q!TypeOK
  /\ service = "Reminders" => R!TypeOK

(* An active merchant was approved, and has its user's role; see Accounts. *)
MerchantsMatchApprovals == service = "Accounts" => A!MerchantsMatchApprovals

(* Who refreshes in order keeps a session; see Sessions.                   *)
HolderIsNotLockedOut == service = "Sessions" => S!HolderIsNotLockedOut

(* A nonce signs its own wallet in, once and in time; see SignIn.          *)
NonceSignsInOnce == service = "SignIn" => N!NonceSignsInOnce

(* One key makes one loan of a process while its answer is kept; see       *)
(* LoanRequests.                                                           *)
KeyCreatesOneLoan == service = "LoanRequests" => L!KeyCreatesOneLoan

(* A loan is granted on a score that was recorded, or computed for want of *)
(* one, and that no cache has let go; see LoanRequests.                    *)
PricedFresh == service = "LoanRequests" => L!PricedFresh

(* Paying what the list shows pays off the loan; see LoanTerms.            *)
InstalmentsLeftAreOwed == service = "LoanTerms" => T!InstalmentsLeftAreOwed

(* Pages of a leaderboard and queries of a portfolio fit together; see     *)
(* MerchantStats.                                                          *)
MerchantFiguresAgree == service = "MerchantStats" => M!MerchantFiguresAgree

(* A quote is true of the pool, however it is read; see Liquidity.         *)
QuotesComeFromThePool == service = "Liquidity" => Q!QuotesComeFromThePool

(* Every reminder that is due comes once a day; see Reminders.             *)
OneReminderADay == service = "Reminders" => R!OneReminderADay
=============================================================================
