-------------------------- MODULE LoanTransactions --------------------------
(***************************************************************************)
(* The life of a Stellar transaction and of the loan it is about, from the *)
(* unsigned XDR that LoansService hands out to the follow-up actions of    *)
(* the transaction-status-checker job.                                     *)
(*                                                                         *)
(* Four parties share the tables "transactions" and "loans" and the Redis  *)
(* cache: the HTTP handlers that build and submit a transaction, GET       *)
(* /transactions/:hash (a poller), the status checker (one worker for each *)
(* running instance of the application) and Stellar itself.  Every awaited *)
(* database or Horizon call is a step of its own, so that the calls of     *)
(* different parties interleave as they do in production.                  *)
(***************************************************************************)
EXTENDS Integers, FiniteSets, FiniteSetsExt

CONSTANTS
  Txs,          \* transaction hashes
  Loans,        \* loan ids
  Workers,      \* status-checker workers
  Pollers,      \* concurrent GET /transactions/:hash requests
  Kind,         \* Txs -> Kinds: the contract call in the XDR
  LoanOf,       \* Txs -> Loans: the loan id in the XDR
  Amount,       \* Txs -> Nat: the amount in the XDR, in cents
  Total,        \* Loans -> Nat \ {0}: total_repayment of the loan, in cents
  BatchLimit,   \* the limit of findPending, 100 in the code
  MaxRows,      \* bound: rows ever inserted in "transactions"
  Regimes,      \* sets of circumstances, one of which a behaviour has
  NoTx          \* the tx of a worker or poller that handles none

(* Contract calls, and the types a client submits a transaction under:     *)
(* "other" stands for the deposits and withdrawals.                        *)
Kinds == {"loan_create", "loan_repay", "other"}
LoanStatuses == {"none", "pending", "active", "completed"}
Final == {"success", "failed"}

(***************************************************************************)
(* "timeout": Horizon answers a submission too late; "insert": the detached*)
(* insert of the record fails; "horizon", "db": a lookup or a database     *)
(* call of a worker fails; "crash": a worker's process dies; "resubmit":   *)
(* the client sends a signed XDR again; "age": seven days may pass;        *)
(* "poll": a client asks for the status; "overlap": a run of the checker   *)
(* begins in one instance of the application before another's has ended;   *)
(* "unchecked": a client submits XDRs of its own making, and any XDR under *)
(* any type.                                                               *)
(***************************************************************************)
Circumstances ==
  {"timeout", "insert", "horizon", "db", "crash", "resubmit", "age", "poll",
   "overlap", "unchecked"}

ASSUME ConstantsAssumption ==
  /\ IsFiniteSet(Txs)
  /\ Kind \in [Txs -> Kinds]
  /\ LoanOf \in [Txs -> Loans]
  /\ Amount \in [Txs -> Nat]
  /\ Total \in [Loans -> Nat \ {0}]
  /\ BatchLimit \in Nat \ {0}
  /\ MaxRows \in Nat
  /\ Regimes \subseteq SUBSET Circumstances
  /\ NoTx \notin Txs

VARIABLES
  chain,      \* [Txs -> ...]: no XDR yet, XDR built, accepted, or in a ledger
  inserting,  \* transactions whose detached insert has not ended
  nextRow,    \* the id, in submitted_at order, of the next inserted row
  row,        \* [Txs -> Nat]: id of the row of a hash, 0 when it has none
  txStatus,   \* [Txs -> ...]: transactions.status of that row
  loanStatus, \* [Loans -> LoanStatuses]: loans.status
  balance,    \* [Loans -> Nat]: loans.remaining_balance
  pc,         \* [Workers -> ...]: where a worker is in process()
  todo,       \* [Workers -> SUBSET Txs]: pending transactions still to visit
  cur,        \* [Workers -> Txs or NoTx]: the transaction being finalized
  verdict,    \* [Workers -> ...]: what Horizon said of it
  claimed,    \* [Workers -> Nat]: the row the worker's update moved, or 0
  seen,       \* [Workers -> ...]: the loan row as the follow-up read it
  poll,       \* [Pollers -> ...]: state of a GET request
  cache,      \* [Txs -> ...]: transactions:status:<hash> in Redis
  regime,     \* what may happen in this behaviour; it never changes
  label,      \* [Txs -> Kinds]: the type in the body of POST /transactions/submit
  followed,   \* history: follow-up writes made for each row
  notified,   \* history: notifications created for each row
  credited,   \* history: cents subtracted from each loan
  repaid      \* history: the repayments that were subtracted

chainVars == <<chain, inserting>>
txVars == <<nextRow, row, txStatus>>
loanVars == <<loanStatus, balance>>
workerVars == <<pc, todo, cur, verdict, claimed, seen>>
pollVars == <<poll, cache>>
history == <<regime, label, followed, notified, credited, repaid>>
vars == <<chainVars, txVars, loanVars, workerVars, pollVars, history>>

NoLoanRow == [status |-> "none", balance |-> 0]
IdlePoll == [pc |-> "idle", tx |-> NoTx, found |-> FALSE, verdict |-> "unknown"]

ChainTypes ==
  /\ chain \in [Txs -> {"none", "built", "inflight"} \cup Final]
  /\ inserting \in SUBSET Txs
TxTypes ==
  /\ nextRow \in 1 .. MaxRows + 1
  /\ row \in [Txs -> 0 .. MaxRows]
  /\ txStatus \in [Txs -> {"none", "pending"} \cup Final]
LoanTypes ==
  /\ loanStatus \in [Loans -> LoanStatuses]
  /\ balance \in [Loans -> Nat]
WorkerTypes ==
  /\ pc \in [Workers -> {"idle", "loop", "claim", "read", "write",
                         "notify", "cleanup"}]
  /\ todo \in [Workers -> SUBSET Txs]
  /\ cur \in [Workers -> Txs \cup {NoTx}]
  /\ verdict \in [Workers -> {"unknown"} \cup Final]
  /\ claimed \in [Workers -> 0 .. MaxRows]
  /\ seen \in [Workers -> [status : LoanStatuses, balance : Nat]]
PollTypes ==
  /\ poll \in [Pollers -> [pc : {"idle", "lookup", "persist"},
                           tx : Txs \cup {NoTx}, found : BOOLEAN,
                           verdict : {"unknown"} \cup Final]]
  /\ cache \in [Txs -> {"none"} \cup Final]
HistoryTypes ==
  /\ regime \in Regimes
  /\ label \in [Txs -> Kinds]
  /\ followed \in [1 .. MaxRows -> Nat]
  /\ notified \in [1 .. MaxRows -> Nat]
  /\ credited \in [Loans -> Nat]
  /\ repaid \in SUBSET Txs

TypeOK ==
  /\ ChainTypes
  /\ TxTypes
  /\ LoanTypes
  /\ WorkerTypes
  /\ PollTypes
  /\ HistoryTypes

Init ==
  /\ chain = [t \in Txs |-> "none"]
  /\ inserting = {}
  /\ nextRow = 1
  /\ row = [t \in Txs |-> 0]
  /\ txStatus = [t \in Txs |-> "none"]
  /\ loanStatus = [l \in Loans |-> "none"]
  /\ balance = [l \in Loans |-> 0]
  /\ pc = [w \in Workers |-> "idle"]
  /\ todo = [w \in Workers |-> {}]
  /\ cur = [w \in Workers |-> NoTx]
  /\ verdict = [w \in Workers |-> "unknown"]
  /\ claimed = [w \in Workers |-> 0]
  /\ seen = [w \in Workers |-> NoLoanRow]
  /\ poll = [p \in Pollers |-> IdlePoll]
  /\ cache = [t \in Txs |-> "none"]
  /\ regime \in Regimes
  /\ label \in [Txs -> Kinds]
  /\ "unchecked" \notin regime => label = Kind
  /\ followed = [r \in 1 .. MaxRows |-> 0]
  /\ notified = [r \in 1 .. MaxRows |-> 0]
  /\ credited = [l \in Loans |-> 0]
  /\ repaid = {}

-----------------------------------------------------------------------------
(* The handlers that build an unsigned XDR.                                *)

(***************************************************************************)
(* POST /loans/create: the loan row is inserted as pending, owing the whole*)
(* repayment, before the XDR leaves the server.  The id is fresh.          *)
(***************************************************************************)
CreateLoan(t) ==
  /\ Kind[t] = "loan_create"
  /\ chain[t] = "none"
  /\ loanStatus[LoanOf[t]] = "none"
  /\ chain' = [chain EXCEPT ![t] = "built"]
  /\ loanStatus' = [loanStatus EXCEPT ![LoanOf[t]] = "pending"]
  /\ balance' = [balance EXCEPT ![LoanOf[t]] = Total[LoanOf[t]]]
  /\ UNCHANGED <<inserting, txVars, workerVars, pollVars, history>>

(***************************************************************************)
(* POST /loans/:id/pay: only reads the loan.  Nothing reserves the amount, *)
(* so the XDRs built from one balance may together exceed it.              *)
(***************************************************************************)
RepayLoan(t) ==
  /\ Kind[t] = "loan_repay"
  /\ chain[t] = "none"
  /\ loanStatus[LoanOf[t]] = "active"
  /\ Amount[t] <= balance[LoanOf[t]]
  /\ chain' = [chain EXCEPT ![t] = "built"]
  /\ UNCHANGED <<inserting, txVars, loanVars, workerVars, pollVars, history>>

(* POST /liquidity/deposit and /withdraw: an XDR without a loan id.        *)
BuildOther(t) ==
  /\ Kind[t] = "other"
  /\ chain[t] = "none"
  /\ chain' = [chain EXCEPT ![t] = "built"]
  /\ UNCHANGED <<inserting, txVars, loanVars, workerVars, pollVars, history>>

(* The client makes an XDR itself: submitting asks for no more than that it*)
(* decodes.  It can only name a loan that there is.                        *)
BuildOwn(t) ==
  /\ "unchecked" \in regime
  /\ chain[t] = "none"
  /\ Kind[t] # "other" => loanStatus[LoanOf[t]] # "none"
  /\ chain' = [chain EXCEPT ![t] = "built"]
  /\ UNCHANGED <<inserting, txVars, loanVars, workerVars, pollVars, history>>

-----------------------------------------------------------------------------
(* POST /transactions/submit.                                              *)

(***************************************************************************)
(* The hash Horizon ends up knowing after a submission: a first submission *)
(* is taken in, a repeated one changes nothing.  A rejected submission     *)
(* changes no state at all and has no action.                              *)
(***************************************************************************)
Submittable(t) ==
  \/ chain[t] = "built"
  \/ "resubmit" \in regime /\ chain[t] \in {"inflight", "success"}

Accepted(t) == IF chain[t] = "built" THEN "inflight" ELSE chain[t]

(* Horizon accepts; the insert is started and not awaited.                 *)
SubmitTransaction(t) ==
  /\ Submittable(t)
  /\ chain' = [chain EXCEPT ![t] = Accepted(t)]
  /\ inserting' = inserting \cup {t}
  /\ UNCHANGED <<txVars, loanVars, workerVars, pollVars, history>>

(* The network takes the transaction and the answer misses the deadline of *)
(* withTimeout: the client gets an error and no record is written.         *)
SubmitTimesOut(t) ==
  /\ "timeout" \in regime
  /\ Submittable(t)
  /\ chain' = [chain EXCEPT ![t] = Accepted(t)]
  /\ UNCHANGED <<inserting, txVars, loanVars, workerVars, pollVars, history>>

(* The detached insert ends; a hash that has a row is a unique violation,  *)
(* which is only logged.                                                   *)
PersistTransactionRecord(t) ==
  /\ t \in inserting
  /\ inserting' = inserting \ {t}
  /\ \/ /\ txStatus[t] = "none"
        /\ nextRow <= MaxRows
        /\ txStatus' = [txStatus EXCEPT ![t] = "pending"]
        /\ row' = [row EXCEPT ![t] = nextRow]
        /\ nextRow' = nextRow + 1
     \/ /\ txStatus[t] # "none"
        /\ UNCHANGED txVars
  /\ UNCHANGED <<chain, loanVars, workerVars, pollVars, history>>

(* The detached insert fails, or its process dies; the error is only logged. *)
PersistFails(t) ==
  /\ "insert" \in regime
  /\ t \in inserting
  /\ inserting' = inserting \ {t}
  /\ UNCHANGED <<chain, txVars, loanVars, workerVars, pollVars, history>>

(* Stellar (external) closes a ledger with the transaction.                *)
CloseLedger(t) ==
  /\ chain[t] = "inflight"
  /\ \E outcome \in Final : chain' = [chain EXCEPT ![t] = outcome]
  /\ UNCHANGED <<inserting, txVars, loanVars, workerVars, pollVars, history>>

-----------------------------------------------------------------------------
(* What StellarService.getTransaction finds.  The operators named Bug...   *)
(* here and below are slips the properties have to detect; no action uses  *)
(* them.                                                                   *)

BugFailedIsNotFound(t) == chain[t] = "success"
OnHorizon(t) == chain[t] \in Final

BugFoundIsSuccess(t) == "success"
Outcome(t) == chain[t]

-----------------------------------------------------------------------------
(* GET /transactions/:hash.                                                *)

(* Cache miss, then the record is looked up.  A hit answers at once.       *)
PollStart(p, t) ==
  /\ "poll" \in regime
  /\ poll[p].pc = "idle"
  /\ chain[t] \in {"inflight"} \cup Final
  /\ cache[t] = "none"
  /\ poll' = [poll EXCEPT ![p] =
       [IdlePoll EXCEPT !.pc = "lookup", !.tx = t, !.found = (row[t] # 0)]]
  /\ UNCHANGED <<cache, chainVars, txVars, loanVars, workerVars, history>>

(* Horizon has the transaction: its outcome is cached without expiry, and  *)
(* only then written to the record, if one was found.                      *)
PollLookup(p) ==
  LET t == poll[p].tx IN
  /\ poll[p].pc = "lookup"
  /\ OnHorizon(t)
  /\ cache' = [cache EXCEPT ![t] = Outcome(t)]
  /\ poll' = [poll EXCEPT ![p] =
       IF poll[p].found
       THEN [poll[p] EXCEPT !.pc = "persist", !.verdict = Outcome(t)]
       ELSE IdlePoll]
  /\ UNCHANGED <<chainVars, txVars, loanVars, workerVars, history>>

(* Horizon does not know it yet, or fails: an answer, and no change.       *)
PollUnanswered(p) ==
  /\ poll[p].pc = "lookup"
  /\ ~OnHorizon(poll[p].tx) \/ "horizon" \in regime
  /\ poll' = [poll EXCEPT ![p] = IdlePoll]
  /\ UNCHANGED <<cache, chainVars, txVars, loanVars, workerVars, history>>

(* persistFinalizedTransaction: by hash, whatever the status now is.       *)
PollPersist(p) ==
  LET t == poll[p].tx IN
  /\ poll[p].pc = "persist"
  /\ \/ txStatus' = [txStatus EXCEPT ![t] =
                       IF row[t] = 0 THEN @ ELSE poll[p].verdict]
     \/ "db" \in regime /\ UNCHANGED txStatus
  /\ poll' = [poll EXCEPT ![p] = IdlePoll]
  /\ UNCHANGED <<cache, chainVars, nextRow, row, loanVars, workerVars, history>>

-----------------------------------------------------------------------------
(* The status checker: one run of process() by worker w.                   *)

Goto(w, next) == pc' = [pc EXCEPT ![w] = next]

(* The worker is done with its transaction and visits the next one.        *)
NextTransaction(w) ==
  /\ Goto(w, "loop")
  /\ cur' = [cur EXCEPT ![w] = NoTx]
  /\ verdict' = [verdict EXCEPT ![w] = "unknown"]
  /\ claimed' = [claimed EXCEPT ![w] = 0]
  /\ seen' = [seen EXCEPT ![w] = NoLoanRow]

Pending == {t \in Txs : txStatus[t] = "pending"}

(* What findPending returns: the BatchLimit pending rows submitted first.  *)
OldestPending(S) ==
  /\ S \subseteq Pending
  /\ Cardinality(S) <= BatchLimit
  /\ S # Pending => Cardinality(S) = BatchLimit
  /\ \A s \in S, t \in Pending \ S : row[s] < row[t]

(* A run begins: while another goes on only where runs may overlap.        *)
MayStart(w) ==
  /\ pc[w] = "idle"
  /\ "overlap" \in regime \/ \A v \in Workers : pc[v] = "idle"

FetchPending(w) ==
  /\ MayStart(w)
  /\ \E S \in SUBSET Txs :
       /\ OldestPending(S)
       /\ todo' = [todo EXCEPT ![w] = S]
  /\ Goto(w, "loop")
  /\ UNCHANGED <<cur, verdict, claimed, seen, chainVars, txVars, loanVars,
                 pollVars, history>>

FetchFails(w) ==
  /\ "db" \in regime
  /\ MayStart(w)
  /\ Goto(w, "cleanup")
  /\ UNCHANGED <<todo, cur, verdict, claimed, seen, chainVars, txVars,
                 loanVars, pollVars, history>>

(* The next transaction of the batch, in submitted_at order.               *)
IsNext(w, t) == t \in todo[w] /\ \A u \in todo[w] : row[t] <= row[u]

(* checkTransactionStatus finds a final outcome, which the worker keeps.   *)
CheckFound(w, t) ==
  /\ pc[w] = "loop"
  /\ IsNext(w, t)
  /\ OnHorizon(t)
  /\ todo' = [todo EXCEPT ![w] = @ \ {t}]
  /\ cur' = [cur EXCEPT ![w] = t]
  /\ verdict' = [verdict EXCEPT ![w] = Outcome(t)]
  /\ Goto(w, "claim")
  /\ UNCHANGED <<claimed, seen, chainVars, txVars, loanVars, pollVars, history>>

(* Not on Horizon yet, or a Horizon error: left pending for the next run.  *)
CheckSkips(w, t) ==
  /\ pc[w] = "loop"
  /\ IsNext(w, t)
  /\ ~OnHorizon(t) \/ "horizon" \in regime
  /\ todo' = [todo EXCEPT ![w] = @ \ {t}]
  /\ UNCHANGED <<pc, cur, verdict, claimed, seen, chainVars, txVars,
                 loanVars, pollVars, history>>

(* The rows that the UPDATE of finalizeTransaction matches: with onlyPending*)
(* those still pending.                                                    *)
BugAnyRow(t) == row[t] # 0
Claimable(t) == txStatus[t] = "pending"

(* applyFollowUpActions has something to do: a success whose XDR names a   *)
(* loan.  What it does is chosen by the type in the record, which is what  *)
(* the client said; only a repayment also looks at the XDR, for its amount.*)
BugOnlyCreations(t, outcome) == outcome = "success" /\ label[t] = "loan_create"
BugAnyOutcome(t, outcome) == label[t] # "other"
HasFollowUp(t, outcome) ==
  /\ outcome = "success"
  /\ \/ label[t] = "loan_create" /\ Kind[t] # "other"
     \/ label[t] = "loan_repay" /\ Kind[t] = "loan_repay"

(* finalizeTransaction: UPDATE ... WHERE status = 'pending' RETURNING.     *)
ClaimWins(w) ==
  LET t == cur[w] IN
  /\ pc[w] = "claim"
  /\ Claimable(t)
  /\ txStatus' = [txStatus EXCEPT ![t] = verdict[w]]
  /\ claimed' = [claimed EXCEPT ![w] = row[t]]
  /\ Goto(w, IF HasFollowUp(t, verdict[w]) THEN "read" ELSE "notify")
  /\ UNCHANGED <<todo, cur, verdict, seen, nextRow, row, chainVars, loanVars,
                 pollVars, history>>

(* No row came back: another worker or a poller was first, or a database   *)
(* error ended this transaction's turn.                                    *)
ClaimLoses(w) ==
  /\ pc[w] = "claim"
  /\ ~Claimable(cur[w]) \/ "db" \in regime
  /\ NextTransaction(w)
  /\ UNCHANGED <<todo, chainVars, txVars, loanVars, pollVars, history>>

(* The follow-up goes on to write: a repayment whenever the loan exists, an*)
(* activation only if it is pending.                                       *)
BugActivatesActive(t, status) ==
  IF label[t] = "loan_create" THEN status = "active" ELSE status # "none"
GoesOn(t, status) ==
  IF label[t] = "loan_create" THEN status = "pending" ELSE status # "none"

ReadLoan(w) ==
  LET l == LoanOf[cur[w]] IN
  /\ pc[w] = "read"
  /\ seen' = [seen EXCEPT ![w] =
                [status |-> loanStatus[l], balance |-> balance[l]]]
  /\ Goto(w, IF GoesOn(cur[w], loanStatus[l]) THEN "write" ELSE "notify")
  /\ UNCHANGED <<todo, cur, verdict, claimed, chainVars, txVars, loanVars,
                 pollVars, history>>

(* activatePendingLoan: pending -> active, if it still is pending.         *)
ActivatePendingLoan(w) ==
  LET l == LoanOf[cur[w]] IN
  /\ pc[w] = "write"
  /\ label[cur[w]] = "loan_create"
  /\ loanStatus' = [loanStatus EXCEPT ![l] =
                      IF @ = "pending" THEN "active" ELSE @]
  /\ followed' = [followed EXCEPT ![claimed[w]] = @ + 1]
  /\ Goto(w, "notify")
  /\ UNCHANGED <<balance, regime, label, notified, credited, repaid, todo, cur,
                 verdict, claimed, seen, chainVars, txVars, pollVars>>

(* max(0, current - amount)                                                *)
BugNegative(b, a) == b - a
BugIgnoresOverpayment(b, a) == IF a <= b THEN b - a ELSE b
Repaid(b, a) == IF a <= b THEN b - a ELSE 0

(* The status of a loan that was read as r and is left with a balance of b:*)
(* written only when it turns to completed.                                *)
BugWritesStatusRead(status, r, b) ==
  IF b = 0 THEN "completed" ELSE r.status
StatusAfter(status, r, b) ==
  IF b = 0 /\ r.status # "completed" THEN "completed" ELSE status

(* applyLoanRepayment: the balance computed from the row read before is    *)
(* written as it is.                                                       *)
ApplyLoanRepayment(w) ==
  LET t == cur[w]
      l == LoanOf[t]
      left == Repaid(seen[w].balance, Amount[t])
  IN
  /\ pc[w] = "write"
  /\ label[t] = "loan_repay"
  /\ balance' = [balance EXCEPT ![l] = left]
  /\ loanStatus' = [loanStatus EXCEPT ![l] = StatusAfter(@, seen[w], left)]
  /\ credited' = [credited EXCEPT ![l] = @ + Amount[t]]
  /\ repaid' = repaid \cup {t}
  /\ followed' = [followed EXCEPT ![claimed[w]] = @ + 1]
  /\ Goto(w, "notify")
  /\ UNCHANGED <<regime, label, notified, todo, cur, verdict, claimed, seen,
                 chainVars, txVars, pollVars>>

(* A database error in the follow-up is logged and the notification made.  *)
FollowUpFails(w) ==
  /\ "db" \in regime
  /\ pc[w] \in {"read", "write"}
  /\ Goto(w, "notify")
  /\ UNCHANGED <<todo, cur, verdict, claimed, seen, chainVars, txVars,
                 loanVars, pollVars, history>>

CreateNotification(w) ==
  /\ pc[w] = "notify"
  /\ \/ notified' = [notified EXCEPT ![claimed[w]] = @ + 1]
     \/ "db" \in regime /\ UNCHANGED notified
  /\ NextTransaction(w)
  /\ UNCHANGED <<regime, label, followed, credited, repaid, todo, chainVars,
                 txVars, loanVars, pollVars>>

EndLoop(w) ==
  /\ pc[w] = "loop"
  /\ todo[w] = {}
  /\ Goto(w, "cleanup")
  /\ UNCHANGED <<todo, cur, verdict, claimed, seen, chainVars, txVars,
                 loanVars, pollVars, history>>

(* cleanupOldTransactions deletes the final rows submitted more than seven *)
(* days ago: those below some id, and none while seven days cannot pass.   *)
CleanupOldTransactions(w) ==
  /\ pc[w] = "cleanup"
  /\ \E horizon \in IF "age" \in regime THEN 0 .. MaxRows ELSE {0} :
       LET old == {t \in Txs : txStatus[t] \in Final /\ row[t] <= horizon} IN
       /\ txStatus' = [t \in Txs |-> IF t \in old THEN "none" ELSE txStatus[t]]
       /\ row' = [t \in Txs |-> IF t \in old THEN 0 ELSE row[t]]
  /\ Goto(w, "idle")
  /\ UNCHANGED <<todo, cur, verdict, claimed, seen, nextRow, chainVars,
                 loanVars, pollVars, history>>

(* The process dies anywhere in a run; its replacement starts a new run.   *)
Crash(w) ==
  /\ "crash" \in regime
  /\ pc[w] # "idle"
  /\ Goto(w, "idle")
  /\ todo' = [todo EXCEPT ![w] = {}]
  /\ cur' = [cur EXCEPT ![w] = NoTx]
  /\ verdict' = [verdict EXCEPT ![w] = "unknown"]
  /\ claimed' = [claimed EXCEPT ![w] = 0]
  /\ seen' = [seen EXCEPT ![w] = NoLoanRow]
  /\ UNCHANGED <<chainVars, txVars, loanVars, pollVars, history>>

-----------------------------------------------------------------------------
Client(t) == CreateLoan(t) \/ RepayLoan(t) \/ BuildOther(t) \/ BuildOwn(t)
Submission(t) ==
  \/ SubmitTransaction(t)
  \/ SubmitTimesOut(t)
  \/ PersistTransactionRecord(t)
  \/ PersistFails(t)
Poller(p) ==
  \/ \E t \in Txs : PollStart(p, t)
  \/ PollLookup(p)
  \/ PollUnanswered(p)
  \/ PollPersist(p)
FollowUp(w) == ReadLoan(w) \/ ActivatePendingLoan(w) \/ ApplyLoanRepayment(w)
Worker(w) ==
  \/ FetchPending(w)
  \/ \E t \in Txs : CheckFound(w, t) \/ CheckSkips(w, t)
  \/ ClaimWins(w)
  \/ ClaimLoses(w)
  \/ FollowUp(w)
  \/ CreateNotification(w)
  \/ EndLoop(w)
  \/ CleanupOldTransactions(w)
WorkerFault(w) == FetchFails(w) \/ FollowUpFails(w) \/ Crash(w)

Next ==
  \/ \E t \in Txs : Client(t) \/ Submission(t) \/ CloseLedger(t)
  \/ \E p \in Pollers : Poller(p)
  \/ \E w \in Workers : Worker(w) \/ WorkerFault(w)

Spec == Init /\ [][Next]_vars

(***************************************************************************)
(* BullMQ starts a run of the job every 15 seconds and a run never waits   *)
(* for anything but its own calls: a worker keeps moving.  Outages and     *)
(* crashes are transient: a call a worker could make over and over is made,*)
(* and one that could succeed over and over succeeds.  Clients, pollers and*)
(* Stellar owe nothing.                                                    *)
(***************************************************************************)
Fairness ==
  \A w \in Workers :
    /\ WF_vars(Worker(w))
    /\ SF_vars(FetchPending(w))
    /\ \A t \in Txs :
         /\ SF_vars(CheckFound(w, t))
         /\ SF_vars(CheckFound(w, t) \/ CheckSkips(w, t))
    /\ SF_vars(ClaimWins(w))

FairSpec == Spec /\ Fairness

-----------------------------------------------------------------------------
(* A worker has moved the row of t and has not finished with it.           *)
Handling(w, t) == cur[w] = t /\ pc[w] \in {"read", "write", "notify"}

(* A record or a cached answer that is final tells what the ledger tells:  *)
(* neither the checker nor a poller ever makes up or flips an outcome.     *)
RecordAgreesWithChain ==
  \A t \in Txs :
    /\ txStatus[t] \in Final => txStatus[t] = chain[t]
    /\ cache[t] \in Final => cache[t] = chain[t]

(* However many workers see the same pending row, and whatever pollers,    *)
(* crashes and resubmissions do, the follow-up of one record is written at *)
(* most once and its owner is notified at most once.                       *)
FollowUpOncePerRecord ==
  \A r \in 1 .. MaxRows : followed[r] <= 1 /\ notified[r] <= 1

(* A loan is active or completed only if Stellar confirmed the transaction *)
(* that creates it.  The checker believes the type the client gave: where  *)
(* that is unchecked, any confirmed call that names the loan activates it  *)
(* if it was submitted as a creation, and a repayment of all that is owed  *)
(* completes it; a call that failed or that Stellar does not know does not.*)
ActiveOnlyIfConfirmed ==
  \A l \in Loans : loanStatus[l] \in {"active", "completed"} =>
    \E t \in Txs :
      /\ LoanOf[t] = l
      /\ chain[t] = "success"
      /\ IF "unchecked" \in regime
         THEN \/ label[t] = "loan_create" /\ Kind[t] # "other"
              \/ label[t] = "loan_repay" /\ Kind[t] = "loan_repay"
         ELSE Kind[t] = "loan_create"

(* What the ledger has of the repayments of a loan, each counted once.     *)
RepaidOnLedger(l) ==
  MapThenSumSet(LAMBDA t : IF /\ Kind[t] = "loan_repay"
                              /\ LoanOf[t] = l
                              /\ chain[t] = "success"
                           THEN Amount[t] ELSE 0, Txs)

(* Whatever workers overwrite of one another, the balance never falls      *)
(* below what the confirmed repayments leave: no payment is subtracted     *)
(* twice, and a borrower is not forgiven more than was paid.  One that is  *)
(* submitted again after its record was deleted gets a second record and is*)
(* subtracted again: where both may happen nothing is said.                *)
NeverOverCredited ==
  ~({"resubmit", "age"} \subseteq regime) =>
    \A l \in Loans : loanStatus[l] # "none" =>
      balance[l] + RepaidOnLedger(l) >= Total[l]

(* While runs of the checker do not overlap, remaining_balance is the      *)
(* outstanding balance: the total less every repayment that was applied,   *)
(* and never below zero, whatever fails or is submitted twice.  The loan is*)
(* completed exactly when nothing is left to pay.                          *)
BalanceIsOutstanding ==
  "overlap" \notin regime => \A l \in Loans : loanStatus[l] # "none" =>
    /\ balance[l] = Repaid(Total[l], credited[l])
    /\ loanStatus[l] = "completed" <=> balance[l] = 0

(* A loan moves from pending to active to completed and never back.  Only a*)
(* repayment the client made itself takes one that is still pending.       *)
LoanStatusForward ==
  [][\A l \in Loans : loanStatus'[l] # loanStatus[l] =>
       \/ <<loanStatus[l], loanStatus'[l]>> \in
            {<<"none", "pending">>, <<"pending", "active">>,
             <<"active", "completed">>}
       \/ /\ "unchecked" \in regime
          /\ loanStatus[l] = "pending" /\ loanStatus'[l] = "completed"]_vars

(* A successful transaction whose record is final and that no worker still *)
(* handles has had its follow-up: submitted as a creation it has left no   *)
(* loan pending, and a repayment submitted as one was subtracted.          *)
FinalizedIsFollowedUp ==
  \A t \in Txs :
    /\ txStatus[t] = "success"
    /\ \A w \in Workers : ~Handling(w, t)
    => /\ label[t] = "loan_create" /\ Kind[t] # "other" =>
            loanStatus[LoanOf[t]] # "pending"
       /\ label[t] = "loan_repay" /\ Kind[t] = "loan_repay" =>
            followed[row[t]] = 1

(* So it is as long as no client polls, no worker dies, no database call   *)
(* fails and no record is deleted and made again, however many runs overlap*)
(* and whatever Horizon does.                                              *)
FollowedUpUndisturbed ==
  regime \cap {"poll", "crash", "db", "age"} = {} => FinalizedIsFollowedUp

(* The older records that wait for an answer which Horizon does not have   *)
(* fill the batch, so that the checker does not come to t.                 *)
Crowded(t) ==
  BatchLimit <= Cardinality({u \in Pending : ~(chain[u] \in Final) /\ row[u] < row[t]})

(* Once the ledger has the outcome of a recorded transaction, its record   *)
(* becomes final: outages, crashes and polls only delay it.  Only records  *)
(* that never get an answer can keep it out of the batch for ever.         *)
ConfirmedIsFinalized ==
  \A t \in Txs :
    <>[]~Crowded(t) =>
      ((txStatus[t] = "pending" /\ chain[t] \in Final) ~> txStatus[t] # "pending")

(* As long as no client polls, no worker dies and no database call fails, a*)
(* recorded and confirmed transaction that names a loan and was submitted  *)
(* as a creation leads to a loan that is not pending, unless it is kept out*)
(* of the batch for ever.                                                  *)
ConfirmedLoanIsActivated ==
  \A t \in Txs :
    <>[]~Crowded(t) =>
      ((/\ regime \cap {"poll", "crash", "db"} = {}
        /\ label[t] = "loan_create" /\ Kind[t] # "other"
        /\ txStatus[t] = "pending"
        /\ chain[t] = "success") ~> loanStatus[LoanOf[t]] # "pending")
=============================================================================
