----------------------- MODULE LoanTransactions_proofs -----------------------
(***************************************************************************)
(* Safety of the transaction pipeline for any number of transactions,      *)
(* loans, workers and pollers and under every mishap.                      *)
(***************************************************************************)
EXTENDS LoanTransactions, Induction

(* The parts of the assumption, for proofs that need one of them only.     *)
LEMMA LoanOfType == LoanOf \in [Txs -> Loans]
  BY ConstantsAssumption
LEMMA CentsType == Amount \in [Txs -> Nat] /\ Total \in [Loans -> Nat]
  BY ConstantsAssumption
LEMMA MaxRowsType == MaxRows \in Nat
  BY ConstantsAssumption

LEMMA NoLoanRowType == NoLoanRow \in [status : LoanStatuses, balance : Nat]
  BY DEF NoLoanRow, LoanStatuses

(* A counter that is raised stays a counter, even at a point outside of its *)
(* domain, where EXCEPT changes nothing.                                   *)
LEMMA RaisedType ==
  ASSUME NEW S, NEW f \in [S -> Nat], NEW i, NEW n \in Nat
  PROVE  [f EXCEPT ![i] = @ + n] \in [S -> Nat]
<1>1. CASE i \in S
  BY <1>1
<1>2. CASE i \notin S
  <2>1. [f EXCEPT ![i] = @ + n] = f
    BY <1>2
  <2> QED BY <2>1
<1> QED BY <1>1, <1>2

(***************************************************************************)
(* Who holds an outcome holds the one that the ledger has.  The types alone*)
(* are not inductive: that a record only ever becomes "success" or "failed"*)
(* rests on this, since a worker and a poller write the outcome they hold. *)
(***************************************************************************)
Busy(w) == pc[w] \in {"claim", "read", "write", "notify"}
Verdicts ==
  /\ \A w \in Workers : Busy(w) =>
       /\ cur[w] \in Txs
       /\ verdict[w] \in Final
       /\ chain[cur[w]] = verdict[w]
  /\ \A p \in Pollers :
       /\ poll[p].pc \in {"lookup", "persist"} => poll[p].tx \in Txs
       /\ poll[p].pc = "persist" =>
            /\ poll[p].verdict \in Final
            /\ chain[poll[p].tx] = poll[p].verdict

(***************************************************************************)
(* Rows of "transactions": a hash has a row exactly when it has a status,  *)
(* ids are given out in order and no two hashes share one.                 *)
(***************************************************************************)
Rows ==
  /\ \A t \in Txs : txStatus[t] = "none" <=> row[t] = 0
  /\ \A t \in Txs : row[t] < nextRow
  /\ \A t, u \in Txs : row[t] = row[u] /\ row[t] # 0 => t = u

(***************************************************************************)
(* Why a follow-up happens once: the conditional update hands each row to  *)
(* one worker, which owns it until it has notified its owner.              *)
(***************************************************************************)
Owns(w) == pc[w] \in {"read", "write", "notify"}
Fresh(r) == followed[r] = 0 /\ notified[r] = 0
Claims ==
  /\ \A w \in Workers : Owns(w) =>
       /\ claimed[w] \in 1 .. MaxRows
       /\ claimed[w] < nextRow
       /\ notified[claimed[w]] = 0
       /\ pc[w] # "notify" => followed[claimed[w]] = 0
  /\ \A v, w \in Workers : Owns(v) /\ Owns(w) /\ v # w => claimed[v] # claimed[w]
  /\ \A t \in Txs : txStatus[t] = "pending" =>
       /\ Fresh(row[t])
       /\ \A w \in Workers : Owns(w) => claimed[w] # row[t]
  /\ \A r \in 1 .. MaxRows : r >= nextRow => Fresh(r)

(***************************************************************************)
(* An XDR that names a loan exists only for a loan that does, and, where   *)
(* clients submit what the server built, a repayment only for one that was *)
(* active.  A follow-up is made only where there is one to make.           *)
(***************************************************************************)
Progress ==
  /\ "unchecked" \notin regime => label = Kind
  /\ \A t \in Txs : Kind[t] # "other" /\ chain[t] # "none" =>
       /\ loanStatus[LoanOf[t]] # "none"
       /\ Kind[t] = "loan_repay" /\ "unchecked" \notin regime =>
            loanStatus[LoanOf[t]] \in {"active", "completed"}
  /\ \A w \in Workers : pc[w] \in {"read", "write"} =>
       HasFollowUp(cur[w], verdict[w])

(* The balance a worker read covers what was not credited when it read it. *)
Credits ==
  \A w \in Workers :
    LET l == LoanOf[cur[w]] IN
    pc[w] = "write" /\ label[cur[w]] = "loan_repay" =>
      seen[w].balance + credited[l] >= Total[l]

(* A group of variables that a step leaves alone keeps its types.          *)
LEMMA Untouched ==
  /\ ChainTypes /\ UNCHANGED chainVars => ChainTypes'
  /\ TxTypes /\ UNCHANGED txVars => TxTypes'
  /\ LoanTypes /\ UNCHANGED loanVars => LoanTypes'
  /\ WorkerTypes /\ UNCHANGED workerVars => WorkerTypes'
  /\ PollTypes /\ UNCHANGED pollVars => PollTypes'
  /\ HistoryTypes /\ UNCHANGED history => HistoryTypes'
<1>1. ChainTypes /\ UNCHANGED chainVars => ChainTypes'
  BY DEF ChainTypes, chainVars
<1>2. TxTypes /\ UNCHANGED txVars => TxTypes'
  BY DEF TxTypes, txVars
<1>3. LoanTypes /\ UNCHANGED loanVars => LoanTypes'
  BY DEF LoanTypes, loanVars
<1>4. WorkerTypes /\ UNCHANGED workerVars => WorkerTypes'
  BY DEF WorkerTypes, workerVars
<1>5. PollTypes /\ UNCHANGED pollVars => PollTypes'
  BY DEF PollTypes, pollVars
<1>6. HistoryTypes /\ UNCHANGED history => HistoryTypes'
  BY DEF HistoryTypes, history
<1> QED BY <1>1, <1>2, <1>3, <1>4, <1>5, <1>6

(* The handlers that build an XDR, and Stellar.                            *)
LEMMA ClientType ==
  ASSUME TypeOK, NEW t \in Txs, Client(t) \/ CloseLedger(t)
  PROVE  TypeOK'
<1> USE DEF TypeOK
<1>1. ChainTypes'
  BY DEF ChainTypes, Client, CreateLoan, RepayLoan, BuildOther, BuildOwn, CloseLedger,
         Final
<1>2. LoanTypes'
  <2>1. CASE CreateLoan(t)
    BY <2>1, LoanOfType, CentsType DEF LoanTypes, LoanStatuses, CreateLoan
  <2>2. CASE RepayLoan(t) \/ BuildOther(t) \/ BuildOwn(t) \/ CloseLedger(t)
    BY <2>2, Untouched DEF RepayLoan, BuildOther, BuildOwn, CloseLedger
  <2> QED BY <2>1, <2>2 DEF Client
<1>3. UNCHANGED <<txVars, workerVars, pollVars, history>>
  BY DEF Client, CreateLoan, RepayLoan, BuildOther, BuildOwn, CloseLedger
<1> QED BY <1>1, <1>2, <1>3, Untouched

LEMMA SubmissionType ==
  ASSUME TypeOK, NEW t \in Txs, Submission(t)
  PROVE  TypeOK'
<1> USE DEF TypeOK
<1>1. ChainTypes'
  BY DEF ChainTypes, Submission, SubmitTransaction, SubmitTimesOut,
         PersistTransactionRecord, PersistFails, Accepted, Final
<1>2. TxTypes'
  <2>1. CASE PersistTransactionRecord(t)
    BY <2>1, MaxRowsType DEF TxTypes, txVars, PersistTransactionRecord
  <2>2. CASE UNCHANGED txVars
    BY <2>2, Untouched
  <2> QED
    BY <2>1, <2>2 DEF Submission, SubmitTransaction, SubmitTimesOut, PersistFails
<1>3. UNCHANGED <<loanVars, workerVars, pollVars, history>>
  BY DEF Submission, SubmitTransaction, SubmitTimesOut,
         PersistTransactionRecord, PersistFails
<1> QED BY <1>1, <1>2, <1>3, Untouched

LEMMA PollerType ==
  ASSUME TypeOK, Verdicts, NEW p \in Pollers, Poller(p)
  PROVE  TypeOK'
<1> USE DEF TypeOK
<1>1. PollTypes'
  <2>1. CASE \E t \in Txs : PollStart(p, t)
    <3>1. PICK t \in Txs : PollStart(p, t)
      BY <2>1
    <3>2. (row[t] # 0) \in BOOLEAN
      OBVIOUS
    <3> QED BY <3>1, <3>2 DEF PollTypes, PollStart, IdlePoll
  <2>2. CASE PollLookup(p)
    BY <2>2 DEF PollTypes, PollLookup, IdlePoll, OnHorizon, Outcome
  <2>3. CASE PollUnanswered(p)
    BY <2>3 DEF PollTypes, PollUnanswered, IdlePoll
  <2>4. CASE PollPersist(p)
    BY <2>4 DEF PollTypes, PollPersist, IdlePoll
  <2> QED BY <2>1, <2>2, <2>3, <2>4 DEF Poller
<1>2. TxTypes'
  <2>1. CASE PollPersist(p)
    <3>1. poll[p].verdict \in Final
      BY <2>1 DEF Verdicts, PollPersist
    <3> QED BY <2>1, <3>1 DEF TxTypes, PollPersist
  <2>2. CASE UNCHANGED txVars
    BY <2>2, Untouched
  <2> QED
    BY <2>1, <2>2 DEF Poller, PollStart, PollLookup, PollUnanswered
<1>3. UNCHANGED <<chainVars, loanVars, workerVars, history>>
  BY DEF Poller, PollStart, PollLookup, PollUnanswered, PollPersist
<1> QED BY <1>1, <1>2, <1>3, Untouched

LEMMA WorkerType ==
  ASSUME TypeOK, Verdicts, NEW w \in Workers, Worker(w) \/ WorkerFault(w)
  PROVE  TypeOK'
<1> USE DEF TypeOK
<1>1. TxTypes'
  <2>1. CASE ClaimWins(w)
    <3>1. verdict[w] \in Final
      BY <2>1 DEF Verdicts, Busy, ClaimWins
    <3> QED BY <2>1, <3>1 DEF TxTypes, ClaimWins
  <2>2. CASE CleanupOldTransactions(w)
    BY <2>2, MaxRowsType DEF TxTypes, CleanupOldTransactions
  <2>3. CASE UNCHANGED txVars
    BY <2>3, Untouched
  <2> QED
    BY <2>1, <2>2, <2>3 DEF Worker, WorkerFault, FetchPending, FetchFails,
       CheckFound, CheckSkips, ClaimLoses, FollowUp, ReadLoan,
       ActivatePendingLoan, ApplyLoanRepayment, FollowUpFails,
       CreateNotification, EndLoop, Crash
<1>2. LoanTypes'
  <2>1. CASE ActivatePendingLoan(w)
    BY <2>1 DEF LoanTypes, LoanStatuses, ActivatePendingLoan
  <2>2. CASE ApplyLoanRepayment(w)
    <3>1. cur[w] \in Txs
      BY <2>2 DEF Verdicts, Busy, ApplyLoanRepayment
    <3>2. Repaid(seen[w].balance, Amount[cur[w]]) \in Nat
      BY <3>1, CentsType DEF WorkerTypes, Repaid
    <3> QED
      BY <2>2, <3>1, <3>2 DEF LoanTypes, LoanStatuses, ApplyLoanRepayment,
         StatusAfter
  <2>3. CASE UNCHANGED loanVars
    BY <2>3, Untouched
  <2> QED
    BY <2>1, <2>2, <2>3 DEF Worker, WorkerFault, FetchPending, FetchFails,
       CheckFound, CheckSkips, ClaimWins, ClaimLoses, FollowUp, ReadLoan,
       FollowUpFails, CreateNotification, EndLoop, CleanupOldTransactions, Crash
<1>3. HistoryTypes'
  <2>1. CASE ActivatePendingLoan(w)
    <3>1. /\ followed' = [followed EXCEPT ![claimed[w]] = @ + 1]
          /\ UNCHANGED <<regime, label, notified, credited, repaid>>
      BY <2>1 DEF ActivatePendingLoan
    <3> QED BY <3>1, RaisedType DEF HistoryTypes
  <2>2. CASE ApplyLoanRepayment(w)
    <3>1. cur[w] \in Txs
      BY <2>2 DEF Verdicts, Busy, ApplyLoanRepayment
    <3>2. /\ followed' = [followed EXCEPT ![claimed[w]] = @ + 1]
          /\ credited' = [credited EXCEPT ![LoanOf[cur[w]]] = @ + Amount[cur[w]]]
          /\ repaid' = repaid \cup {cur[w]}
          /\ UNCHANGED <<regime, label, notified>>
      BY <2>2 DEF ApplyLoanRepayment
    <3>3. Amount[cur[w]] \in Nat
      BY <3>1, CentsType
    <3> QED BY <3>1, <3>2, <3>3, RaisedType DEF HistoryTypes
  <2>3. CASE CreateNotification(w)
    BY <2>3 DEF HistoryTypes, CreateNotification
  <2>4. CASE UNCHANGED history
    BY <2>4, Untouched
  <2> QED
    BY <2>1, <2>2, <2>3, <2>4 DEF Worker, WorkerFault, FetchPending, FetchFails,
       CheckFound, CheckSkips, ClaimWins, ClaimLoses, FollowUp, ReadLoan,
       FollowUpFails, EndLoop, CleanupOldTransactions, Crash
<1>4. WorkerTypes'
  <2>1. CASE FetchPending(w) \/ FetchFails(w)
    BY <2>1 DEF WorkerTypes, FetchPending, FetchFails, Goto
  <2>2. CASE \E t \in Txs : CheckFound(w, t) \/ CheckSkips(w, t)
    <3>1. PICK t \in Txs : CheckFound(w, t) \/ CheckSkips(w, t)
      BY <2>2
    <3>2. CASE CheckFound(w, t)
      <4>1. chain[t] \in Final
        BY <3>2 DEF CheckFound, OnHorizon
      <4> QED BY <3>2, <4>1 DEF WorkerTypes, CheckFound, Goto, Outcome
    <3>3. CASE CheckSkips(w, t)
      BY <3>3 DEF WorkerTypes, CheckSkips
    <3> QED BY <3>1, <3>2, <3>3
  <2>3. CASE ClaimWins(w)
    <3>1. cur[w] \in Txs
      BY <2>3 DEF Verdicts, Busy, ClaimWins
    <3>2. row[cur[w]] \in 0 .. MaxRows
      BY <3>1 DEF TxTypes
    <3> QED BY <2>3, <3>2 DEF WorkerTypes, ClaimWins, Goto
  <2>4. CASE ClaimLoses(w) \/ CreateNotification(w)
    <3>1. NextTransaction(w) /\ UNCHANGED todo
      BY <2>4 DEF ClaimLoses, CreateNotification
    <3> QED
      BY <3>1, NoLoanRowType, MaxRowsType DEF WorkerTypes, NextTransaction, Goto
  <2>5. CASE ReadLoan(w)
    <3>1. LoanOf[cur[w]] \in Loans
      BY <2>5, LoanOfType DEF Verdicts, Busy, ReadLoan
    <3> QED BY <2>5, <3>1 DEF WorkerTypes, LoanTypes, ReadLoan, Goto
  <2>6. CASE ActivatePendingLoan(w) \/ ApplyLoanRepayment(w)
    BY <2>6 DEF WorkerTypes, ActivatePendingLoan, ApplyLoanRepayment, Goto
  <2>7. CASE FollowUpFails(w)
    BY <2>7 DEF WorkerTypes, FollowUpFails, Goto
  <2>8. CASE EndLoop(w) \/ CleanupOldTransactions(w)
    BY <2>8 DEF WorkerTypes, EndLoop, CleanupOldTransactions, Goto
  <2>9. CASE Crash(w)
    BY <2>9, NoLoanRowType, MaxRowsType DEF WorkerTypes, Crash, Goto
  <2> QED
    BY <2>1, <2>2, <2>3, <2>4, <2>5, <2>6, <2>7, <2>8, <2>9
       DEF Worker, WorkerFault, FollowUp
<1>5. UNCHANGED <<chainVars, pollVars>>
  BY DEF Worker, WorkerFault, FetchPending, FetchFails, CheckFound, CheckSkips,
     ClaimWins, ClaimLoses, FollowUp, ReadLoan, ActivatePendingLoan,
     ApplyLoanRepayment, FollowUpFails, CreateNotification, EndLoop,
     CleanupOldTransactions, Crash
<1> QED BY <1>1, <1>2, <1>3, <1>4, <1>5, Untouched

LEMMA TypeInit == Init => TypeOK /\ Verdicts
<1> SUFFICES ASSUME Init PROVE TypeOK /\ Verdicts
  OBVIOUS
<1> USE DEF Init
<1>1. ChainTypes /\ PollTypes
  BY DEF ChainTypes, PollTypes, IdlePoll
<1>2. TxTypes /\ HistoryTypes
  BY MaxRowsType DEF TxTypes, HistoryTypes
<1>3. LoanTypes /\ WorkerTypes
  BY NoLoanRowType, MaxRowsType DEF LoanTypes, LoanStatuses, WorkerTypes
<1>4. Verdicts
  BY DEF Verdicts, Busy, IdlePoll
<1> QED BY <1>1, <1>2, <1>3, <1>4 DEF TypeOK

(* The ledger never takes an outcome back.                                 *)
LEMMA LedgerIsFinal ==
  ASSUME TypeOK, Next, NEW t \in Txs, chain[t] \in Final
  PROVE  chain'[t] = chain[t]
<1>1. CASE \E u \in Txs : Client(u) \/ Submission(u) \/ CloseLedger(u)
  BY <1>1 DEF TypeOK, ChainTypes, Client, CreateLoan, RepayLoan, BuildOther, BuildOwn,
     Submission, SubmitTransaction, SubmitTimesOut, PersistTransactionRecord,
     PersistFails, CloseLedger, Accepted, Final
<1>2. CASE \E p \in Pollers : Poller(p)
  BY <1>2 DEF Poller, PollStart, PollLookup, PollUnanswered, PollPersist, chainVars
<1>3. CASE \E w \in Workers : Worker(w) \/ WorkerFault(w)
  BY <1>3 DEF Worker, WorkerFault, FetchPending, FetchFails, CheckFound,
     CheckSkips, ClaimWins, ClaimLoses, FollowUp, ReadLoan, ActivatePendingLoan,
     ApplyLoanRepayment, FollowUpFails, CreateNotification, EndLoop,
     CleanupOldTransactions, Crash, chainVars
<1> QED BY <1>1, <1>2, <1>3 DEF Next

(* Of the worker that takes a step: it is busy afterwards only with what it*)
(* found on Horizon or was busy with before.                               *)
LEMMA OwnVerdict ==
  ASSUME TypeOK, Verdicts, NEW w \in Workers, Worker(w) \/ WorkerFault(w),
         Busy(w)'
  PROVE  /\ cur'[w] \in Txs
         /\ verdict'[w] \in Final
         /\ chain'[cur'[w]] = verdict'[w]
<1> USE DEF TypeOK, WorkerTypes
<1>1. UNCHANGED chain
  BY DEF Worker, WorkerFault, FetchPending, FetchFails, CheckFound,
     CheckSkips, ClaimWins, ClaimLoses, FollowUp, ReadLoan, ActivatePendingLoan,
     ApplyLoanRepayment, FollowUpFails, CreateNotification, EndLoop,
     CleanupOldTransactions, Crash, chainVars
<1>2. CASE \E t \in Txs : CheckFound(w, t)
  BY <1>1, <1>2 DEF CheckFound, OnHorizon, Outcome
<1>3. CASE Busy(w) /\ UNCHANGED <<cur, verdict>>
  BY <1>1, <1>3 DEF Verdicts
<1>4. CASE ClaimLoses(w) \/ CreateNotification(w) \/ FetchPending(w)
           \/ FetchFails(w) \/ EndLoop(w) \/ CleanupOldTransactions(w)
           \/ Crash(w) \/ (\E t \in Txs : CheckSkips(w, t))
  <2>1. ~Busy(w)'
    BY <1>4 DEF ClaimLoses, CreateNotification, NextTransaction, FetchPending,
       FetchFails, EndLoop, CleanupOldTransactions, Crash, CheckSkips, Goto, Busy
  <2> QED BY <2>1
<1>5. CASE ClaimWins(w) \/ FollowUp(w) \/ FollowUpFails(w)
  <2>1. Busy(w) /\ UNCHANGED <<cur, verdict>>
    BY <1>5 DEF ClaimWins, FollowUp, ReadLoan, ActivatePendingLoan,
       ApplyLoanRepayment, FollowUpFails, Busy
  <2> QED BY <2>1, <1>3
<1> QED BY <1>2, <1>4, <1>5 DEF Worker, WorkerFault

(* A worker's step changes no other worker, no poller and nothing on chain. *)
LEMMA WorkerFrame ==
  ASSUME TypeOK, NEW w \in Workers, Worker(w) \/ WorkerFault(w)
  PROVE  /\ UNCHANGED <<chainVars, pollVars, nextRow>>
         /\ \A v \in Workers : v # w =>
              /\ pc'[v] = pc[v] /\ cur'[v] = cur[v] /\ verdict'[v] = verdict[v]
              /\ claimed'[v] = claimed[v] /\ seen'[v] = seen[v]
<1> USE DEF TypeOK, WorkerTypes
<1>1. UNCHANGED <<chainVars, pollVars, nextRow>>
  BY DEF Worker, WorkerFault, FetchPending, FetchFails, CheckFound,
     CheckSkips, ClaimWins, ClaimLoses, FollowUp, ReadLoan, ActivatePendingLoan,
     ApplyLoanRepayment, FollowUpFails, CreateNotification, EndLoop,
     CleanupOldTransactions, Crash, txVars
<1>2. CASE ClaimLoses(w) \/ CreateNotification(w) \/ Crash(w)
  BY <1>1, <1>2 DEF ClaimLoses, CreateNotification, Crash, NextTransaction, Goto
<1>3. CASE FetchPending(w) \/ FetchFails(w) \/ EndLoop(w)
           \/ CleanupOldTransactions(w) \/ FollowUpFails(w)
  BY <1>1, <1>3 DEF FetchPending, FetchFails, EndLoop, CleanupOldTransactions,
     FollowUpFails, Goto
<1>4. CASE \E t \in Txs : CheckFound(w, t) \/ CheckSkips(w, t)
  BY <1>1, <1>4 DEF CheckFound, CheckSkips, Goto
<1>5. CASE ClaimWins(w) \/ FollowUp(w)
  BY <1>1, <1>5 DEF ClaimWins, FollowUp, ReadLoan, ActivatePendingLoan,
     ApplyLoanRepayment, Goto
<1> QED BY <1>2, <1>3, <1>4, <1>5 DEF Worker, WorkerFault

(* The steps of clients, Stellar and pollers leave every worker alone.     *)
LEMMA OthersFrame ==
  ASSUME \/ \E t \in Txs : Client(t) \/ Submission(t) \/ CloseLedger(t)
         \/ \E p \in Pollers : Poller(p)
  PROVE  UNCHANGED <<workerVars, history>>
BY DEF Client, CreateLoan, RepayLoan, BuildOther, BuildOwn, Submission, SubmitTransaction,
   SubmitTimesOut, PersistTransactionRecord, PersistFails, CloseLedger, Poller,
   PollStart, PollLookup, PollUnanswered, PollPersist

LEMMA PollVerdict ==
  ASSUME TypeOK, Verdicts, NEW p \in Pollers, Poller(p)
  PROVE  Verdicts'
<1> USE DEF TypeOK, PollTypes
<1>1. UNCHANGED <<chain, pc, cur, verdict>>
  BY DEF Poller, PollStart, PollLookup, PollUnanswered, PollPersist, chainVars,
     workerVars
<1>2. \A q \in Pollers : q # p => poll'[q] = poll[q]
  BY DEF Poller, PollStart, PollLookup, PollUnanswered, PollPersist
<1>3. /\ poll'[p].pc \in {"lookup", "persist"} => poll'[p].tx \in Txs
      /\ poll'[p].pc = "persist" =>
           /\ poll'[p].verdict \in Final
           /\ chain[poll'[p].tx] = poll'[p].verdict
  <2>1. CASE \E t \in Txs : PollStart(p, t)
    BY <2>1 DEF PollStart, IdlePoll
  <2>2. CASE PollLookup(p)
    <3>1. /\ poll[p].tx \in Txs
          /\ chain[poll[p].tx] \in Final
      BY <2>2 DEF PollLookup, Verdicts, OnHorizon
    <3>2. poll'[p] = IF poll[p].found
                     THEN [poll[p] EXCEPT !.pc = "persist",
                                          !.verdict = chain[poll[p].tx]]
                     ELSE IdlePoll
      BY <2>2 DEF PollLookup, Outcome
    <3> QED BY <3>1, <3>2 DEF IdlePoll
  <2>3. CASE PollUnanswered(p) \/ PollPersist(p)
    BY <2>3 DEF PollUnanswered, PollPersist, IdlePoll
  <2> QED BY <2>1, <2>2, <2>3 DEF Poller
<1> QED BY <1>1, <1>2, <1>3 DEF Verdicts, Busy

LEMMA VerdictsNext == TypeOK /\ Verdicts /\ [Next]_vars => Verdicts'
<1> SUFFICES ASSUME TypeOK, Verdicts, [Next]_vars PROVE Verdicts'
  OBVIOUS
<1>1. CASE \E t \in Txs : Client(t) \/ Submission(t) \/ CloseLedger(t)
  <2>1. UNCHANGED <<workerVars, pollVars>>
    BY <1>1 DEF Client, CreateLoan, RepayLoan, BuildOther, BuildOwn, Submission,
       SubmitTransaction, SubmitTimesOut, PersistTransactionRecord, PersistFails,
       CloseLedger
  <2>2. \A t \in Txs : chain[t] \in Final => chain'[t] = chain[t]
    BY <1>1, LedgerIsFinal DEF Next
  <2> QED BY <2>1, <2>2 DEF Verdicts, Busy, workerVars, pollVars
<1>2. CASE \E p \in Pollers : Poller(p)
  BY <1>2, PollVerdict
<1>3. CASE \E w \in Workers : Worker(w) \/ WorkerFault(w)
  <2>1. PICK w \in Workers : Worker(w) \/ WorkerFault(w)
    BY <1>3
  <2>2. Busy(w)' => /\ cur'[w] \in Txs
                    /\ verdict'[w] \in Final
                    /\ chain'[cur'[w]] = verdict'[w]
    BY <2>1, OwnVerdict
  <2>3. UNCHANGED <<chain, poll>>
    BY <2>1, WorkerFrame DEF chainVars, pollVars
  <2>4. \A v \in Workers : v # w =>
          pc'[v] = pc[v] /\ cur'[v] = cur[v] /\ verdict'[v] = verdict[v]
    BY <2>1, WorkerFrame
  <2> QED BY <2>2, <2>3, <2>4 DEF Verdicts, Busy
<1>4. CASE UNCHANGED vars
  BY <1>4 DEF vars, chainVars, workerVars, pollVars, Verdicts, Busy
<1> QED BY <1>1, <1>2, <1>3, <1>4 DEF Next

LEMMA TypeNext == TypeOK /\ Verdicts /\ [Next]_vars => TypeOK'
<1> SUFFICES ASSUME TypeOK, Verdicts, [Next]_vars PROVE TypeOK'
  OBVIOUS
<1>1. CASE UNCHANGED vars
  BY <1>1, Untouched DEF TypeOK, vars
<1> QED
  BY <1>1, ClientType, SubmissionType, PollerType, WorkerType DEF Next

(* Every variable keeps its type.  In particular a record's status is only *)
(* ever pending or an outcome, and a balance is never negative, although   *)
(* it is computed by subtraction from an earlier read.                     *)
THEOREM TypeCorrect == Spec => [](TypeOK /\ Verdicts)
<1>1. Init => TypeOK /\ Verdicts
  BY TypeInit
<1>2. TypeOK /\ Verdicts /\ [Next]_vars => (TypeOK /\ Verdicts)'
  BY TypeNext, VerdictsNext
<1> QED BY <1>1, <1>2, PTL DEF Spec

-----------------------------------------------------------------------------
(* Records and cached answers against the ledger.                          *)

LEMMA AgreesNext ==
  TypeOK /\ Verdicts /\ RecordAgreesWithChain /\ [Next]_vars
    => RecordAgreesWithChain'
<1> SUFFICES ASSUME TypeOK, Verdicts, RecordAgreesWithChain, [Next]_vars
             PROVE  RecordAgreesWithChain'
  OBVIOUS
<1> USE DEF TypeOK
<1>1. CASE UNCHANGED <<chain, txStatus, cache>>
  BY <1>1 DEF RecordAgreesWithChain
<1>2. ASSUME Next, UNCHANGED cache,
             \A t \in Txs : txStatus'[t] \in Final => txStatus'[t] = txStatus[t]
      PROVE  RecordAgreesWithChain'
  BY <1>2, LedgerIsFinal DEF RecordAgreesWithChain
<1>3. ASSUME NEW t \in Txs, Client(t) \/ Submission(t) \/ CloseLedger(t)
      PROVE  RecordAgreesWithChain'
  <2>1. Next
    BY <1>3 DEF Next
  <2>2. UNCHANGED cache
    BY <1>3 DEF Client, CreateLoan, RepayLoan, BuildOther, BuildOwn, Submission,
       SubmitTransaction, SubmitTimesOut, PersistTransactionRecord, PersistFails,
       CloseLedger, pollVars
  <2>3. UNCHANGED txStatus \/ txStatus' = [txStatus EXCEPT ![t] = "pending"]
    BY <1>3 DEF Client, CreateLoan, RepayLoan, BuildOther, BuildOwn, Submission,
       SubmitTransaction, SubmitTimesOut, PersistTransactionRecord, PersistFails,
       CloseLedger, txVars
  <2> QED BY <2>1, <2>2, <2>3, <1>2 DEF TxTypes, Final
<1>4. ASSUME NEW p \in Pollers, Poller(p)
      PROVE  RecordAgreesWithChain'
  <2>1. UNCHANGED chain
    BY <1>4 DEF Poller, PollStart, PollLookup, PollUnanswered, PollPersist, chainVars
  <2>2. CASE PollLookup(p)
    BY <2>1, <2>2 DEF PollLookup, Outcome, txVars, RecordAgreesWithChain, PollTypes
  <2>3. CASE PollPersist(p)
    <3>1. /\ poll[p].tx \in Txs
          /\ chain[poll[p].tx] = poll[p].verdict
      BY <2>3 DEF PollPersist, Verdicts
    <3> QED BY <2>1, <2>3, <3>1 DEF PollPersist, RecordAgreesWithChain, TxTypes
  <2>4. CASE PollUnanswered(p) \/ \E t \in Txs : PollStart(p, t)
    BY <1>1, <2>1, <2>4 DEF PollUnanswered, PollStart, txVars
  <2> QED BY <1>4, <2>2, <2>3, <2>4 DEF Poller
<1>5. ASSUME NEW w \in Workers, Worker(w) \/ WorkerFault(w)
      PROVE  RecordAgreesWithChain'
  <2>1. UNCHANGED <<chain, cache>>
    BY <1>5, WorkerFrame DEF chainVars, pollVars
  <2>2. CASE ClaimWins(w)
    <3>1. cur[w] \in Txs /\ chain[cur[w]] = verdict[w]
      BY <2>2 DEF ClaimWins, Verdicts, Busy
    <3> QED BY <2>1, <2>2, <3>1 DEF ClaimWins, RecordAgreesWithChain, TxTypes
  <2>3. CASE CleanupOldTransactions(w)
    <3>1. \A t \in Txs : txStatus'[t] \in {txStatus[t], "none"}
      BY <2>3 DEF CleanupOldTransactions
    <3> QED BY <2>1, <3>1 DEF RecordAgreesWithChain, Final
  <2>4. CASE UNCHANGED txVars
    BY <1>1, <2>1, <2>4 DEF txVars
  <2> QED
    BY <1>5, <2>2, <2>3, <2>4 DEF Worker, WorkerFault, FetchPending, FetchFails,
       CheckFound, CheckSkips, ClaimLoses, FollowUp, ReadLoan,
       ActivatePendingLoan, ApplyLoanRepayment, FollowUpFails,
       CreateNotification, EndLoop, Crash
<1>6. CASE UNCHANGED vars
  BY <1>1, <1>6 DEF vars, chainVars, txVars, pollVars
<1> QED BY <1>3, <1>4, <1>5, <1>6 DEF Next

(* Neither the status checker nor GET /transactions/:hash ever records or  *)
(* caches an outcome that the ledger does not have, whatever the           *)
(* interleaving of workers, pollers, crashes and deletions.                *)
THEOREM RecordsAgree == Spec => []RecordAgreesWithChain
<1>1. Init => RecordAgreesWithChain
  BY DEF Init, RecordAgreesWithChain, Final
<1>2. TypeOK /\ Verdicts /\ RecordAgreesWithChain /\ [Next]_vars
        => RecordAgreesWithChain'
  BY AgreesNext
<1> QED BY <1>1, <1>2, TypeCorrect, PTL DEF Spec

-----------------------------------------------------------------------------
(* Loans: their status and their balance.                                  *)

(* What a repayment is applied to.                                         *)
AppliesTo(t) ==
  /\ t \in Txs /\ Kind[t] = "loan_repay" /\ label[t] = "loan_repay"
  /\ chain[t] = "success"
  /\ loanStatus[LoanOf[t]] # "none"
  /\ "unchecked" \notin regime => loanStatus[LoanOf[t]] \in {"active", "completed"}

(* Who changes a loan, and to what.                                        *)
LEMMA LoanSteps ==
  ASSUME TypeOK, Verdicts, Progress, Next
  PROVE  \/ UNCHANGED <<loanVars, credited>>
         \/ \E t \in Txs : CreateLoan(t)
         \/ \E w \in Workers :
              /\ ActivatePendingLoan(w)
              /\ chain[cur[w]] = "success"
              /\ cur[w] \in Txs /\ Kind[cur[w]] # "other"
         \/ \E w \in Workers :
              /\ ApplyLoanRepayment(w)
              /\ AppliesTo(cur[w])
<1>1. CASE \E t \in Txs : Client(t) \/ Submission(t) \/ CloseLedger(t)
  BY <1>1 DEF Client, RepayLoan, BuildOther, BuildOwn, Submission, SubmitTransaction,
     SubmitTimesOut, PersistTransactionRecord, PersistFails, CloseLedger, history
<1>2. CASE \E p \in Pollers : Poller(p)
  BY <1>2 DEF Poller, PollStart, PollLookup, PollUnanswered, PollPersist, history
<1>3. ASSUME NEW w \in Workers, ActivatePendingLoan(w)
      PROVE  /\ chain[cur[w]] = "success"
             /\ cur[w] \in Txs /\ Kind[cur[w]] # "other"
  BY <1>3 DEF ActivatePendingLoan, Verdicts, Busy, Progress, HasFollowUp
<1>4. ASSUME NEW w \in Workers, ApplyLoanRepayment(w)
      PROVE  AppliesTo(cur[w])
  <2>1. /\ cur[w] \in Txs /\ chain[cur[w]] = verdict[w]
        /\ label[cur[w]] = "loan_repay" /\ HasFollowUp(cur[w], verdict[w])
    BY <1>4 DEF ApplyLoanRepayment, Verdicts, Busy, Progress
  <2>2. Kind[cur[w]] = "loan_repay" /\ chain[cur[w]] = "success"
    BY <2>1 DEF HasFollowUp
  <2> QED BY <2>1, <2>2 DEF AppliesTo, Progress
<1>5. ASSUME NEW w \in Workers, Worker(w) \/ WorkerFault(w),
             ~ActivatePendingLoan(w), ~ApplyLoanRepayment(w)
      PROVE  UNCHANGED <<loanVars, credited>>
  BY <1>5 DEF Worker, WorkerFault, FetchPending, FetchFails, CheckFound,
     CheckSkips, ClaimWins, ClaimLoses, FollowUp, ReadLoan, FollowUpFails,
     CreateNotification, EndLoop, CleanupOldTransactions, Crash, history
<1> QED BY <1>1, <1>2, <1>3, <1>4, <1>5 DEF Next

(* The statuses those changes run through.                                 *)
Forward(l) ==
  \/ <<loanStatus[l], loanStatus'[l]>> \in
       {<<"none", "pending">>, <<"pending", "active">>,
        <<"active", "completed">>}
  \/ /\ "unchecked" \in regime
     /\ loanStatus[l] = "pending" /\ loanStatus'[l] = "completed"

LEMMA ForwardStep ==
  ASSUME TypeOK, Verdicts, Progress, Next, NEW l \in Loans
  PROVE  loanStatus'[l] = loanStatus[l] \/ Forward(l)
<1> USE DEF TypeOK, LoanTypes, Forward
<1>1. CASE UNCHANGED <<loanVars, credited>>
  BY <1>1 DEF loanVars
<1>2. CASE \E t \in Txs : CreateLoan(t)
  BY <1>2 DEF CreateLoan
<1>3. CASE \E w \in Workers : ActivatePendingLoan(w)
  BY <1>3 DEF ActivatePendingLoan
<1>4. ASSUME NEW w \in Workers, ApplyLoanRepayment(w), AppliesTo(cur[w])
      PROVE  loanStatus'[l] = loanStatus[l] \/ Forward(l)
  <2>1. /\ loanStatus[LoanOf[cur[w]]] # "none"
        /\ "unchecked" \notin regime =>
             loanStatus[LoanOf[cur[w]]] \in {"active", "completed"}
    BY <1>4 DEF AppliesTo
  <2>2. loanStatus'[l] # loanStatus[l] =>
          /\ l = LoanOf[cur[w]] /\ loanStatus'[l] = "completed"
    BY <1>4 DEF ApplyLoanRepayment, StatusAfter
  <2> QED BY <2>1, <2>2 DEF LoanStatuses
<1> QED BY <1>1, <1>2, <1>3, <1>4, LoanSteps

(* What is fixed for a behaviour stays as it is.                           *)
LEMMA RegimeKept == [Next]_vars => UNCHANGED <<regime, label>>
<1> SUFFICES ASSUME [Next]_vars PROVE UNCHANGED <<regime, label>>
  OBVIOUS
<1>1. CASE \E w \in Workers : Worker(w) \/ WorkerFault(w)
  BY <1>1 DEF Worker, WorkerFault, FetchPending, FetchFails, CheckFound, CheckSkips, ClaimWins,
     ClaimLoses, FollowUp, ReadLoan, ActivatePendingLoan, ApplyLoanRepayment, FollowUpFails,
     CreateNotification, EndLoop, CleanupOldTransactions, Crash, history
<1> QED BY <1>1, OthersFrame DEF Next, vars, history

LEMMA ProgressNext == TypeOK /\ Verdicts /\ Progress /\ [Next]_vars => Progress'
<1> SUFFICES ASSUME TypeOK, Verdicts, Progress, [Next]_vars PROVE Progress'
  OBVIOUS
<1> USE DEF TypeOK
<1>0. UNCHANGED <<regime, label>>
  BY RegimeKept
<1>1. CASE UNCHANGED vars
  BY <1>0, <1>1 DEF vars, chainVars, loanVars, workerVars, Progress, HasFollowUp
<1>2. CASE Next
  <2>1. ASSUME NEW t \in Txs, Kind[t] # "other", chain'[t] # "none"
        PROVE  \/ chain[t] # "none"
               \/ Kind[t] = "loan_create" /\ CreateLoan(t)
               \/ Kind[t] = "loan_repay" /\ loanStatus[LoanOf[t]] = "active"
               \/ "unchecked" \in regime /\ loanStatus[LoanOf[t]] # "none"
    <3>1. CASE \E u \in Txs : Client(u) \/ Submission(u) \/ CloseLedger(u)
      BY <2>1, <3>1 DEF Client, CreateLoan, RepayLoan, BuildOther, BuildOwn, Submission,
         SubmitTransaction, SubmitTimesOut, PersistTransactionRecord,
         PersistFails, CloseLedger, Submittable, ChainTypes, Final
    <3>2. CASE \E p \in Pollers : Poller(p)
      BY <2>1, <3>2 DEF Poller, PollStart, PollLookup, PollUnanswered,
         PollPersist, chainVars
    <3>3. CASE \E w \in Workers : Worker(w) \/ WorkerFault(w)
      BY <2>1, <3>3, WorkerFrame DEF chainVars
    <3> QED BY <1>2, <3>1, <3>2, <3>3 DEF Next
  <2>2. ASSUME NEW t \in Txs, Kind[t] # "other", chain'[t] # "none"
        PROVE  /\ loanStatus'[LoanOf[t]] # "none"
               /\ Kind[t] = "loan_repay" /\ "unchecked" \notin regime' =>
                    loanStatus'[LoanOf[t]] \in {"active", "completed"}
    <3>1. LoanOf[t] \in Loans
      BY LoanOfType
    <3>2. CASE CreateLoan(t)
      BY <3>1, <3>2 DEF CreateLoan, LoanTypes
    <3>3. CASE ~CreateLoan(t)
      <4>1. /\ loanStatus[LoanOf[t]] # "none"
            /\ Kind[t] = "loan_repay" /\ "unchecked" \notin regime =>
                 loanStatus[LoanOf[t]] \in {"active", "completed"}
        BY <2>1, <2>2, <3>3 DEF Progress
      <4>2. \/ loanStatus'[LoanOf[t]] = loanStatus[LoanOf[t]]
            \/ Forward(LoanOf[t])
        BY <1>2, <3>1, ForwardStep
      <4> QED BY <1>0, <4>1, <4>2 DEF Forward
    <3> QED BY <3>2, <3>3
  <2>3. ASSUME NEW v \in Workers, pc'[v] \in {"read", "write"}
        PROVE  HasFollowUp(cur[v], verdict[v]) /\ cur'[v] = cur[v] /\ verdict'[v] = verdict[v]
    <3>1. CASE pc'[v] = pc[v] /\ cur'[v] = cur[v] /\ verdict'[v] = verdict[v]
      BY <2>3, <3>1 DEF Progress
    <3>2. CASE Worker(v) \/ WorkerFault(v)
      <4>1. CASE ClaimWins(v)
        BY <2>3, <4>1 DEF ClaimWins, Goto, WorkerTypes
      <4>2. CASE ReadLoan(v)
        BY <2>3, <4>2 DEF ReadLoan, Progress
      <4>3. CASE ~ClaimWins(v) /\ ~ReadLoan(v)
        BY <2>3, <3>2, <4>3 DEF Worker, WorkerFault, FetchPending, FetchFails, CheckFound,
           CheckSkips, ClaimLoses, FollowUp, ActivatePendingLoan, ApplyLoanRepayment,
           FollowUpFails, CreateNotification, EndLoop, CleanupOldTransactions, Crash,
           NextTransaction, Goto, WorkerTypes
      <4> QED BY <4>1, <4>2, <4>3
    <3>3. CASE \E w \in Workers \ {v} : Worker(w) \/ WorkerFault(w)
      BY <3>1, <3>3, WorkerFrame
    <3>4. CASE UNCHANGED workerVars
      BY <3>1, <3>4 DEF workerVars
    <3> QED BY <1>2, <3>2, <3>3, <3>4, OthersFrame DEF Next
  <2>4. \A v \in Workers : pc'[v] \in {"read", "write"} =>
          HasFollowUp(cur[v], verdict[v])'
    BY <1>0, <2>3 DEF HasFollowUp
  <2> QED BY <1>0, <2>2, <2>4 DEF Progress
<1> QED BY <1>1, <1>2

(* An invariant of every behaviour, for the proofs of the next two theorems. *)
LEMMA ProgressCorrect == Spec => []Progress
<1>1. Init => Progress
  BY DEF Init, Progress
<1>2. TypeOK /\ Verdicts /\ Progress /\ [Next]_vars => Progress'
  BY ProgressNext
<1> QED BY <1>1, <1>2, TypeCorrect, PTL DEF Spec

(* The status of a loan only moves pending -> active -> completed, although*)
(* several workers write it from rows they read earlier: a repayment that  *)
(* the server built is only ever applied to a loan that has been active,   *)
(* and one that a client made can only complete the loan.                  *)
THEOREM StatusMovesForward == Spec => LoanStatusForward
<1>1. /\ TypeOK /\ Verdicts /\ Progress /\ [Next]_vars
      => [\A l \in Loans : loanStatus'[l] # loanStatus[l] => Forward(l)]_vars
  BY ForwardStep
<1> QED BY <1>1, TypeCorrect, ProgressCorrect, PTL DEF Spec, LoanStatusForward, Forward

(* Of a confirmed call that a record's type makes the checker act on.      *)
Called(t, l) ==
  /\ t \in Txs /\ LoanOf[t] = l
  /\ chain[t] = "success"
  /\ IF "unchecked" \in regime
     THEN \/ label[t] = "loan_create" /\ Kind[t] # "other"
          \/ label[t] = "loan_repay" /\ Kind[t] = "loan_repay"
     ELSE Kind[t] = "loan_create"

LEMMA ConfirmedNext ==
  TypeOK /\ Verdicts /\ Progress /\ ActiveOnlyIfConfirmed /\ [Next]_vars
    => ActiveOnlyIfConfirmed'
<1> SUFFICES ASSUME TypeOK, Verdicts, Progress, ActiveOnlyIfConfirmed, [Next]_vars,
                    NEW l \in Loans, loanStatus'[l] \in {"active", "completed"}
             PROVE  \E t \in Txs : Called(t, l)'
  BY DEF ActiveOnlyIfConfirmed, Called
<1>0. UNCHANGED <<regime, label>>
  BY RegimeKept
<1>1. CASE UNCHANGED vars
  BY <1>0, <1>1 DEF vars, chainVars, loanVars, ActiveOnlyIfConfirmed, Called
<1>2. CASE Next
  <2>1. CASE \E t \in Txs : Called(t, l)
    BY <1>0, <1>2, <2>1, LedgerIsFinal DEF Final, Called
  <2>2. CASE loanStatus[l] \in {"active", "completed"}
    BY <2>1, <2>2 DEF ActiveOnlyIfConfirmed, Called
  <2>3. CASE loanStatus[l] \notin {"active", "completed"}
    <3>1. /\ loanStatus[l] = "pending"
          /\ loanStatus'[l] = "completed" => "unchecked" \in regime
      BY <1>2, <2>3, ForwardStep DEF Forward
    <3>2. CASE \E w \in Workers : /\ ActivatePendingLoan(w)
                                  /\ chain[cur[w]] = "success"
                                  /\ cur[w] \in Txs /\ Kind[cur[w]] # "other"
      <4>1. PICK w \in Workers : /\ ActivatePendingLoan(w)
                                 /\ chain[cur[w]] = "success"
                                 /\ cur[w] \in Txs /\ Kind[cur[w]] # "other"
        BY <3>2
      <4>2. LoanOf[cur[w]] = l /\ label[cur[w]] = "loan_create"
        BY <3>1, <4>1 DEF ActivatePendingLoan, TypeOK, LoanTypes
      <4>3. "unchecked" \notin regime => Kind[cur[w]] = "loan_create"
        BY <4>2 DEF Progress
      <4> QED BY <2>1, <4>1, <4>2, <4>3 DEF Called
    <3>3. CASE \E w \in Workers : ApplyLoanRepayment(w) /\ AppliesTo(cur[w])
      <4>1. PICK w \in Workers : ApplyLoanRepayment(w) /\ AppliesTo(cur[w])
        BY <3>3
      <4>2. LoanOf[cur[w]] = l /\ loanStatus'[l] = "completed"
        BY <3>1, <4>1 DEF ApplyLoanRepayment, StatusAfter, TypeOK, LoanTypes
      <4> QED BY <2>1, <3>1, <4>1, <4>2 DEF Called, AppliesTo
    <3>4. ~UNCHANGED loanVars
      BY <3>1 DEF loanVars
    <3>5. ~\E t \in Txs : CreateLoan(t)
      BY <3>1 DEF CreateLoan, TypeOK, LoanTypes
    <3> QED BY <1>2, <3>2, <3>3, <3>4, <3>5, LoanSteps
  <2> QED BY <2>2, <2>3
<1> QED BY <1>1, <1>2

(* A loan is active or completed only if Stellar confirmed the call that   *)
(* creates it; where clients label what they submit as they please, only if*)
(* it confirmed one that names the loan and was submitted as its creation  *)
(* or its repayment.                                                       *)
THEOREM ActivationConfirmed == Spec => []ActiveOnlyIfConfirmed
<1>1. Init => ActiveOnlyIfConfirmed
  BY DEF Init, ActiveOnlyIfConfirmed
<1>2. TypeOK /\ Verdicts /\ Progress /\ ActiveOnlyIfConfirmed /\ [Next]_vars
        => ActiveOnlyIfConfirmed'
  BY ConfirmedNext
<1> QED BY <1>1, <1>2, TypeCorrect, ProgressCorrect, PTL DEF Spec

(* The balance covers what was not credited.                               *)
Covers == \A l \in Loans : loanStatus[l] # "none" => balance[l] + credited[l] >= Total[l]

LEMMA BalanceNext ==
  ASSUME TypeOK, Verdicts, Progress, Credits, Covers, Next,
         NEW l \in Loans
  PROVE  /\ credited'[l] \in Nat
         /\ credited'[l] >= credited[l]
         /\ loanStatus'[l] # "none" => balance'[l] + credited'[l] >= Total[l]
<1> USE DEF TypeOK, LoanTypes, HistoryTypes
<1>1. CASE UNCHANGED <<loanVars, credited>>
  BY <1>1 DEF loanVars, Covers
<1>2. CASE \E t \in Txs : CreateLoan(t)
  <2>1. Total[l] \in Nat
    BY CentsType
  <2> QED BY <1>2, <2>1 DEF CreateLoan, history, Covers
<1>3. CASE \E w \in Workers : ActivatePendingLoan(w)
  BY <1>3 DEF ActivatePendingLoan, Covers
<1>4. ASSUME NEW w \in Workers, ApplyLoanRepayment(w),
             AppliesTo(cur[w])
      PROVE  /\ credited'[l] \in Nat
             /\ credited'[l] >= credited[l]
             /\ loanStatus'[l] # "none" => balance'[l] + credited'[l] >= Total[l]
  <2> DEFINE m == LoanOf[cur[w]]
  <2>1. /\ balance' = [balance EXCEPT ![m] = Repaid(seen[w].balance, Amount[cur[w]])]
        /\ credited' = [credited EXCEPT ![m] = @ + Amount[cur[w]]]
        /\ loanStatus' = [loanStatus EXCEPT ![m] =
             StatusAfter(@, seen[w], Repaid(seen[w].balance, Amount[cur[w]]))]
    BY <1>4 DEF ApplyLoanRepayment
  <2>2. CASE l = m
    <3>1. cur[w] \in Txs
      BY <1>4 DEF ApplyLoanRepayment, Verdicts, Busy
    <3>2. Amount[cur[w]] \in Nat /\ seen[w].balance \in Nat /\ Total[l] \in Nat
      BY <3>1, CentsType DEF WorkerTypes
    <3>3. seen[w].balance + credited[l] >= Total[l]
      BY <1>4, <2>2 DEF Credits, ApplyLoanRepayment
    <3>4. /\ balance'[l] = Repaid(seen[w].balance, Amount[cur[w]])
          /\ credited'[l] = credited[l] + Amount[cur[w]]
      BY <2>1, <2>2
    <3>5. credited[l] \in Nat
      OBVIOUS
    <3> QED BY <3>2, <3>3, <3>4, <3>5 DEF Repaid
  <2>3. CASE l # m
    <3>1. UNCHANGED <<balance[l], credited[l], loanStatus[l]>>
      BY <2>1, <2>3
    <3> QED BY <3>1 DEF Covers
  <2> QED BY <2>2, <2>3
<1> QED BY <1>1, <1>2, <1>3, <1>4, LoanSteps

LEMMA CreditsNext ==
  TypeOK /\ Verdicts /\ Progress /\ Credits /\ Covers /\ [Next]_vars
    => (Credits /\ Covers)'
<1> SUFFICES ASSUME TypeOK, Verdicts, Progress, Credits, Covers,
                    [Next]_vars
             PROVE  (Credits /\ Covers)'
  OBVIOUS
<1>0. UNCHANGED label
  BY RegimeKept
<1>1. CASE UNCHANGED vars
  BY <1>0, <1>1 DEF vars, loanVars, workerVars, history, Credits, Covers
<1>2. CASE Next
  <2>1. Covers'
    BY <1>2, BalanceNext DEF Covers
  <2>2. ASSUME NEW v \in Workers, pc'[v] = "write", label'[cur'[v]] = "loan_repay"
        PROVE  seen'[v].balance + credited'[LoanOf[cur'[v]]] >= Total[LoanOf[cur'[v]]]
    <3>1. CASE pc[v] = "write" /\ cur'[v] = cur[v] /\ seen'[v] = seen[v]
      <4> DEFINE l == LoanOf[cur[v]]
      <4>1. cur[v] \in Txs
        BY <3>1 DEF Verdicts, Busy
      <4>2. l \in Loans
        BY <4>1, LoanOfType
      <4>3. /\ credited[l] \in Nat /\ credited'[l] \in Nat
            /\ credited'[l] >= credited[l]
        BY <1>2, <4>2, BalanceNext DEF TypeOK, HistoryTypes
      <4>4. seen[v].balance \in Nat /\ Total[l] \in Nat
        BY <4>2, CentsType DEF TypeOK, WorkerTypes
      <4>5. seen[v].balance + credited[l] >= Total[l]
        BY <1>0, <2>2, <3>1 DEF Credits
      <4> QED BY <3>1, <4>3, <4>4, <4>5
    <3>2. CASE ReadLoan(v)
      <4> DEFINE l == LoanOf[cur[v]]
      <4>1. cur'[v] = cur[v] /\ UNCHANGED <<loanVars, history>>
        BY <3>2 DEF ReadLoan
      <4>2. cur[v] \in Txs
        BY <3>2 DEF ReadLoan, Verdicts, Busy
      <4>3. l \in Loans
        BY <4>2, LoanOfType
      <4>4. seen'[v].balance = balance[l]
        BY <3>2 DEF ReadLoan, TypeOK, WorkerTypes
      <4>5. loanStatus[l] # "none"
        BY <1>0, <2>2, <3>2, <4>1 DEF ReadLoan, Goto, GoesOn, TypeOK, WorkerTypes
      <4> QED BY <4>1, <4>3, <4>4, <4>5 DEF Covers, history
    <3>3. CASE Worker(v) \/ WorkerFault(v)
      BY <2>2, <3>1, <3>2, <3>3 DEF Worker, WorkerFault, FetchPending, FetchFails,
         CheckFound, CheckSkips, ClaimWins, ClaimLoses, FollowUp,
         ActivatePendingLoan, ApplyLoanRepayment, FollowUpFails,
         CreateNotification, EndLoop, CleanupOldTransactions, Crash,
         NextTransaction, Goto, TypeOK, WorkerTypes
    <3>4. CASE \E w \in Workers \ {v} : Worker(w) \/ WorkerFault(w)
      <4>1. pc'[v] = pc[v] /\ cur'[v] = cur[v] /\ seen'[v] = seen[v]
        BY <3>4, WorkerFrame
      <4> QED BY <2>2, <3>1, <4>1
    <3>5. CASE UNCHANGED workerVars
      BY <2>2, <3>1, <3>5 DEF workerVars
    <3> QED BY <1>2, <3>3, <3>4, <3>5, OthersFrame DEF Next
  <2> QED BY <2>1, <2>2 DEF Credits
<1> QED BY <1>1, <1>2

(* Rows stay as they are said to be.                                       *)
LEMMA RowsNext == TypeOK /\ Verdicts /\ Rows /\ [Next]_vars => Rows'
<1> SUFFICES ASSUME TypeOK, Verdicts, Rows, [Next]_vars PROVE Rows'
  OBVIOUS
<1> USE DEF TypeOK, TxTypes
<1>1. CASE UNCHANGED txVars
  BY <1>1 DEF txVars, Rows
<1>2. CASE \E t \in Txs : PersistTransactionRecord(t)
  BY <1>1, <1>2, MaxRowsType DEF PersistTransactionRecord, Rows
<1>3. ASSUME NEW p \in Pollers, PollPersist(p)
      PROVE  Rows'
  <2>1. poll[p].verdict # "none"
    BY <1>3 DEF PollPersist, Verdicts, Final
  <2> QED BY <1>3, <2>1 DEF PollPersist, Rows
<1>4. ASSUME NEW w \in Workers, ClaimWins(w)
      PROVE  Rows'
  <2>1. verdict[w] # "none" /\ txStatus[cur[w]] # "none"
    BY <1>4 DEF ClaimWins, Claimable, Verdicts, Busy, Final
  <2> QED BY <1>4, <2>1 DEF ClaimWins, Rows
<1>5. ASSUME NEW w \in Workers, CleanupOldTransactions(w)
      PROVE  Rows'
  <2>1. \A t \in Txs : \/ txStatus'[t] = "none" /\ row'[t] = 0
                       \/ txStatus'[t] = txStatus[t] /\ row'[t] = row[t]
    BY <1>5 DEF CleanupOldTransactions
  <2>2. UNCHANGED nextRow /\ nextRow \in Nat \ {0}
    BY <1>5, MaxRowsType DEF CleanupOldTransactions
  <2> QED BY <2>1, <2>2 DEF Rows
<1>6. CASE UNCHANGED vars
  BY <1>1, <1>6 DEF vars
<1> QED
  BY <1>1, <1>2, <1>3, <1>4, <1>5, <1>6 DEF Next, Client, CreateLoan, RepayLoan,
     BuildOther, BuildOwn, Submission, SubmitTransaction, SubmitTimesOut, PersistFails,
     CloseLedger, Poller, PollStart, PollLookup, PollUnanswered, Worker,
     WorkerFault, FetchPending, FetchFails, CheckFound, CheckSkips, ClaimLoses,
     FollowUp, ReadLoan, ActivatePendingLoan, ApplyLoanRepayment, FollowUpFails,
     CreateNotification, EndLoop, Crash

-----------------------------------------------------------------------------
(* No repayment is applied twice, unless its record is deleted and it is   *)
(* submitted again.                                                        *)

MayReturn == {"resubmit", "age"} \subseteq regime

(* A transaction whose record was claimed is not pending and will not be:  *)
(* either the record stays, or it was deleted and nobody makes another.    *)
Done(t) ==
  /\ chain[t] \in Final
  /\ txStatus[t] # "pending"
  /\ txStatus[t] = "none" => "resubmit" \notin regime /\ t \notin inserting

(* Where nobody submits again, the one insertion of a record comes before  *)
(* it and after the submission.                                            *)
InsertedOnce ==
  "resubmit" \notin regime => \A t \in Txs :
    /\ t \in inserting => txStatus[t] = "none" /\ chain[t] \notin {"none", "built"}
    /\ chain[t] \in {"none", "built"} => txStatus[t] = "none"

Applying(w) == pc[w] \in {"read", "write"}

(* What the repayments that were subtracted from a loan come to.           *)
Part(S, l) ==
  [t \in Txs |-> IF t \in S /\ LoanOf[t] = l THEN Amount[t] ELSE 0]

OneByOne ==
  /\ \A w \in Workers : Applying(w) => Done(cur[w]) /\ cur[w] \notin repaid
  /\ \A v, w \in Workers : Applying(v) /\ Applying(w) /\ v # w => cur[v] # cur[w]
  /\ \A t \in repaid : Done(t) /\ Kind[t] = "loan_repay" /\ chain[t] = "success"
  /\ \A l \in Loans : credited[l] = SumOver(Part(repaid, l), Txs)

LEMMA InsertedOnceNext ==
  ASSUME TypeOK, Verdicts, Rows, InsertedOnce, [Next]_vars
  PROVE  InsertedOnce'
<1> USE DEF TypeOK, ChainTypes, TxTypes
<1>0. UNCHANGED regime
  BY RegimeKept
<1>1. CASE UNCHANGED vars
  BY <1>0, <1>1 DEF vars, chainVars, txVars, InsertedOnce
<1>2. CASE \E t \in Txs : Client(t) \/ CloseLedger(t)
  BY <1>0, <1>2 DEF Client, CreateLoan, RepayLoan, BuildOther, BuildOwn, CloseLedger, txVars,
     InsertedOnce, Final
<1>3. CASE \E t \in Txs : Submission(t)
  BY <1>0, <1>3 DEF Submission, SubmitTransaction, SubmitTimesOut, PersistTransactionRecord,
     PersistFails, Submittable, Accepted, txVars, InsertedOnce
<1>4. ASSUME UNCHANGED chainVars, \A t \in Txs : txStatus[t] = "none" => txStatus'[t] = "none"
      PROVE  InsertedOnce'
  BY <1>0, <1>4 DEF chainVars, InsertedOnce
<1>5. CASE \E p \in Pollers : Poller(p)
  <2>1. UNCHANGED chainVars
    BY <1>5 DEF Poller, PollStart, PollLookup, PollUnanswered, PollPersist
  <2>2. \A t \in Txs : txStatus[t] = "none" => txStatus'[t] = "none"
    BY <1>5 DEF Poller, PollStart, PollLookup, PollUnanswered, PollPersist, txVars, Rows
  <2> QED BY <1>4, <2>1, <2>2
<1>6. ASSUME NEW w \in Workers, Worker(w) \/ WorkerFault(w)
      PROVE  InsertedOnce'
  <2>1. UNCHANGED chainVars
    BY <1>6, WorkerFrame
  <2>2. \A t \in Txs : txStatus[t] = "none" => txStatus'[t] = "none"
    BY <1>6 DEF Worker, WorkerFault, FetchPending, FetchFails, CheckFound, CheckSkips,
       ClaimWins, Claimable, ClaimLoses, FollowUp, ReadLoan, ActivatePendingLoan,
       ApplyLoanRepayment, FollowUpFails, CreateNotification, EndLoop,
       CleanupOldTransactions, Crash, txVars
  <2> QED BY <1>4, <2>1, <2>2
<1> QED BY <1>1, <1>2, <1>3, <1>5, <1>6 DEF Next

(* What is done stays done.                                                *)
LEMMA DoneStays ==
  ASSUME TypeOK, Verdicts, Rows, InsertedOnce, ~MayReturn, Next, NEW t \in Txs, Done(t)
  PROVE  Done(t)'
<1> USE DEF TypeOK, ChainTypes, TxTypes
<1>0. UNCHANGED regime /\ chain'[t] = chain[t]
  BY RegimeKept, LedgerIsFinal DEF Done
<1>1. CASE \E u \in Txs : Client(u) \/ CloseLedger(u)
  BY <1>0, <1>1 DEF Client, CreateLoan, RepayLoan, BuildOther, BuildOwn, CloseLedger, txVars, Done
<1>2. CASE \E u \in Txs : Submission(u)
  BY <1>0, <1>2 DEF Submission, SubmitTransaction, SubmitTimesOut, PersistTransactionRecord,
     PersistFails, Submittable, txVars, Done, Final
<1>3. CASE \E p \in Pollers : Poller(p)
  <2>1. PICK p \in Pollers : Poller(p)
    BY <1>3
  <2>2. CASE PollPersist(p)
    <3>1. poll[p].verdict \in Final
      BY <2>2 DEF Verdicts, PollPersist
    <3>2. txStatus[t] = "none" => row[t] = 0
      BY DEF Rows
    <3>3. \/ txStatus'[t] = txStatus[t]
          \/ txStatus[t] # "none" /\ txStatus'[t] \in Final
      BY <2>2, <3>1, <3>2 DEF PollPersist
    <3>4. UNCHANGED inserting
      BY <2>2 DEF PollPersist, chainVars
    <3> QED BY <1>0, <3>3, <3>4 DEF Done, Final
  <2>3. CASE ~PollPersist(p)
    BY <1>0, <2>1, <2>3 DEF Poller, PollStart, PollLookup, PollUnanswered, txVars, chainVars, Done
  <2> QED BY <2>2, <2>3
<1>4. ASSUME NEW w \in Workers, Worker(w) \/ WorkerFault(w)
      PROVE  Done(t)'
  <2>1. UNCHANGED inserting
    BY <1>4, WorkerFrame DEF chainVars
  <2>2. CASE CleanupOldTransactions(w)
    <3>1. txStatus'[t] \in {txStatus[t], "none"}
      BY <2>2 DEF CleanupOldTransactions
    <3>2. CASE txStatus'[t] # txStatus[t]
      <4>1. "age" \in regime
        BY <2>2, <3>2, MaxRowsType DEF CleanupOldTransactions, Rows, Final
      <4>2. "resubmit" \notin regime
        BY <4>1 DEF MayReturn
      <4>3. t \notin inserting
        BY <3>1, <3>2, <4>2 DEF InsertedOnce
      <4> QED BY <1>0, <2>1, <3>1, <3>2, <4>2, <4>3 DEF Done
    <3> QED BY <1>0, <2>1, <3>2 DEF Done
  <2>3. CASE ClaimWins(w)
    <3>1. txStatus[cur[w]] = "pending"
      BY <2>3 DEF ClaimWins, Claimable
    <3>2. txStatus'[t] = txStatus[t]
      BY <2>3, <3>1 DEF ClaimWins, Done
    <3> QED BY <1>0, <2>1, <3>2 DEF Done
  <2>4. CASE UNCHANGED txStatus
    BY <1>0, <2>1, <2>4 DEF Done
  <2> QED
    BY <1>4, <2>2, <2>3, <2>4 DEF Worker, WorkerFault, FetchPending, FetchFails, CheckFound,
       CheckSkips, ClaimLoses, FollowUp, ReadLoan, ActivatePendingLoan, ApplyLoanRepayment,
       FollowUpFails, CreateNotification, EndLoop, Crash, txVars
<1> QED BY <1>1, <1>2, <1>3, <1>4 DEF Next

(* A step that makes no worker begin to apply a transaction and applies    *)
(* none.                                                                   *)
LEMMA OneByOneKept ==
  ASSUME TypeOK, Verdicts, Rows, InsertedOnce, ~MayReturn, OneByOne, Next,
         UNCHANGED <<repaid, credited>>,
         \A w \in Workers : Applying(w)' => Applying(w) /\ cur'[w] = cur[w]
  PROVE  OneByOne'
<1>1. ASSUME NEW w \in Workers, Applying(w)'
      PROVE  Done(cur[w])' /\ cur'[w] \notin repaid'
  <2>1. cur[w] \in Txs
    BY <1>1 DEF Applying, Verdicts, Busy
  <2> QED BY <1>1, <2>1, DoneStays DEF OneByOne, Done
<1>2. \A v, w \in Workers : Applying(v)' /\ Applying(w)' /\ v # w => cur'[v] # cur'[w]
  BY DEF OneByOne
<1>3. \A t \in repaid' : Done(t)' /\ Kind[t] = "loan_repay" /\ chain'[t] = "success"
  BY DoneStays, LedgerIsFinal DEF OneByOne, TypeOK, HistoryTypes, Final
<1>4. \A l \in Loans : credited'[l] = SumOver(Part(repaid', l), Txs)
  BY DEF OneByOne
<1> QED BY <1>1, <1>2, <1>3, <1>4 DEF OneByOne, Done

(* A claim: nobody else applies the transaction, for its row is pending.   *)
LEMMA OneByOneClaim ==
  ASSUME TypeOK, Verdicts, Rows, InsertedOnce, ~MayReturn, OneByOne, Next,
         NEW w \in Workers, ClaimWins(w)
  PROVE  OneByOne'
<1> USE DEF TypeOK, WorkerTypes, TxTypes
<1> DEFINE t == cur[w]
<1>1. /\ t \in Txs /\ txStatus[t] = "pending" /\ verdict[w] \in Final
      /\ chain[t] = verdict[w]
  BY DEF ClaimWins, Claimable, Verdicts, Busy
<1>2. /\ cur' = cur /\ txStatus' = [txStatus EXCEPT ![t] = verdict[w]]
      /\ UNCHANGED <<chain, regime, repaid, credited>>
      /\ \A v \in Workers : v # w => pc'[v] = pc[v]
  BY DEF ClaimWins, Goto, chainVars, history
<1>3. t \notin repaid /\ \A v \in Workers : Applying(v) => cur[v] # t
  BY <1>1 DEF OneByOne, Done
<1>4. Done(t)'
  BY <1>1, <1>2 DEF Done, Final
<1>5. \A v \in Workers : Applying(v)' => v = w \/ (v # w /\ Applying(v))
  BY <1>2 DEF Applying
<1>6. ASSUME NEW v \in Workers, Applying(v)'
      PROVE  Done(cur[v])' /\ cur'[v] \notin repaid'
  <2>1. CASE v = w
    BY <1>2, <1>3, <1>4, <2>1 DEF Done
  <2>2. CASE v # w
    <3>1. Applying(v) /\ cur[v] \in Txs
      BY <1>5, <1>6, <2>2 DEF Applying, Verdicts, Busy
    <3> QED BY <1>2, <3>1, DoneStays DEF OneByOne, Done
  <2> QED BY <2>1, <2>2
<1>7. \A u, v \in Workers : Applying(u)' /\ Applying(v)' /\ u # v => cur'[u] # cur'[v]
  BY <1>2, <1>3, <1>5 DEF OneByOne
<1>8. \A u \in repaid' : Done(u)' /\ Kind[u] = "loan_repay" /\ chain'[u] = "success"
  BY <1>2, DoneStays DEF OneByOne, HistoryTypes
<1>9. \A l \in Loans : credited'[l] = SumOver(Part(repaid', l), Txs)
  BY <1>2 DEF OneByOne
<1> QED BY <1>2, <1>6, <1>7, <1>8, <1>9 DEF OneByOne, Done

(* An application: one more repayment, which was not among them.           *)
LEMMA OneByOneApply ==
  ASSUME TypeOK, Verdicts, Progress, Rows, InsertedOnce, ~MayReturn, OneByOne, Next,
         NEW w \in Workers, ApplyLoanRepayment(w)
  PROVE  OneByOne'
<1> USE DEF TypeOK, WorkerTypes, HistoryTypes
<1> DEFINE t == cur[w]
<1>1. /\ t \in Txs /\ Kind[t] = "loan_repay" /\ chain[t] = "success"
      /\ Done(t) /\ t \notin repaid /\ Applying(w)
  <2>1. HasFollowUp(t, verdict[w]) /\ label[t] = "loan_repay"
    BY DEF ApplyLoanRepayment, Progress
  <2> QED
    BY <2>1 DEF ApplyLoanRepayment, HasFollowUp, Verdicts, Busy, OneByOne, Applying
<1>2. /\ UNCHANGED <<cur, chain, txStatus, inserting, regime>>
      /\ pc' = [pc EXCEPT ![w] = "notify"]
      /\ repaid' = repaid \cup {t}
      /\ credited' = [credited EXCEPT ![LoanOf[t]] = @ + Amount[t]]
  BY DEF ApplyLoanRepayment, Goto, chainVars, txVars
<1>3. \A u : Done(u)' <=> Done(u)
  BY <1>2 DEF Done
<1>4. \A v \in Workers : Applying(v)' => v # w /\ Applying(v)
  BY <1>2 DEF Applying
<1>5. \A v \in Workers : Applying(v)' => Done(cur[v])' /\ cur'[v] \notin repaid'
  BY <1>1, <1>2, <1>3, <1>4 DEF OneByOne
<1>6. \A u, v \in Workers : Applying(u)' /\ Applying(v)' /\ u # v => cur'[u] # cur'[v]
  BY <1>2, <1>4 DEF OneByOne
<1>7. \A u \in repaid' : Done(u)' /\ Kind[u] = "loan_repay" /\ chain'[u] = "success"
  BY <1>1, <1>2, <1>3 DEF OneByOne
<1>8. ASSUME NEW l \in Loans
      PROVE  credited'[l] = SumOver(Part(repaid', l), Txs)
  <2>1. /\ IsFiniteSet(Txs)
        /\ \A u \in Txs : Amount[u] \in Nat
    BY ConstantsAssumption
  <2>2. credited[l] = SumOver(Part(repaid, l), Txs)
    BY DEF OneByOne
  <2>3. CASE l = LoanOf[t]
    <3> DEFINE before == Part(repaid, l)
               after == Part(repaid', l)
               a == Amount[t]
    <3>1. \A u \in Txs : /\ before[u] \in Nat
                         /\ after[u] = before[u] + (IF u = t THEN a ELSE 0)
      BY <1>1, <1>2, <2>1, <2>3 DEF Part
    <3>4. t \in Txs /\ a \in Nat
      BY <1>1, <2>1
    <3> HIDE DEF before, after, a
    <3>5. SumOver(after, Txs) = SumOver(before, Txs) + a
      <4> HIDE DEF t
      <4> QED BY <2>1, <3>1, <3>4, SumRaised
    <3>2. SumOver(Part(repaid', l), Txs) = SumOver(Part(repaid, l), Txs) + Amount[t]
      BY <3>5 DEF before, after, a
    <3>3. credited'[l] = credited[l] + Amount[t]
      BY <1>2, <2>3
    <3> QED BY <2>2, <3>2, <3>3
  <2>4. CASE l # LoanOf[t]
    <3>1. Part(repaid', l) = Part(repaid, l)
      BY <1>2, <2>4 DEF Part
    <3> QED BY <1>2, <2>2, <2>4, <3>1
  <2> QED BY <2>3, <2>4
<1> QED BY <1>2, <1>5, <1>6, <1>7, <1>8 DEF OneByOne, Done

LEMMA OneByOneNext ==
  ASSUME TypeOK, Verdicts, Progress, Rows, InsertedOnce, MayReturn \/ OneByOne, [Next]_vars
  PROVE  (MayReturn \/ OneByOne)'
<1>0. MayReturn' <=> MayReturn
  BY RegimeKept DEF MayReturn
<1>1. SUFFICES ASSUME ~MayReturn PROVE OneByOne'
  BY <1>0
<1>2. CASE UNCHANGED vars
  BY <1>1, <1>2 DEF vars, chainVars, txVars, workerVars, history, OneByOne, Done, Applying
<1>3. CASE Next
  <2>1. CASE \E t \in Txs : Client(t) \/ Submission(t) \/ CloseLedger(t)
    <3>1. UNCHANGED <<workerVars, history>>
      BY <2>1, OthersFrame DEF Client, CreateLoan, RepayLoan, BuildOther, BuildOwn, Submission,
         SubmitTransaction, SubmitTimesOut, PersistTransactionRecord, PersistFails, CloseLedger
    <3> QED BY <1>1, <1>3, <3>1, OneByOneKept DEF workerVars, history, Applying
  <2>2. CASE \E p \in Pollers : Poller(p)
    <3>1. UNCHANGED <<workerVars, history>>
      BY <2>2 DEF Poller, PollStart, PollLookup, PollUnanswered, PollPersist
    <3> QED BY <1>1, <1>3, <3>1, OneByOneKept DEF workerVars, history, Applying
  <2>3. ASSUME NEW w \in Workers, Worker(w) \/ WorkerFault(w)
        PROVE  OneByOne'
    <3>1. CASE ClaimWins(w)
      BY <1>1, <1>3, <3>1, OneByOneClaim
    <3>2. CASE ApplyLoanRepayment(w)
      BY <1>1, <1>3, <3>2, OneByOneApply
    <3>3. CASE ~ClaimWins(w) /\ ~ApplyLoanRepayment(w)
      <4>1. UNCHANGED <<repaid, credited>>
        BY <2>3, <3>3 DEF Worker, WorkerFault, FetchPending, FetchFails, CheckFound, CheckSkips,
           ClaimLoses, FollowUp, ReadLoan, ActivatePendingLoan, FollowUpFails,
           CreateNotification, EndLoop, CleanupOldTransactions, Crash, history
      <4>2. Applying(w)' => Applying(w) /\ cur'[w] = cur[w]
        BY <2>3, <3>3 DEF Worker, WorkerFault, FetchPending, FetchFails, CheckFound, CheckSkips,
           ClaimLoses, FollowUp, ReadLoan, ActivatePendingLoan, FollowUpFails,
           CreateNotification, EndLoop, CleanupOldTransactions, Crash, NextTransaction, Goto,
           Applying, TypeOK, WorkerTypes
      <4>3. \A v \in Workers : v # w => pc'[v] = pc[v] /\ cur'[v] = cur[v]
        BY <2>3, WorkerFrame
      <4>4. \A v \in Workers : Applying(v)' => Applying(v) /\ cur'[v] = cur[v]
        BY <4>2, <4>3 DEF Applying
      <4> QED BY <1>1, <1>3, <4>1, <4>4, OneByOneKept
    <3> QED BY <3>1, <3>2, <3>3
  <2> QED BY <1>3, <2>1, <2>2, <2>3 DEF Next
<1> QED BY <1>2, <1>3

(* What was subtracted from a loan is at most what the ledger has.         *)
LEMMA CreditedIsRepaid ==
  ASSUME TypeOK, OneByOne, NEW l \in Loans
  PROVE  RepaidOnLedger(l) \in Nat /\ credited[l] <= RepaidOnLedger(l)
<1> DEFINE f == [t \in Txs |-> IF /\ Kind[t] = "loan_repay"
                                  /\ LoanOf[t] = l
                                  /\ chain[t] = "success"
                               THEN Amount[t] ELSE 0]
<1>1. IsFiniteSet(Txs) /\ \A u \in Txs : Amount[u] \in Nat
  BY ConstantsAssumption
<1>2. RepaidOnLedger(l) = SumOver(f, Txs)
  BY DEF RepaidOnLedger, MapThenSumSet, MapThenFoldSet, SumOver
<1>3. \A t \in Txs : /\ Part(repaid, l)[t] \in Nat /\ f[t] \in Nat
                     /\ Part(repaid, l)[t] <= f[t]
  BY <1>1 DEF Part, OneByOne
<1> HIDE DEF f
<1>4. /\ SumOver(f, Txs) \in Nat
      /\ SumOver(Part(repaid, l), Txs) <= SumOver(f, Txs)
  BY <1>1, <1>3, SumOverType, SumMonotone
<1> QED BY <1>2, <1>4 DEF OneByOne

(* Workers that overwrite each other's balance can only lose a repayment,  *)
(* and none is subtracted twice unless its record is deleted and it is     *)
(* submitted again: the balance never falls below the total less the       *)
(* repayments the ledger has, so a borrower is never forgiven more than was*)
(* paid.                                                                   *)
THEOREM NeverForgiven == Spec => []NeverOverCredited
<1>1. Init => Credits /\ Covers /\ Rows /\ InsertedOnce /\ (MayReturn \/ OneByOne)
  <2> SUFFICES ASSUME Init
               PROVE  Credits /\ Covers /\ Rows /\ InsertedOnce /\ OneByOne
    OBVIOUS
  <2>1. ASSUME NEW l \in Loans
        PROVE  credited[l] = SumOver(Part(repaid, l), Txs)
    <3>1. IsFiniteSet(Txs) /\ \A t \in Txs : Part(repaid, l)[t] = 0
      BY ConstantsAssumption DEF Init, Part
    <3>2. SumOver(Part(repaid, l), Txs) = 0
      BY <3>1, SumOfZeros
    <3> QED BY <3>2 DEF Init
  <2>2. OneByOne
    BY <2>1 DEF Init, OneByOne, Applying
  <2> QED BY <2>2 DEF Init, Credits, Covers, Rows, InsertedOnce
<1>2. TypeOK /\ Verdicts /\ Progress /\ (Credits /\ Covers) /\ [Next]_vars
        => (Credits /\ Covers)'
  BY CreditsNext
<1>3. TypeOK /\ Verdicts /\ Rows /\ [Next]_vars => Rows'
  BY RowsNext
<1>4. TypeOK /\ Verdicts /\ Rows /\ InsertedOnce /\ [Next]_vars => InsertedOnce'
  BY InsertedOnceNext
<1>5. /\ TypeOK /\ Verdicts /\ Progress /\ Rows /\ InsertedOnce
      /\ (MayReturn \/ OneByOne) /\ [Next]_vars
      => (MayReturn \/ OneByOne)'
  BY OneByOneNext
<1>6. TypeOK /\ Covers /\ (MayReturn \/ OneByOne) => NeverOverCredited
  <2> SUFFICES ASSUME TypeOK, Covers, OneByOne, NEW l \in Loans, loanStatus[l] # "none"
               PROVE  balance[l] + RepaidOnLedger(l) >= Total[l]
    BY DEF NeverOverCredited, MayReturn
  <2>1. RepaidOnLedger(l) \in Nat /\ credited[l] <= RepaidOnLedger(l)
    BY CreditedIsRepaid
  <2>2. /\ balance[l] + credited[l] >= Total[l]
        /\ balance[l] \in Nat /\ credited[l] \in Nat /\ Total[l] \in Nat
    BY CentsType DEF Covers, TypeOK, LoanTypes, HistoryTypes
  <2> HIDE DEF RepaidOnLedger
  <2> QED BY <2>1, <2>2
<1> QED
  BY <1>1, <1>2, <1>3, <1>4, <1>5, <1>6, TypeCorrect, ProgressCorrect, PTL DEF Spec

-----------------------------------------------------------------------------
(* While runs do not overlap, nothing is lost either.                      *)

(* One worker at a time, and what it read of a loan is still so when it    *)
(* writes.                                                                 *)
OneRun == \A v, w \in Workers : pc[v] # "idle" /\ pc[w] # "idle" => v = w
ReadIsCurrent ==
  \A w \in Workers : pc[w] = "write" =>
    LET l == LoanOf[cur[w]] IN
    /\ loanStatus[l] # "none"
    /\ seen[w].status = loanStatus[l]
    /\ seen[w].balance = balance[l]
Outstanding ==
  \A l \in Loans : loanStatus[l] # "none" =>
    /\ balance[l] = Repaid(Total[l], credited[l])
    /\ loanStatus[l] = "completed" <=> balance[l] = 0

Uncredited == \A l \in Loans : loanStatus[l] = "none" => credited[l] = 0

Exact == OneRun /\ ReadIsCurrent /\ Outstanding /\ Uncredited

LEMMA OneRunNext ==
  ASSUME TypeOK, OneRun, "overlap" \notin regime, [Next]_vars
  PROVE  OneRun'
<1>1. CASE UNCHANGED pc
  BY <1>1 DEF OneRun
<1>2. ASSUME NEW w \in Workers, Worker(w) \/ WorkerFault(w)
      PROVE  OneRun'
  <2>1. \A v \in Workers \ {w} : pc'[v] = pc[v]
    BY <1>2, WorkerFrame
  <2>2. CASE pc[w] # "idle"
    BY <2>1, <2>2 DEF OneRun
  <2>3. CASE pc[w] = "idle"
    <3>1. FetchPending(w) \/ FetchFails(w)
      BY <1>2, <2>3 DEF Worker, WorkerFault, CheckFound, CheckSkips, ClaimWins, ClaimLoses,
         FollowUp, ReadLoan, ActivatePendingLoan, ApplyLoanRepayment, FollowUpFails,
         CreateNotification, EndLoop, CleanupOldTransactions, Crash
    <3>2. \A v \in Workers : pc[v] = "idle"
      BY <3>1 DEF FetchPending, FetchFails, MayStart
    <3> QED BY <2>1, <3>2 DEF OneRun
  <2> QED BY <2>2, <2>3
<1> QED BY <1>1, <1>2, OthersFrame DEF Next, vars, workerVars

(* A second repayment of what a first has left is one repayment of both.   *)
LEMMA RepaidTwice ==
  ASSUME NEW b \in Nat, NEW c \in Nat, NEW a \in Nat
  PROVE  /\ Repaid(Repaid(b, c), a) = Repaid(b, c + a)
         /\ Repaid(b, a) \in Nat
         /\ Repaid(b, 0) = b /\ Repaid(0, a) = 0
  BY DEF Repaid

LEMMA OutstandingNext ==
  ASSUME TypeOK, Verdicts, Progress, Exact, Next
  PROVE  Outstanding' /\ Uncredited'
<1> USE DEF TypeOK, LoanTypes, HistoryTypes
<1>1. CASE UNCHANGED <<loanVars, credited>>
  BY <1>1 DEF loanVars, Exact, Outstanding, Uncredited
<1>2. ASSUME NEW t \in Txs, CreateLoan(t)
      PROVE  Outstanding' /\ Uncredited'
  <2> DEFINE m == LoanOf[t]
  <2>1. /\ m \in Loans /\ Total[m] \in Nat \ {0}
        /\ loanStatus[m] = "none" /\ UNCHANGED credited
        /\ loanStatus' = [loanStatus EXCEPT ![m] = "pending"]
        /\ balance' = [balance EXCEPT ![m] = Total[m]]
    BY <1>2, ConstantsAssumption DEF CreateLoan, history
  <2>2. credited[m] = 0
    BY <2>1 DEF Exact, Uncredited
  <2>3. Repaid(Total[m], credited[m]) = Total[m]
    BY <2>1, <2>2, RepaidTwice
  <2> QED BY <2>1, <2>2, <2>3 DEF Exact, Outstanding, Uncredited
<1>3. ASSUME NEW w \in Workers, ActivatePendingLoan(w)
      PROVE  Outstanding' /\ Uncredited'
  BY <1>3 DEF ActivatePendingLoan, Exact, Outstanding, Uncredited
<1>4. ASSUME NEW w \in Workers, ApplyLoanRepayment(w), AppliesTo(cur[w])
      PROVE  Outstanding' /\ Uncredited'
  <2> DEFINE m == LoanOf[cur[w]]
             a == Amount[cur[w]]
             left == Repaid(balance[m], a)
  <2>1. /\ seen[w].balance = balance[m] /\ seen[w].status = loanStatus[m]
    BY <1>4 DEF ApplyLoanRepayment, Exact, ReadIsCurrent
  <2>2. /\ balance' = [balance EXCEPT ![m] = left]
        /\ credited' = [credited EXCEPT ![m] = @ + a]
        /\ loanStatus' = [loanStatus EXCEPT ![m] = StatusAfter(@, seen[w], left)]
    BY <1>4, <2>1 DEF ApplyLoanRepayment
  <2>3. m \in Loans /\ a \in Nat /\ Total[m] \in Nat /\ balance[m] \in Nat /\ credited[m] \in Nat
    BY <1>4, CentsType, LoanOfType DEF ApplyLoanRepayment, Verdicts, Busy
  <2>4. /\ balance[m] = Repaid(Total[m], credited[m])
        /\ loanStatus[m] = "completed" <=> balance[m] = 0
    BY <1>4, <2>3 DEF Exact, Outstanding, AppliesTo
  <2>5. left = Repaid(Total[m], credited[m] + a) /\ (balance[m] = 0 => left = 0)
    <3>1. Repaid(Repaid(Total[m], credited[m]), a) = Repaid(Total[m], credited[m] + a)
      BY <2>3 DEF Repaid
    <3>2. Repaid(0, a) = 0
      BY <2>3, RepaidTwice
    <3> QED BY <2>4, <3>1, <3>2
  <2>6. /\ loanStatus'[m] # "none"
        /\ loanStatus'[m] = "completed" <=> left = 0
    BY <1>4, <2>1, <2>2, <2>3, <2>4, <2>5 DEF StatusAfter, AppliesTo
  <2>7. \A l \in Loans \ {m} :
          balance'[l] = balance[l] /\ credited'[l] = credited[l] /\ loanStatus'[l] = loanStatus[l]
    BY <2>2
  <2>8. balance'[m] = left /\ credited'[m] = credited[m] + a
    BY <2>2, <2>3
  <2>9. Outstanding /\ Uncredited
    BY DEF Exact
  <2> HIDE DEF m, left, a
  <2>10. Outstanding'
    <3> SUFFICES ASSUME NEW l \in Loans, loanStatus'[l] # "none"
                 PROVE  /\ balance'[l] = Repaid(Total[l], credited'[l])
                        /\ loanStatus'[l] = "completed" <=> balance'[l] = 0
      BY DEF Outstanding
    <3>1. CASE l = m
      BY <3>1, <2>5, <2>6, <2>8
    <3>2. CASE l # m
      BY <3>2, <2>7, <2>9 DEF Outstanding
    <3> QED BY <3>1, <3>2
  <2>11. Uncredited'
    BY <2>6, <2>7, <2>9 DEF Uncredited
  <2> QED BY <2>10, <2>11
<1> QED BY <1>1, <1>2, <1>3, <1>4, LoanSteps

LEMMA ReadIsCurrentNext ==
  ASSUME TypeOK, Verdicts, Progress, Exact, "overlap" \notin regime, Next
  PROVE  ReadIsCurrent'
<1> USE DEF TypeOK, LoanTypes, WorkerTypes
<1>1. SUFFICES ASSUME NEW v \in Workers, pc'[v] = "write"
               PROVE  LET l == LoanOf[cur'[v]] IN
                      /\ loanStatus'[l] # "none"
                      /\ seen'[v].status = loanStatus'[l]
                      /\ seen'[v].balance = balance'[l]
  BY DEF ReadIsCurrent
<1>2. CASE Worker(v) \/ WorkerFault(v)
  <2>1. ReadLoan(v)
    BY <1>1, <1>2 DEF Worker, WorkerFault, FetchPending, FetchFails, CheckFound, CheckSkips,
       ClaimWins, ClaimLoses, FollowUp, ActivatePendingLoan, ApplyLoanRepayment, FollowUpFails,
       CreateNotification, EndLoop, CleanupOldTransactions, Crash, NextTransaction, Goto
  <2> QED BY <1>1, <2>1 DEF ReadLoan, Goto, GoesOn, loanVars
<1>3. ASSUME pc[v] = "write", cur'[v] = cur[v], seen'[v] = seen[v],
             LET l == LoanOf[cur[v]] IN
             loanStatus[l] # "none" =>
               loanStatus'[l] = loanStatus[l] /\ balance'[l] = balance[l]
      PROVE  LET l == LoanOf[cur'[v]] IN
             /\ loanStatus'[l] # "none"
             /\ seen'[v].status = loanStatus'[l]
             /\ seen'[v].balance = balance'[l]
  BY <1>3 DEF Exact, ReadIsCurrent
<1>4. ASSUME NEW w \in Workers \ {v}, Worker(w) \/ WorkerFault(w)
      PROVE  FALSE
  <2>1. pc[v] = "write"
    BY <1>1, <1>4, WorkerFrame
  <2>2. ~MayStart(w)
    BY <2>1 DEF MayStart
  <2>3. pc[w] # "idle"
    BY <1>4, <2>2 DEF Worker, WorkerFault, FetchPending, FetchFails, CheckFound, CheckSkips,
       ClaimWins, ClaimLoses, FollowUp, ReadLoan, ActivatePendingLoan, ApplyLoanRepayment,
       FollowUpFails, CreateNotification, EndLoop, CleanupOldTransactions, Crash
  <2> QED BY <2>1, <2>3, <1>4 DEF Exact, OneRun
<1>5. CASE \/ \E t \in Txs : Client(t) \/ Submission(t) \/ CloseLedger(t)
           \/ \E p \in Pollers : Poller(p)
  <2>1. pc[v] = "write" /\ cur'[v] = cur[v] /\ seen'[v] = seen[v]
    BY <1>1, <1>5, OthersFrame DEF workerVars
  <2>2. cur[v] \in Txs /\ LoanOf[cur[v]] \in Loans
    BY <2>1, LoanOfType DEF Verdicts, Busy
  <2>3. \/ UNCHANGED loanVars
        \/ \E t \in Txs : CreateLoan(t)
    BY <1>5 DEF Client, RepayLoan, BuildOther, BuildOwn, Submission, SubmitTransaction, SubmitTimesOut,
       PersistTransactionRecord, PersistFails, CloseLedger, Poller, PollStart, PollLookup,
       PollUnanswered, PollPersist
  <2>4. LET l == LoanOf[cur[v]] IN
        loanStatus[l] # "none" =>
               loanStatus'[l] = loanStatus[l] /\ balance'[l] = balance[l]
    <3>1. CASE UNCHANGED loanVars
      BY <3>1 DEF loanVars
    <3>2. ASSUME NEW t \in Txs, CreateLoan(t), loanStatus[LoanOf[cur[v]]] # "none"
          PROVE  /\ loanStatus'[LoanOf[cur[v]]] = loanStatus[LoanOf[cur[v]]]
                 /\ balance'[LoanOf[cur[v]]] = balance[LoanOf[cur[v]]]
      BY <2>2, <3>2 DEF CreateLoan
    <3> QED BY <2>3, <3>1, <3>2
  <2> QED BY <1>3, <2>1, <2>4
<1> QED BY <1>2, <1>4, <1>5 DEF Next

LEMMA ExactNext ==
  ASSUME TypeOK, Verdicts, Progress, "overlap" \notin regime => Exact, [Next]_vars
  PROVE  ("overlap" \notin regime => Exact)'
<1>1. CASE UNCHANGED vars
  BY <1>1 DEF vars, loanVars, workerVars, history, Exact, OneRun, ReadIsCurrent, Outstanding,
     Uncredited
<1>2. CASE Next
  <2>1. SUFFICES ASSUME "overlap" \notin regime PROVE Exact'
    BY RegimeKept
  <2>2. OneRun'
    BY <2>1, OneRunNext DEF Exact
  <2>3. ReadIsCurrent'
    BY <1>2, <2>1, ReadIsCurrentNext
  <2>4. Outstanding' /\ Uncredited'
    BY <1>2, <2>1, OutstandingNext
  <2> QED BY <2>2, <2>3, <2>4 DEF Exact
<1> QED BY <1>1, <1>2

(* While runs of the checker do not overlap, the balance of a loan is what *)
(* is left of its total after every repayment that was applied, however    *)
(* often workers die, calls fail or clients submit again; and the loan is  *)
(* completed exactly when nothing is left.                                 *)
THEOREM BalancesAreOutstanding == Spec => []BalanceIsOutstanding
<1>1. Init => ("overlap" \notin regime => Exact)
  BY NoLoanRowType DEF Init, Exact, OneRun, ReadIsCurrent, Outstanding, Uncredited
<1>2. /\ TypeOK /\ Verdicts /\ Progress
      /\ ("overlap" \notin regime => Exact) /\ [Next]_vars
      => ("overlap" \notin regime => Exact)'
  BY ExactNext
<1>3. ("overlap" \notin regime => Exact) => BalanceIsOutstanding
  BY DEF Exact, Outstanding, BalanceIsOutstanding
<1> QED BY <1>1, <1>2, <1>3, TypeCorrect, ProgressCorrect, PTL DEF Spec

-----------------------------------------------------------------------------
(* Follow-ups and notifications: once for each record.                     *)

OnceInv == Claims /\ FollowUpOncePerRecord

(* A step after which every owner owned its row before, every pending row  *)
(* was pending before or is new, and nothing was followed up or notified.  *)
Quiet ==
  /\ UNCHANGED history
  /\ \A v \in Workers : Owns(v)' =>
       /\ Owns(v)
       /\ claimed'[v] = claimed[v]
       /\ pc'[v] # "notify" => pc[v] # "notify"
  /\ nextRow' \in {nextRow, nextRow + 1}
  /\ \A t \in Txs : txStatus'[t] = "pending" =>
       \/ txStatus[t] = "pending" /\ row'[t] = row[t]
       \/ row'[t] = nextRow /\ nextRow' = nextRow + 1 /\ row'[t] \in 1 .. MaxRows

LEMMA QuietStep == ASSUME TypeOK, Rows, OnceInv, Quiet PROVE OnceInv'
<1> USE DEF TypeOK, TxTypes, OnceInv, Quiet
<1>0. nextRow \in Nat /\ MaxRows \in Nat
  BY MaxRowsType
<1>1. FollowUpOncePerRecord'
  BY DEF FollowUpOncePerRecord, history
<1>2. ASSUME NEW w \in Workers, Owns(w)'
      PROVE  /\ claimed'[w] \in 1 .. MaxRows
             /\ claimed'[w] < nextRow'
             /\ notified'[claimed'[w]] = 0
             /\ pc'[w] # "notify" => followed'[claimed'[w]] = 0
  BY <1>0, <1>2 DEF Claims, history
<1>3. ASSUME NEW v \in Workers, NEW w \in Workers, Owns(v)', Owns(w)', v # w
      PROVE  claimed'[v] # claimed'[w]
  BY <1>3 DEF Claims
<1>4. ASSUME NEW t \in Txs, txStatus'[t] = "pending"
      PROVE  /\ followed'[row'[t]] = 0 /\ notified'[row'[t]] = 0
             /\ \A w \in Workers : Owns(w)' => claimed'[w] # row'[t]
  <2>1. CASE txStatus[t] = "pending" /\ row'[t] = row[t]
    BY <2>1 DEF Claims, history, Fresh
  <2>2. CASE row'[t] = nextRow /\ row'[t] \in 1 .. MaxRows
    BY <1>0, <2>2 DEF Claims, history, Fresh
  <2> QED BY <1>4, <2>1, <2>2
<1>5. \A r \in 1 .. MaxRows : r >= nextRow' =>
        followed'[r] = 0 /\ notified'[r] = 0
  BY <1>0 DEF Claims, history, Fresh
<1> QED BY <1>1, <1>2, <1>3, <1>4, <1>5 DEF Claims, Fresh

(* The conditional update: the pending row becomes the worker's own.       *)
LEMMA ClaimStep ==
  ASSUME TypeOK, Verdicts, Rows, OnceInv, NEW w \in Workers, ClaimWins(w)
  PROVE  OnceInv'
<1> USE DEF TypeOK, TxTypes, WorkerTypes, OnceInv
<1> DEFINE t == cur[w]
<1>1. /\ t \in Txs /\ txStatus[t] = "pending" /\ verdict[w] # "pending"
      /\ ~Owns(w)
  BY DEF ClaimWins, Claimable, Verdicts, Busy, Owns, Final
<1>2. /\ claimed' = [claimed EXCEPT ![w] = row[t]]
      /\ pc' \in {[pc EXCEPT ![w] = "read"], [pc EXCEPT ![w] = "notify"]}
      /\ txStatus' = [txStatus EXCEPT ![t] = verdict[w]]
      /\ UNCHANGED <<row, nextRow, history>>
  BY DEF ClaimWins, Goto
<1>3. row[t] \in 1 .. MaxRows /\ row[t] < nextRow
  BY <1>1, MaxRowsType DEF Rows
<1>4. FollowUpOncePerRecord'
  BY <1>2 DEF FollowUpOncePerRecord, history
<1>5. ASSUME NEW v \in Workers, Owns(v)'
      PROVE  \/ v # w /\ Owns(v) /\ pc'[v] = pc[v] /\ claimed'[v] = claimed[v]
             \/ v = w /\ claimed'[v] = row[t]
  BY <1>2, <1>5 DEF Owns
<1>6. ASSUME NEW v \in Workers, Owns(v)'
      PROVE  /\ claimed'[v] \in 1 .. MaxRows
             /\ claimed'[v] < nextRow'
             /\ notified'[claimed'[v]] = 0
             /\ pc'[v] # "notify" => followed'[claimed'[v]] = 0
  BY <1>1, <1>2, <1>3, <1>5, <1>6 DEF Claims, Fresh, history
<1>7. ASSUME NEW u \in Workers, NEW v \in Workers, Owns(u)', Owns(v)', u # v
      PROVE  claimed'[u] # claimed'[v]
  BY <1>1, <1>5, <1>7 DEF Claims
<1>8. ASSUME NEW u \in Txs, txStatus'[u] = "pending"
      PROVE  /\ followed'[row'[u]] = 0 /\ notified'[row'[u]] = 0
             /\ \A v \in Workers : Owns(v)' => claimed'[v] # row'[u]
  <2>1. u # t /\ txStatus[u] = "pending" /\ row'[u] = row[u]
    BY <1>1, <1>2, <1>8
  <2>2. row[u] # row[t]
    BY <1>1, <1>3, <2>1 DEF Rows
  <2> QED BY <1>2, <1>5, <2>1, <2>2 DEF Claims, Fresh, history
<1>9. \A r \in 1 .. MaxRows : r >= nextRow' =>
        followed'[r] = 0 /\ notified'[r] = 0
  BY <1>2 DEF Claims, Fresh, history
<1> QED BY <1>4, <1>6, <1>7, <1>8, <1>9 DEF Claims, Fresh

(* An owner raises a counter of its own row, which nobody else's business  *)
(* is, and goes on to a state in which that counter is no longer its own.  *)
LEMMA CounterStep ==
  ASSUME TypeOK, Rows, OnceInv, NEW w \in Workers, Owns(w),
         UNCHANGED <<txVars>>,
         \/ /\ pc[w] = "write" /\ pc' = [pc EXCEPT ![w] = "notify"]
            /\ UNCHANGED <<claimed, notified>>
            /\ followed' = [followed EXCEPT ![claimed[w]] = @ + 1]
         \/ /\ pc[w] = "notify" /\ pc' = [pc EXCEPT ![w] = "loop"]
            /\ claimed' = [claimed EXCEPT ![w] = 0]
            /\ notified' = [notified EXCEPT ![claimed[w]] = @ + 1]
            /\ UNCHANGED followed
  PROVE  OnceInv'
<1> USE DEF TypeOK, TxTypes, WorkerTypes, HistoryTypes, OnceInv
<1> DEFINE r == claimed[w]
<1>1. /\ r \in 1 .. MaxRows /\ r < nextRow /\ notified[r] = 0
      /\ pc[w] = "write" => followed[r] = 0
  BY DEF Claims
<1>2. /\ \A q \in 1 .. MaxRows : q # r =>
           followed'[q] = followed[q] /\ notified'[q] = notified[q]
      /\ pc[w] = "write" => followed'[r] = 1 /\ notified'[r] = 0
      /\ pc[w] = "notify" => followed'[r] = followed[r] /\ notified'[r] = 1
  <2>1. CASE /\ pc[w] = "write"
             /\ followed' = [followed EXCEPT ![r] = @ + 1]
             /\ notified' = notified
    BY <1>1, <2>1
  <2>2. CASE /\ pc[w] = "notify"
             /\ notified' = [notified EXCEPT ![r] = @ + 1]
             /\ followed' = followed
    BY <1>1, <2>2
  <2> QED BY <2>1, <2>2
<1>3. FollowUpOncePerRecord'
  <2>1. followed'[r] <= 1 /\ notified'[r] <= 1
    BY <1>1, <1>2 DEF FollowUpOncePerRecord
  <2> QED BY <1>2, <2>1 DEF FollowUpOncePerRecord
<1>4. ASSUME NEW v \in Workers, Owns(v)'
      PROVE  /\ Owns(v) /\ claimed'[v] = claimed[v]
             /\ \/ v # w /\ pc'[v] = pc[v] /\ claimed[v] # r
                \/ v = w /\ pc'[v] = "notify" /\ pc[w] = "write"
  BY <1>4 DEF Owns, Claims
<1>5. ASSUME NEW v \in Workers, Owns(v)'
      PROVE  /\ claimed'[v] \in 1 .. MaxRows
             /\ claimed'[v] < nextRow'
             /\ notified'[claimed'[v]] = 0
             /\ pc'[v] # "notify" => followed'[claimed'[v]] = 0
  BY <1>1, <1>2, <1>4, <1>5 DEF Claims, txVars
<1>6. ASSUME NEW u \in Workers, NEW v \in Workers, Owns(u)', Owns(v)', u # v
      PROVE  claimed'[u] # claimed'[v]
  BY <1>4, <1>6 DEF Claims
<1>7. ASSUME NEW t \in Txs, txStatus'[t] = "pending"
      PROVE  /\ followed'[row'[t]] = 0 /\ notified'[row'[t]] = 0
             /\ \A v \in Workers : Owns(v)' => claimed'[v] # row'[t]
  <2>1. txStatus[t] = "pending" /\ row'[t] = row[t]
    BY <1>7 DEF txVars
  <2>2. row[t] \in 1 .. MaxRows /\ row[t] # r
    BY <2>1, MaxRowsType DEF Rows, Claims
  <2> QED BY <1>2, <1>4, <2>1, <2>2 DEF Claims, Fresh
<1>8. \A q \in 1 .. MaxRows : q >= nextRow' =>
        followed'[q] = 0 /\ notified'[q] = 0
  BY <1>1, <1>2, MaxRowsType DEF Claims, Fresh, txVars
<1> QED BY <1>3, <1>5, <1>6, <1>7, <1>8 DEF Claims, Fresh

LEMMA OnceNext ==
  TypeOK /\ Verdicts /\ Rows /\ OnceInv /\ [Next]_vars => OnceInv'
<1> SUFFICES ASSUME TypeOK, Verdicts, Rows, OnceInv, [Next]_vars
             PROVE  OnceInv'
  OBVIOUS
<1> USE DEF TypeOK
<1>0. nextRow \in Nat
  BY MaxRowsType DEF TxTypes
<1>1. CASE UNCHANGED vars
  <2>1. Quiet
    BY <1>1 DEF vars, txVars, workerVars, Quiet, Owns
  <2> QED BY <2>1, QuietStep
<1>2. CASE \E t \in Txs : Client(t) \/ Submission(t) \/ CloseLedger(t)
  <2>1. PICK t \in Txs : Client(t) \/ Submission(t) \/ CloseLedger(t)
    BY <1>2
  <2>2. /\ UNCHANGED history
        /\ \A v \in Workers : Owns(v)' => Owns(v) /\ claimed'[v] = claimed[v]
                                          /\ pc'[v] = pc[v]
    BY <1>2, OthersFrame DEF workerVars, Owns
  <2>3. CASE PersistTransactionRecord(t)
    <3>1. CASE txStatus[t] = "none" /\ nextRow <= MaxRows
               /\ txStatus' = [txStatus EXCEPT ![t] = "pending"]
               /\ row' = [row EXCEPT ![t] = nextRow]
               /\ nextRow' = nextRow + 1
      <4>1. nextRow \in 1 .. MaxRows
        BY <3>1, MaxRowsType DEF TxTypes
      <4>2. \A u \in Txs : txStatus'[u] = "pending" =>
              \/ txStatus[u] = "pending" /\ row'[u] = row[u]
              \/ row'[u] = nextRow
        BY <3>1 DEF TxTypes
      <4>3. Quiet
        BY <2>2, <3>1, <4>1, <4>2 DEF Quiet
      <4> QED BY <4>3, QuietStep
    <3>2. CASE UNCHANGED txVars
      <4>1. Quiet
        BY <2>2, <3>2 DEF Quiet, txVars
      <4> QED BY <4>1, QuietStep
    <3> QED BY <2>3, <3>1, <3>2 DEF PersistTransactionRecord
  <2>4. CASE UNCHANGED txVars
    <3>1. Quiet
      BY <2>2, <2>4 DEF Quiet, txVars
    <3> QED BY <3>1, QuietStep
  <2> QED
    BY <2>1, <2>3, <2>4 DEF Client, CreateLoan, RepayLoan, BuildOther, BuildOwn, Submission,
       SubmitTransaction, SubmitTimesOut, PersistFails, CloseLedger
<1>3. CASE \E p \in Pollers : Poller(p)
  <2>1. PICK p \in Pollers : Poller(p)
    BY <1>3
  <2>2. /\ UNCHANGED history
        /\ \A v \in Workers : Owns(v)' => Owns(v) /\ claimed'[v] = claimed[v]
                                          /\ pc'[v] = pc[v]
    BY <1>3, OthersFrame DEF workerVars, Owns
  <2>3. UNCHANGED <<nextRow, row>>
    BY <2>1 DEF Poller, PollStart, PollLookup, PollUnanswered, PollPersist, txVars
  <2>4. \A t \in Txs : txStatus'[t] = "pending" => txStatus[t] = "pending"
    <3>1. CASE PollPersist(p)
      <4>1. poll[p].verdict # "pending"
        BY <3>1 DEF PollPersist, Verdicts, Final
      <4> QED BY <3>1, <4>1 DEF PollPersist, TxTypes
    <3>2. CASE UNCHANGED txVars
      BY <3>2 DEF txVars
    <3> QED
      BY <2>1, <3>1, <3>2 DEF Poller, PollStart, PollLookup, PollUnanswered
  <2>5. Quiet
    BY <2>2, <2>3, <2>4 DEF Quiet
  <2> QED BY <2>5, QuietStep
<1>4. CASE \E w \in Workers : Worker(w) \/ WorkerFault(w)
  <2>1. PICK w \in Workers : Worker(w) \/ WorkerFault(w)
    BY <1>4
  <2>2. CASE ClaimWins(w)
    BY <2>2, ClaimStep
  <2>3. CASE ActivatePendingLoan(w) \/ ApplyLoanRepayment(w)
    <3>1. Owns(w)
      BY <2>3 DEF ActivatePendingLoan, ApplyLoanRepayment, Owns
    <3>2. /\ UNCHANGED <<txVars, claimed, notified>>
          /\ pc[w] = "write" /\ pc' = [pc EXCEPT ![w] = "notify"]
          /\ followed' = [followed EXCEPT ![claimed[w]] = @ + 1]
      BY <2>3 DEF ActivatePendingLoan, ApplyLoanRepayment, Goto
    <3> QED BY <3>1, <3>2, CounterStep
  <2>4. CASE CreateNotification(w) /\ notified' = [notified EXCEPT ![claimed[w]] = @ + 1]
    <3>1. Owns(w)
      BY <2>4 DEF CreateNotification, Owns
    <3>2. /\ UNCHANGED <<txVars, followed>>
          /\ pc[w] = "notify" /\ pc' = [pc EXCEPT ![w] = "loop"]
          /\ claimed' = [claimed EXCEPT ![w] = 0]
      BY <2>4 DEF CreateNotification, NextTransaction, Goto
    <3> QED BY <2>4, <3>1, <3>2, CounterStep
  <2>5. CASE /\ ~ClaimWins(w) /\ ~ActivatePendingLoan(w) /\ ~ApplyLoanRepayment(w)
             /\ CreateNotification(w) => UNCHANGED notified
    <3>1. UNCHANGED <<history, nextRow>>
      BY <2>1, <2>5 DEF Worker, WorkerFault, FetchPending, FetchFails, CheckFound,
         CheckSkips, ClaimLoses, FollowUp, ReadLoan, FollowUpFails,
         CreateNotification, EndLoop, CleanupOldTransactions, Crash, history, txVars
    <3>2. Owns(w)' => /\ Owns(w)
                      /\ claimed'[w] = claimed[w]
                      /\ pc'[w] # "notify" => pc[w] # "notify"
      BY <2>1, <2>5 DEF Worker, WorkerFault, FetchPending, FetchFails, CheckFound,
         CheckSkips, ClaimLoses, FollowUp, ReadLoan, FollowUpFails,
         CreateNotification, EndLoop, CleanupOldTransactions, Crash,
         NextTransaction, Goto, WorkerTypes, Owns
    <3>3. \A v \in Workers : v # w /\ Owns(v)' =>
            Owns(v) /\ claimed'[v] = claimed[v] /\ pc'[v] = pc[v]
      BY <2>1, WorkerFrame DEF Owns
    <3>4. \A t \in Txs : txStatus'[t] = "pending" =>
            txStatus[t] = "pending" /\ row'[t] = row[t]
      <4>1. CASE CleanupOldTransactions(w)
        BY <4>1 DEF CleanupOldTransactions, Final
      <4>2. CASE UNCHANGED txVars
        BY <4>2 DEF txVars
      <4> QED
        BY <2>1, <2>5, <4>1, <4>2 DEF Worker, WorkerFault, FetchPending,
           FetchFails, CheckFound, CheckSkips, ClaimLoses, FollowUp, ReadLoan,
           FollowUpFails, CreateNotification, EndLoop, Crash
    <3>5. Quiet
      BY <3>1, <3>2, <3>3, <3>4 DEF Quiet
    <3> QED BY <3>5, QuietStep
  <2> QED
    BY <2>2, <2>3, <2>4, <2>5 DEF CreateNotification, NextTransaction
<1> QED BY <1>1, <1>2, <1>3, <1>4 DEF Next

(* The follow-up of a record is written at most once and its owner notified*)
(* at most once, for any number of workers that fetch, claim, crash and    *)
(* delete in any order and any number of pollers that finalize in between. *)
THEOREM FollowedUpOnce == Spec => []FollowUpOncePerRecord
<1>1. Init => Rows /\ OnceInv
  BY MaxRowsType DEF Init, Rows, OnceInv, Claims, FollowUpOncePerRecord, Owns, Fresh
<1>2. TypeOK /\ Verdicts /\ Rows /\ [Next]_vars => Rows'
  BY RowsNext
<1>3. TypeOK /\ Verdicts /\ Rows /\ OnceInv /\ [Next]_vars => OnceInv'
  BY OnceNext
<1>4. OnceInv => FollowUpOncePerRecord
  BY DEF OnceInv
<1> QED BY <1>1, <1>2, <1>3, <1>4, TypeCorrect, PTL DEF Spec
-----------------------------------------------------------------------------
(* Undisturbed, no follow-up is left out.                                  *)

Undisturbed == regime \cap {"poll", "crash", "db", "age"} = {}

(* The row a worker owns is that of the transaction it handles.            *)
OwnRow == \A w \in Workers : Owns(w) => claimed[w] = row[cur[w]]

(* A success has had its follow-up, or a worker is about to make it.       *)
Covered ==
  \A t \in Txs : txStatus[t] = "success" /\ HasFollowUp(t, "success") =>
    \/ label[t] = "loan_create" /\ loanStatus[LoanOf[t]] # "pending"
    \/ label[t] = "loan_repay" /\ followed[row[t]] = 1
    \/ \E w \in Workers : cur[w] = t /\ pc[w] \in {"read", "write"}

Served ==
  /\ \A p \in Pollers : poll[p].pc = "idle"
  /\ OwnRow
  /\ Covered

(* A loan that an XDR names and that is not pending stays so.              *)
LEMMA NotPendingAgain ==
  ASSUME TypeOK, Verdicts, Progress, Next, NEW t \in Txs, Kind[t] # "other",
         chain[t] # "none", loanStatus[LoanOf[t]] # "pending"
  PROVE  loanStatus'[LoanOf[t]] # "pending"
<1>1. LoanOf[t] \in Loans /\ loanStatus[LoanOf[t]] # "none"
  BY LoanOfType DEF Progress
<1>2. loanStatus'[LoanOf[t]] = loanStatus[LoanOf[t]] \/ Forward(LoanOf[t])
  BY <1>1, ForwardStep
<1> QED BY <1>1, <1>2 DEF Forward

(* A step of a client or of Stellar.                                       *)
LEMMA ServedByClients ==
  ASSUME TypeOK, Verdicts, Progress, Rows, Claims, Served, RecordAgreesWithChain, Next,
         NEW t \in Txs, Client(t) \/ Submission(t) \/ CloseLedger(t)
  PROVE  Served'
<1> USE DEF TypeOK, ChainTypes, TxTypes, LoanTypes
<1>1. UNCHANGED <<workerVars, history, pollVars>>
  BY DEF Client, CreateLoan, RepayLoan, BuildOther, BuildOwn, Submission, SubmitTransaction,
     SubmitTimesOut, PersistTransactionRecord, PersistFails, CloseLedger
<1>2. \A u \in Txs : /\ row[u] # 0 => row'[u] = row[u]
                     /\ txStatus'[u] = "success" => txStatus[u] = "success"
  <2>1. CASE UNCHANGED txVars
    BY <2>1 DEF txVars
  <2>2. CASE PersistTransactionRecord(t)
    BY <2>1, <2>2 DEF PersistTransactionRecord, Rows
  <2> QED
    BY <2>1, <2>2 DEF Client, CreateLoan, RepayLoan, BuildOther, BuildOwn, Submission,
       SubmitTransaction, SubmitTimesOut, PersistFails, CloseLedger
<1>4. OwnRow'
  <2>1. SUFFICES ASSUME NEW w \in Workers, Owns(w)' PROVE claimed'[w] = row'[cur'[w]]
    BY DEF OwnRow
  <2>2. Owns(w) /\ claimed'[w] = claimed[w] /\ cur'[w] = cur[w]
    BY <1>1, <2>1 DEF workerVars, Owns
  <2>3. cur[w] \in Txs /\ claimed[w] # 0 /\ claimed[w] = row[cur[w]]
    BY <2>2, MaxRowsType DEF Served, OwnRow, Claims, Verdicts, Busy, Owns
  <2> QED BY <1>2, <2>2, <2>3
<1>5. Covered'
  <2>1. SUFFICES ASSUME NEW u \in Txs, txStatus'[u] = "success", HasFollowUp(u, "success")
                 PROVE  \/ label[u] = "loan_create" /\ loanStatus'[LoanOf[u]] # "pending"
                        \/ label[u] = "loan_repay" /\ followed'[row'[u]] = 1
                        \/ \E w \in Workers : cur'[w] = u /\ pc'[w] \in {"read", "write"}
    BY <1>1 DEF Covered, HasFollowUp, history
  <2>2. txStatus[u] = "success" /\ row'[u] = row[u]
    BY <1>2, <2>1 DEF Rows
  <2>3. Kind[u] # "other" /\ chain[u] # "none"
    BY <2>1, <2>2 DEF HasFollowUp, RecordAgreesWithChain, Final
  <2>4. loanStatus[LoanOf[u]] # "pending" => loanStatus'[LoanOf[u]] # "pending"
    BY <2>3, NotPendingAgain
  <2> QED BY <1>1, <2>1, <2>2, <2>4 DEF Served, Covered, workerVars, history
<1>7. \A p \in Pollers : poll'[p].pc = "idle"
  BY <1>1 DEF Served, pollVars
<1> QED BY <1>4, <1>5, <1>7 DEF Served

(* The follow-up is written.                                               *)
LEMMA ServedByWrite ==
  ASSUME TypeOK, Verdicts, Progress, Rows, OnceInv, Served, RecordAgreesWithChain, Next,
         NEW w \in Workers, ActivatePendingLoan(w) \/ ApplyLoanRepayment(w)
  PROVE  Served'
<1> USE DEF TypeOK, ChainTypes, TxTypes, LoanTypes, WorkerTypes, HistoryTypes
<1> DEFINE t == cur[w]
<1>1. /\ UNCHANGED <<chain, poll, row, txStatus, cur, claimed, label>>
      /\ pc[w] = "write" /\ pc' = [pc EXCEPT ![w] = "notify"]
      /\ followed' = [followed EXCEPT ![claimed[w]] = @ + 1]
  BY DEF ActivatePendingLoan, ApplyLoanRepayment, chainVars, txVars, pollVars, Goto
<1>2. /\ t \in Txs /\ HasFollowUp(t, verdict[w])
      /\ claimed[w] = row[t] /\ row[t] \in 1 .. MaxRows /\ followed[row[t]] = 0
  BY <1>1 DEF Verdicts, Busy, Progress, Served, OwnRow, OnceInv, Claims, Owns
<1>3. /\ followed'[row[t]] = 1
      /\ label[t] = "loan_create" => loanStatus'[LoanOf[t]] # "pending"
  <2>1. LoanOf[t] \in Loans
    BY <1>2, LoanOfType
  <2> QED BY <1>1, <1>2, <2>1 DEF ActivatePendingLoan, ApplyLoanRepayment
<1>4. \A u \in Txs : row[u] # 0 /\ followed[row[u]] = 1 => followed'[row[u]] = 1
  <2>1. ASSUME NEW u \in Txs, row[u] # 0, followed[row[u]] = 1
        PROVE  followed'[row[u]] = 1
    <3>1. row[u] \in 1 .. MaxRows /\ row[u] # row[t]
      BY <1>2, <2>1, MaxRowsType
    <3> QED BY <1>1, <1>2, <2>1, <3>1
  <2> QED BY <2>1
<1>5. OwnRow'
  BY <1>1 DEF Served, OwnRow, Owns
<1>6. Covered'
  <2>1. SUFFICES ASSUME NEW u \in Txs, txStatus[u] = "success", HasFollowUp(u, "success")
                 PROVE  \/ label[u] = "loan_create" /\ loanStatus'[LoanOf[u]] # "pending"
                        \/ label[u] = "loan_repay" /\ followed'[row[u]] = 1
                        \/ \E v \in Workers : cur[v] = u /\ pc'[v] \in {"read", "write"}
    BY <1>1 DEF Covered, HasFollowUp
  <2>2. row[u] # 0
    BY <2>1 DEF Rows
  <2>3. CASE label[u] = "loan_repay" /\ followed[row[u]] = 1
    BY <1>4, <2>2, <2>3
  <2>4. CASE label[u] = "loan_create" /\ loanStatus[LoanOf[u]] # "pending"
    <3>1. Kind[u] # "other" /\ chain[u] # "none"
      BY <2>1 DEF HasFollowUp, RecordAgreesWithChain, Final
    <3> QED BY <2>4, <3>1, NotPendingAgain
  <2>5. CASE \E v \in Workers : cur[v] = u /\ pc[v] \in {"read", "write"}
    <3>1. PICK v \in Workers : cur[v] = u /\ pc[v] \in {"read", "write"}
      BY <2>5
    <3>2. CASE v = w
      BY <1>3, <2>1, <3>1, <3>2 DEF HasFollowUp
    <3>3. CASE v # w
      BY <1>1, <3>1, <3>3
    <3> QED BY <3>2, <3>3
  <2> QED BY <2>1, <2>3, <2>4, <2>5 DEF Served, Covered
<1>8. \A p \in Pollers : poll'[p].pc = "idle"
  BY <1>1 DEF Served
<1> QED BY <1>5, <1>6, <1>8 DEF Served

(* A step of a worker that changes no loan.                                *)
LEMMA ServedByWorker ==
  ASSUME TypeOK, Verdicts, Progress, Rows, OnceInv, Served, Undisturbed,
         NEW w \in Workers, Worker(w) \/ WorkerFault(w),
         ~ActivatePendingLoan(w), ~ApplyLoanRepayment(w)
  PROVE  Served'
<1> USE DEF TypeOK, ChainTypes, TxTypes, LoanTypes, WorkerTypes, HistoryTypes
<1>1. UNCHANGED <<chain, poll, loanStatus, followed, label>>
  BY DEF Worker, WorkerFault, FetchPending, FetchFails, CheckFound, CheckSkips, ClaimWins,
     ClaimLoses, FollowUp, ReadLoan, FollowUpFails, CreateNotification, EndLoop,
     CleanupOldTransactions, Crash, chainVars, pollVars, loanVars, history
<1>2. UNCHANGED row /\ (ClaimWins(w) \/ UNCHANGED txStatus)
  <2>1. CASE CleanupOldTransactions(w)
    <3>1. \A t \in Txs : txStatus[t] \in Final => ~(row[t] <= 0)
      BY MaxRowsType DEF Rows, Final
    <3>2. /\ txStatus' = [t \in Txs |-> txStatus[t]]
          /\ row' = [t \in Txs |-> row[t]]
      BY <2>1, <3>1 DEF CleanupOldTransactions, Undisturbed
    <3> QED BY <3>2
  <2>2. CASE ClaimWins(w)
    BY <2>2 DEF ClaimWins
  <2> QED
    BY <2>1, <2>2 DEF Worker, WorkerFault, FetchPending, FetchFails, CheckFound, CheckSkips,
       ClaimLoses, FollowUp, ReadLoan, FollowUpFails, CreateNotification, EndLoop, Crash, txVars
<1>3. \A v \in Workers : v # w => pc'[v] = pc[v] /\ cur'[v] = cur[v] /\ claimed'[v] = claimed[v]
  BY WorkerFrame
<1>4. \/ ClaimWins(w)
      \/ ReadLoan(w)
      \/ pc[w] \notin {"read", "write"} /\ ~Owns(w)'
  BY DEF Worker, WorkerFault, FetchPending, FetchFails, CheckFound, CheckSkips,
     ClaimLoses, FollowUp, FollowUpFails, CreateNotification, EndLoop,
     CleanupOldTransactions, Crash, MayStart, NextTransaction, Goto, Owns, Undisturbed
<1>6. \A p \in Pollers : poll'[p].pc = "idle"
  BY <1>1 DEF Served
<1>7. OwnRow'
  <2>1. SUFFICES ASSUME NEW v \in Workers, Owns(v)' PROVE claimed'[v] = row[cur'[v]]
    BY <1>2 DEF OwnRow
  <2>2. CASE v # w
    BY <1>3, <2>1, <2>2 DEF Served, OwnRow, Owns
  <2>3. CASE v = w /\ ClaimWins(w)
    BY <2>3 DEF ClaimWins
  <2>4. CASE v = w /\ ReadLoan(w)
    BY <2>4 DEF ReadLoan, Served, OwnRow, Owns
  <2> QED BY <1>4, <2>1, <2>2, <2>3, <2>4
<1>8. Covered'
  <2> DEFINE Fine(t) == \/ label[t] = "loan_create" /\ loanStatus[LoanOf[t]] # "pending"
                        \/ label[t] = "loan_repay" /\ followed[row[t]] = 1
  <2>1. SUFFICES ASSUME NEW t \in Txs, txStatus'[t] = "success", HasFollowUp(t, "success")
                 PROVE  \/ Fine(t)
                        \/ \E v \in Workers : cur'[v] = t /\ pc'[v] \in {"read", "write"}
    BY <1>1, <1>2 DEF Covered, HasFollowUp
  <2>5. txStatus[t] = "success" =>
          Fine(t) \/ \E v \in Workers : cur[v] = t /\ pc[v] \in {"read", "write"}
    BY <2>1 DEF Served, Covered
  <2> HIDE DEF Fine
  <2>0. ASSUME txStatus[t] = "success", cur[w] # t \/ pc[w] \notin {"read", "write"}
        PROVE  \/ Fine(t)
               \/ \E v \in Workers : cur'[v] = t /\ pc'[v] \in {"read", "write"}
    <3>1. CASE \E v \in Workers : cur[v] = t /\ pc[v] \in {"read", "write"}
      <4>1. PICK v \in Workers : cur[v] = t /\ pc[v] \in {"read", "write"}
        BY <3>1
      <4>2. cur'[v] = t /\ pc'[v] \in {"read", "write"}
        BY <1>3, <2>0, <4>1
      <4> QED BY <4>2
    <3> QED BY <2>0, <2>5, <3>1
  <2>2. CASE ClaimWins(w)
    <3>1. pc[w] = "claim" /\ cur'[w] = cur[w] /\ cur[w] \in Txs
      BY <2>2 DEF ClaimWins, Verdicts, Busy
    <3>2. CASE t = cur[w]
      <4>1. verdict[w] = "success"
        BY <2>1, <2>2, <3>2 DEF ClaimWins
      <4>2. pc'[w] = "read"
        BY <2>1, <2>2, <3>2, <4>1 DEF ClaimWins, Goto
      <4> QED BY <3>1, <3>2, <4>2
    <3>3. CASE t # cur[w]
      <4>1. txStatus[t] = "success"
        BY <2>1, <2>2, <3>3 DEF ClaimWins
      <4> QED BY <2>0, <3>1, <4>1
    <3> QED BY <3>2, <3>3
  <2>3. CASE ReadLoan(w)
    <3>1. /\ pc[w] = "read" /\ cur'[w] = cur[w] /\ cur[w] \in Txs
          /\ txStatus'[t] = txStatus[t]
          /\ pc'[w] = IF GoesOn(cur[w], loanStatus[LoanOf[cur[w]]]) THEN "write" ELSE "notify"
      BY <2>3 DEF ReadLoan, Goto, Verdicts, Busy, txVars
    <3>2. CASE t = cur[w] /\ label[t] = "loan_create"
      BY <3>1, <3>2 DEF GoesOn, Fine
    <3>3. CASE t = cur[w] /\ label[t] # "loan_create"
      <4>1. Kind[t] = "loan_repay" /\ chain[t] # "none"
        BY <2>1, <3>1, <3>3 DEF HasFollowUp, Verdicts, Busy, Final
      <4>2. GoesOn(t, loanStatus[LoanOf[t]])
        BY <3>3, <4>1 DEF Progress, GoesOn
      <4> QED BY <3>1, <3>3, <4>2
    <3>4. CASE t # cur[w]
      BY <2>0, <2>1, <3>1, <3>4
    <3> QED BY <3>2, <3>3, <3>4
  <2>4. CASE pc[w] \notin {"read", "write"} /\ UNCHANGED txStatus
    BY <2>0, <2>1, <2>4
  <2> QED BY <1>2, <1>4, <2>2, <2>3, <2>4
<1> QED BY <1>6, <1>7, <1>8 DEF Served

LEMMA ServedNext ==
  ASSUME TypeOK, Verdicts, Progress, Rows, OnceInv, RecordAgreesWithChain,
         Undisturbed => Served, [Next]_vars
  PROVE  (Undisturbed => Served)'
<1>1. CASE UNCHANGED vars
  BY <1>1 DEF vars, chainVars, txVars, loanVars, workerVars, pollVars, history, Undisturbed,
     Served, OwnRow, Owns, Covered, HasFollowUp
<1>2. CASE Next
  <2>1. SUFFICES ASSUME Undisturbed PROVE Served'
    BY RegimeKept DEF Undisturbed
  <2>2. Served
    BY <2>1
  <2>3. CASE \E t \in Txs : Client(t) \/ Submission(t) \/ CloseLedger(t)
    BY <1>2, <2>2, <2>3, ServedByClients DEF OnceInv
  <2>4. ASSUME NEW p \in Pollers, Poller(p)
        PROVE  FALSE
    BY <2>1, <2>2, <2>4 DEF Served, Undisturbed, Poller, PollStart, PollLookup, PollUnanswered,
       PollPersist
  <2>5. ASSUME NEW w \in Workers, Worker(w) \/ WorkerFault(w)
        PROVE  Served'
    BY <1>2, <2>1, <2>2, <2>5, ServedByWrite, ServedByWorker
  <2> QED BY <1>2, <2>3, <2>4, <2>5 DEF Next
<1> QED BY <1>1, <1>2

(* As long as no client polls, no worker dies, no database call fails and  *)
(* no record is deleted, a successful loan transaction whose record is     *)
(* final has had its follow-up written once its worker is through, for any *)
(* number of overlapping runs and whatever Horizon leaves unanswered.      *)
THEOREM NoFollowUpIsLeftOut == Spec => []FollowedUpUndisturbed
<1>1. Init => Rows /\ OnceInv /\ (Undisturbed => Served)
  BY MaxRowsType DEF Init, Rows, OnceInv, Claims, FollowUpOncePerRecord, Owns, Fresh, IdlePoll,
     Served, OwnRow, Covered
<1>2. TypeOK /\ Verdicts /\ Rows /\ [Next]_vars => Rows'
  BY RowsNext
<1>3. TypeOK /\ Verdicts /\ Rows /\ OnceInv /\ [Next]_vars => OnceInv'
  BY OnceNext
<1>4. /\ TypeOK /\ Verdicts /\ Progress /\ Rows /\ OnceInv /\ RecordAgreesWithChain
      /\ (Undisturbed => Served) /\ [Next]_vars
      => (Undisturbed => Served)'
  BY ServedNext
<1>5. Progress /\ (Undisturbed => Served) => FollowedUpUndisturbed
  BY DEF Undisturbed, Served, Covered, FollowedUpUndisturbed, FinalizedIsFollowedUp, Handling,
     HasFollowUp
<1> QED BY <1>1, <1>2, <1>3, <1>4, <1>5, TypeCorrect, ProgressCorrect, RecordsAgree, PTL DEF Spec
=============================================================================
