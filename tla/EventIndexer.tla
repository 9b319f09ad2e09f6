---------------------------- MODULE EventIndexer ----------------------------
(***************************************************************************)
(* The blockchain-indexer job: every 30 seconds a worker reads the cursor  *)
(* of a contract, asks Soroban RPC for the events after it, writes each to *)
(* the tables and moves the cursor.  process() does so for three contracts *)
(* in turn, with a cursor each and an error of one not touching the others;*)
(* this module is one of them.                                             *)
(*                                                                         *)
(* Every database call is a step of its own, since each running instance   *)
(* of the application has a worker.  Principal and interest of a loan are  *)
(* the constant Owed: no code writes them after the row is made.           *)
(***************************************************************************)
EXTENDS Integers, FiniteSets, Sequences

CONSTANTS
  Settings,    \* contracts and circumstances, one of which a behaviour has
  Subjects,    \* loans and wallets
  Owed,        \* Subjects -> Nat \ {0}: principal plus interest of a loan
  Workers,     \* indexer workers, one for each running instance
  Retention,   \* ledgers the RPC server keeps
  MaxLedger    \* bound: ledgers closed

EventTypes == {"LOAN_CREATED", "LOAN_REPAID", "LOAN_DEFAULTED",
               "SCORE_CHANGED", "LIQUIDITY_DEPOSITED", "unrecognised"}

Roles == {"none", "borrower", "lp_provider", "other"}

(* "rpc", "db": a call fails; "crash": a process dies; "cursor": reading or*)
(* writing the cursor fails; "overlap": several instances index at once;   *)
(* "roles": others write users.role; "partial": the unique index on the    *)
(* event_id of loan_index is partial, as the migrations make it, so that an*)
(* upsert with that conflict target is refused.                            *)
Circumstances == {"rpc", "db", "crash", "cursor", "overlap", "roles", "partial"}

(* What the contract will emit, in chain order; the events of one RPC      *)
(* answer, 100 in the code; the events whose write the database rejects    *)
(* every time; and what may go wrong.  The value of an event is the amount *)
(* repaid or the new score, its subject the loan or the wallet.            *)
Setting ==
  [events : Seq([ledger : Nat \ {0}, type : EventTypes,
                 subject : Subjects, value : Nat]),
   limit : Nat \ {0}, poison : SUBSET Nat, mishaps : SUBSET Circumstances]

(* Events come in the order of their ledgers, and a loan is created before *)
(* it is repaid or defaults.                                               *)
InOrder(feed) ==
  \A d, e \in 1 .. Len(feed) :
    /\ d <= e => feed[d].ledger <= feed[e].ledger
    /\ (/\ feed[d].type = "LOAN_CREATED"
        /\ feed[e].type \in {"LOAN_REPAID", "LOAN_DEFAULTED"}
        /\ feed[d].subject = feed[e].subject) => d < e

ASSUME ConstantsAssumption ==
  /\ Settings \subseteq Setting
  /\ \A x \in Settings : InOrder(x.events)
  /\ Owed \in [Subjects -> Nat \ {0}]
  /\ Retention \in Nat \ {0}
  /\ MaxLedger \in Nat

VARIABLES
  setting,  \* the contract and the circumstances; it never changes
  ledger,   \* the latest closed ledger
  cursor,   \* indexer_cursor.last_ledger, 0 when there is no row
  status,   \* [Subjects -> ...]: loan_index.status, "none" when no row
  payments, \* events in payment_index
  scores,   \* events in reputation_history
  cached,   \* [Subjects -> Nat]: reputation_cache.score
  role,     \* [Subjects -> Roles]: users.role, "none" when there is no row
  worker,   \* [Workers -> ...]: a run of indexContract
  indexed,  \* history: events whose first write has been made
  rewritten \* history: users whose role others wrote since a deposit was read

tables == <<status, payments, scores, cached, role>>
vars == <<setting, ledger, cursor, tables, worker, indexed, rewritten>>

Events == 1 .. Len(setting.events)
LedgerOf(e) == setting.events[e].ledger
Type(e) == setting.events[e].type
SubjectOf(e) == setting.events[e].subject
Value(e) == setting.events[e].value
AllEvents == UNION {1 .. Len(x.events) : x \in Settings}
May(mishap) == mishap \in setting.mishaps
IsDepositor(s) ==
  \E e \in Events : Type(e) = "LIQUIDITY_DEPOSITED" /\ SubjectOf(e) = s

(* The events whose first write the database rejects every time.           *)
Refused ==
  {e \in Events : \/ e \in setting.poison
                  \/ May("partial") /\ Type(e) = "LOAN_CREATED"}

Idle ==
  [pc |-> "idle", start |-> 0, next |-> 1, last |-> 0, max |-> 0, sum |-> 0]

TypeOK ==
  /\ setting \in Settings
  /\ ledger \in 0 .. MaxLedger
  /\ cursor \in Nat
  /\ status \in [Subjects -> {"none", "active", "paid", "defaulted"}]
  /\ payments \subseteq Events
  /\ scores \subseteq Events
  /\ cached \in [Subjects -> Nat]
  /\ role \in [Subjects -> Roles]
  /\ worker \in [Workers ->
       [pc : {"idle", "fetch", "loop", "sum", "owed", "mark", "cache",
              "upgrade"},
        start : Nat, next : Nat, last : Nat, max : Nat, sum : Nat]]
  /\ indexed \subseteq Events
  /\ rewritten \subseteq Subjects

Init ==
  /\ setting \in Settings
  /\ ledger = 0
  /\ cursor = 0
  /\ status = [s \in Subjects |-> "none"]
  /\ payments = {}
  /\ scores = {}
  /\ cached = [s \in Subjects |-> 0]
  /\ role \in [Subjects -> Roles]
  /\ \A s \in Subjects : role[s] # "none" => IsDepositor(s)
  /\ worker = [w \in Workers |-> Idle]
  /\ indexed = {}
  /\ rewritten = {}

-----------------------------------------------------------------------------
(* Stellar closes a ledger (external), and others write the role of a user:*)
(* a user registers, an administrator approves a merchant or changes a     *)
(* role, becomeLp.  No event but a deposit looks at the role of its        *)
(* subject.                                                                *)

Emitted == {e \in Events : LedgerOf(e) <= ledger}

CloseLedger ==
  /\ ledger < MaxLedger
  /\ ledger' = ledger + 1
  /\ UNCHANGED <<setting, cursor, tables, worker, indexed, rewritten>>

WriteRole(s) ==
  /\ May("roles")
  /\ IsDepositor(s)
  /\ \E r \in Roles \ {"none", role[s]} : role' = [role EXCEPT ![s] = r]
  /\ rewritten' = rewritten \cup {s}
  /\ UNCHANGED <<setting, ledger, cursor, status, payments, scores, cached,
                 worker, indexed>>

-----------------------------------------------------------------------------
(* indexContract, up to the answer of the RPC server.                      *)

(* getCursor: an error reads as 0, as if there were no cursor.             *)
GetCursor(w) ==
  /\ worker[w].pc = "idle"
  /\ May("overlap") \/ \A v \in Workers : worker[v].pc = "idle"
  /\ \E c \in IF May("cursor") THEN {0, cursor} ELSE {cursor} :
       worker' = [worker EXCEPT ![w] =
         [Idle EXCEPT !.pc = "fetch", !.start = c, !.max = c]]
  /\ UNCHANGED <<setting, ledger, cursor, tables, indexed, rewritten>>

(* The RPC server rejects a first ledger that it no longer has, or not yet.*)
Served(first) == first \in ledger - Retention + 1 .. ledger

(* getEvents: the first events from the given ledger on.             *)
Answer(first) ==
  {e \in Emitted :
     /\ LedgerOf(e) >= first
     /\ Cardinality({d \in Emitted : LedgerOf(d) >= first /\ d < e})
          < setting.limit}

BugSkipsOne(w) == worker[w].start + 2
StartLedger(w) == worker[w].start + 1

FetchEvents(w) ==
  LET batch == Answer(StartLedger(w)) IN
  /\ worker[w].pc = "fetch"
  /\ Served(StartLedger(w))
  /\ worker' = [worker EXCEPT ![w] =
       IF batch = {} THEN Idle
       ELSE [@ EXCEPT !.pc = "loop",
               !.next = CHOOSE e \in batch : \A d \in batch : e <= d,
               !.last = CHOOSE e \in batch : \A d \in batch : d <= e]]
  /\ UNCHANGED <<setting, ledger, cursor, tables, indexed, rewritten>>

(* The RPC call fails: logged, and the next run asks again.                *)
FetchFails(w) ==
  /\ worker[w].pc = "fetch"
  /\ ~Served(StartLedger(w)) \/ May("rpc")
  /\ worker' = [worker EXCEPT ![w] = Idle]
  /\ UNCHANGED <<setting, ledger, cursor, tables, indexed, rewritten>>

-----------------------------------------------------------------------------
(* The loop over the answer.                                               *)

(* Worker w is about to persist event e, of the given type.                *)
At(w, e, type) ==
  /\ worker[w].pc = "loop"
  /\ worker[w].next = e
  /\ e <= worker[w].last
  /\ Type(e) = type

(* The event counts as processed: the cursor may move to its ledger.       *)
BugNextLedger(w, e) == LedgerOf(e) + 1
MaxLedgerAfter(w, e) ==
  IF LedgerOf(e) > worker[w].max THEN LedgerOf(e) ELSE worker[w].max

Done(w, e) ==
  worker' = [worker EXCEPT ![w].pc = "loop", ![w].next = e + 1,
                           ![w].max = MaxLedgerAfter(w, e)]

Then(w, label) == worker' = [worker EXCEPT ![w].pc = label]

(* parseEvent knows nothing of the event: neither written nor counted.     *)
SkipUnrecognised(w, e) ==
  /\ At(w, e, "unrecognised")
  /\ worker' = [worker EXCEPT ![w].next = e + 1]
  /\ UNCHANGED <<setting, ledger, cursor, tables, indexed, rewritten>>

(* persistLoanCreated: an upsert that ignores an event_id or a loan_id it  *)
(* has.                                                                    *)
Upserted(old) == IF old = "none" THEN "active" ELSE old

PersistLoanCreated(w, e) ==
  LET s == SubjectOf(e) IN
  /\ At(w, e, "LOAN_CREATED")
  /\ e \notin Refused
  /\ status' = [status EXCEPT ![s] = Upserted(@)]
  /\ indexed' = indexed \cup {e}
  /\ Done(w, e)
  /\ UNCHANGED <<setting, ledger, cursor, payments, scores, cached, role, rewritten>>

(* persistLoanRepaid, the insert: a duplicate ends the event.              *)
InsertPayment(w, e) ==
  /\ At(w, e, "LOAN_REPAID")
  /\ e \notin Refused
  /\ payments' = payments \cup {e}
  /\ indexed' = indexed \cup {e}
  /\ IF e \in payments THEN Done(w, e) ELSE Then(w, "sum")
  /\ UNCHANGED <<setting, ledger, cursor, status, scores, cached, role, rewritten>>

PaidIn(feed, paid, s) ==
  LET sum[n \in 0 .. Len(feed)] ==
        IF n = 0 THEN 0
        ELSE sum[n - 1] +
             IF n \in paid /\ feed[n].subject = s THEN feed[n].value ELSE 0
  IN sum[Len(feed)]
PaidFor(s) == PaidIn(setting.events, payments, s)

(* All payments of the loan are read and added up.                         *)
SumPayments(w) ==
  /\ worker[w].pc = "sum"
  /\ worker' = [worker EXCEPT ![w].pc = "owed",
                              ![w].sum = PaidFor(SubjectOf(worker[w].next))]
  /\ UNCHANGED <<setting, ledger, cursor, tables, indexed, rewritten>>

(* Then the loan is read, if it has a row ...                              *)
FetchLoan(w) ==
  LET e == worker[w].next IN
  /\ worker[w].pc = "owed"
  /\ IF status[SubjectOf(e)] = "none" THEN Done(w, e) ELSE Then(w, "mark")
  /\ UNCHANGED <<setting, ledger, cursor, tables, indexed, rewritten>>

(* ... and its status is written.                                          *)
BugLoansStatus(sum, owed) == IF sum >= owed THEN "completed" ELSE "active"
BugStrictlyMore(sum, owed) == IF sum > owed THEN "paid" ELSE "active"
StatusOf(sum, owed) == IF sum >= owed THEN "paid" ELSE "active"

MarkRepaid(w) ==
  LET e == worker[w].next
      s == SubjectOf(e)
  IN
  /\ worker[w].pc = "mark"
  /\ status' = [status EXCEPT ![s] = StatusOf(worker[w].sum, Owed[s])]
  /\ Done(w, e)
  /\ UNCHANGED <<setting, ledger, cursor, payments, scores, cached, role,
                 indexed, rewritten>>

(* persistLoanDefaulted: an update, made again whenever the event is.      *)
PersistLoanDefaulted(w, e) ==
  LET s == SubjectOf(e) IN
  /\ At(w, e, "LOAN_DEFAULTED")
  /\ e \notin Refused
  /\ status' = [status EXCEPT ![s] = IF @ = "none" THEN @ ELSE "defaulted"]
  /\ indexed' = indexed \cup {e}
  /\ Done(w, e)
  /\ UNCHANGED <<setting, ledger, cursor, payments, scores, cached, role, rewritten>>

(* persistScoreChanged, the history row: a duplicate ends the event.       *)
InsertHistory(w, e) ==
  /\ At(w, e, "SCORE_CHANGED")
  /\ e \notin Refused
  /\ scores' = scores \cup {e}
  /\ indexed' = indexed \cup {e}
  /\ IF e \in scores THEN Done(w, e) ELSE Then(w, "cache")
  /\ UNCHANGED <<setting, ledger, cursor, status, payments, cached, role, rewritten>>

(* Then reputation_cache takes the new score.                              *)
NewScore(e) == Value(e)

UpdateCache(w) ==
  LET e == worker[w].next IN
  /\ worker[w].pc = "cache"
  /\ cached' = [cached EXCEPT ![SubjectOf(e)] = NewScore(e)]
  /\ Done(w, e)
  /\ UNCHANGED <<setting, ledger, cursor, status, payments, scores, role,
                 indexed, rewritten>>

(* persistLiquidityDeposited: the role is read, if the user has a row and  *)
(* the read does not fail, which ends the event without an error ...       *)
BugRaisesAll(r) == r \notin {"none", "lp_provider"}
NeedsUpgrade(r) == r = "borrower"

ReadRole(w, e) ==
  LET s == SubjectOf(e) IN
  /\ At(w, e, "LIQUIDITY_DEPOSITED")
  /\ \/ NeedsUpgrade(role[s]) /\ Then(w, "upgrade")
     \/ (~NeedsUpgrade(role[s]) \/ May("db")) /\ Done(w, e)
  /\ indexed' = indexed \cup {e}
  /\ rewritten' = rewritten \ {s}
  /\ UNCHANGED <<setting, ledger, cursor, tables>>

(* ... and a borrower becomes an lp_provider, by user id.                  *)
UpgradeRole(w) ==
  LET e == worker[w].next IN
  /\ worker[w].pc = "upgrade"
  /\ role' = [role EXCEPT ![SubjectOf(e)] = "lp_provider"]
  /\ Done(w, e)
  /\ UNCHANGED <<setting, ledger, cursor, status, payments, scores, cached,
                 indexed, rewritten>>

(* The first write of an event fails: logged, skipped and not counted.     *)
PersistFails(w, e) ==
  /\ worker[w].pc = "loop"
  /\ worker[w].next = e
  /\ e <= worker[w].last
  /\ Type(e) \notin {"unrecognised", "LIQUIDITY_DEPOSITED"}
  /\ e \in Refused \/ May("db")
  /\ worker' = [worker EXCEPT ![w].next = e + 1]
  /\ UNCHANGED <<setting, ledger, cursor, tables, indexed, rewritten>>

(* A later write of an event fails, or of a role: at most logged, and the  *)
(* event counts as processed.                                              *)
SecondWriteFails(w) ==
  /\ May("db")
  /\ worker[w].pc \in {"sum", "owed", "mark", "cache", "upgrade"}
  /\ Done(w, worker[w].next)
  /\ UNCHANGED <<setting, ledger, cursor, tables, indexed, rewritten>>

(* updateCursor: an upsert, whatever the cursor now is.                    *)
UpdateCursor(w) ==
  /\ worker[w].pc = "loop"
  /\ worker[w].next > worker[w].last
  /\ \/ cursor' = IF worker[w].max > worker[w].start
                  THEN worker[w].max
                  ELSE cursor
     \/ May("cursor") /\ UNCHANGED cursor
  /\ worker' = [worker EXCEPT ![w] = Idle]
  /\ UNCHANGED <<setting, ledger, tables, indexed, rewritten>>

Crash(w) ==
  /\ May("crash")
  /\ worker[w].pc # "idle"
  /\ worker' = [worker EXCEPT ![w] = Idle]
  /\ UNCHANGED <<setting, ledger, cursor, tables, indexed, rewritten>>

-----------------------------------------------------------------------------
PersistEvent(w, e) ==
  \/ SkipUnrecognised(w, e)
  \/ PersistLoanCreated(w, e)
  \/ InsertPayment(w, e)
  \/ PersistLoanDefaulted(w, e)
  \/ InsertHistory(w, e)
  \/ ReadRole(w, e)
SecondWrite(w) ==
  \/ SumPayments(w)
  \/ FetchLoan(w)
  \/ MarkRepaid(w)
  \/ UpdateCache(w)
  \/ UpgradeRole(w)
IndexContract(w) ==
  \/ GetCursor(w)
  \/ FetchEvents(w)
  \/ FetchFails(w)
  \/ \E e \in Events : PersistEvent(w, e) \/ PersistFails(w, e)
  \/ SecondWrite(w)
  \/ SecondWriteFails(w)
  \/ UpdateCursor(w)
  \/ Crash(w)

Next ==
  \/ CloseLedger
  \/ \E s \in Subjects : WriteRole(s)
  \/ \E w \in Workers : IndexContract(w)

Spec == Init /\ [][Next]_vars

(***************************************************************************)
(* The job runs every 30 seconds, and a run waits for its own calls only.  *)
(* Failures and crashes are transient: a cursor that is read again and     *)
(* again is read, an RPC call that would be answered again and again is    *)
(* answered, and a write that is tried again and again is made.            *)
(***************************************************************************)
Fairness ==
  \A w \in Workers :
    /\ WF_vars(IndexContract(w))
    /\ SF_vars(GetCursor(w) /\ worker'[w].start = cursor)
    /\ SF_vars(FetchEvents(w))
    /\ SF_vars(UpdateCursor(w))
    /\ SF_vars(SecondWrite(w))
    /\ \A e \in AllEvents : SF_vars(PersistEvent(w, e))

FairSpec == Spec /\ Fairness

-----------------------------------------------------------------------------
Known == {e \in Events : Type(e) # "unrecognised"}
Busy(w) == worker[w].pc \in {"sum", "owed", "mark", "cache", "upgrade"}
AtRest == \A w \in Workers : ~Busy(w)
Faultless == setting.mishaps \cap {"db", "crash"} = {}

(* No answer ends before the last event, and no write is ever rejected.    *)
NothingLeftOut ==
  /\ setting.limit >= Len(setting.events)
  /\ Refused = {}
  /\ ~May("db")

(* The cursor passes no event that is not in the index: a run resumes where*)
(* the index ends, and what lies before is never asked for again.          *)
NothingBelowCursorIsMissing ==
  \A e \in Known : LedgerOf(e) <= cursor => e \in indexed

(* So it is as long as every answer holds all there is and every write is  *)
(* made: a crash, an outage of the server, the loss of the cursor and other*)
(* instances do not make the index skip an event.                          *)
CursorIsBehindIndex == NothingLeftOut => NothingBelowCursorIsMissing

(* Then the index takes the recognised events in chain order, each once and*)
(* none left out.                                                          *)
Consumer == INSTANCE ChainConsumer WITH
  events <- IF NothingLeftOut THEN Known ELSE {},
  indexed <- IF NothingLeftOut THEN indexed ELSE {}
InChainOrder == Consumer!Spec

(* Answers are whole, or the cursor is never lost. With both, an event that*)
(* a cut answer passed over can be taken up after later ones of the same   *)
(* loan or wallet, since the cuts then fall elsewhere; what the tables say *)
(* is then the older event's.                                              *)
TakesInOrder == ~May("cursor") \/ setting.limit >= Len(setting.events)

(* A loan in the index is paid if and only if its payments cover what is   *)
(* owed, as long as one instance runs at a time and finishes what it began:*)
(* outages, rejected events and either of cut answers and a lost cursor do *)
(* no harm.                                                                *)
PaidIffCovered ==
  ~May("overlap") /\ Faultless /\ TakesInOrder /\ AtRest =>
    \A s \in Subjects : status[s] \in {"active", "paid"} =>
      (status[s] = "paid" <=> PaidFor(s) >= Owed[s])

(* Likewise, the cached score of a wallet is that of its latest change in  *)
(* the history.                                                            *)
CacheIsLatestScore ==
  ~May("overlap") /\ Faultless /\ TakesInOrder /\ AtRest =>
    \A s \in Subjects, e \in scores :
      (/\ SubjectOf(e) = s
       /\ \A d \in scores : SubjectOf(d) = s => d <= e)
      => cached[s] = Value(e)

(* A loan whose default is in the index stays defaulted until the index    *)
(* takes a later repayment, though earlier events may be gone over again   *)
(* after a crash or the loss of the cursor.                                *)
DefaultStands ==
  ~May("overlap") /\ ~May("db") /\ TakesInOrder =>
    \A e \in indexed :
      (/\ Type(e) = "LOAN_DEFAULTED"
       /\ status[SubjectOf(e)] # "none"
       /\ ~\E d \in payments : d > e /\ SubjectOf(d) = SubjectOf(e))
      => status[SubjectOf(e)] = "defaulted"

(* A repayment in turn stands against the defaults before it, but only as  *)
(* long as nothing makes a run go over a default again: that would set the *)
(* loan to defaulted after the repayment, which is not taken a second time.*)
GoesOverNothingAgain ==
  setting.mishaps \cap {"overlap", "db", "crash", "cursor"} = {}

RepaymentStands ==
  GoesOverNothingAgain /\ AtRest =>
    \A d \in payments :
      (~\E e \in indexed : /\ e > d
                           /\ Type(e) = "LOAN_DEFAULTED"
                           /\ SubjectOf(e) = SubjectOf(d))
      => status[SubjectOf(d)] # "defaulted"

(* Once no worker is between the two calls, no depositor is a borrower,    *)
(* unless others have written the role since it was read for a deposit (a  *)
(* user that registers after a deposit stays a borrower, too).             *)
DepositorsAreUpgraded ==
  Faultless /\ AtRest =>
    \A e \in indexed :
      /\ Type(e) = "LIQUIDITY_DEPOSITED"
      /\ SubjectOf(e) \notin rewritten
      => role[SubjectOf(e)] # "borrower"

(* And it is a borrower that is made an lp_provider, of whom nobody else   *)
(* wrote the role between the two calls: what they wrote would be lost.    *)
OnlyBorrowersAreRaised ==
  ~May("overlap") =>
    \A w \in Workers :
      /\ worker[w].pc = "upgrade"
      /\ SubjectOf(worker[w].next) \notin rewritten
      => role[SubjectOf(worker[w].next)] = "borrower"

(* The tables say what the indexed events say, each part as far as its own *)
(* premise goes.                                                           *)
TablesFollowIndex ==
  /\ PaidIffCovered
  /\ CacheIsLatestScore
  /\ DefaultStands
  /\ RepaymentStands
  /\ DepositorsAreUpgraded
  /\ OnlyBorrowersAreRaised

(* What keeps an event out of the index for good: the cursor went past it, *)
(* which takes a cut answer or a rejected write; the ledger to ask for is  *)
(* no longer kept, as on a first run later than Retention ledgers after    *)
(* genesis or after as long a silence; or the answer is full and has       *)
(* nothing that moves the cursor.                                          *)
PassedOver(e) == ~NothingLeftOut /\ LedgerOf(e) <= cursor
OutOfRetention == cursor + 1 < ledger - Retention + 1
FullOfNothing ==
  LET batch == Answer(cursor + 1) IN
  /\ Cardinality(batch) = setting.limit
  /\ batch \cap (Known \ Refused) = {}

(* An event that the contract has emitted and the database takes gets into *)
(* the index, or else one of these three is so.                            *)
EmittedIsIndexed ==
  \A e \in AllEvents :
    (TakesInOrder /\ e \in Known \ Refused /\ e \in Emitted)
      ~> (e \in indexed \/ PassedOver(e) \/ OutOfRetention \/ FullOfNothing)
=============================================================================
