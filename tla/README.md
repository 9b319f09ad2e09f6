# TrustUp API in TLA+

TrustUp is a buy-now-pay-later service on Stellar. The API (NestJS, in
`src/src`) keeps its tables in Supabase, its queues in BullMQ and its caches in
`cache-manager`; users sign transactions themselves and the API submits and
follows them up. Several instances of the application may run, and each has a
worker on every queue. No handler uses a database transaction: a request or a
job is a sequence of calls, and every call may come before, between or after
those of others.

That is the subject of these modules. Every awaited call that reads or writes
shared state is an action, so that requests, workers, Stellar and crashes
interleave as they do in production. What a call carries (XDR, addresses,
messages) is reduced to what the properties tell apart.

| | |
|---|---|
| `LoanTransactions` | submission, polls, status checker, follow-ups on loans |
| `LoanLifecycle`, `LoanStatuses`, `LoanMachine` | overrides, follow-ups and the default detector on one loan; the state machine they implement |
| `EventIndexer`, `ChainConsumer` | the blockchain indexer; what it promises |
| `Webhooks` | dispatch and delivery of webhooks |
| `LoanInterest` | interest accrual and yield distribution |
| `Accounts` | users, roles, merchant applications and their review |
| `Sessions` | refresh tokens |
| `SignIn` | nonces and their signatures |
| `LoanRequests` | loan creation behind the idempotency interceptor and the reputation caches |
| `LoanTerms` | a loan's terms, schedule, next payment and repayments, to the cent |
| `MerchantStats` | merchants' figures and score, leaderboard, portfolio, analytics |
| `Liquidity` | quotes, summary and overview of the liquidity pool |
| `Reminders` | the daily payment reminders |
| `Services` | the eight before, side by side |
| `MC*` | instances of these for TLC |
| `LoanTransactions_proofs`, `LoanLifecycle_proofs`, `EventIndexer_proofs`, `Webhooks_proofs`, `LoanInterest_proofs` | TLAPS proofs about the module named |
| `AccountsAndMoney_proofs`, `Services_proofs` | TLAPS proofs about `Services`: of `Accounts`, `LoanTerms` and `Liquidity`; of `LoanRequests`, `SignIn`, `Sessions`, `Reminders` and `MerchantStats`, and the types of all eight |
| `Induction` | least and greatest elements, induction, sums and counts, for the proofs |

To check: `tlc -config <cfg> <MC module>`; to prove:
`tlapm <module>` for the modules named `*_proofs` and `Induction`. `PROJECT.json`
names the source lines of every definition.

## 1. The system

Paths are below `src/src` unless they begin with another directory.

### Components, their state and what makes them correct

**Transactions** (`modules/transactions`, `database/repositories/transactions.repository.ts`).
State: rows of `transactions` (hash, type, status `pending`/`success`/`failed`),
a cached status per hash. `submitTransaction` sends a signed XDR to Horizon and
inserts the row *without awaiting it*; `getTransactionStatus` answers from the
cache or the row, and for a pending row asks Horizon and writes what it learned.
Correct when a final record tells what the ledger tells, and never changes.

**Status checker** (`jobs/transaction-status-checker`). Every 15 seconds a worker
fetches up to 100 pending rows, asks Horizon for each, claims a row with a
conditional update, then activates the loan or subtracts the repayment, and
notifies the user; rows that are final and a week old are deleted. Correct when a
confirmed transaction has its effect on the loan exactly once.

**Loans** (`modules/loans`, `database/repositories/loans.repository.ts`).
State: rows of `loans`. `createLoan` reads the reputation score and the
merchant, builds an XDR and inserts a pending row; `repayLoan` builds an XDR.
Status writers are the checker, the detector and administrators. Correct when the
status follows the state machine and the balance is what was not repaid.

**Admin** (`modules/admin`). `overrideLoan` validates a transition against the
status it read, writes it and inserts an audit row;
`approveMerchant` writes the application, the merchant and the role;
`updateUserRole` writes a role. Correct when the audit trail and the overrides
agree, and merchants are those that were approved.

**Default detector** (`jobs/loan-default-detector`). Once a day, under a row of
`loan_job_runs` that one worker wins, it defaults active loans whose
`next_payment_due` is three days old and calls the contract. Correct when it
defaults what is overdue, and nothing else.

**Blockchain indexer** (`jobs/blockchain-indexer`). Every 30 seconds, for each
contract: read the cursor, fetch events after it (at most 100), write each event,
move the cursor. State: `loan_index`, `payment_index`, `reputation_history`,
`reputation_cache`, `users.role`, `indexer_cursor`. Correct when the index has
every event up to the cursor, once, and the tables derived from it match.

**Webhooks** (`jobs/webhook-delivery`, `modules/webhooks`). A status change gives
each endpoint of a merchant a row of `webhook_deliveries` with a unique
`event_id`, and a job; a processor posts it with retries. Correct when each
change is delivered, and delivered once.

**Interest accrual and yield distribution** (`jobs/interest-accrual`,
`jobs/yield-distribution`). Hourly, whole days of interest are added to active
loans; daily, 85 % of what has accrued since the last checkpoint is split among
the liquidity providers. Correct when no day is charged twice, a loan falls behind
by no more than the hours a run may come early, and providers get their part once.

**Payment reminders** (`jobs/loan-payment-reminder`). Daily, a notification for
each active loan due in three days, tomorrow, or overdue. Correct when each that
is due comes once a day.

**Users and merchants** (`modules/users`, `modules/merchants`). State: `users`,
`user_preferences`, `merchants`, `merchant_applications`. Merchants' score,
leaderboard, portfolio and analytics are computed from the rows of `loans` at each
request. Correct when a merchant is one that was approved, and when the figures of
one answer, and of the pages of one listing, belong together.

**Auth and sessions** (`modules/auth`, `database/repositories/sessions.repository.ts`).
`generateNonce` inserts a nonce; `verifySignature` finds it unused, checks its age
and the signature, and marks it in another call. The login that follows inserts a
session with the hash of its refresh token; a refresh replaces hash and expiry; a
logout deletes the row. Correct when a nonce signs in its wallet once and in time,
and when who uses tokens in order is not locked out.

**Reputation** (`modules/reputation`) and the **idempotency interceptor**
(`common/interceptors`): a score cached in the process and in `reputation_cache`,
and an answer remembered, in the process, for the key of a request. Correct when
loans are priced on the wallet's score and not on a stale one, and when a key that
is sent again makes no second loan.

**Liquidity** (`modules/liquidity`, `blockchain/contracts/liquidity-contract.client.ts`):
quotes of deposits and withdrawals and two cached summaries, put together from
several reads of the pool's contract, each with a fallback. Correct when every
figure a provider is told was true of the pool.

**Health**, **blockchain clients**, **guards and filters**, **configuration**,
**the MCP server** (`src/mcp`): see `PROJECT.json`; they read, compute or wire and
keep no state that interacts.

### How they interact

- Stellar -> checker -> `loans` -> webhook dispatch; a poll writes the same row
  of `transactions` as the checker.
- Checker, detector and administrators all write `loans.status`; the checker,
  accrual and distribution write other columns of the row.
- The indexer writes `reputation_cache`, which the reputation service reads and
  writes, and raises `users.role`, which administrators, reviews and `becomeLp`
  write.
- Everything periodic is a BullMQ repeatable job: it runs in whichever instance
  takes it, may overlap with a late run of another, and is run again when its
  worker dies.

### What is hard

`PROJECT.json` lists the hazards by line. The recurring ones: values read before
a call and written after it; two writers of one row of which only one is
conditional; steps of one operation that fail halfway with nothing to undo or
repeat them; jobs that overlap; limits (100 rows, 100 events, 1000 occurrences, 5
attempts) and retries.

## 2. Plan

Order: first the path of money (transactions, then the loan), then what is
derived from the chain, then what leaves the system, then the services around.

1. `LoanTransactions` and its proofs. *Done.*
2. `LoanLifecycle` with the abstract `LoanMachine`. *Done.*
3. `EventIndexer` with the abstract `ChainConsumer`. *Done.*
4. `Webhooks`, with the endpoints' own operations. *Done.*
5. `LoanInterest`. *Done.*
6. `Accounts`, `Sessions`, `LoanRequests`, `Reminders`. *Done, one run.*
7. Computations against what they are for: instalments and the payments made by
   them (`LoanTerms`), merchants' figures (`MerchantStats`). *Done.*
8. Nonces of a login (`SignIn`); liquidity quotes (`Liquidity`). *Done.*
9. Proofs: every invariant and every action property that a run checks, with the
   two refinements. *Done*; liveness stays with TLC.

No module declares a RECURSIVE operator, so that each can be proved about.

## 3. Modules and the code

### Conventions

A process that is between two calls is a record with a `pc` that names the call
it makes next, and the values it read. A variable marked *history* is not in the
code; no guard but a bound reads it.

**Regimes.** Mishaps multiply the states, and several of the system's promises
hold only without some of them. A module therefore has a constant `Regimes`, a
set of sets of *circumstances* ("crash", "db", "overlap", ...); a behaviour picks
one at the start and keeps it. Each circumstance guards only the actions that are
the mishap (`partial`, `rls`, `old` and `bare` are deployments rather than mishaps).
A property that needs a circumstance absent says so itself, so the
condition is visible in the statement and the same run also shows the states in
which it does not apply.

### LoanTransactions

`chain` is what Stellar knows of a hash, `nextRow`/`row`/`txStatus` the table
`transactions`, `inserting` the detached insert of `submitTransaction`, `cache`
the cached statuses, `loanStatus`/`balance` the table `loans`, `pc`/`todo`/`cur`/
`verdict`/`claimed`/`seen` a checker's worker, `poll` a status request. `followed`,
`notified`, `credited` and `repaid` are history. `Kind` is the call in the XDR and
`label` the type in the body of the submission, which the code stores and never
compares with the XDR: it is the label that selects the follow-up
(`HasFollowUp`, `GoesOn`). The two differ only with circumstance "unchecked", in
which a client also submits XDRs of its own making. A label belongs to a
transaction for good; a client that submits one hash again under another type is
not modelled. The worker's steps are those of
`process`, `checkTransaction`, `finalizeTransaction`, `applyFollowUpActions` and
their repository calls: fetch, look up, conditional claim, read the loan, write
it, notify. The client may lose an answer, submit again and poll.

### LoanLifecycle, LoanStatuses, LoanMachine

One follow-up is a token (LoanTransactions shows where it comes from and that it is
one); added are the read-validate-write-audit steps of an override, and
claim, select, mark, contract call of the detector. `LoanMachine` is the state
machine of `VALID_LOAN_TRANSITIONS` with `createLoan`'s initial status, and
`FollowsMachine` is its specification under a refinement mapping that shows the
status where no administrator may intervene.
`markDefault` simulates the contract call and submits nothing, so it changes no
state. The modules that wire these writers give their `LoansRepository` no
dispatcher (an optional dependency), so announcing a change is no step here:
`Webhooks` starts from a dispatcher that is called. `overtaken` is history: the
override requests whose loan another writer changed between their read and their
write. It lets `AuditMatchesOverrides` say when the previous status of an audit row
is the one replaced, and `EndedStaysEnded` when a loan leaves a final status.

### EventIndexer, ChainConsumer

One contract, whose events are a constant sequence over ledgers. `worker` is a
run of `indexContract`: cursor, fetch, one event after another (each with its two
or three calls), cursor. The answer of the RPC server is cut at `limit` events and
goes back `Retention` ledgers. `poison` are events whose first write the database
rejects every time; with "partial" it rejects every creation of a loan as well, as
the migrations make the unique index that `ON CONFLICT (event_id)` needs a partial
one (`20260325000000_create_indexer_tables.sql:54`). Without it the deployment has
the total index that the comment of line 320 takes for granted; otherwise
`loan_index` stays empty and there would be nothing to say of it. `ChainConsumer`
takes the recognised events one at a time in chain order; `InChainOrder` says that
the indexer does, through a mapping of `indexed`. `role` is `users.role`, "none" for
a depositor without a row, and with "roles" others write it too (`WriteRole`);
`rewritten` is history: the users whose role they wrote since the last deposit was
read.

`TablesFollowIndex` is what the derived tables owe the index, in six parts: a
loan's status and its payments, the cached score, a default that stands until a
later repayment, a repayment that stands against earlier defaults, and that
depositors are raised from borrowers, and borrowers only. Events are gone over again
after a cut, a restart or a lost cursor. For payments and scores a replay leaves
what the first pass left; a default that is gone over again is applied again, over a
repayment too, so `RepaymentStands` holds only where nothing is gone over again.
`CacheIsLatestScore`, `PaidIffCovered` and `DefaultStands` exclude one combination,
`TakesInOrder`: answers that are cut *and* a cursor that is lost. Then an event that
was skipped can be taken up after later ones of the same subject, and the tables say
what the older one says.
Assumed: a wallet whose score changes has a row of `reputation_cache` (the code
updates and does not insert).

### Webhooks

A delivery is `<<endpoint, transition, occurrence>>`, which is what an `event_id`
spells. `caller` is a run of `enqueueLoanStatusChange` (insert, or find and add),
`worker` a run of the processor (read row, read endpoint, post, mark, settle the
job). `job` is BullMQ as the code uses it: an id names one job, a finished job
keeps its id until it is dropped, a failed attempt is tried again, a job whose
worker died goes to another one once. An endpoint is registered, updated and
deleted by its owner; "silent" is an active one whose `events` do not name
`loan.status_changed`, which dispatch skips and delivery does not look at. A failed
listing of the endpoints loses the announcement for all of them.

### LoanInterest

`accruer` is a run of the hourly job with the rows it read at its start,
`distributor` one of the daily job with its checkpoint, pool and remaining
providers. Amounts are natural numbers in the unit of 1e-7 to which the code
rounds; rounding is half up. A loan's interest of a day is constant. A tick is
finer than an hour (`TicksPerHour`, 3,600,000 in the code): a run is due in every
hour, starts at any moment of it, and counts full days from and to such moments, as
`Math.floor` of a difference in milliseconds does. So a run that starts a moment
earlier in its hour than the one a day before charges nothing, the next one charges
the day, and the rest is dropped; `DaysSlipByHours` bounds what a loan loses by it.
Assumed: a distribution ends in the hour it began.

### Accounts, Sessions, SignIn, LoanRequests, Reminders

`Accounts`: a request is at one of the calls of `apply`, `approveMerchant`,
`updateUserRole`, `becomeLp`, `getOrCreateProfile`, `register`, `updateProfile`;
tables are `role`, `prefs`, `merchant`, `apps`. The indexer's role change is in
`EventIndexer`.

`Sessions`: tokens of one wallet. A refresh token contains the wallet and the
second, so two of one second are equal, and the unique index on the hash decides.
`revoked_at` is never set (the only writer runs if it is set already), and the
branch for expired rows needs a valid token of an expired row, which do not occur
together; both are left out.

`SignIn`: rows of `nonces` and verifications at one of the calls find, check, mark,
issue. The mark is a call whose result nobody looks at: with circumstance "fail" it
may do nothing, and with "overlap" two verifications may both have found the nonce
unused. The cleanup the migration asks for exists nowhere and is not modelled.

`LoanRequests`: the interceptor's get, the score's two caches and its fallback,
checks, insertion, the interceptor's set. The cache that Nest calls the Redis one is
in the memory of a process: `answers` and `hot` are of each of `Processes`, a
restart empties them, and only with "instances" do requests go to others than
`Home`. It counts in milliseconds (cache-manager 7): `HotTtl`, `KeyTtl` and
`WarmTtl` are 300 ms, 86 s and 60 min in the code, and a fetch takes 800 ms, so
time passes during a fetch in every regime. `recorded` are the scores the indexer
wrote, `hashed` the one the service computes from the wallet's address, which is all
a fetch does; `looked` and `read` say when a request asked the table and when it got
its score. The policies of the migrations hide `reputation_cache` from the anonymous
client the service uses; circumstance "rls" is that deployment, its absence one in
which the client may use the table.

`Reminders`: a run with its candidates; notifications are counted by type, loan
and day. Assumed: the columns the code inserts exist (the migrations create the
table `notifications` with others).

### LoanTerms

One loan from its quote to its last repayment. `Create` is `prepareLoanPreview`
(tier, guarantee, loan, interest), `amountOf` and `dueDate` the schedule, which the
code never stores but computes anew from the row for each list, `nextPayment`
what `LoanPresenter` shows, `Repay` the preview of `repayLoan`, `Apply` the balance
the checker writes. Amounts are integers in tenths of a cent so that rounding
shows; the code computes in doubles, and where the exact result is a whole cent or
a tie the double may lie below it, so these steps are a choice between the two
neighbours (`Rounded`, `FallsShort`). Years have 365 days. `loan_payments`, the
table whose rows select the next instalment, is in no migration and has no writer
that is called; circumstance "recorded" is a deployment in which every repayment
leaves a row, its absence one in which none does.

### MerchantStats

`rows` are the loans as the two queries of an answer see them, `pager` a reader
who asks for page after page of `getLeaderboard` (or of `listMerchants`, metric
"listed"), `folio` one who asks for a portfolio. Two queries started together are
answered one after the other. No query asks for an order: `place` is one the
database may return, a new one for each page under "reorders". The monthly
analytics and the score are pure and compared with what they mean in every state.

### Liquidity

`pool` is the contract (external: what deposits, withdrawals, loans and yield do to
it is what the client expects of it), `req` one request with the reads it still has
to make, in any order, as `Promise.all` starts them. A read falls back as the
client's does: `get_pool_stats` to three reads, the previews to another
`getPoolStats` and the arithmetic, the fee to 0, an error on the provider's shares
to 0 shares. History: `during`, the states the pool was in while the request ran;
`pieces`, which of the pool's figures and of the calculation's were read one by one;
`missed`, what could not be read and is shown as 0. The code reads the shares, the
pool's figures, the fee and the amount by separate calls, and so
`QuotesComeFromThePool` gives every group of figures a state of its own: those of
one call belong to one state, those of different calls need not, and an answer from
the cache is about the time it was put there.

## 4. Runs

| run | what it shows | instance | distinct states |
|---|---|---|---|
| `loan_tx` | records, follow-ups, balances, status order, in seven regimes | 1 loan, 3 transactions, 2 workers, 1 poller | 989,203 |
| `loan_tx_liveness` | a confirmed record that the batch comes to is finalised; undisturbed, its loan is activated | 2 transactions, a batch of 1, 1 worker | 14,756 |
| `poller_wins` (violation) | a poll finalises first and the follow-up never happens | | |
| `loan_writers` | audit trail, conditional writes, final statuses, state machine, overdue loans | 2 admins, 1 checker, 2 detectors, 2 overrides, a repayment in full | 736,178 |
| `paid_up` (violation) | a borrower who paid is defaulted | | |
| `indexer` | cursor, order, and the tables derived from the index | 14 settings of 5 events in 3 ledgers, 2 workers | 207,596 |
| `indexer_liveness` | every event is indexed, or one of three reasons holds | 5 settings, a server that keeps 2 ledgers of 4, 1 worker | 1,050 |
| `batch_cut` (violation) | an answer cut inside a ledger loses events | | |
| `webhooks` | occurrences, single acceptance, delivery | 1 endpoint and 3 announcements, or 2 and 2 | 76,543 |
| `interest` | no day is charged twice | 2 accruers, 1 distributor, 2 days of 2 hours of 2 ticks | 1,699,360 |
| `yield` | providers get their part; a loan falls behind by hours at most; what accrues is distributed | 2 loans, 2 providers, 2 days | 403,548 |
| `services` | the eight services below, each by itself | see below | 1,328,963 |

`services` puts eight machines into one state space: a behaviour picks one,
exercises it and leaves the variables of the others alone. They share nothing in
the code either, so nothing is lost, and the counts add up rather than multiply.
Requests are interchangeable, which its symmetry set says; it checks invariants
only.

| machine | property |
|---|---|
| `Accounts` | `MerchantsMatchApprovals`: merchants are those that were approved |
| `Sessions` | `HolderIsNotLockedOut`: whoever refreshes in order keeps a session |
| `SignIn` | `NonceSignsInOnce`: its own wallet, in time, and once |
| `LoanRequests` | `KeyCreatesOneLoan`, `PricedFresh` |
| `LoanTerms` | `InstalmentsLeftAreOwed`: paying what the list shows pays off the loan, to the cent |
| `MerchantStats` | `MerchantFiguresAgree`: pages and queries of one answer fit together |
| `Liquidity` | `QuotesComeFromThePool`: every figure of an answer was true of the pool while it was asked |
| `Reminders` | `OneReminderADay` |

### Why the bounds are enough

- *Two of each actor* give every pair of steps its interleavings; no code waits
  for, counts or elects among more than two. `loan_writers` has two override
  requests, which may be validated against one status and written one after the
  other, and which the checker and the detector may overtake.
- *One loan*, because no action of the checker, the detector or an override reads
  another loan's row; `yield` has two, since the pool sums over loans.
- *A creation and two repayments of 2 and 3 cents of a loan of 3* make the
  repayments exceed the balance in any order, complete it by one or by both.
- *Batch of two rows* of three: the batch is smaller than the number of pending
  rows. For liveness a *batch of one row* of two: a liquidity transaction that never
  gets an answer keeps the creation out for ever (`Crowded`), and one that gets it
  late lets it in.
- *Five events in ledgers 1, 2, 2, 3, 3*: with answers of 2, 3 and 5 events, cuts
  fall between ledgers, in the middle of one, and nowhere. For liveness the server
  keeps two ledgers of four, so that a first run may come too late and a silence may
  last too long, and one feed begins with as many unknown events as an answer holds.
- *Two attempts and one refusal*, *two occurrences and three announcements*: the
  retry succeeds or is used up; the last occurrence is reached and exceeded.
- *Interest of 3 and 70 units a day, shares 2 : 1, ratio 17/20*: every product is
  rounded, up in one case and down in another. Two days of two hours of
  two ticks, loans created within an hour: a run may be late within a day and past
  its end, and early or late within its hour, which makes it find a day unfinished.
- *Sessions*: lifetime 2 in 4 seconds, two devices and two rows: tokens of one
  second, expiry, and a device that logs in again. *LoanRequests*: times
  to live of 1 and 2 in 4 ticks, two processes, two recorded scores on both sides of
  the least; a fetch lets any number of ticks pass, so entries expire and scores are
  recorded meanwhile. *Reminders*: six days
  from three before the due date to two after.
- *SignIn*: two nonces, two requests and three sign-ins; a nonce lives for one
  tick of three. *LoanTerms*: scores at and below the least, and of the best tier;
  1, 3, 7 and 12 instalments; amounts that divide evenly and that leave cents over,
  one that is no whole cent, and the most a tier allows; loans of 31 January and
  30 November, whose dates roll over. *MerchantStats*: three merchants on pages of
  2 and 3, two loans of which one reaches the volume's cap, months on both sides of
  a new year. *Liquidity*: an empty pool, one of which a part is lent, one with
  nothing lent; one change of the pool between any two reads, which is enough to
  make them differ.
- *Webhooks*: a third announcement of one transition finds both occurrences used;
  where processes die, two announcements suffice for a job to be run twice.

Bounds that cut behaviours off (`MaxRows`, `MaxOverrides`, `MaxLedger`,
`MaxDispatches`, `MaxRefusals`, `MaxTicks`, `MaxApplications`, `MaxLogins`,
`SessionTime`, `SignInTime`, `LoanTime`, `MaxLoans`, `MaxScores`, `MaxDay`, `MaxRuns`,
`MaxNonces`, `MaxSignIns`, `MaxAsked`,
`MaxMoves`, `MaxTotal`) are guards of the actions that count.
`CHECK_DEADLOCK FALSE` stands where a bound or the end of a feed lets everything
come to rest; in `loan_tx` and `loan_tx_liveness` the next run of the job is
always possible and deadlock is checked.

### Fairness

Liveness is checked under what the code's scheduling gives and no more.
*Weak* fairness for a worker's own steps: BullMQ starts the repeatable jobs every
15 or 30 seconds, every hour or day, and a run waits for nothing but its own
calls. *Strong* fairness for calls that may fail: an outage is transient, so a
call that is made again and again is answered sometimes; for the claim of a row,
the retrieval of a job and the fetch of the pending rows, which others may
disable for a while. None for clients, pollers, administrators, Stellar or
endpoint owners: they may stop at any time.

`ConfirmedIsFinalized` is conditional on a row: the detached insert may be lost
for good. It and `ConfirmedLoanIsActivated` make an exception for a record that older
ones without an answer keep out of the batch for ever (`Crowded`), as nothing ends
their wait. `EmittedIsIndexed` takes strong fairness for a read of the cursor that
finds it and for every write, so neither fails for ever; it does not assume that the
events are still to be had. What may keep one out for good it names: the cursor went
past it, the server no longer keeps the ledger to ask for, or the answer is full of
events that move no cursor.

### Mutants

Each property of a passing run has a mutant: an operator named `Bug...` beside
the definition it changes (a dropped condition of an update, a missing check, a
wrong comparison), under which TLC finds the property violated in the same run.

## 5. Proofs

A theorem holds for every value of the constants that its module's
`ConstantsAssumption` allows, which every run evaluates: any number of
transactions, loans, workers, administrators, detectors, endpoints, every amount,
every feed of events, and under every regime. Nothing else is assumed. No safety
property is inductive as it stands; each proof says what has to be known as well.

### LoanTransactions

| theorem | statement |
|---|---|
| `TypeCorrect` | `Spec => [](TypeOK /\ Verdicts)` |
| `RecordsAgree` | `Spec => []RecordAgreesWithChain` |
| `StatusMovesForward` | `Spec => LoanStatusForward` |
| `ActivationConfirmed` | `Spec => []ActiveOnlyIfConfirmed` |
| `NeverForgiven` | `Spec => []NeverOverCredited` |
| `BalancesAreOutstanding` | `Spec => []BalanceIsOutstanding` |
| `FollowedUpOnce` | `Spec => []FollowUpOncePerRecord` |
| `NoFollowUpIsLeftOut` | `Spec => []FollowedUpUndisturbed` |

- `Verdicts`: a worker or poller that is about to write an outcome holds the one
  of the ledger. Without it a record could be given any status; with it
  `RecordAgreesWithChain` is preserved by each writer, since `chain` never leaves
  a final value (`LedgerIsFinal`).
- `Progress`: a repayment is built only for a loan that is active, so once one is
  on its way the loan is active or completed, unless clients build their own; and a
  worker that is about to touch a loan has a follow-up to make, for a success, of the
  kind the label says. Since a row of `loans` is only written by the
  conditional activation and by repayments, its status moves forward and rests on
  a confirmed creation, though workers write what they read earlier.
- `Credits`: what a worker read as the balance covers at least what was not
  credited when it read; credits only grow, so it still does when it writes.
  `NeverOverCredited` compares the balance with the confirmed repayments, each
  counted once, not with what was credited. So one has to know in addition that no
  repayment is credited twice (`OneByOne`): a record that was claimed is not pending
  and will not be (`Done`), as a hash is inserted once where nobody submits again
  (`InsertedOnce`) and keeps its row where none is deleted. `credited` is then a sum
  over the transactions in `repaid`, which is at most the one over the ledger.
- `Exact`: where runs do not overlap, one worker is at work at a time, so what it
  read of a loan is still so when it writes, and a second repayment of what a first
  left is one repayment of both (`RepaidTwice`). That a loan is completed exactly
  when nothing is left needs its total not to be 0, which the least loan amount of
  1 gives; the proof brought this assumption to light.
- `Rows`: ids are handed out in order and no two hashes share one, so the history
  counters of a row belong to one hash at a time.
- `Claims`: the conditional update hands a row to one worker; while a row is
  pending nobody owns it and it has not been followed up; a worker between claim
  and notification is the only owner of its row. From it, each counter is raised
  at most once.
- `Served`: the worker owns the row of the very transaction it handles
  (`OwnRow`), and every success with a follow-up has had it, has left its loan no
  longer pending, or is before a worker that is about to make it (`Covered`). A loan
  that is not pending never is again, so a worker that finds the loan of a creation
  so, and writes nothing, leaves nothing undone.

### LoanLifecycle

| theorem | statement |
|---|---|
| `TypeCorrect` | `Spec => []TypeOK` |
| `WritesAreConditional` | `Spec => JobsNeverClobber` |
| `ImplementsMachine` | `Spec => FollowsMachine` |
| `OverridesAreAudited` | `Spec => []AuditMatchesOverrides` |
| `EndedLoansStayEnded` | `Spec => EndedStaysEnded` |

`ImplementsMachine` is the refinement: `MachineStep` shows that each step is a
transition of `LoanMachine` or a stutter under the mapping, as long as nobody is
overriding, which needs `Undirected` (no request is under way in a regime without
overrides). For the audit trail one has to number the requests: those under way
have different numbers, none above the last one begun (`Numbered`), and each of
them that is past its write has an entry in `applied` with its own fields
(`Written`); `Trail` and `Complete` tie the rows to those entries. That the status
in a row is the one replaced takes `Noticed`: before its write, a request knows the
loan's status, or was overtaken. From it `EndedStaysEnded` follows too: no
transition leaves a final status, so a request that would write over one has been
overtaken.

### EventIndexer

| theorem | statement |
|---|---|
| `TypeCorrect` | `Spec => []TypeOK` |
| `NothingIsPassedOver` | `Spec => []CursorIsBehindIndex` |
| `ConsumesTheChain` | `Spec => InChainOrder` |
| `TablesSayWhatIsIndexed` | `Spec => []TablesFollowIndex` |

- `Chain`, where answers are whole: all that lies before the cursor is in the
  index, and of every run that its answer ends with a ledger, that it has indexed
  what precedes its position, and that all up to the ledger it will save is indexed
  or still in its batch (`RunInOrder`). The refinement of `ChainConsumer` follows.
- `Recorded`: what `status`, `payments` and `scores` hold comes from the index and
  the other way round, up to the second write of an event that is being taken.
- `Ordered`, for one instance whose answers are whole or whose cursor is safe: no
  event gets into the index after a later one. With `Newest`, the payment or score
  that is written for the first time is the latest; that is what `PaidUp`,
  `CachedUp` and `Defaulted` need. A replay of an old event finds its row and writes
  nothing.
- `Upgraded`: a depositor in the index is no borrower, unless others wrote its role
  since (`Raised`), or a worker is about to raise it; for any number of instances.
  `Borrowers`: who is about to be raised is a borrower, or others wrote its role
  between the two calls; for one instance, as two would raise one user twice.
- `Fresh` and `Kept`, where nothing is gone over again: what is indexed lies before
  the cursor, before the run's position, or is its event, so a default that is taken
  is newer than every repayment in the index; a loan with a repayment is then
  defaulted only by a later default, or before a worker that is about to settle it.
- `Summed`: what was repaid is a sum over the payments that is computed by a
  recursive function of the events; that payments of other loans do not count
  (`PaidForOthers`) is proved by induction.

The attempt to prove `TablesFollowIndex` as it was first stated failed for feeds
other than those TLC had tried, and TLC confirmed the counterexample (ledgers 1, 2,
3, 3, 4, answers of two events, a lost cursor). The condition `TakesInOrder` and
the larger set of feeds of the run `indexer` come from there.

### Webhooks

| theorem | statement |
|---|---|
| `TypeCorrect` | `Spec => []TypeOK` |
| `OccurrencesOpenInTurn` | `Spec => []OneOpenOccurrence` |
| `OneWorkerPerDelivery` | `Spec => []Holders` |
| `DeliveredOnce` | `Spec => []AcceptedOnce` |

For `OneOpenOccurrence` one has to know that an accepted row stays accepted while
a later one is opened (`Openings`). Only a worker that marks a refusal could take
it back, so nobody may be at work at an accepted delivery (`Posting`); and that
rests on a job being active for one worker at a time (`Holders`), which looked at
the row before it posted. For `AcceptedOnce`, what was accepted once is marked,
about to be marked, or gone with its endpoint for good (`Acceptances`), and a worker
before its post has one not yet accepted (`Unposted`, which needs `Found`: its row
exists or is gone for good). These two hold only where no call fails, no process
dies and no answer is lost, as the property itself says.

### LoanInterest

| theorem | statement |
|---|---|
| `ChargedForFullDays` | `Spec => []NeverOvercharged` |
| `ChargedForNearlyEveryDay` | `Spec => []DaysSlipByHours` |
| `NothingIsPaidTwice` | `Spec => []NeverOverpaid` |
| `TypeCorrect` | `Spec => []TypeOK` |

A run writes interest it computed from rows it read earlier, and others may have
written since. `Charges` says of the table and of what every run has read that the
interest is at most the daily one for the full days up to `since`; a run computes
from one such pair another, since the full days of two spans are no more than those
of both together (`DivSum`), so it does not matter whose pair is written last. How
little is lost is the opposite: where nothing fails, the run is `Alone` and its rows
are `Current`. The days a loan was charged for have taken less than a day and two
hours each (`Spaced`), because the last accrual is less than a day before this hour
once the hour's run has had its turn (`Recent`), and may be an hour older until then
(`Older`, `Pending`); together `Accounted`.

What is paid is compared with what is due by sums over finite sets. Between runs
the yield of all providers is at most `YieldParts`/20 of the interest distributed,
and half a unit a day for the pool and for every provider (`Covers`). A run adds
to both sides: the parts it is about to credit sum to no more than its pool and
half a unit each, whatever the shares (`Part`, `SumBounded`). A credit writes the
yield the run has read with its part added, or fails and leaves it as it was, so no
provider has more than that (`Crediting`); with the checkpoints, loan by loan, the
other side catches up (`Settled`, `Checkpointing`), and it stays below the interest
accrued, which only grows (`Read`). This takes one run at a time, of a day claimed
once (`DayAlone`), and that no accrual takes back what was distributed, which is
`Current` again.

### The services

| theorem | statement | what it takes of the constants |
|---|---|---|
| `ApprovalsMakeMerchants` | `Spec => []MerchantsMatchApprovals` | nothing |
| `HoldersKeepSessions` | `Spec => []HolderIsNotLockedOut` | the bounds are numbers (`SessionConstants`) |
| `NoncesAreUsedOnce` | `Spec => []NonceSignsInOnce` | the bounds are numbers and the requests finitely many (`SignInConstants`) |
| `OneLoanPerKey`, `PricesAreFresh` | `Spec => []KeyCreatesOneLoan`, `Spec => []PricedFresh` | any processes; numbers, times to live that are positive (that of a key may be 0), scores from 0 to 100 (`LoanRequestConstants`) |
| `RemindedDaily` | `Spec => []OneReminderADay` | nothing |
| `InstalmentsAreOwed` | `Spec => []InstalmentsLeftAreOwed` | scores from 0 to 100, amounts from a dollar on, terms of 1 to 12 months, dates of the calendar, payments of something: what the DTOs accept (`LoanTermsConstants`) |
| `FiguresAgree` | `Spec => []MerchantFiguresAgree` | finitely many merchants and loans, amounts and months are numbers, pages are not empty, merchants are ranked by figures they have (`MerchantStatsConstants`) |
| `QuotesAreHonest` | `Spec => []QuotesComeFromThePool` | amounts are numbers, a pool without shares is empty, no more is available or held than there is (`LiquidityConstants`) |
| `TypeCorrect` | `Spec => []TypeOK` | all of these, and the other bounds are numbers (`BoundsConstants`) |

`Spec` is that of `Services`, the one the run checks. Its step is a step of the
service that the behaviour exercises or leaves its variables alone (`Exercised`,
`AccountsExercised`), so that each proof is about one module.

- `AccountInvariant`. Where reviews neither overlap nor fail, a wallet has one
  review at a time (`ReviewsApart`), which decides on an application that is still
  pending and follows up one that is approved (`StatusIsReviewed`); an approved
  application has its active merchant, or the review that is about to write it
  (`ApprovedIsActive`), and likewise its user's role (`ApprovedHasRole`). That a
  review which finds no user owes no role takes `Bookkept`: who was linked when it
  applied has a row of `users`, and no request takes it away. Requests that are no
  part of a review leave all of this alone (`ReviewsKept`, `AppliesKept`,
  `ProfileKeepsAll`); of what they do only `AssignRole` can lower a role. For the
  applications, none is pending when one is about to be created (`NoneBefore`).
- `SessionInvariant`. The token a device is to present next, be it the one it holds
  or the one on its way to it (`Claims`), has a row in the table until it expires
  (`Backed`) and is of no other device (`ClaimedOnce`). To know that a rotation
  takes nobody's row: a refresh under way has the row of the token its device holds,
  unless that row is gone (`RowsFound`), and no other request has it (`RowsApart`).
- `SignInInvariant`. Who is to issue tokens has marked the nonce (`Marks`), so the
  sign-ins by a nonce and the verifications that found it unused are together no
  more than there are requests (`Counted`, hence `IsFiniteSet(Requests)`); without
  overlap there is one of either (`Single`).
- `KeyInvariant`. Where nothing overlaps or fails, every loan that a process made of
  a key is remembered there for the time to live from its insertion on, has been, or
  is about to be (`Covered`, `Kept`), so that to a request which found nothing in a
  process no loan of its key and that process is so young (`Waited`).
- `PriceInvariant`. The row is the last score recorded, or one computed since for want
  of a row that was young enough (`RowHolds`); what a hot cache, a request or a loan
  has of it was so when it was read, and what is recorded later does not change that
  (`Values`). For the times, where only fetches take any: what a hot cache holds was
  fit to be read when it was read, which bounds how long it is kept (`HotFit`), and
  what a request carries is of now, or came from the cache (`Carries`).
- `MoneyInvariant`. Rows hold whole cents and their terms fit (`TermsFit`), from
  which `AmountsOfTerms` follows: every instalment is at least a cent, the last one
  too, wherever a floor falls short. The instalments from the i-th on are a sum
  computed by a recursive function; that it starts at the total and loses one
  instalment at a time (`InstalmentsAddUp`) is proved by induction. Who follows the
  list has at most one repayment under way, for the amount that is due and with a
  true preview (`OneByOne`), so rounding to the cent changes nothing. Others may
  lose half a cent each time (`NotOverpaid`).
- `QuoteInvariant`. What a request carries was read from states in `during`, the
  states of the pool since it was asked (`Framed`), each group of figures from one
  of its own: the amount was calculated in one, or its two parts were read apart, and
  for shares that were read before (`Priced`); the pool's figures are of one, or were
  read apart (`Polled`); fee and shares are the contract's, or 0 and `missed`
  (`FeeRead`, `SharesRead`). An answer lacks nothing it was to read, and the contract
  let a withdrawal through in one of these states (`Finished`); where there is only
  one, all groups are of it. A cached answer keeps its own `during`. Every move of the
  pool keeps it one that has money only if it has shares, and no more available or
  held than there is (`MovesAreSound`), from which a deposit is never quoted shares
  that redeem to more than was paid or cost the others (`DepositIsFair`): two
  divisions that both round down.
- `RunInvariant`. Where runs neither overlap nor fail, what a run is about to send
  was not sent (`AboutToSend`), and of what is due to the loans that were active all
  day, all is sent or still before the run (`NoneLeftOut`).
- `StatsInvariant`. The code sorts by a figure and, among equals, keeps the order the
  database returned; a merchant's rank is one more than the number of those before
  it. Under any such order these ranks are a bijection to the numbers up to the
  number of merchants (`RanksAreGiven`), so pages that took those of rank up to the
  offset (`Listed`) list the next ones next. That is said where nothing moves and
  either rows keep their order or nothing ties (`Fixed`); where something does,
  a page that is not the last one left somebody out, and a reader whose merchants
  fit in one page has asked once (`FirstPage`, `LastPage`). Between the two queries
  of an answer `WasRead` says what the first was told. For the score, the rates of a
  merchant's loans are rounded one by one, and two that exclude each other exceed
  100% together by a hundredth of a percent at most (`RatesTogether`). That each
  loan is in one bucket of the monthly analytics makes the buckets add up
  (`CountsAddUp`, by induction over the set of months).
- Types. The invariants above contain the types that their proofs need; what they
  leave out is in `AccountBounds`, `SessionBounds`, `RunBounds`, `MoneyBounds` and
  `QuoteBounds`. Those of the accounts take one lemma on what a call may do to the
  requests and the tables (`Goes`, `Fills`); those of the quotes, that what a request
  has read and calculated, by whichever way around a failed call, are numbers, and
  that an answer in the cache is kept under its own kind (`Measured`). A balance
  between 0 and the total is part of `MoneyInvariant`.

### How the proofs are laid out

Each `...Next` lemma has one step per action; lemmas on frames (`WorkerFrame`,
`OthersFrame`, `Untouched`, `OthersSteps`) and on quiet steps say once what most
actions leave alone. Where an invariant concerns a few fields only, a lemma sorts
the steps of an actor by what they do to those fields (`WorkerSteps`, `WorkSteps`,
`OverrideSteps`, the operators `Reads`, `Pays`, `Marks`, ... of
`EventIndexer_proofs`), and the preservation lemmas use those operators with their
definitions hidden.

`Induction` derives induction from the library's theorem that the natural numbers
are well-founded, in the form "a set of numbers has a least element", which takes
no operator as a parameter; with it, sums defined by a recursive function can be
reasoned about. A sum over a finite set is a fold of the community modules, which
takes the elements in the order of a `CHOOSE`: `SumOver` is that fold, shown to be a
recursive function on the subsets of the set (`FoldExists`, `FoldUnique`), from
which it follows that it adds up, is monotone and splits (`SumSplits`), and that
counting by value counts all (`CountsAddUp`).

### Only model-checked

All liveness (`ConfirmedIsFinalized`, `ConfirmedLoanIsActivated`,
`OverdueIsDefaulted`, `EmittedIsIndexed`, `RefusalsAreOutlived`,
`AccruedIsDistributed`): liveness under fairness and `ENABLED` are beyond the
prover. Of the eight services no liveness is stated.

## 6. What was found

Three runs are expected to fail, each on what a text of the repository says:

1. `poller_wins`. `getTransactionStatus` writes the final status without a
   condition and without a follow-up (`transactions.service.ts:302`). The checker
   then finds no pending row to claim: the loan is never activated.
2. `paid_up`. `next_payment_due` is written by `createLoan` only
   (`loans.service.ts:102`), so the detector defaults a loan that is paid on time,
   and reminders call it overdue, from the first due date on.
3. `batch_cut`. After an answer of 100 events that ends inside a ledger, the
   cursor skips the rest of that ledger (`blockchain-indexer.processor.ts:235`).

Seen while modelling, and the reason for a condition in a property rather than a
run of its own:

- Two overlapping workers that repay one loan overwrite each other's balance
  (`BalanceIsOutstanding` excludes "overlap"; `NeverOverCredited` does not).
- The follow-up is chosen by the type the client gave, which nobody compares with the
  XDR (`transaction-status-checker.processor.ts:292`): a confirmed repayment, or
  another call that names a loan, which was submitted as `loan_create` activates a
  pending loan. `ActiveOnlyIfConfirmed` says so ("unchecked").
- A hundred records that never resolve fill the checker's batch for ever (`Crowded`
  in both liveness properties).
- A worker that dies, or whose call fails, between claim and follow-up leaves a
  final record without an effect (`FollowedUpUndisturbed` excludes it). A record
  deleted after a week and submitted again is followed up again: one payment is
  subtracted twice (`NeverOverCredited` excludes it).
- Two overrides at once: the second is validated against a status the first has
  replaced, which its audit row then does not name, and may take a loan out of a final
  status. A repayment built before a loan was cancelled completes it. An audit row is
  lost if its insert fails after the override.
- Two instances of the indexer leave a status or score that is not the latest;
  a retry after a failed second call takes the event for a duplicate, and the call
  is never made up for. A replayed default is applied again and overwrites a
  repayment, though line 416 calls it idempotent. An error on reading the cursor
  starts the index over from ledger 1.
- The upsert of a created loan names `event_id`, whose unique index is partial
  (`20260325000000_create_indexer_tables.sql:54`): PostgreSQL refuses it every time,
  the cursor goes past it with the next event, and `loan_index` stays empty.
- The first run asks for ledger 1, which the server no longer keeps; a contract that
  is silent for longer than the server's retention leaves the cursor behind it. Both
  fail for ever, as does an answer of 100 events that are unknown or refused.
- A depositor without a user, or whose role cannot be read, is skipped and stays a
  borrower when it registers; a role that an administrator writes while a depositor is
  raised is overwritten.
- A crash between the endpoint's answer and the mark, or a lost answer, delivers
  twice; a delivery whose job is used up is not announced again while its id is
  kept. The repositories of the checker and of administrators have no dispatcher,
  so their changes are announced to nobody.
- `updateStatus` with a condition announces the change even if no row met the
  condition. The defaults of the detector are announced to nobody.
- Accrual counts full days of milliseconds from the moment of the last run. A run
  that starts a moment earlier in its hour than the one a day before finds 0 days; the
  next charges one, and the rest is dropped: nothing fails, and a loan is charged a day
  for up to a day and two hours (`DaysSlipByHours`).
- A late accrual takes back interest that was already distributed; a
  distribution that dies before the checkpoint pays the same interest twice; a
  credit that fails is never made up for.
- Two applications of a wallet at once leave two pending rows, after which
  `findPendingByWallet` fails (its comment says it returns the latest). An
  approval interrupted after its first call cannot be repeated. Approval makes a
  merchant of an administrator; `becomeLp` replaces the role of a merchant, where
  the migration's comment says that only administrators change roles.
- Two tokens of one second are the same, so the second of two logins in one second
  is refused. A lost answer to a refresh locks the device out. The revocation of a
  token family is unreachable.
- The idempotency key is remembered for 86 s and not "24 hours"
  (`loans.controller.ts:132`), as the time is given in seconds to a cache that counts
  in milliseconds; likewise 300 ms for the score, less than the 800 ms a fetch takes.
  It is remembered in one process: a request sent again to another makes a second
  loan, as do two at once. The check for an identical pending loan never matches, for
  the provisional id is part of what is compared.
- The score of a wallet comes from a hash of its address when both caches miss, and
  is written over the indexed one, also over one recorded while it was computed; the
  row for the tier `poor` is refused by the
  enum of the table.
- A day without a reminder run skips that day's reminders for good.
- `loan_payments` is described in `docs/architecture/database-schema.md:136` and
  created by no migration, and `recordPayment` is called by nobody: the list shows
  the first instalment as the next one until less than that is left. The
  instalments still add up, as the last repayment is capped at the balance.
- `createLoan` compares the amount with the tier's maximum and not with the credit
  that is left.
- Leaderboard pages are ranked anew each time from rows in no order; merchants that
  tie may be left out or come twice, as may any while loans move. A pending loan
  lowers the rates of its merchant.
- A nonce whose mark fails signs in again until it expires; two verifications at
  once both succeed.
- Any error of the contract on `get_lp_shares` is taken for a wallet without
  shares, so the alternative names are not tried, and the summary shows 0 shares. A
  fee that cannot be read is quoted as 0. Shares, figures of the pool and amount of one
  answer may be of different states of the pool, and `sharesReceived` then does not
  follow from the liquidity shown beside it. The overview caches an empty pool when
  the pool cannot be read.
  Built withdrawals carry no least amount: a quote binds nobody.
- `StellarService.withTimeout` fails with "... timed out", which
  `isTransientError` does not recognise ("timeout"): a look-up that times out is
  not tried again within the call (`stellar.service.ts:71`).

## 7. Not modelled

- Reads whose answer is one row or one sum, with no second read to disagree with:
  `getMerchantById`, `getAvailableCredit`, profiles, the yield and investor figures
  of the liquidity summary, `outstandingBalance`, administrators' lists.
- Reading and marking notifications (one conditional update of one row); what
  inserts them is in `LoanTransactions` and `Reminders`.
- XDR building and parsing, the signature check itself, HTTP validation, guards and
  filters: pure or third-party. The retries inside `StellarService` are one call
  that answers or fails.
- Health checks, configuration and bootstrap: no state.
- The MCP server (`src/mcp`): it answers searches of the documentation, which it
  reads once at its start; it does not talk to the API.
- `max_rows = 1000` (`supabase/config.toml:18`): reads without a page (reminders,
  accrual, the default detector, leaderboard, portfolio, the sum of payments) return at
  most a thousand rows, and what is said of them holds up to that number.
- Row level security, except where it decides a call (`reputation_cache`), and
  constraints of the schema no writer can meet.

`PROJECT.json` gives the reason for each component.
