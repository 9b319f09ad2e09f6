---------------------------- MODULE LoanInterest ----------------------------
(***************************************************************************)
(* Interest from borrowers to liquidity providers: the interest-accrual job*)
(* adds full days of interest to active loans every hour, and the daily    *)
(* yield-distribution job credits the providers' part of the interest that *)
(* has not been distributed.  A row of loan_job_runs claims a period.      *)
(*                                                                         *)
(* Time is finer than an hour: a run is due once in every hour and starts  *)
(* at any moment of it, and that moment is what it counts days from.       *)
(*                                                                         *)
(* Amounts are in units of 1e-7, the precision both jobs round to, so an   *)
(* amount is a natural number.  What a loan earns in a day is a constant:  *)
(* the balance it depends on is LoanTransactions' concern.                 *)
(***************************************************************************)
EXTENDS Integers, FiniteSets, FiniteSetsExt

CONSTANTS
  Loans, Providers, Accruers, Distributors,
  Daily,        \* Loans -> Nat: interest of a day
  Shares,       \* Providers -> Nat: liquidity_positions.shares
  YieldParts,   \* LP_YIELD_RATIO in twentieths: 17 in the code
  TicksPerHour, \* 3,600,000 in the code, which counts milliseconds
  HoursPerDay,  \* 24 in the code
  Created,      \* when the loans were created, their created_at
  MaxTicks,     \* bound: how far time goes
  Regimes       \* sets of circumstances, one of which a behaviour has

(* "outage": a period passes without a run; "load": a read fails; "credit",*)
(* "checkpoint": an update of a balance or of a checkpoint fails; "crash". *)
Circumstances == {"outage", "load", "credit", "checkpoint", "crash"}

ASSUME ConstantsAssumption ==
  /\ IsFiniteSet(Loans) /\ IsFiniteSet(Providers)
  /\ Daily \in [Loans -> Nat]
  /\ Shares \in [Providers -> Nat]
  /\ YieldParts \in 0 .. 20
  /\ TicksPerHour \in Nat \ {0} /\ HoursPerDay \in Nat \ {0}
  /\ MaxTicks \in Nat /\ Created \in 0 .. MaxTicks
  /\ Regimes \subseteq SUBSET Circumstances

VARIABLES
  regime,      \* what may happen in this behaviour; it never changes
  now,         \* ticks since a midnight, UTC
  active,      \* loans that are active; the others are completed
  accrued,     \* [Loans -> Nat]: loans.accrued_interest
  since,       \* [Loans -> tick]: loans.last_accrual_at, or created_at
  distributed, \* [Loans -> Nat]: loans.distributed_interest
  yield,       \* [Providers -> Nat]: liquidity_positions.lifetime_yield
  hours,       \* hours claimed in loan_job_runs
  days,        \* days claimed in loan_job_runs
  accruer,     \* [Accruers -> ...]: a run of interest-accrual
  distributor  \* [Distributors -> ...]: a run of yield-distribution

loanRows == <<accrued, since, distributed>>
claims == <<hours, days>>
vars ==
  <<regime, now, active, loanRows, yield, claims, accruer, distributor>>

DayLength == TicksPerHour * HoursPerDay
Hour == now \div TicksPerHour
Today == now \div DayLength

NoAccrual == [pc |-> "idle"]
NoDistribution == [pc |-> "idle"]
Accruals ==
  [pc : {"load", "update"}, at : 0 .. MaxTicks, todo : SUBSET Loans,
   accrued : [Loans -> Nat], since : [Loans -> 0 .. MaxTicks]]
Distributions ==
  [pc : {"loans", "positions", "credit", "checkpoint"},
   delta : [Loans -> Nat], distributed : [Loans -> Nat],
   yield : [Providers -> Nat], unpaid : SUBSET Providers,
   todo : SUBSET Loans, paid : BOOLEAN]

TypeOK ==
  /\ regime \in Regimes
  /\ now \in 0 .. MaxTicks
  /\ active \subseteq Loans
  /\ accrued \in [Loans -> Nat]
  /\ since \in [Loans -> 0 .. MaxTicks]
  /\ distributed \in [Loans -> Nat]
  /\ yield \in [Providers -> Nat]
  /\ hours \subseteq 0 .. MaxTicks
  /\ days \subseteq 0 .. MaxTicks
  /\ accruer \in [Accruers -> Accruals \cup {NoAccrual}]
  /\ distributor \in [Distributors -> Distributions \cup {NoDistribution}]

Init ==
  /\ regime \in Regimes
  /\ now = Created
  /\ active = Loans
  /\ accrued = [l \in Loans |-> 0]
  /\ since = [l \in Loans |-> Created]
  /\ distributed = [l \in Loans |-> 0]
  /\ yield = [p \in Providers |-> 0]
  /\ hours = {}
  /\ days = {}
  /\ accruer = [w \in Accruers |-> NoAccrual]
  /\ distributor = [w \in Distributors |-> NoDistribution]

-----------------------------------------------------------------------------
(* The world outside the jobs.                                             *)

(* Without an outage the runs of an hour and of a day end before it does.  *)
EndsHour == (now + 1) \div TicksPerHour # Hour
EndsDay == (now + 1) \div DayLength # Today
AccrualDone == Hour \in hours /\ \A w \in Accruers : accruer[w] = NoAccrual
Punctual ==
  /\ EndsHour => AccrualDone
  /\ EndsDay => Today \in days

(* A distribution is over within the hour it starts in.                    *)
Tick ==
  /\ now < MaxTicks
  /\ Punctual \/ "outage" \in regime
  /\ EndsHour => \A w \in Distributors : distributor[w] = NoDistribution
  /\ now' = now + 1
  /\ UNCHANGED <<regime, active, loanRows, yield, claims, accruer,
                 distributor>>

CompleteLoan(l) ==
  /\ l \in active
  /\ active' = active \ {l}
  /\ UNCHANGED <<regime, now, loanRows, yield, claims, accruer, distributor>>

-----------------------------------------------------------------------------
(* interest-accrual.                                                       *)

ClaimHour(w) ==
  /\ accruer[w] = NoAccrual
  /\ Hour \notin hours
  /\ hours' = hours \cup {Hour}
  /\ accruer' = [accruer EXCEPT ![w] =
       [pc |-> "load", at |-> now, todo |-> {}, accrued |-> accrued,
        since |-> since]]
  /\ UNCHANGED <<regime, now, active, loanRows, yield, days, distributor>>

LoadActiveLoans(w) ==
  /\ accruer[w] # NoAccrual
  /\ accruer[w].pc = "load"
  /\ accruer' = [accruer EXCEPT ![w] =
       [@ EXCEPT !.pc = "update", !.todo = active,
                 !.accrued = accrued, !.since = since]]
  /\ UNCHANGED <<regime, now, active, loanRows, yield, claims, distributor>>

(* accrueInterest over the full days since the last accrual.               *)
DaysBetween(from, to) == IF to > from THEN (to - from) \div DayLength ELSE 0
Earned(w, l) == Daily[l] * DaysBetween(accruer[w].since[l], accruer[w].at)

(* A loan that has earned nothing is left alone, last_accrual_at included. *)
BugAlways(w, l) == TRUE
HasEarned(w, l) == Earned(w, l) > 0

(* The next accrual counts from the start of this run.                     *)
BugNeverRestarts(w, l) == accruer[w].since[l]
BugNextAccrual(w, l) == accruer[w].at + DayLength
Restarted(w, l) == accruer[w].at

(* A loan read as active gets its interest if it still is active.          *)
Accrue(w, l) ==
  /\ accruer[w] # NoAccrual
  /\ accruer[w].pc = "update"
  /\ l \in accruer[w].todo
  /\ accruer' = [accruer EXCEPT ![w].todo = @ \ {l}]
  /\ IF l \in active /\ HasEarned(w, l)
       THEN /\ accrued' = [accrued EXCEPT
                 ![l] = accruer[w].accrued[l] + Earned(w, l)]
            /\ since' = [since EXCEPT ![l] = Restarted(w, l)]
       ELSE UNCHANGED <<accrued, since>>
  /\ UNCHANGED <<regime, now, active, distributed, yield, claims, distributor>>

AccrueFails(w, l) ==
  /\ "credit" \in regime
  /\ accruer[w] # NoAccrual
  /\ l \in accruer[w].todo
  /\ accruer' = [accruer EXCEPT ![w].todo = @ \ {l}]
  /\ UNCHANGED <<regime, now, active, loanRows, yield, claims, distributor>>

(* The run is over, dies, or fails to load its loans: the hour stays       *)
(* claimed.                                                                *)
AccrualEnds(w) ==
  /\ accruer[w] # NoAccrual
  /\ \/ accruer[w].pc = "update" /\ accruer[w].todo = {}
     \/ accruer[w].pc = "load" /\ "load" \in regime
     \/ "crash" \in regime
  /\ accruer' = [accruer EXCEPT ![w] = NoAccrual]
  /\ UNCHANGED <<regime, now, active, loanRows, yield, claims, distributor>>

-----------------------------------------------------------------------------
(* yield-distribution.                                                     *)

ClaimDay(w) ==
  /\ distributor[w] = NoDistribution
  /\ Today \notin days
  /\ days' = days \cup {Today}
  /\ distributor' = [distributor EXCEPT ![w] =
       [pc |-> "loans", delta |-> [l \in Loans |-> 0],
        distributed |-> distributed, yield |-> yield, unpaid |-> {},
        todo |-> {}, paid |-> FALSE]]
  /\ UNCHANGED <<regime, now, active, loanRows, yield, hours, accruer>>

(* undistributedInterest, over loans that are active or completed.         *)
BugIgnoresCheckpoint(l) == accrued[l]
BugOnlyActive(l) == IF l \in active THEN accrued[l] - distributed[l] ELSE 0
Undistributed(l) ==
  IF accrued[l] > distributed[l] THEN accrued[l] - distributed[l] ELSE 0

LoadInterest(w) ==
  /\ distributor[w] # NoDistribution
  /\ distributor[w].pc = "loans"
  /\ distributor' = [distributor EXCEPT ![w] =
       [@ EXCEPT !.pc = "positions",
                 !.delta = [l \in Loans |-> Undistributed(l)],
                 !.distributed = distributed]]
  /\ UNCHANGED <<regime, now, active, loanRows, yield, claims, accruer>>

LoadPositions(w) ==
  /\ distributor[w] # NoDistribution
  /\ distributor[w].pc = "positions"
  /\ distributor' = [distributor EXCEPT ![w] =
       [@ EXCEPT !.pc = "credit", !.yield = yield, !.unpaid = Providers]]
  /\ UNCHANGED <<regime, now, active, loanRows, yield, claims, accruer>>

Total(f, S) == MapThenSumSet(LAMBDA x : f[x], S)

(* Math.round of a quotient.                                               *)
Rounded(n, d) == (2 * n + d) \div (2 * d)

Distributable(w) ==
  Rounded(YieldParts * Total(distributor[w].delta, Loans), 20)
TotalShares == Total(Shares, Providers)

ShareOfPool(p, pool) ==
  IF TotalShares = 0 THEN 0 ELSE Rounded(Shares[p] * pool, TotalShares)

Credit(w, p) ==
  LET amount == ShareOfPool(p, Distributable(w)) IN
  /\ distributor[w] # NoDistribution
  /\ distributor[w].pc = "credit"
  /\ p \in distributor[w].unpaid
  /\ yield' = IF amount = 0 THEN yield
              ELSE [yield EXCEPT ![p] = distributor[w].yield[p] + amount]
  /\ distributor' = [distributor EXCEPT
       ![w].unpaid = @ \ {p}, ![w].paid = @ \/ amount > 0]
  /\ UNCHANGED <<regime, now, active, loanRows, claims, accruer>>

CreditFails(w, p) ==
  /\ "credit" \in regime
  /\ distributor[w] # NoDistribution
  /\ p \in distributor[w].unpaid
  /\ distributor' = [distributor EXCEPT ![w].unpaid = @ \ {p}]
  /\ UNCHANGED <<regime, now, active, loanRows, yield, claims, accruer>>

(* Once every provider has had its turn, the loans are checkpointed if any *)
(* provider was paid.                                                      *)
CreditsEnd(w) ==
  /\ distributor[w] # NoDistribution
  /\ distributor[w].pc = "credit"
  /\ distributor[w].unpaid = {}
  /\ distributor' = [distributor EXCEPT ![w] =
       IF @.paid
         THEN [@ EXCEPT !.pc = "checkpoint",
                        !.todo = {l \in Loans : distributor[w].delta[l] > 0}]
         ELSE NoDistribution]
  /\ UNCHANGED <<regime, now, active, loanRows, yield, claims, accruer>>

Checkpoint(w, l) ==
  /\ distributor[w] # NoDistribution
  /\ l \in distributor[w].todo
  /\ distributed' = [distributed EXCEPT ![l] =
       distributor[w].distributed[l] + distributor[w].delta[l]]
  /\ distributor' = [distributor EXCEPT ![w].todo = @ \ {l}]
  /\ UNCHANGED <<regime, now, active, accrued, since, yield, claims, accruer>>

CheckpointFails(w, l) ==
  /\ "checkpoint" \in regime
  /\ distributor[w] # NoDistribution
  /\ l \in distributor[w].todo
  /\ distributor' = [distributor EXCEPT ![w].todo = @ \ {l}]
  /\ UNCHANGED <<regime, now, active, loanRows, yield, claims, accruer>>

(* The run is over, dies, or fails to load: the day stays claimed.         *)
DistributionEnds(w) ==
  /\ distributor[w] # NoDistribution
  /\ \/ distributor[w].pc = "checkpoint" /\ distributor[w].todo = {}
     \/ distributor[w].pc \in {"loans", "positions"} /\ "load" \in regime
     \/ "crash" \in regime
  /\ distributor' = [distributor EXCEPT ![w] = NoDistribution]
  /\ UNCHANGED <<regime, now, active, loanRows, yield, claims, accruer>>

-----------------------------------------------------------------------------
Accrual(w) ==
  \/ ClaimHour(w)
  \/ LoadActiveLoans(w)
  \/ \E l \in Loans : Accrue(w, l) \/ AccrueFails(w, l)
  \/ AccrualEnds(w)
Distribution(w) ==
  \/ ClaimDay(w)
  \/ LoadInterest(w)
  \/ LoadPositions(w)
  \/ \E p \in Providers : Credit(w, p) \/ CreditFails(w, p)
  \/ CreditsEnd(w)
  \/ \E l \in Loans : Checkpoint(w, l) \/ CheckpointFails(w, l)
  \/ DistributionEnds(w)

Next ==
  \/ Tick
  \/ \E l \in Loans : CompleteLoan(l)
  \/ \E w \in Accruers : Accrual(w)
  \/ \E w \in Distributors : Distribution(w)

Spec == Init /\ [][Next]_vars

(***************************************************************************)
(* Time passes, and a run goes on until it ends.                           *)
(***************************************************************************)
Fairness ==
  /\ WF_vars(Tick)
  /\ \A w \in Accruers : WF_vars(Accrual(w))
  /\ \A w \in Distributors : WF_vars(Distribution(w))

FairSpec == Spec /\ Fairness

-----------------------------------------------------------------------------
(* What rounding may add or take: half a unit for the pool of a day and    *)
(* half a unit for each provider (in fortieths of a unit).                 *)
Tolerance == 20 * (Cardinality(Providers) + 1) * Cardinality(days)

(* No loan is ever charged for more full days than have passed since it    *)
(* was created, whatever runs overlap, stop halfway or are late.           *)
NeverOvercharged ==
  \A l \in Loans : accrued[l] <= Daily[l] * ((now - Created) \div DayLength)

(* Providers never get more than their part of the interest that accrued,  *)
(* as long as no run dies, every checkpoint is made and an hour's accrual  *)
(* is over before the next: a late one takes back interest already paid on.*)
NeverOverpaid ==
  regime \cap {"outage", "crash", "checkpoint"} = {} =>
    40 * Total(yield, Providers)
      <= 2 * YieldParts * Total(accrued, Loans) + Tolerance

(* Where every run is made, in time and to its end, an active loan falls    *)
(* behind by less than two hours for every day it is charged: a run that   *)
(* starts a moment earlier in its hour than the one before finds the day   *)
(* unfinished, the next charges it, and what is over is dropped.           *)
DaysSlipByHours ==
  regime \cap {"outage", "load", "credit", "crash"} = {} =>
    \A l \in active :
      Daily[l] * (now - Created)
        <= (accrued[l] + Daily[l]) * (DayLength + 2 * TicksPerHour)

(* The interest of n days is distributed in the days after it has accrued, *)
(* also of a loan that is completed in between, where nothing fails.       *)
AccruedIsDistributed ==
  \A l \in Loans : \A n \in 1 .. MaxTicks \div DayLength :
    (/\ regime = {}
     /\ accrued[l] = n * Daily[l]
     /\ now + DayLength <= MaxTicks) ~> distributed[l] >= n * Daily[l]
=============================================================================
