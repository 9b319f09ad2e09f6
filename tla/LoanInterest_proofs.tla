------------------------- MODULE LoanInterest_proofs -------------------------
(***************************************************************************)
(* What borrowers are charged and what providers are paid of it, for any   *)
(* loans, providers, shares, interest and length of a day, and any number  *)
(* of runs that overlap, stop halfway or are late.                         *)
(***************************************************************************)
EXTENDS LoanInterest, Induction

LEMMA DailyType == Daily \in [Loans -> Nat]
  BY ConstantsAssumption
LEMMA TimeType ==
  /\ TicksPerHour \in Nat \ {0} /\ HoursPerDay \in Nat \ {0}
  /\ DayLength \in Nat \ {0} /\ DayLength = TicksPerHour * HoursPerDay
  /\ MaxTicks \in Nat /\ Created \in Nat /\ Created <= MaxTicks
<1>1. \A a, b \in Nat \ {0} : a * b \in Nat \ {0}
  OBVIOUS
<1> QED BY <1>1, ConstantsAssumption DEF DayLength

-----------------------------------------------------------------------------
(* Whole days.                                                             *)

LEMMA DivParts ==
  ASSUME NEW n \in Nat, NEW h \in Nat \ {0}
  PROVE  n \div h \in Nat /\ h * (n \div h) <= n /\ n < h * (n \div h) + h
  OBVIOUS

LEMMA DivUnique ==
  ASSUME NEW n \in Nat, NEW h \in Nat \ {0}, NEW q \in Nat,
         h * q <= n, n < h * q + h
  PROVE  n \div h = q
  OBVIOUS

LEMMA MulMono ==
  ASSUME NEW a \in Nat, NEW p \in Nat, NEW q \in Nat, p <= q
  PROVE  a * p <= a * q
  OBVIOUS

LEMMA DivMono ==
  ASSUME NEW m \in Nat, NEW n \in Nat, m <= n, NEW h \in Nat \ {0}
  PROVE  m \div h <= n \div h
  OBVIOUS

(* Full days before and after a moment are no more than those altogether.  *)
LEMMA DivSum ==
  ASSUME NEW m \in Nat, NEW n \in Nat, m <= n, NEW h \in Nat \ {0}
  PROVE  (m \div h) + ((n - m) \div h) <= n \div h
  OBVIOUS

LEMMA DivSmaller ==
  ASSUME NEW n \in Nat, NEW h \in Nat \ {0}
  PROVE  n \div h <= n
<1>1. PICK d \in Nat : d = n \div h /\ h * d <= n
  BY DivParts
<1>2. 1 * d <= h * d
  BY <1>1
<1> QED BY <1>1, <1>2

(* A next moment is of the same hour or day, or the first of a next one.   *)
LEMMA NextPeriod ==
  ASSUME NEW n \in Nat, NEW h \in Nat \ {0}
  PROVE  \/ (n + 1) \div h = n \div h
         \/ (n + 1) \div h = (n \div h) + 1 /\ n + 1 = h * ((n \div h) + 1)
<1>1. PICK d \in Nat : d = n \div h /\ h * d <= n /\ n < h * d + h
  BY DivParts
<1>2. h * d \in Nat /\ h * (d + 1) = h * d + h /\ n + 1 \in Nat /\ d + 1 \in Nat
  BY <1>1
<1>3. CASE n + 1 < h * d + h
  <2>1. h * d <= n + 1
    BY <1>1, <1>2
  <2>2. (n + 1) \div h = d
    BY <1>2, <1>3, <2>1, DivUnique
  <2> QED BY <1>1, <2>2
<1>4. CASE n + 1 = h * d + h
  <2>1. h * (d + 1) <= n + 1 /\ n + 1 < h * (d + 1) + h
    BY <1>2, <1>4
  <2>2. (n + 1) \div h = d + 1
    BY <1>2, <2>1, DivUnique
  <2> QED BY <1>1, <1>2, <1>4, <2>2
<1> QED BY <1>1, <1>2, <1>3, <1>4

(* A day ends at the end of an hour.                                       *)
LEMMA DayEndsWithHour ==
  ASSUME NEW n \in Nat, NEW t \in Nat \ {0}, NEW p \in Nat \ {0},
         (n + 1) \div (t * p) # n \div (t * p)
  PROVE  (n + 1) \div t # n \div t
<1> DEFINE h == t * p
<1>1. h \in Nat \ {0}
  OBVIOUS
<1>2. PICK d \in Nat : d = n \div h
  BY <1>1, DivParts
<1>3. n + 1 = h * (d + 1)
  BY <1>1, <1>2, NextPeriod
<1>4. PICK k \in Nat : k = p * (d + 1)
  BY <1>2
<1>5. h * (d + 1) = t * k
  BY <1>2, <1>4
<1>6. n + 1 = t * k
  BY <1>3, <1>5
<1>7. (n + 1) \div t = k
  <2>1. n + 1 \in Nat /\ t * k \in Nat /\ t * k <= n + 1 /\ n + 1 < t * k + t
    BY <1>4, <1>6
  <2> QED BY <1>4, <2>1, DivUnique
<1>8. ASSUME n \div t = k PROVE FALSE
  <2>1. t * k <= n
    BY <1>8, DivParts
  <2> QED BY <1>6, <2>1
<1> QED BY <1>7, <1>8

-----------------------------------------------------------------------------
(* The half of the types that interest-accrual works with.                 *)
AccrualTypes ==
  /\ now \in 0 .. MaxTicks
  /\ active \subseteq Loans
  /\ accrued \in [Loans -> Nat]
  /\ since \in [Loans -> 0 .. MaxTicks]
  /\ hours \subseteq 0 .. MaxTicks
  /\ accruer \in [Accruers -> Accruals \cup {NoAccrual}]

Busy(w) == accruer[w] # NoAccrual

(* Interest that has been charged is for full days before the last accrual.*)
Backed(a, s, t) ==
  \A l \in Loans :
    /\ Created <= s[l] /\ s[l] <= t
    /\ a[l] <= Daily[l] * ((s[l] - Created) \div DayLength)
Charges ==
  /\ Backed(accrued, since, now)
  /\ \A w \in Accruers : Busy(w) =>
       accruer[w].at <= now /\ Backed(accruer[w].accrued, accruer[w].since, now)

CInv == AccrualTypes /\ Charges

(* An accruer's steps, by what they do to its run.                         *)
Claims(w) ==
  /\ ~Busy(w) /\ Hour \notin hours /\ hours' = hours \cup {Hour}
  /\ accruer'[w] \in Accruals
  /\ accruer'[w].pc = "load" /\ accruer'[w].at = now
  /\ accruer'[w].accrued = accrued /\ accruer'[w].since = since
  /\ UNCHANGED <<now, active, accrued, since>>
Loads(w) ==
  /\ Busy(w) /\ accruer'[w] \in Accruals
  /\ accruer'[w].pc = "update" /\ accruer'[w].at = accruer[w].at
  /\ accruer'[w].todo = active
  /\ accruer'[w].accrued = accrued /\ accruer'[w].since = since
  /\ UNCHANGED <<now, active, accrued, since, hours>>
Charging(w, l) ==
  IF l \in active /\ Earned(w, l) > 0
    THEN /\ accrued' = [accrued EXCEPT ![l] = accruer[w].accrued[l] + Earned(w, l)]
         /\ since' = [since EXCEPT ![l] = accruer[w].at]
    ELSE UNCHANGED <<accrued, since>>
GoesOn(w, l) ==
  /\ Busy(w) /\ l \in accruer[w].todo
  /\ accruer'[w] \in Accruals
  /\ accruer'[w].pc = accruer[w].pc /\ accruer'[w].at = accruer[w].at
  /\ accruer'[w].todo = accruer[w].todo \ {l}
  /\ accruer'[w].accrued = accruer[w].accrued
  /\ accruer'[w].since = accruer[w].since
  /\ UNCHANGED <<now, active, hours>>
Updates(w, l) == GoesOn(w, l) /\ accruer[w].pc = "update" /\ Charging(w, l)
Skips(w, l) == GoesOn(w, l) /\ "credit" \in regime /\ UNCHANGED <<accrued, since>>
Ends(w) ==
  /\ Busy(w) /\ accruer'[w] = NoAccrual
  /\ \/ accruer[w].pc = "update" /\ accruer[w].todo = {}
     \/ regime \cap {"load", "crash"} # {}
  /\ UNCHANGED <<now, active, accrued, since, hours>>

LEMMA AccrualSteps ==
  ASSUME AccrualTypes, NEW w \in Accruers, Accrual(w)
  PROVE  /\ \A v \in Accruers \ {w} : accruer'[v] = accruer[v]
         /\ accruer' \in [Accruers -> Accruals \cup {NoAccrual}]
         /\ \/ Claims(w) \/ Loads(w) \/ Ends(w)
            \/ \E l \in Loans : Updates(w, l) \/ Skips(w, l)
<1> USE DEF loanRows, claims
<1>1. accruer \in [Accruers -> Accruals \cup {NoAccrual}]
  BY DEF AccrualTypes
<1>2. \A v \in Accruers \ {w} : accruer'[v] = accruer[v]
  BY <1>1 DEF Accrual, ClaimHour, LoadActiveLoans, Accrue, AccrueFails, AccrualEnds
<1>3. Busy(w) => accruer[w] \in Accruals
  BY <1>1 DEF Busy
<1>4. ASSUME NEW r \in Accruals \cup {NoAccrual}, accruer' = [accruer EXCEPT ![w] = r]
      PROVE  accruer'[w] = r /\ accruer' \in [Accruers -> Accruals \cup {NoAccrual}]
  BY <1>1, <1>4
<1>5. CASE ClaimHour(w)
  <2> DEFINE r == [pc |-> "load", at |-> now, todo |-> {}, accrued |-> accrued,
                   since |-> since]
  <2>1. r \in Accruals
    BY DEF Accruals, AccrualTypes
  <2>2. accruer' = [accruer EXCEPT ![w] = r]
    BY <1>5 DEF ClaimHour
  <2>3. accruer'[w] = r /\ accruer' \in [Accruers -> Accruals \cup {NoAccrual}]
    BY <1>4, <2>1, <2>2
  <2>4. Claims(w)
    BY <1>5, <2>1, <2>3 DEF ClaimHour, Claims, Busy
  <2> QED BY <1>2, <2>3, <2>4
<1>6. CASE LoadActiveLoans(w)
  <2> DEFINE r1 == [accruer[w] EXCEPT !.pc = "update"]
             r2 == [r1 EXCEPT !.todo = active]
             r3 == [r2 EXCEPT !.accrued = accrued]
             r4 == [r3 EXCEPT !.since = since]
  <2>1. accruer[w] \in Accruals /\ Busy(w)
    BY <1>3, <1>6 DEF LoadActiveLoans, Busy
  <2>2. r1 \in Accruals /\ r1.pc = "update" /\ r1.at = accruer[w].at
    BY <2>1 DEF Accruals
  <2>3. r2 \in Accruals /\ r2.pc = "update" /\ r2.at = accruer[w].at /\ r2.todo = active
    BY <2>2 DEF Accruals, AccrualTypes
  <2>4. /\ r3 \in Accruals /\ r3.pc = "update" /\ r3.at = accruer[w].at
        /\ r3.todo = active /\ r3.accrued = accrued
    BY <2>3 DEF Accruals, AccrualTypes
  <2>5. /\ r4 \in Accruals /\ r4.pc = "update" /\ r4.at = accruer[w].at
        /\ r4.todo = active /\ r4.accrued = accrued /\ r4.since = since
    BY <2>4 DEF Accruals, AccrualTypes
  <2>6. accruer' = [accruer EXCEPT ![w] = r4]
    BY <1>1, <1>6 DEF LoadActiveLoans
  <2>7. accruer'[w] = r4 /\ accruer' \in [Accruers -> Accruals \cup {NoAccrual}]
    BY <1>4, <2>5, <2>6
  <2>8. Loads(w)
    BY <1>6, <2>1, <2>5, <2>7 DEF LoadActiveLoans, Loads
  <2> QED BY <1>2, <2>7, <2>8
<1>7. ASSUME NEW l \in Loans, Accrue(w, l) \/ AccrueFails(w, l)
      PROVE  /\ accruer' \in [Accruers -> Accruals \cup {NoAccrual}]
             /\ Updates(w, l) \/ Skips(w, l)
  <2> DEFINE r == [accruer[w] EXCEPT !.todo = accruer[w].todo \ {l}]
  <2>1. accruer[w] \in Accruals /\ Busy(w) /\ l \in accruer[w].todo
    BY <1>3, <1>7 DEF Accrue, AccrueFails, Busy
  <2>2. /\ r \in Accruals /\ r.pc = accruer[w].pc /\ r.at = accruer[w].at
        /\ r.todo = accruer[w].todo \ {l}
        /\ r.accrued = accruer[w].accrued /\ r.since = accruer[w].since
    BY <2>1 DEF Accruals
  <2>3. accruer' = [accruer EXCEPT ![w] = r]
    BY <1>1, <1>7 DEF Accrue, AccrueFails
  <2>4. accruer'[w] = r /\ accruer' \in [Accruers -> Accruals \cup {NoAccrual}]
    BY <1>4, <2>2, <2>3
  <2>5. GoesOn(w, l)
    BY <1>7, <2>1, <2>2, <2>4 DEF Accrue, AccrueFails, GoesOn
  <2>6. Updates(w, l) \/ Skips(w, l)
    BY <1>7, <2>5 DEF Accrue, AccrueFails, Updates, Skips, Charging, HasEarned, Restarted
  <2> QED BY <2>4, <2>6
<1>8. CASE AccrualEnds(w)
  <2>1. accruer'[w] = NoAccrual /\ accruer' \in [Accruers -> Accruals \cup {NoAccrual}]
    BY <1>1, <1>8 DEF AccrualEnds
  <2>2. Ends(w)
    BY <1>8, <2>1 DEF AccrualEnds, Ends, Busy
  <2> QED BY <1>2, <2>1, <2>2
<1> QED BY <1>2, <1>5, <1>6, <1>7, <1>8 DEF Accrual

(* What is not the accruers' doing: time passes, loans are completed, and  *)
(* the distribution writes other columns.                                  *)
LEMMA OtherSteps ==
  ASSUME [Next]_vars
  PROVE  \/ \E w \in Accruers : Accrual(w)
         \/ /\ UNCHANGED <<accrued, since, hours, accruer>>
            /\ \/ Tick /\ UNCHANGED active
               \/ UNCHANGED now /\ active' \subseteq active
<1> USE DEF loanRows, claims
<1>1. ASSUME NEW w \in Distributors, Distribution(w)
      PROVE  UNCHANGED <<now, active, accrued, since, hours, accruer>>
  BY <1>1 DEF Distribution, ClaimDay, LoadInterest, LoadPositions, Credit, CreditFails,
     CreditsEnd, Checkpoint, CheckpointFails, DistributionEnds
<1>2. ASSUME NEW l \in Loans, CompleteLoan(l)
      PROVE  UNCHANGED <<now, accrued, since, hours, accruer>> /\ active' \subseteq active
  BY <1>2 DEF CompleteLoan
<1>3. Tick => UNCHANGED <<active, accrued, since, hours, accruer>>
  BY DEF Tick
<1>4. CASE UNCHANGED vars
  BY <1>4 DEF vars
<1> QED BY <1>1, <1>2, <1>3, <1>4 DEF Next

(* Interest earned in a run is a natural number.                           *)
LEMMA EarnedType ==
  ASSUME AccrualTypes, NEW w \in Accruers, Busy(w), NEW l \in Loans
  PROVE  /\ accruer[w] \in Accruals
         /\ accruer[w].at \in 0 .. MaxTicks /\ accruer[w].since[l] \in 0 .. MaxTicks
         /\ accruer[w].accrued[l] \in Nat
         /\ Earned(w, l) \in Nat
<1>1. accruer[w] \in Accruals
  BY DEF AccrualTypes, Busy
<1>2. /\ accruer[w].at \in 0 .. MaxTicks /\ accruer[w].since[l] \in 0 .. MaxTicks
      /\ accruer[w].accrued[l] \in Nat
  BY <1>1 DEF Accruals
<1>3. DaysBetween(accruer[w].since[l], accruer[w].at) \in Nat
  BY <1>2, TimeType DEF DaysBetween
<1> QED BY <1>1, <1>2, <1>3, DailyType DEF Earned

LEMMA HourType ==
  ASSUME AccrualTypes
  PROVE  Hour \in 0 .. MaxTicks /\ Today \in 0 .. MaxTicks
<1>1. now \in Nat /\ now <= MaxTicks /\ Hour \in Nat /\ Today \in Nat
  BY TimeType, DivParts DEF AccrualTypes, Hour, Today
<1>2. Hour <= now /\ Today <= now
  BY <1>1, TimeType, DivSmaller DEF Hour, Today
<1> QED BY <1>1, <1>2, TimeType

LEMMA AccrualTypesInit == Init => AccrualTypes
  BY TimeType DEF Init, AccrualTypes

LEMMA AccrualTypesNext ==
  ASSUME AccrualTypes, [Next]_vars
  PROVE  AccrualTypes'
<1>1. ASSUME NEW w \in Accruers, Accrual(w)
      PROVE  AccrualTypes'
  <2>1. CASE Claims(w) \/ Loads(w) \/ Ends(w) \/ \E l \in Loans : Skips(w, l)
    BY <1>1, <2>1, AccrualSteps, HourType DEF AccrualTypes, Claims, Loads, Ends, Skips, GoesOn
  <2>2. ASSUME NEW l \in Loans, Updates(w, l)
        PROVE  AccrualTypes'
    <3>1. accruer[w].at \in 0 .. MaxTicks /\ accruer[w].accrued[l] + Earned(w, l) \in Nat
      BY <2>2, EarnedType DEF Updates, GoesOn
    <3>2. accrued' \in [Loans -> Nat] /\ since' \in [Loans -> 0 .. MaxTicks]
      BY <2>2, <3>1 DEF Updates, Charging, AccrualTypes
    <3> QED BY <1>1, <2>2, <3>2, AccrualSteps DEF AccrualTypes, Updates, GoesOn
  <2> QED BY <1>1, <2>1, <2>2, AccrualSteps
<1>2. CASE Tick /\ UNCHANGED <<active, accrued, since, hours, accruer>>
  BY <1>2, TimeType DEF Tick, AccrualTypes
<1>3. CASE UNCHANGED <<now, accrued, since, hours, accruer>> /\ active' \subseteq active
  BY <1>3 DEF AccrualTypes
<1> QED BY <1>1, <1>2, <1>3, OtherSteps

-----------------------------------------------------------------------------
(* Never too much.                                                         *)

LEMMA BackedLater ==
  ASSUME NEW a, NEW s \in [Loans -> Nat], NEW t \in Nat, NEW u \in Nat,
         t <= u, Backed(a, s, t)
  PROVE  Backed(a, s, u)
  BY DEF Backed

(* A run that charges a loan charges for full days before the run.         *)
LEMMA ChargingIsBacked ==
  ASSUME CInv, NEW w \in Accruers, Busy(w), NEW l \in Loans, Charging(w, l)
  PROVE  Backed(accrued', since', now)
<1> DEFINE a == accruer[w].accrued[l]
           s == accruer[w].since[l]
           at == accruer[w].at
<1>1. /\ a \in Nat /\ s \in Nat /\ at \in Nat /\ Earned(w, l) \in Nat
      /\ Daily[l] \in Nat /\ Created \in Nat
  BY EarnedType, DailyType, TimeType DEF CInv
<1>2. Created <= s /\ a <= Daily[l] * ((s - Created) \div DayLength) /\ at <= now
  BY DEF CInv, Charges, Backed
<1>3. CASE l \in active /\ Earned(w, l) > 0
  <2>1. at > s /\ Earned(w, l) = Daily[l] * ((at - s) \div DayLength)
    BY <1>1, <1>3, DailyType DEF Earned, DaysBetween
  <2> DEFINE m == s - Created
             n == at - Created
             p == m \div DayLength
             q == (at - s) \div DayLength
             z == n \div DayLength
  <2>2. p \in Nat /\ q \in Nat /\ z \in Nat /\ p + q <= z
    <3>1. m \in Nat /\ n \in Nat /\ m <= n /\ n - m = at - s /\ at - s \in Nat
      BY <1>1, <1>2, <2>1
    <3> HIDE DEF m, n
    <3>2. p \in Nat /\ z \in Nat /\ p + ((n - m) \div DayLength) <= z
      BY <3>1, TimeType, DivSum, DivParts
    <3> QED BY <3>1, <3>2, TimeType, DivParts
  <2> HIDE DEF p, q, z
  <2>3. a + Daily[l] * q <= Daily[l] * z
    <3>1. Daily[l] * p + Daily[l] * q = Daily[l] * (p + q)
      BY <1>1, <2>2
    <3>2. Daily[l] * (p + q) <= Daily[l] * z
      BY <1>1, <2>2, MulMono
    <3> QED BY <1>1, <1>2, <2>2, <3>1, <3>2 DEF p
  <2>4. /\ Created <= since'[l] /\ since'[l] <= now
        /\ accrued'[l] <= Daily[l] * ((since'[l] - Created) \div DayLength)
    BY <1>1, <1>2, <1>3, <2>1, <2>3 DEF Charging, CInv, AccrualTypes, q, z
  <2>5. \A k \in Loans \ {l} : accrued'[k] = accrued[k] /\ since'[k] = since[k]
    BY <1>3 DEF Charging, CInv, AccrualTypes
  <2> QED BY <2>4, <2>5 DEF CInv, Charges, Backed
<1>4. CASE ~(l \in active /\ Earned(w, l) > 0)
  BY <1>4 DEF Charging, CInv, Charges
<1> QED BY <1>3, <1>4

LEMMA CInvInit == Init => CInv
<1> SUFFICES ASSUME Init PROVE Charges
  BY AccrualTypesInit DEF CInv
<1>1. \A l \in Loans : 0 <= Daily[l] * ((Created - Created) \div DayLength)
  <2>1. Created - Created = 0 /\ 0 \div DayLength \in Nat
    BY TimeType, DivParts
  <2> QED BY <2>1, DailyType
<1> QED BY <1>1, TimeType DEF Init, Charges, Backed, Busy

LEMMA CInvNext == CInv /\ [Next]_vars => CInv'
<1> SUFFICES ASSUME CInv, [Next]_vars
             PROVE  Charges'
  BY AccrualTypesNext DEF CInv
<1>1. AccrualTypes /\ AccrualTypes' /\ now \in Nat /\ now' \in Nat
  BY AccrualTypesNext DEF CInv, AccrualTypes
<1>2. /\ Backed(accrued, since, now)
      /\ \A w \in Accruers : Busy(w) =>
           accruer[w].at <= now /\ Backed(accruer[w].accrued, accruer[w].since, now)
  BY DEF CInv, Charges
<1>3. ASSUME NEW w \in Accruers, Accrual(w)
      PROVE  Charges'
  <2>1. \A v \in Accruers \ {w} : accruer'[v] = accruer[v]
    BY <1>1, <1>3, AccrualSteps
  <2>2. CASE Claims(w)
    BY <1>1, <1>2, <2>1, <2>2 DEF Charges, Claims, Busy, Backed
  <2>3. CASE Loads(w)
    BY <1>2, <2>1, <2>3 DEF Charges, Loads, Busy, Backed
  <2>4. CASE Ends(w)
    BY <1>2, <2>1, <2>4 DEF Charges, Ends, Busy, Backed
  <2>5. ASSUME NEW l \in Loans, Updates(w, l) \/ Skips(w, l)
        PROVE  Charges'
    <3>1. Busy(w) /\ UNCHANGED now
      BY <2>5 DEF Updates, Skips, GoesOn
    <3>2. Backed(accrued', since', now)
      BY <1>2, <2>5, <3>1, ChargingIsBacked DEF Updates, Skips
    <3>3. /\ accruer'[w].at = accruer[w].at
          /\ accruer'[w].accrued = accruer[w].accrued
          /\ accruer'[w].since = accruer[w].since
      BY <2>5 DEF Updates, Skips, GoesOn
    <3> QED BY <1>2, <2>1, <3>1, <3>2, <3>3 DEF Charges, Busy, Backed
  <2> QED BY <1>1, <1>3, <2>2, <2>3, <2>4, <2>5, AccrualSteps
<1>4. CASE UNCHANGED <<accrued, since, accruer>> /\ (Tick \/ UNCHANGED now)
  <2>1. now <= now'
    BY <1>1, <1>4 DEF Tick
  <2>2. \A w \in Accruers : Busy(w) =>
          /\ accruer[w].at \in Nat /\ accruer[w].since \in [Loans -> Nat]
    BY <1>1, TimeType DEF AccrualTypes, Accruals, Busy
  <2>3. since \in [Loans -> Nat]
    BY <1>1, TimeType DEF AccrualTypes
  <2>4. Backed(accrued, since, now')
    BY <1>1, <1>2, <2>1, <2>3, BackedLater
  <2>5. \A w \in Accruers : Busy(w) =>
          accruer[w].at <= now' /\ Backed(accruer[w].accrued, accruer[w].since, now')
    BY <1>1, <1>2, <2>1, <2>2, BackedLater
  <2> QED BY <1>4, <2>4, <2>5 DEF Charges, Busy, Backed
<1> QED BY <1>3, <1>4, OtherSteps

LEMMA ChargesAreBounded ==
  ASSUME CInv
  PROVE  NeverOvercharged
<1> SUFFICES ASSUME NEW l \in Loans
             PROVE  accrued[l] <= Daily[l] * ((now - Created) \div DayLength)
  BY DEF NeverOvercharged
<1> DEFINE m == since[l] - Created
           n == now - Created
           p == m \div DayLength
           q == n \div DayLength
<1>1. /\ accrued[l] \in Nat /\ m \in Nat /\ n \in Nat /\ m <= n
      /\ accrued[l] <= Daily[l] * p
  BY TimeType DEF CInv, AccrualTypes, Charges, Backed
<1> HIDE DEF m, n
<1>2. p \in Nat /\ q \in Nat /\ p <= q
  BY <1>1, TimeType, DivParts, DivMono
<1> HIDE DEF p, q
<1>3. Daily[l] * p <= Daily[l] * q /\ Daily[l] * p \in Nat /\ Daily[l] * q \in Nat
  BY <1>2, DailyType, MulMono
<1>4. accrued[l] <= Daily[l] * q
  BY <1>1, <1>3
<1> QED BY <1>4 DEF q, n

(* No loan is ever charged for more full days than have passed since it was*)
(* created, whatever runs overlap, fail, stop halfway or are late, and     *)
(* however stale the rows they read (process, accrueInterest).             *)
THEOREM ChargedForFullDays == Spec => []NeverOvercharged
<1>1. CInv => NeverOvercharged
  BY ChargesAreBounded
<1> QED BY CInvInit, CInvNext, <1>1, PTL DEF Spec

-----------------------------------------------------------------------------
(* Never far behind, where every run is made, in time and to its end.      *)

Undisturbed == regime \cap {"outage", "load", "credit", "crash"} = {}

HourStart == TicksPerHour * Hour
Span == DayLength + 2 * TicksPerHour

(* The days a loan has been charged for have taken less than a day and two *)
(* hours each.  Once this hour's run has had its turn the last accrual was *)
(* less than a day before the hour; until then it may be an hour earlier.  *)
Spaced(l) == Daily[l] * (since[l] - Created) <= accrued[l] * Span
Recent(l) == Daily[l] = 0 \/ since[l] + DayLength > HourStart
Older(l) == Daily[l] = 0 \/ since[l] + DayLength + TicksPerHour > HourStart
WillCharge(w, l) == Busy(w) /\ (accruer[w].pc = "load" \/ l \in accruer[w].todo)
Pending(l) == Hour \notin hours \/ \E w \in Accruers : WillCharge(w, l)

(* One run at a time, of this hour, with rows that are up to date.         *)
Alone ==
  /\ hours \subseteq 0 .. Hour
  /\ \A w \in Accruers : Busy(w) =>
       HourStart <= accruer[w].at /\ accruer[w].at <= now /\ Hour \in hours
  /\ \A v, w \in Accruers : Busy(v) /\ Busy(w) => v = w
Current ==
  \A w \in Accruers : Busy(w) /\ accruer[w].pc = "update" =>
    \A l \in accruer[w].todo :
      accruer[w].accrued[l] = accrued[l] /\ accruer[w].since[l] = since[l]
Accounted ==
  \A l \in active : Spaced(l) /\ (Recent(l) \/ (Older(l) /\ Pending(l)))

(* The first two take only that an hour's run ends within the hour.        *)
AInv == AccrualTypes /\ ("outage" \notin regime => Alone /\ Current)
DInv == AInv /\ (Undisturbed => Accounted)

LEMMA RegimeKept ==
  ASSUME [Next]_vars
  PROVE  UNCHANGED regime
BY DEF Next, vars, Tick, CompleteLoan, Accrual, ClaimHour, LoadActiveLoans, Accrue,
   AccrueFails, AccrualEnds, Distribution, ClaimDay, LoadInterest, LoadPositions, Credit,
   CreditFails, CreditsEnd, Checkpoint, CheckpointFails, DistributionEnds

LEMMA HourFacts ==
  ASSUME AccrualTypes
  PROVE  /\ now \in Nat /\ Hour \in Nat /\ HourStart \in Nat
         /\ HourStart <= now /\ now < HourStart + TicksPerHour
  BY TimeType, DivParts DEF AccrualTypes, Hour, HourStart

(* Time goes on within the hour or to the first moment of the next.        *)
LEMMA TickHour ==
  ASSUME AccrualTypes, Tick
  PROVE  /\ now' = now + 1
         /\ \/ ~EndsHour /\ Hour' = Hour /\ HourStart' = HourStart
            \/ EndsHour /\ Hour' = Hour + 1 /\ HourStart' = HourStart + TicksPerHour
<1>1. now' = now + 1 /\ now \in Nat /\ Hour \in Nat
  BY HourFacts DEF Tick
<1>2. Hour' = (now + 1) \div TicksPerHour /\ Hour = now \div TicksPerHour
  BY <1>1 DEF Hour
<1>3. Hour' = Hour \/ Hour' = Hour + 1
  BY <1>1, <1>2, TimeType, NextPeriod
<1>4. TicksPerHour * (Hour + 1) = TicksPerHour * Hour + TicksPerHour
  BY <1>1, TimeType
<1> QED BY <1>1, <1>2, <1>3, <1>4 DEF EndsHour, HourStart

(* A run has the hour to itself, whatever it loads or leaves out.          *)
AState == AccrualTypes /\ Alone /\ Current

LEMMA SameHour ==
  ASSUME UNCHANGED now
  PROVE  Hour' = Hour /\ HourStart' = HourStart
  BY DEF Hour, HourStart

LEMMA RunStaysAlone ==
  ASSUME AState, NEW w \in Accruers, Busy(w),
         accruer'[w] = NoAccrual \/ accruer'[w].at = accruer[w].at,
         UNCHANGED <<now, hours>>, \A v \in Accruers \ {w} : accruer'[v] = accruer[v]
  PROVE  Alone' /\ \A v \in Accruers \ {w} : ~Busy(v)'
<1>1. \A v \in Accruers \ {w} : ~Busy(v)'
  BY DEF AState, Alone, Busy
<1> QED BY <1>1, SameHour DEF AState, Alone, Busy

LEMMA ClaimsAlone ==
  ASSUME AState, NEW w \in Accruers, Claims(w),
         \A v \in Accruers \ {w} : accruer'[v] = accruer[v]
  PROVE  (Alone /\ Current)'
<1>1. \A v \in Accruers : ~Busy(v)
  BY DEF AState, Alone, Claims
<1>2. Busy(w)' /\ \A v \in Accruers \ {w} : ~Busy(v)'
  BY <1>1 DEF Claims, Busy, Accruals, NoAccrual
<1>3. Alone'
  <2>1. /\ Hour \in Nat /\ hours \subseteq 0 .. Hour
        /\ HourStart <= now /\ now \in Nat
    BY HourFacts DEF AState, Alone
  <2>2. /\ Hour' = Hour /\ HourStart' = HourStart /\ now' = now
        /\ hours' = hours \cup {Hour} /\ accruer'[w].at = now
    BY SameHour DEF Claims
  <2>3. hours \cup {Hour} \subseteq 0 .. Hour
    <3>1. Hour \in 0 .. Hour
      BY <2>1
    <3> QED BY <2>1, <3>1, Zenon
  <2>4. hours' \subseteq 0 .. Hour' /\ Hour' \in hours'
    BY <2>2, <2>3
  <2>5. HourStart' <= accruer'[w].at /\ accruer'[w].at <= now'
    BY <2>1, <2>2
  <2> QED BY <1>2, <2>4, <2>5 DEF Alone
<1>4. Current'
  BY <1>2 DEF Current, Claims
<1> QED BY <1>3, <1>4

LEMMA ChargesAlone ==
  ASSUME AState, NEW w \in Accruers, NEW k \in Loans, Updates(w, k) \/ Skips(w, k),
         \A v \in Accruers \ {w} : accruer'[v] = accruer[v]
  PROVE  (Alone /\ Current)'
<1>1. Alone' /\ Busy(w) /\ \A v \in Accruers \ {w} : ~Busy(v)'
  BY RunStaysAlone DEF Updates, Skips, GoesOn
<1>2. \A l \in Loans \ {k} : accrued'[l] = accrued[l] /\ since'[l] = since[l]
  BY DEF AState, AccrualTypes, Updates, Skips, Charging
<1>3. accruer[w] \in Accruals /\ accruer[w].todo \subseteq Loans
  BY <1>1 DEF AState, AccrualTypes, Accruals, Busy
<1>4. accruer'[w].pc = "update" =>
        \A l \in accruer'[w].todo :
          accruer'[w].accrued[l] = accrued'[l] /\ accruer'[w].since[l] = since'[l]
  BY <1>1, <1>2, <1>3 DEF AState, Current, Updates, Skips, GoesOn
<1> QED BY <1>1, <1>4 DEF Current

LEMMA AInvInit == Init => AInv
<1> SUFFICES ASSUME Init PROVE Alone /\ Current
  BY AccrualTypesInit DEF AInv
<1> QED BY DEF Init, Alone, Current, Busy

LEMMA AInvNext == AInv /\ [Next]_vars => AInv'
<1> SUFFICES ASSUME AInv, [Next]_vars, "outage" \notin regime'
             PROVE  (Alone /\ Current)'
  BY AccrualTypesNext DEF AInv
<1>1. AState /\ "outage" \notin regime
  BY RegimeKept DEF AInv, AState
<1>2. ASSUME NEW w \in Accruers, Accrual(w)
      PROVE  (Alone /\ Current)'
  <2>1. /\ \A v \in Accruers \ {w} : accruer'[v] = accruer[v]
        /\ \/ Claims(w) \/ Loads(w) \/ Ends(w)
           \/ \E l \in Loans : Updates(w, l) \/ Skips(w, l)
    BY <1>1, <1>2, AccrualSteps DEF AState
  <2>2. CASE Loads(w)
    <3>1. Alone' /\ \A v \in Accruers \ {w} : ~Busy(v)'
      BY <1>1, <2>1, <2>2, RunStaysAlone DEF Loads
    <3> QED BY <2>2, <3>1 DEF Current, Loads
  <2>3. CASE Ends(w)
    <3>1. Alone' /\ \A v \in Accruers \ {w} : ~Busy(v)'
      BY <1>1, <2>1, <2>3, RunStaysAlone DEF Ends
    <3> QED BY <2>3, <3>1 DEF Current, Ends, Busy
  <2> QED BY <1>1, <2>1, <2>2, <2>3, ClaimsAlone, ChargesAlone
<1>3. CASE Tick /\ UNCHANGED <<active, accrued, since, hours, accruer>>
  <2>1. AccrualTypes /\ now \in Nat /\ Hour \in Nat /\ hours \subseteq 0 .. Hour /\ now' = now + 1
    BY <1>1, <1>3, HourFacts, TickHour DEF AState, Alone
  <2>2. CASE Hour' = Hour /\ HourStart' = HourStart
    <3>1. \A w \in Accruers : Busy(w) => accruer[w].at \in Nat
      BY <2>1, TimeType DEF AccrualTypes, Accruals, Busy
    <3>2. \A w \in Accruers : Busy(w) => accruer[w].at <= now + 1
      BY <1>1, <2>1, <3>1 DEF AState, Alone
    <3> QED BY <1>1, <1>3, <2>1, <2>2, <3>2 DEF AState, Alone, Current, Busy
  <2>3. CASE EndsHour /\ Hour' = Hour + 1
    <3>1. \A w \in Accruers : ~Busy(w)'
      BY <1>1, <1>3, <2>3 DEF Tick, Punctual, AccrualDone, Busy
    <3> QED BY <1>3, <2>1, <2>3, <3>1 DEF Alone, Current
  <2> QED BY <1>3, <2>1, <2>2, <2>3, TickHour
<1>4. CASE UNCHANGED <<now, accrued, since, hours, accruer>> /\ active' \subseteq active
  BY <1>1, <1>4, SameHour DEF AState, Alone, Current, Busy
<1> QED BY <1>2, <1>3, <1>4, OtherSteps

LEMMA DInvInit == Init => DInv
<1> SUFFICES ASSUME Init, NEW l \in Loans
             PROVE  Spaced(l) /\ Recent(l)
  BY AInvInit DEF DInv, Accounted, Init
<1>1. AccrualTypes /\ Daily[l] \in Nat /\ Span \in Nat
  BY AccrualTypesInit, DailyType, TimeType DEF Span
<1>2. since[l] = now /\ since[l] - Created = 0 /\ accrued[l] = 0
  BY TimeType DEF Init
<1>3. Daily[l] * 0 = 0 /\ 0 * Span = 0
  BY <1>1
<1>4. HourStart \in Nat /\ HourStart <= now /\ now \in Nat
  BY <1>1, HourFacts
<1> QED BY <1>2, <1>3, <1>4, TimeType DEF Spaced, Recent

(* What holds where nothing goes wrong, and its steps one by one.          *)
DState == AccrualTypes /\ Undisturbed /\ Alone /\ Current /\ Accounted

(* While one run is busy, the others are not.                              *)
LEMMA OnlyRun ==
  ASSUME Alone, NEW w \in Accruers, Busy(w)
  PROVE  /\ Hour \in hours /\ HourStart <= accruer[w].at /\ accruer[w].at <= now
         /\ \A v \in Accruers \ {w} : ~Busy(v)
         /\ \A l \in Loans : Pending(l) => WillCharge(w, l)
  BY DEF Alone, Pending, WillCharge

LEMMA AccountedKept ==
  ASSUME UNCHANGED <<now, accrued, since>>, NEW l
  PROVE  /\ Spaced(l)' = Spaced(l)
         /\ Recent(l)' = Recent(l)
         /\ Older(l)' = Older(l)
  BY SameHour DEF Spaced, Recent, Older

(* A loan that is not charged keeps its account while a run has it to do.  *)
LEMMA AccountStays ==
  ASSUME NEW l, Spaced(l), Recent(l) \/ Older(l), UNCHANGED <<now, accrued, since>>,
         Pending(l)'
  PROVE  Spaced(l)' /\ (Recent(l)' \/ (Older(l)' /\ Pending(l)'))
  BY AccountedKept

LEMMA ClaimsAccounted ==
  ASSUME DState, NEW w \in Accruers, Claims(w),
         \A v \in Accruers \ {w} : accruer'[v] = accruer[v]
  PROVE  Accounted'
<1>1. Busy(w)'
  BY DEF Claims, Busy, Accruals, NoAccrual
<1>2. ASSUME NEW l \in active'
      PROVE  (Spaced(l) /\ (Recent(l) \/ (Older(l) /\ Pending(l))))'
  <2>1. Pending(l)'
    BY <1>1 DEF Pending, WillCharge, Claims
  <2> QED BY <1>2, <2>1, AccountStays DEF Claims, DState, Accounted
<1> QED BY <1>2 DEF Accounted

LEMMA LoadsAccounted ==
  ASSUME DState, NEW w \in Accruers, Loads(w),
         \A v \in Accruers \ {w} : accruer'[v] = accruer[v]
  PROVE  Accounted'
<1>1. Busy(w)'
  BY DEF Loads, Busy, Accruals, NoAccrual
<1>2. ASSUME NEW l \in active'
      PROVE  (Spaced(l) /\ (Recent(l) \/ (Older(l) /\ Pending(l))))'
  <2>1. Pending(l)'
    BY <1>1, <1>2 DEF Pending, WillCharge, Loads
  <2> QED BY <1>2, <2>1, AccountStays DEF Loads, DState, Accounted
<1> QED BY <1>2 DEF Accounted

LEMMA EndsAccounted ==
  ASSUME DState, NEW w \in Accruers, Ends(w),
         \A v \in Accruers \ {w} : accruer'[v] = accruer[v]
  PROVE  Accounted'
<1>1. Busy(w) /\ accruer[w].pc = "update" /\ accruer[w].todo = {}
  BY DEF Ends, DState, Undisturbed
<1>2. ASSUME NEW l \in active'
      PROVE  (Spaced(l) /\ Recent(l))'
  <2>1. l \in Loans /\ l \in active
    BY <1>2 DEF Ends, DState, AccrualTypes
  <2>2. ~Pending(l)
    BY <1>1, <2>1, OnlyRun DEF DState, WillCharge
  <2>3. Spaced(l) /\ Recent(l)
    BY <2>1, <2>2 DEF DState, Accounted
  <2> QED BY <2>3, AccountedKept DEF Ends
<1> QED BY <1>2 DEF Accounted

(* One more day, or several, over a time of less than a day and two hours. *)
LEMMA SpacedStep ==
  ASSUME NEW d \in Nat, NEW s \in Int, NEW t \in Int, NEW c \in Int, NEW a \in Nat,
         NEW u \in Nat, NEW q \in Nat \ {0}, t - s <= u, d * (s - c) <= a * u
  PROVE  d * (t - c) <= (a + d * q) * u
<1>1. d * (t - c) = d * (s - c) + d * (t - s)
  OBVIOUS
<1>2. d * (t - s) <= d * u
  <2>1. \A x, y \in Int : x <= y => d * x <= d * y
    OBVIOUS
  <2> QED BY <2>1
<1>3. d * u <= (d * u) * q
  <2>1. d * u \in Nat
    OBVIOUS
  <2>2. \A x \in Nat : x <= x * q
    OBVIOUS
  <2> QED BY <2>1, <2>2
<1>4. (a + d * q) * u = a * u + (d * u) * q
  OBVIOUS
<1>5. /\ d * (t - c) \in Int /\ d * (s - c) \in Int /\ d * (t - s) \in Int
      /\ d * u \in Int /\ a * u \in Int /\ (d * u) * q \in Int
  OBVIOUS
<1> QED BY <1>1, <1>2, <1>3, <1>4, <1>5

(* This hour's run charges a loan that was last charged a day before it,   *)
(* and has no reason to touch one that was charged later.                  *)
LEMMA ChargedInTime ==
  ASSUME DState, NEW w \in Accruers, NEW k \in active, Updates(w, k)
  PROVE  Spaced(k)' /\ Recent(k)'
<1> DEFINE s == since[k]
           at == accruer[w].at
           d == Daily[k]
           q == DaysBetween(s, at)
<1>1. /\ Busy(w) /\ HourStart <= at /\ at <= now /\ k \in Loans
      /\ accruer[w].accrued[k] = accrued[k] /\ accruer[w].since[k] = s
  BY OnlyRun DEF DState, Current, Updates, GoesOn, AccrualTypes
<1>2. /\ s \in Nat /\ at \in Nat /\ d \in Nat /\ accrued[k] \in Nat /\ now \in Nat
      /\ HourStart \in Nat /\ now < HourStart + TicksPerHour /\ Span \in Nat
      /\ Created \in Nat /\ TicksPerHour \in Nat \ {0} /\ DayLength \in Nat \ {0}
  BY <1>1, EarnedType, HourFacts, TimeType, DailyType DEF DState, AccrualTypes, Span
<1>3. Earned(w, k) = d * q /\ q \in Nat
  BY <1>1, <1>2, DivParts DEF Earned, DaysBetween
<1>4. Spaced(k) /\ (Recent(k) \/ Older(k)) /\ Hour' = Hour /\ HourStart' = HourStart
  BY SameHour DEF DState, Accounted, Updates, GoesOn
<1>5. CASE Earned(w, k) > 0
  <2>1. accrued'[k] = accrued[k] + d * q /\ since'[k] = at
    BY <1>1, <1>3, <1>5 DEF Updates, Charging, DState, AccrualTypes
  <2>2. d # 0 /\ q \in Nat \ {0}
    BY <1>2, <1>3, <1>5
  <2>3. at - s <= Span
    BY <1>1, <1>2, <1>4, <2>2 DEF Recent, Older, Span
  <2>4. d * (s - Created) <= accrued[k] * Span
    BY <1>4 DEF Spaced
  <2>5. d * (at - Created) <= (accrued[k] + d * q) * Span
    <3> HIDE DEF s, at, d, q
    <3> QED BY <1>2, <2>2, <2>3, <2>4, SpacedStep DEF s
  <2>6. Spaced(k)'
    BY <2>1, <2>5 DEF Spaced, Span
  <2>7. Recent(k)'
    BY <1>1, <1>2, <1>4, <2>1 DEF Recent
  <2> QED BY <2>6, <2>7
<1>6. CASE ~(Earned(w, k) > 0)
  <2>1. UNCHANGED <<now, accrued, since>>
    BY <1>6 DEF Updates, Charging, GoesOn
  <2>2. d = 0 \/ q = 0
    <3> HIDE DEF d, q
    <3>1. d = 0 \/ q = 0 \/ d * q > 0
      BY <1>2, <1>3
    <3> QED BY <1>3, <1>6, <3>1
  <2>3. ASSUME q = 0 PROVE s + DayLength > HourStart
    <3>1. CASE at > s
      <4>1. (at - s) \div DayLength = 0 /\ at - s \in Nat
        BY <1>2, <2>3, <3>1 DEF DaysBetween
      <4>2. at - s < DayLength * 0 + DayLength
        <5>1. PICK n \in Nat : n = at - s
          BY <4>1
        <5>2. n < DayLength * (n \div DayLength) + DayLength
          BY <1>2, <5>1, DivParts
        <5> QED BY <4>1, <5>1, <5>2
      <4> QED BY <1>1, <1>2, <4>2
    <3>2. CASE ~(at > s)
      BY <1>1, <1>2, <3>2
    <3> QED BY <3>1, <3>2
  <2>4. Recent(k)
    BY <2>2, <2>3 DEF Recent
  <2> QED BY <1>4, <2>1, <2>4, AccountedKept
<1> QED BY <1>5, <1>6

LEMMA UpdatesAccounted ==
  ASSUME DState, NEW w \in Accruers, NEW k \in Loans, Updates(w, k),
         \A v \in Accruers \ {w} : accruer'[v] = accruer[v]
  PROVE  Accounted'
<1>1. /\ Busy(w) /\ Hour \in hours
      /\ \A l \in Loans : Pending(l) => WillCharge(w, l)
  BY OnlyRun DEF DState, Updates, GoesOn
<1>2. Busy(w)'
  BY DEF Updates, GoesOn, Busy, Accruals, NoAccrual
<1>3. /\ accrued \in [Loans -> Nat] /\ since \in [Loans -> 0 .. MaxTicks]
      /\ active \subseteq Loans /\ UNCHANGED <<now, active>>
  BY DEF DState, AccrualTypes, Updates, GoesOn
<1>4. \A l \in Loans \ {k} : accrued'[l] = accrued[l] /\ since'[l] = since[l]
  BY <1>3 DEF Updates, Charging
<1>5. ASSUME NEW l \in active', l # k
      PROVE  (Spaced(l) /\ (Recent(l) \/ (Older(l) /\ Pending(l))))'
  <2>1. l \in active /\ l \in Loans
    BY <1>3, <1>5
  <2>2. Spaced(l) /\ (Recent(l) \/ (Older(l) /\ Pending(l)))
    BY <2>1 DEF DState, Accounted
  <2>3. /\ Spaced(l)' = Spaced(l)
        /\ Recent(l)' = Recent(l)
        /\ Older(l)' = Older(l)
    BY <1>3, <1>4, <1>5, <2>1, SameHour DEF Spaced, Recent, Older
  <2>4. Pending(l) => Pending(l)'
    BY <1>1, <1>2, <1>5, <2>1 DEF Pending, WillCharge, Updates, GoesOn
  <2> QED BY <2>2, <2>3, <2>4
<1>6. ASSUME k \in active'
      PROVE  (Spaced(k) /\ Recent(k))'
  BY <1>3, <1>6, ChargedInTime
<1> QED BY <1>5, <1>6 DEF Accounted

(* An hour begins, and its run is still to come.                           *)
LEMMA TickAccounted ==
  ASSUME DState, Tick, UNCHANGED <<active, accrued, since, hours, accruer>>
  PROVE  Accounted'
<1>1. AccrualTypes /\ Hour \in Nat /\ HourStart \in Nat /\ hours \subseteq 0 .. Hour
  BY HourFacts DEF DState, Alone
<1>2. ASSUME NEW l \in active'
      PROVE  (Spaced(l) /\ (Recent(l) \/ (Older(l) /\ Pending(l))))'
  <2>1. /\ Spaced(l) /\ (Recent(l) \/ (Older(l) /\ Pending(l)))
        /\ l \in Loans /\ since[l] \in Nat
    BY <1>2, TimeType DEF DState, Accounted, AccrualTypes
  <2>2. Spaced(l)'
    BY <2>1 DEF Spaced
  <2>3. CASE Hour' = Hour /\ HourStart' = HourStart
    <3>1. Pending(l)' = Pending(l)
      BY <2>3 DEF Pending, WillCharge, Busy
    <3>2. Recent(l)' = Recent(l) /\ Older(l)' = Older(l)
      BY <2>3 DEF Recent, Older
    <3> QED BY <2>1, <2>2, <3>1, <3>2
  <2>4. CASE EndsHour /\ Hour' = Hour + 1 /\ HourStart' = HourStart + TicksPerHour
    <3>1. AccrualDone
      BY <2>4 DEF Tick, Punctual, DState, Undisturbed
    <3>2. Recent(l)
      BY <2>1, <3>1 DEF Pending, WillCharge, AccrualDone, Busy
    <3>3. Older(l)'
      <4>1. Daily[l] = 0 \/ since[l] + DayLength > HourStart
        BY <3>2 DEF Recent
      <4>2. since[l] + DayLength > HourStart =>
              since[l] + DayLength + TicksPerHour > HourStart + TicksPerHour
        BY <1>1, <2>1, TimeType
      <4> QED BY <2>4, <4>1, <4>2 DEF Older
    <3>4. Hour' \notin hours'
      BY <1>1, <2>4
    <3> QED BY <2>2, <3>3, <3>4 DEF Pending
  <2> QED BY <1>1, <2>3, <2>4, TickHour
<1> QED BY <1>2 DEF Accounted

LEMMA DInvNext == DInv /\ [Next]_vars => DInv'
<1> SUFFICES ASSUME DInv, [Next]_vars, Undisturbed'
             PROVE  Accounted'
  BY AInvNext DEF DInv
<1>1. DState
  BY RegimeKept DEF DInv, AInv, DState, Undisturbed
<1>2. ASSUME NEW w \in Accruers, Accrual(w)
      PROVE  Accounted'
  <2>1. /\ \A v \in Accruers \ {w} : accruer'[v] = accruer[v]
        /\ \/ Claims(w) \/ Loads(w) \/ Ends(w)
           \/ \E l \in Loans : Updates(w, l) \/ Skips(w, l)
    BY <1>1, <1>2, AccrualSteps DEF DState
  <2>2. \A l \in Loans : ~Skips(w, l)
    BY <1>1 DEF DState, Undisturbed, Skips
  <2> QED BY <1>1, <2>1, <2>2, ClaimsAccounted, LoadsAccounted, EndsAccounted,
             UpdatesAccounted
<1>3. CASE Tick /\ UNCHANGED <<active, accrued, since, hours, accruer>>
  BY <1>1, <1>3, TickAccounted
<1>4. CASE UNCHANGED <<now, accrued, since, hours, accruer>> /\ active' \subseteq active
  <2>1. \A l : Pending(l) => Pending(l)'
    BY <1>4, SameHour DEF Pending, WillCharge, Busy
  <2>2. \A l : Spaced(l)' = Spaced(l) /\ Recent(l)' = Recent(l) /\ Older(l)' = Older(l)
    BY <1>4, AccountedKept
  <2> QED BY <1>1, <1>4, <2>1, <2>2 DEF DState, Accounted
<1> QED BY <1>2, <1>3, <1>4, OtherSteps

(* Where every run is made, in time and to its end, an active loan falls   *)
(* behind by less than two hours for each day it is charged, at whatever   *)
(* moment of its hour each run starts (process, daysBetweenUtc).           *)
THEOREM ChargedForNearlyEveryDay == Spec => []DaysSlipByHours
<1>1. DInv => DaysSlipByHours
  <2> SUFFICES ASSUME DInv, Undisturbed, NEW l \in active
               PROVE  Daily[l] * (now - Created)
                        <= (accrued[l] + Daily[l]) * (DayLength + 2 * TicksPerHour)
    BY DEF DaysSlipByHours, Undisturbed
  <2>1. /\ l \in Loans /\ Daily[l] \in Nat /\ accrued[l] \in Nat /\ since[l] \in Nat
        /\ now \in Nat /\ HourStart \in Nat /\ now < HourStart + TicksPerHour
        /\ Created \in Nat /\ Span \in Nat
    BY HourFacts, DailyType, TimeType DEF DInv, AInv, AccrualTypes, Span
  <2>2. Spaced(l) /\ (Recent(l) \/ Older(l))
    BY DEF DInv, Accounted
  <2>3. CASE Daily[l] = 0
    <3>1. 0 * (now - Created) = 0 /\ (accrued[l] + 0) * Span \in Nat
      BY <2>1
    <3> QED BY <2>3, <3>1 DEF Span
  <2>4. CASE Daily[l] # 0
    <3>1. now - since[l] <= Span
      BY <2>1, <2>2, <2>4, TimeType DEF Recent, Older, Span
    <3>2. Daily[l] * (now - Created) <= (accrued[l] + Daily[l] * 1) * Span
      <4>1. PICK d \in Nat, a \in Nat, s \in Int, t \in Int, c \in Int, u \in Nat :
              /\ d = Daily[l] /\ a = accrued[l] /\ s = since[l] /\ t = now
              /\ c = Created /\ u = Span
        BY <2>1
      <4>2. t - s <= u /\ d * (s - c) <= a * u
        BY <2>2, <3>1, <4>1 DEF Spaced
      <4>3. d * (t - c) <= (a + d * 1) * u
        <5>1. 1 \in Nat \ {0}
          OBVIOUS
        <5> QED BY <4>1, <4>2, <5>1, SpacedStep
      <4> QED BY <4>1, <4>3
    <3>3. Daily[l] * 1 = Daily[l]
      BY <2>1
    <3> QED BY <3>2, <3>3 DEF Span
  <2> QED BY <2>3, <2>4
<1> QED BY DInvInit, DInvNext, <1>1, PTL DEF Spec

-----------------------------------------------------------------------------
(* The other half of the types, of yield-distribution.                     *)
DistributionTypes ==
  /\ regime \in Regimes
  /\ distributed \in [Loans -> Nat]
  /\ yield \in [Providers -> Nat]
  /\ days \subseteq 0 .. MaxTicks
  /\ distributor \in [Distributors -> Distributions \cup {NoDistribution}]

Distributing(w) == distributor[w] # NoDistribution
Kept(w, fields) == \A f \in fields : distributor'[w][f] = distributor[w][f]

(* A distributor's steps, by what they do to its run.                      *)
ClaimsDay(w) ==
  /\ ~Distributing(w) /\ Today \notin days /\ days' = days \cup {Today}
  /\ distributor'[w] \in Distributions /\ distributor'[w].pc = "loans"
  /\ distributor'[w].unpaid = {} /\ distributor'[w].todo = {}
  /\ UNCHANGED <<distributed, yield>>
LoadsInterest(w) ==
  /\ Distributing(w) /\ distributor[w].pc = "loans"
  /\ distributor'[w] \in Distributions /\ distributor'[w].pc = "positions"
  /\ distributor'[w].delta = [l \in Loans |-> Undistributed(l)]
  /\ distributor'[w].distributed = distributed
  /\ Kept(w, {"unpaid", "todo"})
  /\ UNCHANGED <<distributed, yield, days>>
LoadsPositions(w) ==
  /\ Distributing(w) /\ distributor[w].pc = "positions"
  /\ distributor'[w] \in Distributions /\ distributor'[w].pc = "credit"
  /\ distributor'[w].yield = yield /\ distributor'[w].unpaid = Providers
  /\ Kept(w, {"delta", "distributed", "todo"})
  /\ UNCHANGED <<distributed, yield, days>>
Part(w, p) == ShareOfPool(p, Distributable(w))
Credits(w, p) ==
  /\ Distributing(w) /\ p \in distributor[w].unpaid
  /\ distributor'[w] \in Distributions
  /\ distributor'[w].unpaid = distributor[w].unpaid \ {p}
  /\ Kept(w, {"pc", "delta", "distributed", "yield", "todo"})
  /\ \/ /\ distributor[w].pc = "credit"
        /\ distributor'[w].paid = (distributor[w].paid \/ Part(w, p) > 0)
        /\ yield' = IF Part(w, p) = 0 THEN yield
                    ELSE [yield EXCEPT ![p] = distributor[w].yield[p] + Part(w, p)]
     \/ Kept(w, {"paid"}) /\ UNCHANGED yield
  /\ UNCHANGED <<distributed, days>>
GoesToCheckpoints(w) ==
  /\ Distributing(w) /\ distributor[w].pc = "credit" /\ distributor[w].unpaid = {}
  /\ distributor'[w] \in Distributions /\ distributor'[w].pc = "checkpoint"
  /\ distributor'[w].todo = {l \in Loans : distributor[w].delta[l] > 0}
  /\ Kept(w, {"delta", "distributed", "unpaid"})
  /\ UNCHANGED <<distributed, yield, days>>
Checkpoints(w, l) ==
  /\ Distributing(w) /\ l \in distributor[w].todo
  /\ distributor'[w] \in Distributions
  /\ distributor'[w].todo = distributor[w].todo \ {l}
  /\ Kept(w, {"pc", "delta", "distributed", "unpaid"})
  /\ \/ distributed' = [distributed EXCEPT
          ![l] = distributor[w].distributed[l] + distributor[w].delta[l]]
     \/ "checkpoint" \in regime /\ UNCHANGED distributed
  /\ UNCHANGED <<yield, days>>
EndsDistribution(w) ==
  /\ Distributing(w) /\ distributor'[w] = NoDistribution
  /\ \/ distributor[w].pc \in {"loans", "positions"}
     \/ /\ distributor[w].pc = "credit"
        /\ distributor[w].unpaid = {} /\ ~distributor[w].paid
     \/ distributor[w].pc = "checkpoint" /\ distributor[w].todo = {}
     \/ "crash" \in regime
  /\ UNCHANGED <<distributed, yield, days>>

LEMMA SharesType == Shares \in [Providers -> Nat] /\ IsFiniteSet(Providers) /\ IsFiniteSet(Loans)
  BY ConstantsAssumption

LEMMA TotalIsSum ==
  ASSUME NEW f, NEW S
  PROVE  Total(f, S) = SumOver(f, S)
  BY DEF Total, MapThenSumSet, MapThenFoldSet, SumOver

LEMMA RoundedType ==
  ASSUME NEW n \in Nat, NEW d \in Nat \ {0}
  PROVE  /\ Rounded(n, d) \in Nat
         /\ 2 * d * Rounded(n, d) <= 2 * n + d
<1> DEFINE x == 2 * n + d
           y == 2 * d
<1>1. x \in Nat /\ y \in Nat \ {0}
  OBVIOUS
<1>2. Rounded(n, d) = x \div y
  BY DEF Rounded
<1> HIDE DEF x, y
<1>3. x \div y \in Nat /\ y * (x \div y) <= x
  BY <1>1, DivParts
<1> QED BY <1>2, <1>3 DEF x, y

LEMMA PartType ==
  ASSUME NEW w, distributor[w] \in Distributions
  PROVE  /\ Distributable(w) \in Nat
         /\ \A p \in Providers : Part(w, p) \in Nat
<1>1. Total(distributor[w].delta, Loans) \in Nat /\ TotalShares \in Nat
  BY SharesType, TotalIsSum, SumOverType DEF Distributions, TotalShares
<1>2. YieldParts \in Nat
  BY ConstantsAssumption
<1>3. YieldParts * Total(distributor[w].delta, Loans) \in Nat
  BY <1>1, <1>2
<1>4. Distributable(w) \in Nat
  BY <1>3, RoundedType DEF Distributable
<1>5. ASSUME NEW p \in Providers
      PROVE  Part(w, p) \in Nat
  <2>1. Shares[p] * Distributable(w) \in Nat
    BY <1>4, SharesType
  <2> QED BY <1>1, <2>1, RoundedType DEF Part, ShareOfPool
<1> QED BY <1>4, <1>5

LEMMA DistributionSteps ==
  ASSUME DistributionTypes, AccrualTypes, NEW w \in Distributors, Distribution(w)
  PROVE  /\ \A v \in Distributors \ {w} : distributor'[v] = distributor[v]
         /\ distributor' \in [Distributors -> Distributions \cup {NoDistribution}]
         /\ UNCHANGED <<regime, now, active, accrued, since, hours, accruer>>
         /\ \/ ClaimsDay(w) \/ LoadsInterest(w) \/ LoadsPositions(w)
            \/ \E p \in Providers : Credits(w, p)
            \/ GoesToCheckpoints(w) \/ EndsDistribution(w)
            \/ \E l \in Loans : Checkpoints(w, l)
<1> USE DEF loanRows, claims
<1>1. distributor \in [Distributors -> Distributions \cup {NoDistribution}]
  BY DEF DistributionTypes
<1>2. /\ \A v \in Distributors \ {w} : distributor'[v] = distributor[v]
      /\ UNCHANGED <<regime, now, active, accrued, since, hours, accruer>>
  BY <1>1 DEF Distribution, ClaimDay, LoadInterest, LoadPositions, Credit, CreditFails,
     CreditsEnd, Checkpoint, CheckpointFails, DistributionEnds
<1>3. Distributing(w) => distributor[w] \in Distributions
  BY <1>1 DEF Distributing
<1>4. ASSUME NEW r \in Distributions \cup {NoDistribution},
             distributor' = [distributor EXCEPT ![w] = r]
      PROVE  /\ distributor'[w] = r
             /\ distributor' \in [Distributors -> Distributions \cup {NoDistribution}]
  BY <1>1, <1>4
<1>5. CASE ClaimDay(w)
  <2> DEFINE r == [pc |-> "loans", delta |-> [l \in Loans |-> 0],
                   distributed |-> distributed, yield |-> yield, unpaid |-> {},
                   todo |-> {}, paid |-> FALSE]
  <2>1. r \in Distributions
    BY DEF Distributions, DistributionTypes
  <2>2. distributor' = [distributor EXCEPT ![w] = r]
    BY <1>5 DEF ClaimDay
  <2>3. distributor'[w] = r /\ distributor' \in [Distributors -> Distributions \cup {NoDistribution}]
    BY <1>4, <2>1, <2>2
  <2>4. ClaimsDay(w)
    BY <1>5, <2>1, <2>3 DEF ClaimDay, ClaimsDay, Distributing
  <2> QED BY <1>2, <2>3, <2>4
<1>6. CASE LoadInterest(w)
  <2> DEFINE o == distributor[w]
             r1 == [o EXCEPT !.pc = "positions"]
             r2 == [r1 EXCEPT !.delta = [l \in Loans |-> Undistributed(l)]]
             r3 == [r2 EXCEPT !.distributed = distributed]
  <2>1. o \in Distributions /\ Distributing(w) /\ o.pc = "loans"
    BY <1>3, <1>6 DEF LoadInterest, Distributing
  <2>2. [l \in Loans |-> Undistributed(l)] \in [Loans -> Nat]
    BY DEF Undistributed, AccrualTypes, DistributionTypes
  <2>3. r1 \in Distributions /\ r1.pc = "positions" /\ r1.unpaid = o.unpaid /\ r1.todo = o.todo
    BY <2>1 DEF Distributions
  <2>4. /\ r2 \in Distributions /\ r2.pc = "positions"
        /\ r2.unpaid = o.unpaid /\ r2.todo = o.todo
        /\ r2.delta = [l \in Loans |-> Undistributed(l)]
    BY <2>2, <2>3 DEF Distributions
  <2>5. /\ r3 \in Distributions /\ r3.pc = "positions"
        /\ r3.unpaid = o.unpaid /\ r3.todo = o.todo
        /\ r3.delta = [l \in Loans |-> Undistributed(l)] /\ r3.distributed = distributed
    BY <2>4 DEF Distributions, DistributionTypes
  <2>6. distributor' = [distributor EXCEPT ![w] = r3]
    BY <1>1, <1>6 DEF LoadInterest
  <2>7. distributor'[w] = r3 /\ distributor' \in [Distributors -> Distributions \cup {NoDistribution}]
    BY <1>4, <2>5, <2>6
  <2> HIDE DEF r3
  <2>8. LoadsInterest(w)
    BY <1>6, <2>1, <2>5, <2>7 DEF LoadInterest, LoadsInterest, Kept
  <2> QED BY <1>2, <2>7, <2>8
<1>7. CASE LoadPositions(w)
  <2> DEFINE o == distributor[w]
             r1 == [o EXCEPT !.pc = "credit"]
             r2 == [r1 EXCEPT !.yield = yield]
             r3 == [r2 EXCEPT !.unpaid = Providers]
             Same(r) == /\ r.delta = o.delta /\ r.distributed = o.distributed
                        /\ r.todo = o.todo
  <2>1. o \in Distributions /\ Distributing(w) /\ o.pc = "positions"
    BY <1>3, <1>7 DEF LoadPositions, Distributing
  <2>2. r1 \in Distributions /\ r1.pc = "credit" /\ Same(r1)
    BY <2>1 DEF Distributions
  <2>3. r2 \in Distributions /\ r2.pc = "credit" /\ Same(r2) /\ r2.yield = yield
    BY <2>2 DEF Distributions, DistributionTypes
  <2>4. /\ r3 \in Distributions /\ r3.pc = "credit" /\ Same(r3) /\ r3.yield = yield
        /\ r3.unpaid = Providers
    BY <2>3 DEF Distributions
  <2>5. distributor' = [distributor EXCEPT ![w] = r3]
    BY <1>1, <1>7 DEF LoadPositions
  <2>6. distributor'[w] = r3 /\ distributor' \in [Distributors -> Distributions \cup {NoDistribution}]
    BY <1>4, <2>4, <2>5
  <2> HIDE DEF r3
  <2>7. LoadsPositions(w)
    BY <1>7, <2>1, <2>4, <2>6 DEF LoadPositions, LoadsPositions, Kept
  <2> QED BY <1>2, <2>6, <2>7
<1>8. ASSUME NEW p \in Providers, Credit(w, p) \/ CreditFails(w, p)
      PROVE  /\ distributor' \in [Distributors -> Distributions \cup {NoDistribution}]
             /\ Credits(w, p)
  <2> DEFINE o == distributor[w]
             Same(r) == /\ r.pc = o.pc /\ r.delta = o.delta /\ r.yield = o.yield
                        /\ r.distributed = o.distributed /\ r.todo = o.todo
             r1 == [o EXCEPT !.unpaid = o.unpaid \ {p}]
  <2>1. o \in Distributions /\ Distributing(w) /\ p \in o.unpaid
    BY <1>3, <1>8 DEF Credit, CreditFails, Distributing
  <2>2. r1 \in Distributions /\ r1.unpaid = o.unpaid \ {p} /\ Same(r1) /\ r1.paid = o.paid
    BY <2>1 DEF Distributions
  <2>3. CASE Credit(w, p)
    <3> DEFINE r2 == [r1 EXCEPT !.paid = (o.paid \/ Part(w, p) > 0)]
    <3>0. (o.paid \/ Part(w, p) > 0) \in BOOLEAN
      OBVIOUS
    <3>1. /\ r2 \in Distributions /\ r2.unpaid = o.unpaid \ {p} /\ Same(r2)
          /\ r2.paid = (o.paid \/ Part(w, p) > 0)
      <4> DEFINE b == (o.paid \/ Part(w, p) > 0)
      <4> HIDE DEF b
      <4>1. b \in BOOLEAN
        BY <3>0 DEF b
      <4>2. LET r == [r1 EXCEPT !.paid = b]
            IN  r \in Distributions /\ r.unpaid = o.unpaid \ {p} /\ Same(r) /\ r.paid = b
        BY <2>2, <4>1 DEF Distributions
      <4> QED BY <4>2 DEF b
    <3>2. distributor' = [distributor EXCEPT ![w] = r2]
      BY <1>1, <2>3 DEF Credit, Part
    <3>3. distributor'[w] = r2 /\ distributor' \in [Distributors -> Distributions \cup {NoDistribution}]
      BY <1>4, <3>1, <3>2
    <3>4. /\ o.pc = "credit" /\ UNCHANGED <<distributed, days>>
          /\ yield' = IF Part(w, p) = 0 THEN yield
                      ELSE [yield EXCEPT ![p] = o.yield[p] + Part(w, p)]
      BY <2>3 DEF Credit, Part
    <3> HIDE DEF r2
    <3>5. Credits(w, p)
      BY <2>1, <3>1, <3>3, <3>4 DEF Credits, Kept
    <3> QED BY <3>3, <3>5
  <2>4. CASE CreditFails(w, p)
    <3>1. distributor' = [distributor EXCEPT ![w] = r1]
      BY <1>1, <2>4 DEF CreditFails
    <3>2. distributor'[w] = r1 /\ distributor' \in [Distributors -> Distributions \cup {NoDistribution}]
      BY <1>4, <2>2, <3>1
    <3>3. UNCHANGED <<distributed, days, yield>>
      BY <2>4 DEF CreditFails
    <3> HIDE DEF r1
    <3>4. Credits(w, p)
      BY <2>1, <2>2, <3>2, <3>3 DEF Credits, Kept
    <3> QED BY <3>2, <3>4
  <2> QED BY <1>8, <2>3, <2>4
<1>9. CASE CreditsEnd(w)
  <2> DEFINE o == distributor[w]
             due == {l \in Loans : o.delta[l] > 0}
             r1 == [o EXCEPT !.pc = "checkpoint"]
             r2 == [r1 EXCEPT !.todo = due]
             Same(r) == /\ r.delta = o.delta /\ r.distributed = o.distributed
                        /\ r.unpaid = o.unpaid
  <2>1. o \in Distributions /\ Distributing(w) /\ o.pc = "credit" /\ o.unpaid = {}
    BY <1>3, <1>9 DEF CreditsEnd, Distributing
  <2>2. CASE o.paid
    <3>1. r1 \in Distributions /\ r1.pc = "checkpoint" /\ Same(r1)
      BY <2>1 DEF Distributions
    <3>2. r2 \in Distributions /\ r2.pc = "checkpoint" /\ Same(r2) /\ r2.todo = due
      BY <3>1 DEF Distributions
    <3>3. distributor' = [distributor EXCEPT ![w] = r2]
      BY <1>1, <1>9, <2>2 DEF CreditsEnd
    <3>4. distributor'[w] = r2 /\ distributor' \in [Distributors -> Distributions \cup {NoDistribution}]
      BY <1>4, <3>2, <3>3
    <3> HIDE DEF r2
    <3>5. GoesToCheckpoints(w)
      BY <1>9, <2>1, <3>2, <3>4 DEF CreditsEnd, GoesToCheckpoints, Kept
    <3> QED BY <1>2, <3>4, <3>5
  <2>3. CASE ~o.paid
    <3>1. distributor' = [distributor EXCEPT ![w] = NoDistribution]
      BY <1>1, <1>9, <2>3 DEF CreditsEnd
    <3>2. distributor'[w] = NoDistribution
          /\ distributor' \in [Distributors -> Distributions \cup {NoDistribution}]
      BY <1>4, <3>1
    <3>3. EndsDistribution(w)
      BY <1>9, <2>1, <2>3, <3>2 DEF CreditsEnd, EndsDistribution
    <3> QED BY <1>2, <3>2, <3>3
  <2> QED BY <2>2, <2>3
<1>10. ASSUME NEW l \in Loans, Checkpoint(w, l) \/ CheckpointFails(w, l)
       PROVE  /\ distributor' \in [Distributors -> Distributions \cup {NoDistribution}]
              /\ Checkpoints(w, l)
  <2> DEFINE o == distributor[w]
             r1 == [o EXCEPT !.todo = o.todo \ {l}]
  <2>1. o \in Distributions /\ Distributing(w) /\ l \in o.todo
    BY <1>3, <1>10 DEF Checkpoint, CheckpointFails, Distributing
  <2>2. /\ r1 \in Distributions /\ r1.todo = o.todo \ {l} /\ r1.pc = o.pc
        /\ r1.delta = o.delta /\ r1.distributed = o.distributed /\ r1.unpaid = o.unpaid
    BY <2>1 DEF Distributions
  <2>3. distributor' = [distributor EXCEPT ![w] = r1]
    BY <1>1, <1>10 DEF Checkpoint, CheckpointFails
  <2>4. distributor'[w] = r1 /\ distributor' \in [Distributors -> Distributions \cup {NoDistribution}]
    BY <1>4, <2>2, <2>3
  <2> HIDE DEF r1
  <2>5. Checkpoints(w, l)
    BY <1>10, <2>1, <2>2, <2>4 DEF Checkpoint, CheckpointFails, Checkpoints, Kept
  <2> QED BY <2>4, <2>5
<1>11. CASE DistributionEnds(w)
  <2>1. distributor' = [distributor EXCEPT ![w] = NoDistribution]
    BY <1>11 DEF DistributionEnds
  <2>2. distributor'[w] = NoDistribution
        /\ distributor' \in [Distributors -> Distributions \cup {NoDistribution}]
    BY <1>4, <2>1
  <2>3. EndsDistribution(w)
    BY <1>11, <2>2 DEF DistributionEnds, EndsDistribution, Distributing
  <2> QED BY <1>2, <2>2, <2>3
<1> QED BY <1>2, <1>5, <1>6, <1>7, <1>8, <1>9, <1>10, <1>11 DEF Distribution

LEMMA NotDistributing ==
  ASSUME [Next]_vars
  PROVE  \/ \E w \in Distributors : Distribution(w)
         \/ UNCHANGED <<distributed, yield, days, distributor>>
            /\ \/ Tick
               \/ UNCHANGED now /\ \E w \in Accruers : Accrual(w)
               \/ UNCHANGED <<now, accrued>>
<1> USE DEF loanRows, claims
<1>1. ASSUME NEW w \in Accruers, Accrual(w)
      PROVE  UNCHANGED <<now, distributed, yield, days, distributor>>
  BY <1>1 DEF Accrual, ClaimHour, LoadActiveLoans, Accrue, AccrueFails, AccrualEnds
<1>2. ASSUME NEW l \in Loans, CompleteLoan(l)
      PROVE  UNCHANGED <<now, accrued, distributed, yield, days, distributor>>
  BY <1>2 DEF CompleteLoan
<1>3. Tick => UNCHANGED <<distributed, yield, days, distributor>>
  BY DEF Tick
<1>4. CASE UNCHANGED vars
  BY <1>4 DEF vars
<1> QED BY <1>1, <1>2, <1>3, <1>4 DEF Next

LEMMA DistributionTypesInit == Init => DistributionTypes
  BY DEF Init, DistributionTypes

LEMMA DistributionTypesNext ==
  ASSUME AccrualTypes, DistributionTypes, [Next]_vars
  PROVE  DistributionTypes'
<1>1. CASE UNCHANGED <<distributed, yield, days, distributor>>
  BY <1>1, RegimeKept DEF DistributionTypes
<1>2. ASSUME NEW w \in Distributors, Distribution(w)
      PROVE  DistributionTypes'
  <2>1. /\ distributor' \in [Distributors -> Distributions \cup {NoDistribution}]
        /\ UNCHANGED regime
        /\ \/ ClaimsDay(w) \/ LoadsInterest(w) \/ LoadsPositions(w)
           \/ \E p \in Providers : Credits(w, p)
           \/ GoesToCheckpoints(w) \/ EndsDistribution(w)
           \/ \E l \in Loans : Checkpoints(w, l)
    BY <1>2, DistributionSteps
  <2>2. CASE ClaimsDay(w)
    BY <2>1, <2>2, HourType DEF DistributionTypes, ClaimsDay
  <2>3. CASE LoadsInterest(w) \/ LoadsPositions(w) \/ GoesToCheckpoints(w)
             \/ EndsDistribution(w)
    BY <2>1, <2>3 DEF DistributionTypes, LoadsInterest, LoadsPositions,
       GoesToCheckpoints, EndsDistribution
  <2>4. ASSUME NEW p \in Providers, Credits(w, p)
        PROVE  DistributionTypes'
    <3>1. distributor[w] \in Distributions
      BY <2>4 DEF DistributionTypes, Credits, Distributing
    <3>2. distributor[w].yield[p] + Part(w, p) \in Nat
      BY <3>1, PartType DEF Distributions
    <3>3. yield' \in [Providers -> Nat] /\ UNCHANGED <<distributed, days>>
      BY <2>4, <3>2 DEF DistributionTypes, Credits
    <3> QED BY <2>1, <3>3 DEF DistributionTypes
  <2>5. ASSUME NEW l \in Loans, Checkpoints(w, l)
        PROVE  DistributionTypes'
    <3>1. distributor[w] \in Distributions
      BY <2>5 DEF DistributionTypes, Checkpoints, Distributing
    <3>2. distributor[w].distributed[l] + distributor[w].delta[l] \in Nat
      BY <3>1 DEF Distributions
    <3>3. distributed' \in [Loans -> Nat] /\ UNCHANGED <<yield, days>>
      BY <2>5, <3>2 DEF DistributionTypes, Checkpoints
    <3> QED BY <2>1, <3>3 DEF DistributionTypes
  <2> QED BY <2>1, <2>2, <2>3, <2>4, <2>5
<1> QED BY <1>1, <1>2, NotDistributing

Types == AccrualTypes /\ DistributionTypes
LEMMA TypesInit == Init => Types
  BY AccrualTypesInit, DistributionTypesInit DEF Types
LEMMA TypesNext == Types /\ [Next]_vars => Types'
  BY AccrualTypesNext, DistributionTypesNext DEF Types

(* Rows, claims and runs keep to their types: interest and yield are never *)
(* negative, and no run is between two calls that it does not make.        *)
THEOREM TypeCorrect == Spec => []TypeOK
<1>1. Types => TypeOK
  BY DEF Types, AccrualTypes, DistributionTypes, TypeOK
<1> QED BY TypesInit, TypesNext, <1>1, PTL DEF Spec

-----------------------------------------------------------------------------
(* Providers never get more than their part.                               *)

Orderly == regime \cap {"outage", "crash", "checkpoint"} = {}

PerDay == 20 * (Cardinality(Providers) + 1)
Covers(y, d, n) ==
  40 * Total(y, Providers) <= 2 * YieldParts * Total(d, Loans) + PerDay * n

(* What the loans will have had distributed when the run is over.          *)
Settled(w) ==
  [l \in Loans |-> distributor[w].distributed[l] + distributor[w].delta[l]]

(* One run at a time, of this day.                                         *)
DayAlone ==
  /\ \A w \in Distributors : Distributing(w) => Today \in days
  /\ \A v, w \in Distributors : Distributing(v) /\ Distributing(w) => v = w

Before(w) ==
  distributor[w].pc \in {"loans", "positions"} =>
    Covers(yield, distributed, Cardinality(days) - 1)
Crediting(w) ==
  distributor[w].pc = "credit" =>
    /\ Covers(distributor[w].yield, distributed, Cardinality(days) - 1)
    /\ \A p \in Providers :
         yield[p] <= distributor[w].yield[p]
                       + (IF p \in distributor[w].unpaid THEN 0 ELSE Part(w, p))
    /\ ~distributor[w].paid => yield = distributor[w].yield
Checkpointing(w) ==
  distributor[w].pc = "checkpoint" =>
    /\ Covers(yield, Settled(w), Cardinality(days))
    /\ \A l \in Loans : distributed[l] = IF l \in distributor[w].todo
                                         THEN distributor[w].distributed[l]
                                         ELSE Settled(w)[l]
Read(w) ==
  /\ distributor[w].pc # "loans" => \A l \in Loans : Settled(w)[l] <= accrued[l]
  /\ distributor[w].pc \in {"positions", "credit"} =>
       distributor[w].distributed = distributed
  /\ distributor[w].pc # "checkpoint" => distributor[w].todo = {}
  /\ distributor[w].pc # "credit" => distributor[w].unpaid = {}
Run(w) == Read(w) /\ Before(w) /\ Crediting(w) /\ Checkpointing(w)

Balanced ==
  /\ \A l \in Loans : distributed[l] <= accrued[l]
  /\ \A w \in Distributors : Distributing(w) => Run(w)
  /\ (\A w \in Distributors : ~Distributing(w)) =>
       Covers(yield, distributed, Cardinality(days))

PInv == AInv /\ DistributionTypes /\ DayAlone /\ (Orderly => Balanced)

-----------------------------------------------------------------------------
LEMMA PerDayType == Cardinality(Providers) \in Nat /\ PerDay \in Nat /\ YieldParts \in Nat
<1>1. Cardinality(Providers) \in Nat
  BY SharesType, FS_CardinalityType
<1> QED BY <1>1, ConstantsAssumption DEF PerDay

LEMMA TotalType ==
  /\ \A f \in [Loans -> Nat] : Total(f, Loans) \in Nat
  /\ \A f \in [Providers -> Nat] : Total(f, Providers) \in Nat
  BY SharesType, TotalIsSum, SumOverType

LEMMA TotalMonotone ==
  /\ \A f, g \in [Loans -> Nat] :
       (\A l \in Loans : f[l] <= g[l]) => Total(f, Loans) <= Total(g, Loans)
  /\ \A f, g \in [Providers -> Nat] :
       (\A p \in Providers : f[p] <= g[p]) => Total(f, Providers) <= Total(g, Providers)
  BY SharesType, TotalIsSum, SumMonotone

LEMMA TotalAdds ==
  /\ \A f, g, h \in [Loans -> Nat] :
       (\A l \in Loans : h[l] = f[l] + g[l])
         => Total(h, Loans) = Total(f, Loans) + Total(g, Loans)
  /\ \A f, g, h \in [Providers -> Nat] :
       (\A p \in Providers : h[p] = f[p] + g[p])
         => Total(h, Providers) = Total(f, Providers) + Total(g, Providers)
  BY SharesType, TotalIsSum, SumSplits

LEMMA MulSum ==
  ASSUME NEW m \in Nat, NEW p \in Nat, NEW q \in Nat
  PROVE  m * (p + q) = m * p + m * q /\ m * p \in Nat
  OBVIOUS

LEMMA MulCancel ==
  ASSUME NEW m \in Nat \ {0}, NEW p \in Nat, NEW q \in Nat, m * p <= m * q
  PROVE  p <= q
<1> SUFFICES ASSUME p > q PROVE FALSE
  OBVIOUS
<1>1. p - q \in Nat /\ p - q >= 1 /\ q + (p - q) = p
  OBVIOUS
<1>2. m * p = m * q + m * (p - q) /\ m * q \in Nat /\ m * (p - q) \in Nat
  BY <1>1, MulSum
<1>3. m * (p - q) >= m * 1
  BY <1>1, MulMono
<1> QED BY <1>2, <1>3

(* Rounding adds at most half a unit for the pool and for each share.      *)
LEMMA PartsFit ==
  ASSUME NEW w, distributor[w] \in Distributions
  PROVE  40 * Total([p \in Providers |-> Part(w, p)], Providers)
           <= 2 * YieldParts * Total(distributor[w].delta, Loans) + PerDay
<1> DEFINE parts == [p \in Providers |-> Part(w, p)]
           ones == [p \in Providers |-> 1]
           delta == Total(distributor[w].delta, Loans)
           count == Cardinality(Providers)
<1>1. PICK pool \in Nat : pool = Distributable(w)
  BY PartType
<1>2. delta \in Nat /\ TotalShares \in Nat /\ count \in Nat /\ YieldParts \in Nat
  BY TotalType, SharesType, PerDayType DEF Distributions, TotalShares
<1>3. parts \in [Providers -> Nat] /\ ones \in [Providers -> Nat]
  BY PartType
<1>4. Total(parts, Providers) \in Nat
  BY <1>3, TotalType
<1>5. 40 * pool <= 2 * YieldParts * delta + 20
  <2>1. PICK y \in Nat : y = YieldParts * delta
    BY <1>2
  <2>2. pool = Rounded(y, 20)
    BY <1>1, <2>1 DEF Distributable
  <2>3. 2 * 20 * pool <= 2 * y + 20
    BY <2>1, <2>2, RoundedType
  <2>4. 2 * y = 2 * YieldParts * delta
    BY <1>2, <2>1
  <2> QED BY <1>1, <2>1, <2>3, <2>4
<1>6. 2 * Total(parts, Providers) <= 2 * pool + count
  <2>1. CASE TotalShares = 0
    <3>1. \A p \in Providers : parts[p] = 0
      BY <2>1 DEF Part, ShareOfPool
    <3>2. Total(parts, Providers) = 0
      BY <3>1, SharesType, TotalIsSum, SumOfZeros
    <3> QED BY <1>1, <1>2, <3>2
  <2>2. CASE TotalShares # 0
    <3> DEFINE t == TotalShares
               a == 2 * pool
               b == 2 * t
    <3>1. t \in Nat \ {0} /\ a \in Nat /\ b \in Nat
      BY <1>1, <1>2, <2>2
    <3>2. ASSUME NEW p \in Providers
          PROVE  /\ Shares[p] \in Nat /\ ones[p] \in Nat /\ parts[p] \in Nat
                 /\ b * parts[p] <= a * Shares[p] + t * ones[p]
      <4>1. Shares[p] \in Nat /\ ones[p] = 1 /\ parts[p] \in Nat
        BY <1>3, SharesType
      <4>2. PICK n \in Nat : n = Shares[p] * pool
        BY <1>1, <4>1
      <4>3. parts[p] = Rounded(n, t)
        BY <1>1, <2>2, <4>2 DEF Part, ShareOfPool
      <4>4. 2 * t * parts[p] <= 2 * n + t
        BY <3>1, <4>2, <4>3, RoundedType
      <4>5. 2 * n = a * Shares[p]
        BY <1>1, <4>1, <4>2
      <4>6. t * ones[p] = t
        BY <3>1
      <4> QED BY <4>1, <4>4, <4>5, <4>6
    <3> HIDE DEF t, a, b, parts, ones
    <3>3. b * Total(parts, Providers) <= a * Total(Shares, Providers) + t * Total(ones, Providers)
      BY <3>1, <3>2, SharesType, TotalIsSum, SumBounded
    <3>4. Total(Shares, Providers) = t /\ Total(ones, Providers) = count
      BY SharesType, TotalIsSum, SumOfOnes DEF t, ones, TotalShares
    <3>5. PICK s \in Nat : s = Total(parts, Providers)
      BY <1>4
    <3>6. b * s = t * (2 * s) /\ a * t + t * count = t * (2 * pool + count)
      BY <1>1, <1>2, <3>1, <3>5 DEF a, b
    <3>7. 2 * s \in Nat /\ 2 * pool + count \in Nat
      BY <1>1, <1>2, <3>5
    <3>8. 2 * s <= 2 * pool + count
      BY <3>1, <3>3, <3>4, <3>5, <3>6, <3>7, MulCancel
    <3> QED BY <3>5, <3>8
  <2> QED BY <2>1, <2>2
<1>7. 2 * YieldParts * delta \in Nat
  BY <1>2
<1>8. PerDay = 20 * count + 20
  BY <1>2 DEF PerDay
<1> HIDE DEF parts, delta, count
<1> QED BY <1>1, <1>2, <1>4, <1>5, <1>6, <1>7, <1>8 DEF parts, delta

PState == AState /\ DistributionTypes /\ DayAlone /\ Orderly /\ Balanced

LEMMA DaysCounted ==
  ASSUME DistributionTypes
  PROVE  IsFiniteSet(days) /\ Cardinality(days) \in Nat
<1>1. IsFiniteSet(0 .. MaxTicks)
  BY TimeType, FS_Interval
<1> QED BY <1>1, FS_Subset, FS_CardinalityType DEF DistributionTypes

(* The interest of a loan does not fall.                                   *)
LEMMA InterestRises ==
  ASSUME AState, NEW w \in Accruers, Accrual(w)
  PROVE  \A l \in Loans : accrued[l] <= accrued'[l]
<1>1. AccrualTypes /\ accrued \in [Loans -> Nat]
  BY DEF AState, AccrualTypes
<1>2. ASSUME NEW k \in Loans, Updates(w, k)
      PROVE  \A l \in Loans : accrued[l] <= accrued'[l]
  <2>1. Busy(w) /\ accruer[w].accrued[k] = accrued[k] /\ Earned(w, k) \in Nat
    BY <1>1, <1>2, EarnedType DEF AState, Current, Updates, GoesOn
  <2> QED BY <1>1, <1>2, <2>1 DEF Updates, Charging
<1> QED BY <1>1, <1>2, AccrualSteps DEF Claims, Loads, Ends, Skips

LEMMA DayAloneNext ==
  ASSUME Types, DayAlone, [Next]_vars
  PROVE  DayAlone'
<1>1. CASE Tick
  <2>1. CASE EndsHour
    <3>1. \A w \in Distributors : ~Distributing(w)'
      BY <1>1, <2>1 DEF Tick, Distributing
    <3> QED BY <3>1 DEF DayAlone
  <2>2. CASE ~EndsHour
    <3>1. now \in Nat /\ now' = now + 1 /\ UNCHANGED <<days, distributor>>
      BY <1>1, HourFacts DEF Types, Tick, claims
    <3>2. (now + 1) \div (TicksPerHour * HoursPerDay) = now \div (TicksPerHour * HoursPerDay)
      BY <2>2, <3>1, TimeType, DayEndsWithHour DEF EndsHour, Hour
    <3>3. Today' = Today
      BY <3>1, <3>2 DEF Today, DayLength
    <3> QED BY <3>1, <3>3 DEF DayAlone, Distributing
  <2> QED BY <2>1, <2>2
<1>2. CASE UNCHANGED <<now, days, distributor>>
  BY <1>2 DEF DayAlone, Distributing, Today
<1>3. ASSUME NEW w \in Distributors, Distribution(w)
      PROVE  DayAlone'
  <2>1. /\ \A v \in Distributors \ {w} : Distributing(v)' = Distributing(v)
        /\ UNCHANGED now
        /\ \/ ClaimsDay(w)
           \/ Distributing(w) /\ UNCHANGED days
    BY <1>3, DistributionSteps DEF Types, Distributing, LoadsInterest, LoadsPositions,
       Credits, GoesToCheckpoints, EndsDistribution, Checkpoints
  <2> QED BY <2>1 DEF DayAlone, ClaimsDay, Today
<1> QED BY <1>1, <1>2, <1>3, NotDistributing

LEMMA SettledType ==
  ASSUME DistributionTypes, NEW w \in Distributors, Distributing(w)
  PROVE  /\ distributor[w] \in Distributions
         /\ Settled(w) \in [Loans -> Nat]
         /\ \A p \in Providers : Part(w, p) \in Nat
<1>1. distributor[w] \in Distributions
  BY DEF DistributionTypes, Distributing
<1> QED BY <1>1, PartType DEF Settled, Distributions

LEMMA CoversType ==
  ASSUME NEW y \in [Providers -> Nat], NEW d \in [Loans -> Nat]
  PROVE  /\ 40 * Total(y, Providers) \in Nat
         /\ 2 * YieldParts * Total(d, Loans) \in Nat
         /\ \A n \in Nat : PerDay * n \in Nat /\ PerDay * (n - 1) + PerDay = PerDay * n
  BY PerDayType, TotalType

(* More may be distributed, and more days may pass.                        *)
LEMMA CoversMore ==
  ASSUME NEW y \in [Providers -> Nat], NEW d \in [Loans -> Nat], NEW e \in [Loans -> Nat],
         NEW n \in Nat, \A l \in Loans : d[l] <= e[l],
         Covers(y, d, n) \/ Covers(y, d, n - 1)
  PROVE  Covers(y, e, n)
<1>1. PICK a \in Nat, b \in Nat, c \in Nat :
        a = 40 * Total(y, Providers) /\ b = Total(d, Loans) /\ c = Total(e, Loans)
  BY CoversType, TotalType
<1>2. b <= c
  BY <1>1, TotalMonotone
<1>3. 2 * YieldParts * b <= 2 * YieldParts * c
      /\ 2 * YieldParts * b \in Nat /\ 2 * YieldParts * c \in Nat
  <2>1. 2 * YieldParts \in Nat
    BY PerDayType
  <2> QED BY <1>2, <2>1, MulMono
<1>4. /\ PerDay * n \in Nat /\ PerDay \in Nat
      /\ PerDay * (n - 1) + PerDay = PerDay * n
  BY CoversType, PerDayType
<1>5. a <= 2 * YieldParts * b + PerDay * n
  <2>1. CASE Covers(y, d, n)
    BY <1>1, <2>1 DEF Covers
  <2>2. CASE Covers(y, d, n - 1)
    <3>1. a <= 2 * YieldParts * b + PerDay * (n - 1)
      BY <1>1, <2>2 DEF Covers
    <3> DEFINE m == PerDay * (n - 1)
    <3>2. m \in Int
      BY <1>4
    <3>3. a <= 2 * YieldParts * b + m /\ m + PerDay = PerDay * n
      BY <1>4, <3>1
    <3> HIDE DEF m
    <3> QED BY <1>1, <1>3, <1>4, <3>2, <3>3
  <2> QED BY <2>1, <2>2
<1>6. a <= 2 * YieldParts * c + PerDay * n
  BY <1>1, <1>3, <1>4, <1>5
<1> QED BY <1>1, <1>6 DEF Covers

(* What is credited of a run's pool is covered by what it settles.         *)
LEMMA CreditsAreCovered ==
  ASSUME DistributionTypes, NEW w \in Distributors, Distributing(w),
         distributor[w].pc = "credit", Crediting(w),
         distributor[w].distributed = distributed
  PROVE  Covers(yield, Settled(w), Cardinality(days))
<1> DEFINE parts == [p \in Providers |-> Part(w, p)]
           y == distributor[w].yield
           both == [p \in Providers |-> y[p] + parts[p]]
           delta == distributor[w].delta
           n == Cardinality(days)
<1>1. /\ distributor[w] \in Distributions /\ Settled(w) \in [Loans -> Nat]
      /\ \A p \in Providers : Part(w, p) \in Nat
  BY SettledType
<1>2. /\ parts \in [Providers -> Nat] /\ y \in [Providers -> Nat] /\ both \in [Providers -> Nat]
      /\ delta \in [Loans -> Nat] /\ distributed \in [Loans -> Nat]
      /\ yield \in [Providers -> Nat]
  BY <1>1 DEF Distributions, DistributionTypes
<1>3. \A p \in Providers : yield[p] <= both[p]
  BY <1>1, <1>2 DEF Crediting
<1>4. Total(yield, Providers) <= Total(both, Providers)
  BY <1>2, <1>3, TotalMonotone
<1>5. Total(both, Providers) = Total(y, Providers) + Total(parts, Providers)
  BY <1>2, TotalAdds
<1>6. \A l \in Loans : Settled(w)[l] = distributed[l] + delta[l]
  BY DEF Settled
<1>7. Total(Settled(w), Loans) = Total(distributed, Loans) + Total(delta, Loans)
  BY <1>1, <1>2, <1>6, TotalAdds
<1>8. 40 * Total(parts, Providers) <= 2 * YieldParts * Total(delta, Loans) + PerDay
  BY <1>1, PartsFit
<1>9. 40 * Total(y, Providers) <= 2 * YieldParts * Total(distributed, Loans) + PerDay * (n - 1)
  BY DEF Crediting, Covers
<1>10. /\ Total(yield, Providers) \in Nat /\ Total(y, Providers) \in Nat
       /\ Total(parts, Providers) \in Nat /\ Total(delta, Loans) \in Nat
       /\ Total(distributed, Loans) \in Nat /\ PerDay \in Nat /\ YieldParts \in Nat /\ n \in Nat
  BY <1>2, TotalType, PerDayType, DaysCounted
<1>11. /\ PerDay * (n - 1) + PerDay = PerDay * n
       /\ 2 * YieldParts * (Total(distributed, Loans) + Total(delta, Loans))
            = 2 * YieldParts * Total(distributed, Loans) + 2 * YieldParts * Total(delta, Loans)
  <2>1. \A m \in Nat : PerDay * (m - 1) + PerDay = PerDay * m
    BY <1>10
  <2>2. 2 * YieldParts \in Nat
    BY <1>10
  <2> QED BY <1>10, <2>1, <2>2, MulSum
<1> DEFINE a == 2 * YieldParts * Total(distributed, Loans)
           b == 2 * YieldParts * Total(delta, Loans)
           m == PerDay * (n - 1)
<1>12. a \in Int /\ b \in Int /\ m \in Int
  BY <1>10
<1>13. /\ 40 * Total(parts, Providers) <= b + PerDay
       /\ 40 * Total(y, Providers) <= a + m
       /\ 2 * YieldParts * Total(Settled(w), Loans) = a + b
       /\ PerDay * n = m + PerDay
  BY <1>7, <1>8, <1>9, <1>11
<1> HIDE DEF a, b, m, n, parts, y, both, delta
<1>14. 40 * Total(yield, Providers) <= a + b + (m + PerDay)
  BY <1>4, <1>5, <1>10, <1>12, <1>13
<1>15. 40 * Total(yield, Providers)
         <= 2 * YieldParts * Total(Settled(w), Loans) + PerDay * n
  BY <1>13, <1>14
<1> QED BY <1>15 DEF Covers, n

(* While nobody distributes anew, interest may rise and hours pass.        *)
LEMMA QuietBalanced ==
  ASSUME PState, AccrualTypes', UNCHANGED <<distributed, yield, days, distributor>>,
         \A l \in Loans : accrued[l] <= accrued'[l]
  PROVE  Balanced'
<1>1. /\ accrued \in [Loans -> Nat] /\ accrued' \in [Loans -> Nat]
      /\ distributed \in [Loans -> Nat]
  BY DEF PState, AState, AccrualTypes, DistributionTypes
<1>2. \A l \in Loans : distributed'[l] <= accrued'[l]
  BY <1>1 DEF PState, Balanced
<1>3. ASSUME NEW w \in Distributors, Distributing(w)'
      PROVE  Run(w)'
  <2>1. Distributing(w) /\ Run(w)
    BY <1>3 DEF PState, Balanced, Distributing
  <2>2. Settled(w) \in [Loans -> Nat]
    BY <2>1, SettledType DEF PState
  <2>3. Settled(w)' = Settled(w)
    BY DEF Settled
  <2>4. distributor[w].pc # "loans" => \A l \in Loans : Settled(w)[l] <= accrued'[l]
    BY <1>1, <2>1, <2>2 DEF Run, Read
  <2>5. Before(w)' /\ Checkpointing(w)'
    BY <2>1, <2>3 DEF Run, Before, Checkpointing, Covers
  <2>6. Crediting(w)'
    BY <2>1 DEF Run, Crediting, Covers, Part, Distributable
  <2>7. Read(w)'
    BY <2>1, <2>3, <2>4 DEF Run, Read
  <2> QED BY <2>5, <2>6, <2>7 DEF Run
<1>4. (\A w \in Distributors : ~Distributing(w))' => Covers(yield, distributed, Cardinality(days))'
  BY DEF PState, Balanced, Distributing, Covers
<1> QED BY <1>2, <1>3, <1>4 DEF Balanced

(* The steps of a run: it is the only one.                                 *)
RunStep(w) ==
  /\ \A v \in Distributors \ {w} : distributor'[v] = distributor[v]
  /\ distributor' \in [Distributors -> Distributions \cup {NoDistribution}]
  /\ DistributionTypes'
  /\ UNCHANGED <<now, accrued>>

LEMMA OnlyDistributor ==
  ASSUME PState, NEW w \in Distributors, RunStep(w), Distributing(w),
         distributor'[w] \in Distributions,
         \A l \in Loans : distributed'[l] <= accrued[l],
         Run(w)'
  PROVE  Balanced'
<1>1. \A v \in Distributors \ {w} : ~Distributing(v)'
  BY DEF PState, DayAlone, RunStep, Distributing
<1>2. Distributing(w)'
  BY DEF Distributing, Distributions, NoDistribution
<1> QED BY <1>1, <1>2 DEF Balanced, RunStep

LEMMA ClaimsBalanced ==
  ASSUME PState, NEW w \in Distributors, RunStep(w), ClaimsDay(w)
  PROVE  Balanced'
<1>1. \A v \in Distributors : ~Distributing(v)
  BY DEF PState, DayAlone, ClaimsDay
<1>2. \A v \in Distributors \ {w} : ~Distributing(v)'
  BY <1>1 DEF RunStep, Distributing
<1>3. Distributing(w)'
  BY DEF ClaimsDay, Distributing, Distributions, NoDistribution
<1>4. Covers(yield, distributed, Cardinality(days))
  BY <1>1 DEF PState, Balanced
<1>5. Cardinality(days') - 1 = Cardinality(days)
  <2>1. IsFiniteSet(days) /\ Cardinality(days) \in Nat
    BY DaysCounted DEF PState
  <2>2. Cardinality(days') = Cardinality(days) + 1
    BY <2>1, FS_AddElement DEF ClaimsDay
  <2> QED BY <2>1, <2>2
<1>6. Run(w)'
  BY <1>4, <1>5 DEF ClaimsDay, Run, Read, Before, Crediting, Checkpointing, Covers
<1> QED BY <1>2, <1>3, <1>6 DEF Balanced, PState, RunStep, ClaimsDay

LEMMA LoadsInterestBalanced ==
  ASSUME PState, NEW w \in Distributors, RunStep(w), LoadsInterest(w)
  PROVE  Balanced'
<1>1. Run(w) /\ Distributing(w) /\ distributor'[w] \in Distributions
  BY DEF PState, Balanced, LoadsInterest
<1>2. /\ accrued \in [Loans -> Nat] /\ distributed \in [Loans -> Nat]
      /\ \A l \in Loans : distributed[l] <= accrued[l]
  BY DEF PState, AState, AccrualTypes, DistributionTypes, Balanced
<1>3. \A l \in Loans : Settled(w)'[l] <= accrued'[l]
  <2>1. \A l \in Loans : Settled(w)'[l] = distributed[l] + Undistributed(l)
    BY DEF Settled, LoadsInterest
  <2> QED BY <1>2, <2>1 DEF Undistributed, RunStep
<1>4. Run(w)'
  BY <1>1, <1>3 DEF LoadsInterest, Kept, Run, Read, Before, Crediting, Checkpointing, Covers
<1> QED BY <1>1, <1>2, <1>4, OnlyDistributor DEF LoadsInterest

LEMMA LoadsPositionsBalanced ==
  ASSUME PState, NEW w \in Distributors, RunStep(w), LoadsPositions(w)
  PROVE  Balanced'
<1>1. Run(w) /\ Distributing(w) /\ distributor'[w] \in Distributions
  BY DEF PState, Balanced, LoadsPositions
<1>2. \A l \in Loans : distributed[l] <= accrued[l]
  BY DEF PState, Balanced
<1>3. Settled(w)' = Settled(w)
  BY DEF Settled, LoadsPositions, Kept
<1>4. Crediting(w)'
  <2>1. Covers(yield, distributed, Cardinality(days) - 1)
    BY <1>1 DEF Run, Before, LoadsPositions
  <2>2. \A p \in Providers : yield[p] <= yield[p] + 0
    BY DEF PState, DistributionTypes
  <2> QED BY <2>1, <2>2 DEF LoadsPositions, Crediting, Covers
<1>5. Run(w)'
  BY <1>1, <1>3, <1>4 DEF LoadsPositions, Kept, Run, Read, Before, Checkpointing, RunStep
<1> QED BY <1>1, <1>2, <1>5, OnlyDistributor DEF LoadsPositions

LEMMA CreditsBalanced ==
  ASSUME PState, NEW w \in Distributors, RunStep(w), NEW p \in Providers, Credits(w, p)
  PROVE  Balanced'
<1>1. /\ Run(w) /\ Distributing(w) /\ distributor'[w] \in Distributions
      /\ distributor[w].pc = "credit"
  BY DEF PState, Balanced, Credits, Run, Read
<1>2. \A l \in Loans : distributed'[l] <= accrued[l]
  BY DEF PState, Balanced, Credits
<1>3. Settled(w)' = Settled(w) /\ \A q : Part(w, q)' = Part(w, q)
  BY DEF Settled, Part, Distributable, Credits, Kept
<1>4. /\ distributor[w] \in Distributions /\ \A q \in Providers : Part(w, q) \in Nat
      /\ yield \in [Providers -> Nat] /\ distributor[w].yield \in [Providers -> Nat]
  BY <1>1, SettledType DEF PState, DistributionTypes, Distributions
<1>5. Crediting(w)'
  <2>1. Covers(distributor[w].yield, distributed, Cardinality(days) - 1)
    BY <1>1 DEF Run, Crediting
  <2>2. ASSUME NEW q \in Providers
        PROVE  yield'[q] <= distributor[w].yield[q]
                              + (IF q \in distributor[w].unpaid \ {p} THEN 0 ELSE Part(w, q))
    <3>1. yield[q] <= distributor[w].yield[q]
                        + (IF q \in distributor[w].unpaid THEN 0 ELSE Part(w, q))
      BY <1>1 DEF Run, Crediting
    <3>2. CASE UNCHANGED yield
      BY <1>4, <3>1, <3>2
    <3>3. CASE yield' = [yield EXCEPT ![p] = distributor[w].yield[p] + Part(w, p)]
      <4>1. CASE q = p
        BY <1>4, <3>3, <4>1
      <4>2. CASE q # p
        BY <1>4, <3>1, <3>3, <4>2
      <4> QED BY <4>1, <4>2
    <3> QED BY <3>2, <3>3 DEF Credits
  <2>3. ~distributor'[w].paid => yield' = distributor[w].yield
    <3>1. ~distributor[w].paid => yield = distributor[w].yield
      BY <1>1 DEF Run, Crediting
    <3>2. CASE distributor'[w].paid = distributor[w].paid /\ UNCHANGED yield
      BY <3>1, <3>2
    <3>3. CASE /\ distributor'[w].paid = (distributor[w].paid \/ Part(w, p) > 0)
               /\ Part(w, p) = 0 => yield' = yield
      <4>1. Part(w, p) > 0 \/ Part(w, p) = 0
        BY <1>4
      <4> QED BY <3>1, <3>3, <4>1, Zenon
    <3> QED BY <3>2, <3>3 DEF Credits, Kept
  <2>4. /\ distributor'[w].yield = distributor[w].yield
        /\ distributor'[w].unpaid = distributor[w].unpaid \ {p}
        /\ UNCHANGED <<distributed, days>>
    BY DEF Credits, Kept
  <2> QED BY <1>3, <2>1, <2>2, <2>3, <2>4 DEF Crediting, Covers
<1>6. Run(w)'
  BY <1>1, <1>3, <1>5 DEF Credits, Kept, Run, Read, Before, Checkpointing, RunStep
<1> QED BY <1>1, <1>2, <1>6, OnlyDistributor

LEMMA GoesBalanced ==
  ASSUME PState, NEW w \in Distributors, RunStep(w), GoesToCheckpoints(w)
  PROVE  Balanced'
<1>1. Run(w) /\ Distributing(w) /\ distributor'[w] \in Distributions
  BY DEF PState, Balanced, GoesToCheckpoints
<1>2. \A l \in Loans : distributed'[l] <= accrued[l]
  BY DEF PState, Balanced, GoesToCheckpoints
<1>3. Settled(w)' = Settled(w)
  BY DEF Settled, GoesToCheckpoints, Kept
<1>4. Covers(yield, Settled(w), Cardinality(days)) /\ distributor[w].distributed = distributed
  BY <1>1, CreditsAreCovered DEF PState, Run, Read, GoesToCheckpoints
<1>5. Checkpointing(w)'
  <2>1. ASSUME NEW l \in Loans, distributor[w].delta[l] = 0
        PROVE  Settled(w)[l] = distributed[l]
    BY <1>4, <2>1 DEF Settled, PState, DistributionTypes
  <2>2. \A l \in Loans : distributor[w].delta[l] \in Nat
    BY <1>1, SettledType DEF PState, Distributions
  <2>3. \A l \in Loans : distributed[l] = IF l \in distributor'[w].todo
                                          THEN distributor[w].distributed[l]
                                          ELSE Settled(w)[l]
    BY <1>4, <2>1, <2>2 DEF GoesToCheckpoints
  <2> QED BY <1>3, <1>4, <2>3 DEF Checkpointing, GoesToCheckpoints, Kept, Covers
<1>6. Run(w)'
  BY <1>1, <1>3, <1>5 DEF GoesToCheckpoints, Kept, Run, Read, Before, Crediting, RunStep
<1> QED BY <1>1, <1>2, <1>6, OnlyDistributor

LEMMA CheckpointsBalanced ==
  ASSUME PState, NEW w \in Distributors, RunStep(w), NEW k \in Loans, Checkpoints(w, k)
  PROVE  Balanced'
<1>1. /\ Run(w) /\ Distributing(w) /\ distributor'[w] \in Distributions
      /\ distributor[w].pc = "checkpoint"
  BY DEF PState, Balanced, Checkpoints, Run, Read
<1>2. distributed \in [Loans -> Nat]
  BY DEF PState, DistributionTypes
<1>3. Settled(w)' = Settled(w)
  BY DEF Settled, Checkpoints, Kept
<1>4. distributed' = [distributed EXCEPT ![k] = Settled(w)[k]]
  BY DEF Checkpoints, PState, Orderly, Settled
<1>5. \A l \in Loans : distributed'[l] <= accrued[l]
  BY <1>1, <1>2, <1>4 DEF PState, Balanced, Run, Read
<1>6. Checkpointing(w)'
  <2>1. \A l \in Loans : distributed'[l] = IF l \in distributor'[w].todo
                                           THEN distributor'[w].distributed[l]
                                           ELSE Settled(w)[l]
    BY <1>1, <1>2, <1>4 DEF Run, Checkpointing, Checkpoints, Kept
  <2> QED BY <1>1, <1>3, <2>1 DEF Run, Checkpointing, Checkpoints, Kept, Covers
<1>7. Run(w)'
  BY <1>1, <1>3, <1>6 DEF Checkpoints, Kept, Run, Read, Before, Crediting, RunStep
<1> QED BY <1>1, <1>5, <1>7, OnlyDistributor

LEMMA EndsBalanced ==
  ASSUME PState, NEW w \in Distributors, RunStep(w), EndsDistribution(w)
  PROVE  Balanced'
<1>1. Run(w) /\ Distributing(w) /\ \A l \in Loans : distributed[l] <= accrued[l]
  BY DEF PState, Balanced, EndsDistribution
<1>2. \A v \in Distributors : ~Distributing(v)'
  BY DEF PState, DayAlone, RunStep, EndsDistribution, Distributing
<1>3. /\ yield \in [Providers -> Nat] /\ distributed \in [Loans -> Nat]
      /\ Cardinality(days) \in Nat
  BY DaysCounted DEF PState, DistributionTypes
<1>4. Covers(yield, distributed, Cardinality(days))
  <2>1. CASE distributor[w].pc \in {"loans", "positions"}
             \/ (distributor[w].pc = "credit" /\ ~distributor[w].paid)
    <3>1. Covers(yield, distributed, Cardinality(days) - 1)
      BY <1>1, <2>1 DEF Run, Before, Crediting
    <3> QED BY <1>3, <3>1, CoversMore
  <2>2. CASE distributor[w].pc = "checkpoint" /\ distributor[w].todo = {}
    <3>1. \A l \in Loans : distributed[l] = Settled(w)[l]
      BY <1>1, <2>2 DEF Run, Checkpointing
    <3>2. Settled(w) \in [Loans -> Nat]
      BY <1>1, SettledType DEF PState
    <3>3. \A l \in Loans : Settled(w)[l] <= distributed[l]
      BY <1>3, <3>1
    <3>4. Covers(yield, Settled(w), Cardinality(days))
      BY <1>1, <2>2 DEF Run, Checkpointing
    <3> QED BY <1>3, <3>2, <3>3, <3>4, CoversMore
  <2> QED BY <2>1, <2>2 DEF EndsDistribution, PState, Orderly
<1>5. UNCHANGED <<yield, distributed, days, accrued>>
  BY DEF EndsDistribution, RunStep
<1> QED BY <1>1, <1>2, <1>4, <1>5 DEF Balanced, Covers

LEMMA PInvInit == Init => PInv
<1> SUFFICES ASSUME Init PROVE DayAlone /\ Balanced
  BY AInvInit, DistributionTypesInit DEF PInv
<1>1. \A w \in Distributors : ~Distributing(w)
  BY DEF Init, Distributing
<1>2. Covers(yield, distributed, Cardinality(days))
  <2>1. yield \in [Providers -> Nat] /\ distributed \in [Loans -> Nat] /\ Cardinality(days) = 0
    BY FS_EmptySet DEF Init
  <2>2. Total(yield, Providers) = 0
    BY SharesType, TotalIsSum, SumOfZeros DEF Init
  <2>3. 2 * YieldParts * Total(distributed, Loans) \in Nat /\ PerDay * 0 \in Nat
    BY <2>1, CoversType
  <2> QED BY <2>1, <2>2, <2>3 DEF Covers
<1>3. \A l \in Loans : distributed[l] <= accrued[l]
  BY DEF Init
<1> QED BY <1>1, <1>2, <1>3 DEF DayAlone, Balanced

LEMMA PInvNext == PInv /\ [Next]_vars => PInv'
<1> SUFFICES ASSUME PInv, [Next]_vars
             PROVE  PInv'
  OBVIOUS
<1>1. AInv' /\ Types /\ Types' /\ DistributionTypes' /\ DayAlone' /\ UNCHANGED regime
  BY AInvNext, TypesNext, DayAloneNext, RegimeKept DEF PInv, AInv, Types
<1>2. ASSUME Orderly'
      PROVE  Balanced'
  <2>1. PState /\ AccrualTypes'
    BY <1>1, <1>2 DEF PInv, AInv, PState, AState, Orderly, Types
  <2>2. ASSUME NEW w \in Distributors, Distribution(w)
        PROVE  Balanced'
    <3>1. /\ RunStep(w)
          /\ \/ ClaimsDay(w) \/ LoadsInterest(w) \/ LoadsPositions(w)
             \/ \E p \in Providers : Credits(w, p)
             \/ GoesToCheckpoints(w) \/ EndsDistribution(w)
             \/ \E l \in Loans : Checkpoints(w, l)
      BY <1>1, <2>2, DistributionSteps DEF Types, RunStep
    <3> QED BY <2>1, <3>1, ClaimsBalanced, LoadsInterestBalanced, LoadsPositionsBalanced,
               CreditsBalanced, GoesBalanced, EndsBalanced, CheckpointsBalanced
  <2>3. ASSUME UNCHANGED <<distributed, yield, days, distributor>>
        PROVE  Balanced'
    <3>1. \A l \in Loans : accrued[l] \in Nat
      BY <2>1 DEF PState, AState, AccrualTypes
    <3>2. CASE \E w \in Accruers : Accrual(w)
      BY <2>1, <2>3, <3>2, InterestRises, QuietBalanced DEF PState
    <3>3. CASE UNCHANGED accrued
      BY <2>1, <2>3, <3>1, <3>3, QuietBalanced
    <3> QED BY <3>2, <3>3, OtherSteps
  <2> QED BY <2>2, <2>3, NotDistributing
<1> QED BY <1>1, <1>2 DEF PInv

(* Where runs are made in time, end, and checkpoint every loan they pay of,*)
(* providers never get more than their part of the interest that accrued,  *)
(* but for half a unit a day for the pool and for each provider: for any   *)
(* loans, providers, shares and interest, whatever else fails (process,    *)
(* distributeYield).                                                       *)
THEOREM NothingIsPaidTwice == Spec => []NeverOverpaid
<1>1. PInv => NeverOverpaid
  <2> SUFFICES ASSUME PInv, Orderly
               PROVE  Covers(yield, accrued, Cardinality(days))
    BY PerDayType DEF NeverOverpaid, Orderly, Covers, Tolerance, PerDay
  <2>1. /\ Balanced /\ DistributionTypes /\ accrued \in [Loans -> Nat]
        /\ yield \in [Providers -> Nat] /\ distributed \in [Loans -> Nat]
        /\ Cardinality(days) \in Nat
    BY DaysCounted DEF PInv, AInv, AccrualTypes, DistributionTypes
  <2>2. CASE \A w \in Distributors : ~Distributing(w)
    BY <2>1, <2>2, CoversMore DEF Balanced
  <2>3. ASSUME NEW w \in Distributors, Distributing(w)
        PROVE  Covers(yield, accrued, Cardinality(days))
    <3>1. Run(w) /\ Settled(w) \in [Loans -> Nat] /\ distributor[w] \in Distributions
      BY <2>1, <2>3, SettledType DEF Balanced
    <3>2. CASE distributor[w].pc \in {"loans", "positions"}
      BY <2>1, <3>1, <3>2, CoversMore DEF Run, Before, Balanced
    <3>3. CASE distributor[w].pc \in {"credit", "checkpoint"}
      <4>1. Covers(yield, Settled(w), Cardinality(days))
        BY <2>1, <2>3, <3>1, <3>3, CreditsAreCovered DEF Run, Read, Checkpointing
      <4>2. \A l \in Loans : Settled(w)[l] <= accrued[l]
        BY <3>1, <3>3 DEF Run, Read
      <4> QED BY <2>1, <3>1, <4>1, <4>2, CoversMore
    <3> QED BY <3>1, <3>2, <3>3 DEF Distributions
  <2> QED BY <2>2, <2>3
<1> QED BY PInvInit, PInvNext, <1>1, PTL DEF Spec
=============================================================================
