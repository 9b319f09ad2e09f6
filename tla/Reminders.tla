------------------------------ MODULE Reminders ------------------------------
(***************************************************************************)
(* The payment reminders (LoanPaymentReminderProcessor.process): a daily   *)
(* job that reads the active loans, classifies them by the days to their   *)
(* due date and, one by one, looks for a reminder of the same type and day *)
(* and inserts one.                                                        *)
(***************************************************************************)
EXTENDS Integers, FiniteSets

CONSTANTS
  Loans,    \* loans with a due date
  Workers,  \* processes that work on the queue
  FirstDue, \* [Loans -> Int]: days from the first day to the due date
  MaxDay,   \* bound: days
  MaxRuns,  \* bound: jobs of a day
  Regimes   \* sets of circumstances, one of which a behaviour has

(* "again": the job of a day is run again, after it ended or its worker    *)
(* died; "overlap": two workers run it at once; "fail": calls fail;        *)
(* "late": midnight comes during a run.                                    *)
Circumstances == {"again", "overlap", "fail", "late"}

Types == {"payment_reminder_3d", "payment_reminder_1d", "payment_overdue"}

VARIABLES
  regime,  \* what may happen in this behaviour; it never changes
  day,     \* days since the first one
  active,  \* loans whose status is active
  sent,    \* notifications: [Loans \X Types -> ...], those created today
  runs,    \* jobs started today
  job,     \* [Workers -> ...]: the run a worker is in
  lasting, \* history: the loans that have been active since midnight
  whole    \* history: a run that began today came to its end today

vars == <<regime, day, active, sent, runs, job, lasting, whole>>

Idle == [pc |-> "idle"]
Candidates == Loans \X Types
\* What a run holds that has not begun to check.
AnyCandidate == CHOOSE c \in Candidates : TRUE

TypeOK ==
  /\ regime \in Regimes
  /\ day \in 0 .. MaxDay
  /\ active \subseteq Loans
  /\ sent \in [Candidates -> Nat]
  /\ runs \in 0 .. MaxRuns
  /\ job \in [Workers -> {Idle}
       \cup [pc : {"fetch", "check", "create"}, today : BOOLEAN,
             todo : SUBSET Candidates, cur : Candidates \cup {AnyCandidate}]]
  /\ lasting \subseteq Loans
  /\ whole \in BOOLEAN

NoneSent == [c \in Candidates |-> 0]

Init ==
  /\ regime \in Regimes
  /\ day = 0
  /\ active \in SUBSET Loans
  /\ sent = NoneSent
  /\ runs = 0
  /\ job = [w \in Workers |-> Idle]
  /\ lasting = active
  /\ whole = FALSE

-----------------------------------------------------------------------------
daysUntilDueUtc(l) == FirstDue[l] - day

Window(n) == IF n = 3 THEN {"payment_reminder_3d"}
             ELSE IF n = 1 THEN {"payment_reminder_1d"}
             ELSE IF n < 0 THEN {"payment_overdue"} ELSE {}

identifyCandidates(loans) ==
  {c \in Candidates : c[1] \in loans /\ c[2] \in Window(daysUntilDueUtc(c[1]))}

Running == {w \in Workers : job[w] # Idle}

Start(w) ==
  /\ job[w] = Idle
  /\ runs < MaxRuns
  /\ runs = 0 \/ "again" \in regime
  /\ Running = {} \/ "overlap" \in regime
  /\ runs' = runs + 1
  /\ job' = [job EXCEPT ![w] = [pc |-> "fetch", today |-> TRUE, todo |-> {},
                                cur |-> AnyCandidate]]
  /\ UNCHANGED <<regime, day, active, sent, lasting, whole>>

FetchActiveLoans(w) ==
  /\ job[w].pc = "fetch"
  /\ job' = [job EXCEPT ![w].pc = "check",
                        ![w].todo = identifyCandidates(active)]
  /\ UNCHANGED <<regime, day, active, sent, runs, lasting, whole>>

(* isDuplicateReminder: of this type and loan, since midnight.             *)
BugNoDuplicateCheck(c) == FALSE
IsDuplicate(c) == sent[c] > 0

CheckCandidate(w) ==
  /\ job[w].pc = "check"
  /\ \E c \in job[w].todo :
       \/ /\ ~IsDuplicate(c) \/ "fail" \in regime
          /\ job' = [job EXCEPT ![w].pc = "create", ![w].cur = c]
       \/ /\ IsDuplicate(c)
          /\ job' = [job EXCEPT ![w].todo = @ \ {c}]
  /\ UNCHANGED <<regime, day, active, sent, runs, lasting, whole>>

(* A candidate that fails is left behind, and the next one is taken.       *)
CreateNotification(w) ==
  LET c == job[w].cur IN
  /\ job[w].pc = "create"
  /\ \/ sent' = [sent EXCEPT ![c] = @ + 1]
     \/ "fail" \in regime /\ UNCHANGED sent
  /\ job' = [job EXCEPT ![w].pc = "check", ![w].todo = @ \ {c}]
  /\ UNCHANGED <<regime, day, active, runs, lasting, whole>>

Finish(w) ==
  /\ job[w].pc = "check"
  /\ job[w].todo = {}
  /\ whole' = (whole \/ job[w].today)
  /\ job' = [job EXCEPT ![w] = Idle]
  /\ UNCHANGED <<regime, day, active, sent, runs, lasting>>

(* The loans cannot be read, or the worker dies.                           *)
Abort(w) ==
  /\ regime \cap {"fail", "again"} # {}
  /\ job[w] # Idle
  /\ job' = [job EXCEPT ![w] = Idle]
  /\ UNCHANGED <<regime, day, active, sent, runs, lasting, whole>>

(* A loan is activated, completed, defaulted or cancelled meanwhile.       *)
StatusChanges(l) ==
  /\ active' = IF l \in active THEN active \ {l} ELSE active \cup {l}
  /\ lasting' = lasting \ {l}
  /\ UNCHANGED <<regime, day, sent, runs, job, whole>>

Midnight ==
  /\ day < MaxDay
  /\ Running = {} \/ "late" \in regime
  /\ day' = day + 1
  /\ sent' = NoneSent
  /\ runs' = 0
  /\ job' = [w \in Workers |->
       IF job[w] = Idle THEN Idle ELSE [job[w] EXCEPT !.today = FALSE]]
  /\ lasting' = active
  /\ whole' = FALSE
  /\ UNCHANGED <<regime, active>>

Next ==
  \/ \E w \in Workers :
       \/ Start(w) \/ FetchActiveLoans(w) \/ CheckCandidate(w)
       \/ CreateNotification(w) \/ Finish(w) \/ Abort(w)
  \/ \E l \in Loans : StatusChanges(l)
  \/ Midnight

Spec == Init /\ [][Next]_vars

-----------------------------------------------------------------------------
(* As long as no call fails and runs do not overlap, however often the job *)
(* of a day is run, interrupted or delayed past midnight: a loan gets at   *)
(* most one reminder of a type a day, and once a run of the day is through,*)
(* a loan that has been active all day has the one it is due, even if the  *)
(* run before it was interrupted.                                          *)
OneReminderADay ==
  regime \cap {"fail", "overlap"} = {} =>
    /\ \A c \in Candidates : sent[c] <= 1
    /\ whole => \A c \in identifyCandidates(active \cap lasting) : sent[c] = 1
=============================================================================
