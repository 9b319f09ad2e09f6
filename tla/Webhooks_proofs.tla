--------------------------- MODULE Webhooks_proofs ---------------------------
(***************************************************************************)
(* That a transition never has two open deliveries to one endpoint, for any*)
(* number of endpoints, transitions, callers and workers, any limits and   *)
(* every mishap.                                                           *)
(***************************************************************************)
EXTENDS Webhooks, TLAPS

LEMMA LimitsType ==
  /\ MaxOccurrences \in Nat \ {0}
  /\ MaxAttempts \in Nat \ {0}
  /\ MaxRefusals \in Nat
  /\ \A r \in Regimes : MaxDispatches[r] \in Nat
  BY ConstantsAssumption

(* What is stored for a delivery, a caller or a worker keeps the type of   *)
(* its table when one entry is replaced.                                   *)
JobType == [state : {"none", "waiting", "active", "completed", "failed"},
            made : Nat, stalled : BOOLEAN]
CallType == Calls \cup {NoCall}
RunType == Runs \cup {NoRun}

(* Deliveries by their parts.                                              *)
LEMMA DeliveryParts ==
  ASSUME NEW d \in Deliveries
  PROVE  /\ d[1] \in Endpoints /\ d[2] \in Transitions
         /\ d[3] \in 0 .. MaxOccurrences - 1
         /\ d = <<d[1], d[2], d[3]>>
  BY DEF Deliveries

LEMMA FirstOccurrence ==
  ASSUME NEW e \in Endpoints, NEW t \in Transitions
  PROVE  <<e, t, 0>> \in Deliveries
  BY LimitsType DEF Deliveries

LEMMA NextOccurrence ==
  ASSUME NEW d \in Deliveries, d[3] + 1 < MaxOccurrences
  PROVE  <<d[1], d[2], d[3] + 1>> \in Deliveries
  BY DeliveryParts, LimitsType DEF Deliveries

(* Going on with the endpoints that are left keeps the callers' type.      *)
LEMMA GoesOnType ==
  ASSUME NEW c \in Callers, NEW t \in Transitions, NEW todo \in SUBSET Endpoints,
         caller \in [Callers -> CallType], GoesOnWith(c, t, todo)
  PROVE  caller' \in [Callers -> CallType]
<1>1. CASE todo = {}
  BY <1>1 DEF GoesOnWith, CallType
<1>2. CASE todo # {}
  <2>1. PICK e \in todo : caller' = [caller EXCEPT ![c] =
          [pc |-> "insert", d |-> <<e, t, 0>>, todo |-> todo \ {e}]]
    BY <1>2 DEF GoesOnWith
  <2>2. <<e, t, 0>> \in Deliveries
    BY FirstOccurrence
  <2>3. [pc |-> "insert", d |-> <<e, t, 0>>, todo |-> todo \ {e}] \in CallType
    BY <2>2 DEF CallType, Calls
  <2> QED BY <2>1, <2>3
<1> QED BY <1>1, <1>2

(* A caller that is not idle has a delivery and endpoints left; a worker a *)
(* delivery.                                                               *)
LEMMA CallParts ==
  ASSUME TypeOK, NEW c \in Callers, caller[c].pc # "idle"
  PROVE  /\ caller[c] \in Calls /\ caller[c].d \in Deliveries
         /\ caller[c].todo \in SUBSET Endpoints
         /\ caller[c].pc \in {"insert", "find", "add"}
  BY DEF TypeOK, Calls, NoCall

LEMMA RunParts ==
  ASSUME TypeOK, NEW w \in Workers, worker[w].pc # "idle"
  PROVE  worker[w] \in Runs /\ worker[w].d \in Deliveries
  BY DEF TypeOK, Runs, NoRun

(* The endpoints' own operations keep the types.                           *)
LEMMA OwnerType ==
  ASSUME TypeOK, NEW e \in Endpoints, Owner(e)
  PROVE  TypeOK'
<1>1. UNCHANGED <<regime, job, caller, worker, counts>>
  BY DEF Owner, CreateEndpoint, UpdateEndpoint, DeleteEndpoint
<1>2. endpoint' \in [Endpoints -> {"none", "active", "silent", "inactive", "deleted"}]
  BY DEF TypeOK, Owner, CreateEndpoint, UpdateEndpoint, DeleteEndpoint
<1>3. delivery' \in [Deliveries -> {"none", "pending", "failed", "success"}]
  BY DEF TypeOK, Owner, CreateEndpoint, UpdateEndpoint, DeleteEndpoint
<1> QED BY <1>1, <1>2, <1>3 DEF TypeOK, counts

(* So does the start of an announcement ...                                *)
LEMMA EnqueueType ==
  ASSUME TypeOK, NEW c \in Callers, NEW t \in Transitions,
         EnqueueLoanStatusChange(c, t)
  PROVE  TypeOK'
<1>1. dispatches' \in 0 .. MaxDispatches[regime]
  BY LimitsType DEF TypeOK, EnqueueLoanStatusChange
<1>2. caller' \in [Callers -> CallType]
  <2>1. {e \in Endpoints : endpoint[e] = "active"} \in SUBSET Endpoints
    OBVIOUS
  <2>2. {} \in SUBSET Endpoints
    OBVIOUS
  <2>3. \/ GoesOnWith(c, t, {e \in Endpoints : endpoint[e] = "active"})
        \/ GoesOnWith(c, t, {})
    BY DEF EnqueueLoanStatusChange
  <2>4. caller \in [Callers -> CallType]
    BY DEF TypeOK, CallType
  <2>5. CASE GoesOnWith(c, t, {e \in Endpoints : endpoint[e] = "active"})
    BY <2>1, <2>4, <2>5, GoesOnType
  <2>6. CASE GoesOnWith(c, t, {})
    BY <2>2, <2>4, <2>6, GoesOnType
  <2> QED BY <2>3, <2>5, <2>6
<1>3. UNCHANGED <<regime, endpoint, delivery, job, worker, refusals, accepted>>
  BY DEF EnqueueLoanStatusChange
<1> QED BY <1>1, <1>2, <1>3 DEF TypeOK, CallType

(* ... and its steps ...                                                   *)
LEMMA DispatchType ==
  ASSUME TypeOK, NEW c \in Callers, Dispatch(c)
  PROVE  TypeOK'
<1> DEFINE k == caller[c]
<1>1. k.pc # "idle" /\ k \in Calls
  <2>1. k.pc # "idle"
    BY DEF Dispatch, InsertDelivery, InsertConflicts, FindExisting, EnsureFails,
           AddJob, AddFails, CallerDies
  <2> QED BY <2>1, CallParts
<1>2. k.d \in Deliveries /\ k.todo \in SUBSET Endpoints /\ k.d[2] \in Transitions
  BY <1>1, CallParts, DeliveryParts
<1>3. caller \in [Callers -> CallType]
  BY DEF TypeOK, CallType
<1>4. UNCHANGED <<regime, endpoint, worker, counts>>
  BY DEF Dispatch, InsertDelivery, InsertConflicts, FindExisting, EnsureFails,
         AddJob, AddFails, CallerDies
<1>5. NextEndpoint(c) => caller' \in [Callers -> CallType]
  BY <1>2, <1>3, GoesOnType DEF NextEndpoint
<1>6. caller' \in [Callers -> CallType]
  <2>1. CASE InsertDelivery(c)
    <3>1. [k EXCEPT !.pc = "add"] \in Calls
      BY <1>1 DEF Calls
    <3>2. caller' = [caller EXCEPT ![c] = [k EXCEPT !.pc = "add"]]
      BY <2>1, <1>3 DEF InsertDelivery
    <3> QED BY <3>1, <3>2, <1>3 DEF CallType
  <2>2. CASE InsertConflicts(c)
    <3>1. [k EXCEPT !.pc = "find"] \in Calls
      BY <1>1 DEF Calls
    <3>2. caller' = [caller EXCEPT ![c] = [k EXCEPT !.pc = "find"]]
      BY <2>2, <1>3 DEF InsertConflicts
    <3> QED BY <3>1, <3>2, <1>3 DEF CallType
  <2>3. CASE FindExisting(c)
    <3>1. CASE caller' = [caller EXCEPT ![c].pc = "add"]
      <4>1. [k EXCEPT !.pc = "add"] \in Calls
        BY <1>1 DEF Calls
      <4>2. caller' = [caller EXCEPT ![c] = [k EXCEPT !.pc = "add"]]
        BY <3>1, <1>3
      <4> QED BY <4>1, <4>2, <1>3 DEF CallType
    <3>2. CASE /\ k.d[3] + 1 < MaxOccurrences
               /\ caller' = [caller EXCEPT ![c] = [@ EXCEPT !.pc = "insert",
                    !.d = <<k.d[1], k.d[2], k.d[3] + 1>>]]
      <4>1. <<k.d[1], k.d[2], k.d[3] + 1>> \in Deliveries
        BY <1>2, <3>2, NextOccurrence
      <4>2. [k EXCEPT !.pc = "insert", !.d = <<k.d[1], k.d[2], k.d[3] + 1>>]
              \in Calls
        BY <1>1, <4>1 DEF Calls
      <4> QED BY <3>2, <4>2, <1>3 DEF CallType
    <3>3. CASE NextEndpoint(c)
      BY <3>3, <1>5
    <3> QED BY <2>3, <3>1, <3>2, <3>3 DEF FindExisting
  <2>4. CASE EnsureFails(c) \/ AddJob(c)
    BY <2>4, <1>5 DEF EnsureFails, AddJob
  <2>5. CASE AddFails(c) \/ CallerDies(c)
    BY <2>5, <1>3 DEF AddFails, CallerDies, CallType
  <2> QED BY <2>1, <2>2, <2>3, <2>4, <2>5 DEF Dispatch
<1>7. delivery' \in [Deliveries -> {"none", "pending", "failed", "success"}]
  BY <1>2 DEF TypeOK, Dispatch, InsertDelivery, InsertConflicts, FindExisting,
       EnsureFails, AddJob, AddFails, CallerDies
<1>8. job' \in [Deliveries -> JobType]
  <2>1. CASE AddJob(c)
    BY <2>1, <1>2 DEF TypeOK, AddJob, Added, Fresh, NoJob, JobType
  <2>2. CASE ~AddJob(c)
    BY <2>2 DEF TypeOK, JobType, Dispatch, InsertDelivery, InsertConflicts,
                FindExisting, EnsureFails, AddFails, CallerDies
  <2> QED BY <2>1, <2>2
<1> QED BY <1>4, <1>6, <1>7, <1>8 DEF TypeOK, CallType, JobType, counts

(* ... the queue and the workers.                                          *)
LEMMA JobState ==
  ASSUME NEW j \in JobType,
         NEW s \in {"none", "waiting", "active", "completed", "failed"}
  PROVE  [j EXCEPT !.state = s] \in JobType
  BY DEF JobType

LEMMA JobSteps ==
  ASSUME NEW j \in JobType
  PROVE  AfterFailure(j) \in JobType /\ Stalled(j) \in JobType
<1>1. AfterFailure(j) \in JobType
  <2>1. [j EXCEPT !.made = j.made + 1] \in JobType
    BY DEF JobType
  <2> DEFINE s == IF j.made + 1 < MaxAttempts THEN "waiting" ELSE "failed"
  <2>2. s \in {"none", "waiting", "active", "completed", "failed"}
    OBVIOUS
  <2>3. AfterFailure(j) = [[j EXCEPT !.made = j.made + 1] EXCEPT !.state = s]
    BY DEF AfterFailure
  <2> HIDE DEF s
  <2> QED BY <2>1, <2>2, <2>3, JobState
<1>2. Stalled(j) \in JobType
  <2>1. [j EXCEPT !.stalled = TRUE] \in JobType
    BY DEF JobType
  <2> DEFINE s == IF j.stalled THEN "failed" ELSE "waiting"
  <2>2. s \in {"none", "waiting", "active", "completed", "failed"}
    OBVIOUS
  <2>3. Stalled(j) = [[j EXCEPT !.stalled = TRUE] EXCEPT !.state = s]
    BY DEF Stalled
  <2> HIDE DEF s
  <2> QED BY <2>1, <2>2, <2>3, JobState
<1> QED BY <1>1, <1>2

LEMMA EvictType ==
  ASSUME TypeOK, NEW d \in Deliveries, Evict(d)
  PROVE  TypeOK'
<1>1. job' \in [Deliveries -> JobType]
  BY DEF TypeOK, Evict, NoJob, JobType
<1> QED BY <1>1 DEF TypeOK, Evict, JobType, counts

LEMMA TakeType ==
  ASSUME TypeOK, NEW w \in Workers, NEW d \in Deliveries, TakeJob(w, d)
  PROVE  TypeOK'
<1>1. job' \in [Deliveries -> JobType]
  <2>1. job \in [Deliveries -> JobType]
    BY DEF TypeOK, JobType
  <2>2. job' = [job EXCEPT ![d] = [job[d] EXCEPT !.state = "active"]]
    BY <2>1 DEF TakeJob
  <2>3. job[d] \in JobType
    BY <2>1
  <2> QED BY <2>1, <2>2, <2>3, JobState
<1>2. worker' \in [Workers -> RunType]
  BY DEF TypeOK, TakeJob, RunType, Runs
<1> QED BY <1>1, <1>2 DEF TypeOK, TakeJob, JobType, RunType, counts

LEMMA WorkType ==
  ASSUME TypeOK, NEW w \in Workers, worker[w].pc # "idle", Process(w)
  PROVE  TypeOK'
<1> DEFINE r == worker[w]
           Works == \/ ReadDelivery(w) \/ ReadEndpoint(w) \/ PostAccepted(w)
                    \/ PostRefused(w) \/ Mark(w) \/ Settle(w) \/ WorkerDies(w)
<1>1. Works
  BY DEF Process, TakeJob
<1>2. r \in Runs /\ r.d \in Deliveries
  BY RunParts
<1>3. worker \in [Workers -> RunType] /\ job \in [Deliveries -> JobType]
  BY DEF TypeOK, RunType, JobType
<1>4. job[r.d] \in JobType
  BY <1>2, <1>3
<1>5. UNCHANGED <<regime, endpoint, caller, dispatches>>
  BY <1>1 DEF ReadDelivery, ReadEndpoint, PostAccepted, PostRefused, Mark, Settle,
              WorkerDies, counts
<1>6. /\ JobFails(w) => job' \in [Deliveries -> JobType]
                        /\ worker' \in [Workers -> RunType]
      /\ JobCompletes(w) => job' \in [Deliveries -> JobType]
                            /\ worker' \in [Workers -> RunType]
  <2>1. NoRun \in RunType
    BY DEF RunType
  <2>2. CASE JobFails(w)
    BY <2>1, <2>2, <1>2, <1>3, <1>4, JobSteps DEF JobFails
  <2>3. ASSUME JobCompletes(w)
        PROVE  job' \in [Deliveries -> JobType] /\ worker' \in [Workers -> RunType]
    <3>1. job' = [job EXCEPT ![r.d] = [job[r.d] EXCEPT !.state = "completed"]]
      BY <2>3, <1>2, <1>3 DEF JobCompletes
    <3>2. [job[r.d] EXCEPT !.state = "completed"] \in JobType
      BY <1>4, JobState
    <3> QED BY <2>1, <2>3, <3>1, <3>2, <1>2, <1>3 DEF JobCompletes
  <2> QED BY <2>2, <2>3
<1>7. /\ [r EXCEPT !.pc = "endpoint"] \in RunType
      /\ [r EXCEPT !.pc = "post"] \in RunType
      /\ [r EXCEPT !.pc = "settle"] \in RunType
      /\ \A o \in {"ok", "refused", "undeliverable"} :
           [r EXCEPT !.pc = "mark", !.outcome = o] \in RunType
  BY <1>2 DEF Runs, RunType
<1>8. worker' \in [Workers -> RunType]
  <2>1. CASE ReadDelivery(w)
    BY <2>1, <1>3, <1>6, <1>7 DEF ReadDelivery
  <2>2. CASE ReadEndpoint(w)
    BY <2>2, <1>3, <1>7 DEF ReadEndpoint
  <2>3. CASE PostAccepted(w) \/ PostRefused(w)
    BY <2>3, <1>3, <1>7 DEF PostAccepted, PostRefused, Answered
  <2>4. CASE Mark(w)
    BY <2>4, <1>3, <1>7 DEF Mark
  <2>5. CASE Settle(w)
    BY <2>5, <1>6 DEF Settle
  <2>6. CASE WorkerDies(w)
    BY <2>6, <1>3 DEF WorkerDies, RunType
  <2> QED BY <1>1, <2>1, <2>2, <2>3, <2>4, <2>5, <2>6
<1>9. job' \in [Deliveries -> JobType]
  <2>1. CASE ReadDelivery(w) \/ Settle(w)
    BY <2>1, <1>3, <1>6 DEF ReadDelivery, Settle
  <2>2. CASE WorkerDies(w)
    BY <2>2, <1>2, <1>3, <1>4, JobSteps DEF WorkerDies
  <2>3. CASE ReadEndpoint(w) \/ PostAccepted(w) \/ PostRefused(w) \/ Mark(w)
    BY <2>3, <1>3 DEF ReadEndpoint, PostAccepted, PostRefused, Mark
  <2> QED BY <1>1, <2>1, <2>2, <2>3
<1>10. delivery' \in [Deliveries -> {"none", "pending", "failed", "success"}]
  <2>1. CASE Mark(w)
    BY <2>1 DEF TypeOK, Mark, Marked
  <2>2. CASE ~Mark(w)
    BY <1>1, <2>2 DEF TypeOK, ReadDelivery, ReadEndpoint, PostAccepted, PostRefused,
                      Settle, WorkerDies
  <2> QED BY <2>1, <2>2
<1>11. refusals' \in 0 .. MaxRefusals
  BY <1>1, LimitsType DEF TypeOK, ReadDelivery, ReadEndpoint, PostAccepted,
     PostRefused, Mark, Settle, WorkerDies, counts
<1>12. accepted' \in [Deliveries -> Nat]
  BY <1>1, <1>2 DEF TypeOK, ReadDelivery, ReadEndpoint, PostAccepted,
     PostRefused, Mark, Settle, WorkerDies, counts
<1> QED BY <1>5, <1>8, <1>9, <1>10, <1>11, <1>12 DEF TypeOK, JobType, RunType

LEMMA TypeInit == Init => TypeOK
<1> SUFFICES ASSUME Init PROVE TypeOK
  OBVIOUS
<1>1. NoJob \in JobType /\ NoCall \in CallType /\ NoRun \in RunType
  BY DEF NoJob, JobType, CallType, RunType
<1>2. dispatches \in 0 .. MaxDispatches[regime] /\ refusals \in 0 .. MaxRefusals
  BY LimitsType DEF Init
<1>3. endpoint \in [Endpoints -> {"none", "active", "silent", "inactive", "deleted"}]
  BY DEF Init
<1> QED BY <1>1, <1>2, <1>3 DEF Init, TypeOK, JobType, CallType, RunType

LEMMA TypeNext == TypeOK /\ [Next]_vars => TypeOK'
<1> SUFFICES ASSUME TypeOK, [Next]_vars PROVE TypeOK'
  OBVIOUS
<1>1. CASE UNCHANGED vars
  BY <1>1 DEF TypeOK, vars, counts
<1>2. CASE \E e \in Endpoints : Owner(e)
  BY <1>2, OwnerType
<1>3. CASE \E c \in Callers, t \in Transitions : EnqueueLoanStatusChange(c, t)
  BY <1>3, EnqueueType
<1>4. CASE \E c \in Callers : Dispatch(c)
  BY <1>4, DispatchType
<1>5. CASE \E d \in Deliveries : Evict(d)
  BY <1>5, EvictType
<1>6. CASE \E w \in Workers : Process(w)
  <2>1. PICK w \in Workers : Process(w)
    BY <1>6
  <2>2. CASE worker[w].pc # "idle"
    BY <2>1, <2>2, WorkType
  <2>3. CASE worker[w].pc = "idle"
    <3>1. \E d \in Deliveries : TakeJob(w, d)
      BY <2>1, <2>3 DEF Process, ReadDelivery, ReadEndpoint, PostAccepted,
         PostRefused, Mark, Settle, WorkerDies
    <3> QED BY <3>1, TakeType
  <2> QED BY <2>2, <2>3
<1> QED BY <1>1, <1>2, <1>3, <1>4, <1>5, <1>6 DEF Next

(* Types: for any constants, every row, job, caller and worker is one the  *)
(* code knows.                                                             *)
THEOREM TypeCorrect == Spec => []TypeOK
<1> QED BY TypeInit, TypeNext, PTL DEF Spec

-----------------------------------------------------------------------------
(***************************************************************************)
(* Why occurrences open one after another. OneOpenOccurrence alone is not  *)
(* inductive: a mark could make a delivery that was accepted "failed" after*)
(* the next occurrence was opened, and a caller could insert an occurrence *)
(* it decided on long ago.                                                 *)
(***************************************************************************)
Before(d) == <<d[1], d[2], d[3] - 1>>
Busy(w) == worker[w].pc # "idle"

(* A job that is being worked at is active, and one worker has it.         *)
Holders ==
  /\ \A w \in Workers : Busy(w) => job[worker[w].d].state = "active"
  /\ \A v, w \in Workers : Busy(v) /\ Busy(w) /\ v # w => worker[v].d # worker[w].d

(* Who is about to post or mark a delivery works at one not yet accepted.  *)
Posting ==
  \A w \in Workers :
    worker[w].pc \in {"endpoint", "post", "mark"}
    => delivery[worker[w].d] # "success"

(* A caller that opens a later occurrence has seen the one before accepted:*)
(* it still is, unless it was deleted with its endpoint for good.          *)
Openings ==
  \A c \in Callers :
    caller[c].pc = "insert" /\ caller[c].d[3] > 0
    => \/ delivery[Before(caller[c].d)] = "success"
       \/ endpoint[caller[c].d[1]] = "deleted"

IInv == TypeOK /\ Holders /\ Posting /\ Openings /\ OneOpenOccurrence

LEMMA BeforeType ==
  ASSUME NEW d \in Deliveries, d[3] > 0
  PROVE  Before(d) \in Deliveries /\ Before(d) # d /\ Before(d)[1] = d[1]
<1>1. d[1] \in Endpoints /\ d[2] \in Transitions /\ d[3] \in 0 .. MaxOccurrences - 1
  BY DeliveryParts
<1>2. d[3] - 1 \in 0 .. MaxOccurrences - 1
  BY <1>1, LimitsType
<1>3. Before(d) \in Deliveries
  BY <1>1, <1>2 DEF Before, Deliveries
<1>4. Before(d)[3] # d[3]
  BY <1>1, LimitsType DEF Before
<1> QED BY <1>3, <1>4 DEF Before

(* Only these steps write the table of deliveries ...                      *)
LEMMA DeliveryWriters ==
  ASSUME [Next]_vars
  PROVE  \/ UNCHANGED delivery
         \/ \E e \in Endpoints : DeleteEndpoint(e)
         \/ \E c \in Callers : InsertDelivery(c)
         \/ \E w \in Workers : Mark(w)
<1>1. CASE UNCHANGED vars
  BY <1>1 DEF vars
<1>2. CASE \E e \in Endpoints : Owner(e)
  BY <1>2 DEF Owner, CreateEndpoint, UpdateEndpoint
<1>3. CASE \E c \in Callers, t \in Transitions : EnqueueLoanStatusChange(c, t)
  BY <1>3 DEF EnqueueLoanStatusChange
<1>4. CASE \E c \in Callers : Dispatch(c)
  BY <1>4 DEF Dispatch, InsertConflicts, FindExisting, EnsureFails, AddJob, AddFails,
              CallerDies
<1>5. CASE \E d \in Deliveries : Evict(d)
  BY <1>5 DEF Evict
<1>6. CASE \E w \in Workers : Process(w)
  BY <1>6 DEF Process, TakeJob, ReadDelivery, ReadEndpoint, PostAccepted, PostRefused,
              Settle, WorkerDies
<1> QED BY <1>1, <1>2, <1>3, <1>4, <1>5, <1>6 DEF Next

(* ... and a delivery that was accepted stays so until it is deleted.      *)
LEMMA AcceptedStays ==
  ASSUME TypeOK, Posting, [Next]_vars, NEW d \in Deliveries, delivery[d] = "success"
  PROVE  delivery'[d] = "success" \/ endpoint'[d[1]] = "deleted"
<1>1. CASE UNCHANGED delivery
  BY <1>1
<1>2. CASE \E e \in Endpoints : DeleteEndpoint(e)
  BY <1>2, DeliveryParts DEF DeleteEndpoint, TypeOK
<1>3. ASSUME NEW c \in Callers, InsertDelivery(c)
      PROVE  delivery'[d] = "success"
  <2>1. caller[c].d # d
    BY <1>3 DEF InsertDelivery
  <2> QED BY <1>3, <2>1 DEF InsertDelivery, TypeOK
<1>4. ASSUME NEW w \in Workers, Mark(w)
      PROVE  delivery'[d] = "success"
  <2>1. worker[w].d # d
    BY <1>4 DEF Mark, Posting
  <2> QED BY <1>4, <2>1 DEF Mark, TypeOK
<1> QED BY <1>1, <1>2, <1>3, <1>4, DeliveryWriters

(* A deleted endpoint never comes back.                                    *)
LEMMA DeletedStays ==
  ASSUME TypeOK, [Next]_vars, NEW e \in Endpoints, endpoint[e] = "deleted"
  PROVE  endpoint'[e] = "deleted"
<1>1. CASE UNCHANGED vars
  BY <1>1 DEF vars
<1>2. CASE \E x \in Endpoints : Owner(x)
  BY <1>2 DEF Owner, CreateEndpoint, UpdateEndpoint, DeleteEndpoint, Exists, TypeOK
<1>3. CASE \E c \in Callers, t \in Transitions : EnqueueLoanStatusChange(c, t)
  BY <1>3 DEF EnqueueLoanStatusChange
<1>4. CASE \E c \in Callers : Dispatch(c)
  BY <1>4 DEF Dispatch, InsertDelivery, InsertConflicts, FindExisting, EnsureFails,
              AddJob, AddFails, CallerDies
<1>5. CASE \E d \in Deliveries : Evict(d)
  BY <1>5 DEF Evict
<1>6. CASE \E w \in Workers : Process(w)
  BY <1>6 DEF Process, TakeJob, ReadDelivery, ReadEndpoint, PostAccepted, PostRefused,
              Mark, Settle, WorkerDies
<1> QED BY <1>1, <1>2, <1>3, <1>4, <1>5, <1>6 DEF Next

-----------------------------------------------------------------------------
(* A caller that goes on to an endpoint starts with its first occurrence.  *)
LEMMA GoesOnOpens ==
  ASSUME TypeOK, NEW c \in Callers, NEW t, NEW todo, GoesOnWith(c, t, todo),
         NEW x \in Callers, caller'[x].pc = "insert", caller'[x].d[3] > 0
  PROVE  caller'[x] = caller[x]
<1>1. CASE x # c
  BY <1>1 DEF GoesOnWith, TypeOK
<1>2. CASE x = c
  <2>1. CASE todo = {}
    BY <1>2, <2>1 DEF GoesOnWith, TypeOK, NoCall
  <2>2. CASE todo # {}
    <3>1. PICK e \in todo : caller' = [caller EXCEPT ![c] =
            [pc |-> "insert", d |-> <<e, t, 0>>, todo |-> todo \ {e}]]
      BY <2>2 DEF GoesOnWith
    <3>2. caller'[x].d = <<e, t, 0>>
      BY <1>2, <3>1 DEF TypeOK
    <3>3. caller'[x].d[3] = 0
      BY <3>2
    <3> QED BY <3>3
  <2> QED BY <2>1, <2>2
<1> QED BY <1>1, <1>2

(* Only a caller that finds an accepted delivery opens the next occurrence.*)
LEMMA OpeningSteps ==
  ASSUME TypeOK, [Next]_vars, NEW x \in Callers,
         caller'[x].pc = "insert", caller'[x].d[3] > 0
  PROVE  \/ caller'[x] = caller[x]
         \/ /\ caller[x].d \in Deliveries
            /\ delivery[caller[x].d] = "success"
            /\ caller'[x].d \in Deliveries
            /\ Before(caller'[x].d) = caller[x].d
            /\ UNCHANGED delivery
<1>1. CASE UNCHANGED vars
  BY <1>1 DEF vars
<1>2. CASE \E e \in Endpoints : Owner(e)
  BY <1>2 DEF Owner, CreateEndpoint, UpdateEndpoint, DeleteEndpoint
<1>3. CASE \E c \in Callers, t \in Transitions : EnqueueLoanStatusChange(c, t)
  BY <1>3, GoesOnOpens DEF EnqueueLoanStatusChange
<1>4. ASSUME NEW c \in Callers, Dispatch(c), caller'[x] # caller[x]
      PROVE  /\ caller[x].d \in Deliveries
             /\ delivery[caller[x].d] = "success"
             /\ caller'[x].d \in Deliveries
             /\ Before(caller'[x].d) = caller[x].d
             /\ UNCHANGED delivery
  <2>1. caller \in [Callers -> CallType]
    BY DEF TypeOK, CallType
  <2>2. ~NextEndpoint(c)
    BY <1>4, GoesOnOpens DEF NextEndpoint
  <2>3. CASE InsertDelivery(c) \/ InsertConflicts(c) \/ AddFails(c) \/ CallerDies(c)
    <3>1. caller'[x].pc # "insert"
      BY <1>4, <2>1, <2>3 DEF InsertDelivery, InsertConflicts, AddFails, CallerDies,
                              NoCall, CallType, Calls
    <3> QED BY <3>1
  <2>4. CASE FindExisting(c)
    <3> DEFINE d == caller[c].d
    <3>1. caller[c] \in Calls /\ d \in Deliveries
      BY <2>4, CallParts DEF FindExisting
    <3>2. CASE caller' = [caller EXCEPT ![c].pc = "add"]
      <4>1. caller'[x].pc # "insert"
        BY <1>4, <2>1, <3>1, <3>2 DEF Calls
      <4> QED BY <4>1
    <3>3. CASE /\ Delivered(delivery[d])
               /\ d[3] + 1 < MaxOccurrences
               /\ caller' = [caller EXCEPT ![c] =
                    [@ EXCEPT !.pc = "insert", !.d = <<d[1], d[2], d[3] + 1>>]]
      <4>1. x = c
        BY <1>4, <2>1, <3>3
      <4>2. caller'[x].d = <<d[1], d[2], d[3] + 1>>
        BY <4>1, <2>1, <3>1, <3>3 DEF Calls
      <4>3. caller'[x].d \in Deliveries
        BY <4>2, <3>1, <3>3, NextOccurrence
      <4>4. d = <<d[1], d[2], d[3]>> /\ d[3] \in 0 .. MaxOccurrences - 1
        BY <3>1, DeliveryParts
      <4>5. (d[3] + 1) - 1 = d[3]
        BY <4>4, LimitsType
      <4>6. Before(caller'[x].d) = <<d[1], d[2], (d[3] + 1) - 1>>
        BY <4>2 DEF Before
      <4>7. Before(caller'[x].d) = d
        BY <4>4, <4>5, <4>6
      <4> QED BY <2>4, <3>1, <3>3, <4>1, <4>3, <4>7 DEF Delivered, FindExisting
    <3> QED BY <2>2, <2>4, <3>2, <3>3 DEF FindExisting
  <2> QED BY <1>4, <2>2, <2>3, <2>4 DEF Dispatch, EnsureFails, AddJob
<1>5. CASE \E d \in Deliveries : Evict(d)
  BY <1>5 DEF Evict
<1>6. CASE \E w \in Workers : Process(w)
  BY <1>6 DEF Process, TakeJob, ReadDelivery, ReadEndpoint, PostAccepted, PostRefused,
              Mark, Settle, WorkerDies
<1> QED BY <1>1, <1>2, <1>3, <1>4, <1>5, <1>6 DEF Next

LEMMA OpeningsNext ==
  ASSUME TypeOK, TypeOK', Posting, Openings, [Next]_vars
  PROVE  Openings'
<1> SUFFICES ASSUME NEW c \in Callers, caller'[c].pc = "insert", caller'[c].d[3] > 0
             PROVE  \/ delivery'[Before(caller'[c].d)] = "success"
                    \/ endpoint'[caller'[c].d[1]] = "deleted"
  BY DEF Openings, Before
<1>1. CASE caller'[c] = caller[c]
  <2>1. caller[c].pc = "insert" /\ caller[c].d \in Deliveries /\ caller[c].d[3] > 0
    BY <1>1, CallParts
  <2>2. /\ Before(caller[c].d) \in Deliveries
        /\ Before(caller[c].d)[1] = caller[c].d[1]
    BY <2>1, BeforeType
  <2>3. CASE delivery[Before(caller[c].d)] = "success"
    BY <1>1, <2>2, <2>3, AcceptedStays
  <2>4. CASE endpoint[caller[c].d[1]] = "deleted"
    BY <1>1, <2>1, <2>4, DeliveryParts, DeletedStays
  <2> QED BY <2>1, <2>3, <2>4 DEF Openings
<1>2. CASE caller'[c] # caller[c]
  BY <1>2, OpeningSteps
<1> QED BY <1>1, <1>2

LEMMA OneOpenNext ==
  ASSUME TypeOK, Posting, Openings, OneOpenOccurrence, [Next]_vars
  PROVE  OneOpenOccurrence'
<1> SUFFICES ASSUME NEW d \in Deliveries, delivery'[d] # "none", d[3] > 0
             PROVE  delivery'[Before(d)] = "success"
  BY DEF OneOpenOccurrence, Before
<1>1. Before(d) \in Deliveries /\ Before(d) # d /\ Before(d)[1] = d[1]
  BY BeforeType
<1>2. delivery[d] # "none" => delivery[Before(d)] = "success"
  BY DEF OneOpenOccurrence, Before
<1>3. CASE UNCHANGED delivery
  BY <1>2, <1>3
<1>4. ASSUME NEW e \in Endpoints, DeleteEndpoint(e)
      PROVE  delivery'[Before(d)] = "success"
  BY <1>1, <1>2, <1>4 DEF DeleteEndpoint
<1>5. ASSUME NEW c \in Callers, InsertDelivery(c)
      PROVE  delivery'[Before(d)] = "success"
  <2>1. CASE caller[c].d = d
    <3>1. delivery[Before(d)] = "success"
      BY <1>5, <2>1 DEF InsertDelivery, Openings, Exists
    <3> QED BY <1>1, <1>5, <2>1, <3>1 DEF InsertDelivery, TypeOK
  <2>2. CASE caller[c].d # d
    <3>1. delivery[Before(d)] = "success"
      BY <1>2, <1>5, <2>2 DEF InsertDelivery, TypeOK
    <3> QED BY <1>1, <1>5, <3>1 DEF InsertDelivery, TypeOK
  <2> QED BY <2>1, <2>2
<1>6. ASSUME NEW w \in Workers, Mark(w)
      PROVE  delivery'[Before(d)] = "success"
  <2>1. delivery[d] # "none"
    BY <1>6 DEF Mark, TypeOK
  <2>2. worker[w].d # Before(d)
    BY <1>2, <1>6, <2>1 DEF Mark, Posting
  <2> QED BY <1>1, <1>2, <1>6, <2>1, <2>2 DEF Mark, TypeOK
<1> QED BY <1>3, <1>4, <1>5, <1>6, DeliveryWriters

-----------------------------------------------------------------------------
(* A worker's step is one of these: it takes a job, goes on with the one it*)
(* has, or is through with it.                                             *)
Takes(w) ==
  /\ ~Busy(w)
  /\ worker'[w].d \in Deliveries
  /\ job[worker'[w].d].state = "waiting"
  /\ job' = [job EXCEPT ![worker'[w].d].state = "active"]
  /\ worker'[w].pc = "delivery"
Continues(w) ==
  /\ Busy(w)
  /\ worker'[w].d = worker[w].d
  /\ worker'[w].pc # "idle"
  /\ UNCHANGED job
Ends(w) ==
  /\ Busy(w)
  /\ worker'[w] = NoRun
  /\ \A d \in Deliveries : d # worker[w].d => job'[d] = job[d]

LEMMA WorkerSteps ==
  ASSUME TypeOK, NEW w \in Workers, Process(w)
  PROVE  /\ \A v \in Workers \ {w} : worker'[v] = worker[v]
         /\ Takes(w) \/ Continues(w) \/ Ends(w)
<1>1. worker \in [Workers -> RunType] /\ job \in [Deliveries -> JobType]
  BY DEF TypeOK, RunType, JobType
<1>2. \A v \in Workers \ {w} : worker'[v] = worker[v]
  BY <1>1 DEF Process, TakeJob, ReadDelivery, ReadEndpoint, PostAccepted, PostRefused,
     Answered, Mark, Settle, WorkerDies, JobFails, JobCompletes
<1>3. CASE \E d \in Deliveries : TakeJob(w, d)
  BY <1>1, <1>3 DEF TakeJob, Takes, Busy
<1>4. CASE ReadDelivery(w) \/ Settle(w)
  <2>1. Busy(w) /\ worker[w] \in Runs
    BY <1>4, RunParts DEF ReadDelivery, Settle, Busy
  <2>2. CASE JobFails(w) \/ JobCompletes(w)
    BY <1>1, <2>1, <2>2 DEF JobFails, JobCompletes, Ends
  <2>3. CASE worker' = [worker EXCEPT ![w].pc = "endpoint"] /\ UNCHANGED job
    BY <1>1, <2>1, <2>3 DEF Runs, Continues
  <2> QED BY <1>4, <2>2, <2>3 DEF ReadDelivery, Settle
<1>5. CASE ReadEndpoint(w) \/ PostAccepted(w) \/ PostRefused(w) \/ Mark(w)
  <2>1. Busy(w) /\ worker[w] \in Runs
    BY <1>5, RunParts DEF ReadEndpoint, PostAccepted, PostRefused, Mark, Busy
  <2>2. UNCHANGED job
    BY <1>5 DEF ReadEndpoint, PostAccepted, PostRefused, Mark
  <2>3. CASE ReadEndpoint(w)
    <3>1. CASE worker' = [worker EXCEPT ![w].pc = "post"]
      BY <1>1, <2>1, <2>2, <3>1 DEF Runs, Continues
    <3>2. CASE worker' = [worker EXCEPT ![w] =
                 [@ EXCEPT !.pc = "mark", !.outcome = "undeliverable"]]
      BY <1>1, <2>1, <2>2, <3>2 DEF Runs, Continues
    <3> QED BY <2>3, <3>1, <3>2 DEF ReadEndpoint
  <2>4. CASE PostAccepted(w) \/ PostRefused(w)
    BY <1>1, <2>1, <2>2, <2>4 DEF PostAccepted, PostRefused, Answered, Runs, Continues
  <2>5. CASE Mark(w)
    BY <1>1, <2>1, <2>2, <2>5 DEF Mark, Runs, Continues
  <2> QED BY <1>5, <2>3, <2>4, <2>5
<1>6. CASE WorkerDies(w)
  BY <1>1, <1>6 DEF WorkerDies, Busy, Ends
<1> QED BY <1>2, <1>3, <1>4, <1>5, <1>6 DEF Process

LEMMA HoldersNext ==
  ASSUME TypeOK, Holders, [Next]_vars
  PROVE  Holders'
<1>1. \A w \in Workers : Busy(w) => worker[w].d \in Deliveries
  BY RunParts DEF Busy
<1>2. CASE UNCHANGED <<job, worker>>
  BY <1>2 DEF Holders, Busy
<1>3. ASSUME NEW c \in Callers, AddJob(c)
      PROVE  Holders'
  <2>1. \A d \in Deliveries : job[d].state = "active" => job'[d] = job[d]
    BY <1>3 DEF AddJob, Added, NoJob, TypeOK
  <2> QED BY <1>1, <1>3, <2>1 DEF AddJob, Holders, Busy
<1>4. ASSUME NEW d \in Deliveries, Evict(d)
      PROVE  Holders'
  <2>1. \A x \in Deliveries : job[x].state = "active" => job'[x] = job[x]
    BY <1>4 DEF Evict, TypeOK
  <2> QED BY <1>1, <1>4, <2>1 DEF Evict, Holders, Busy
<1>5. ASSUME NEW w \in Workers, Process(w)
      PROVE  Holders'
  <2>1. \A v \in Workers \ {w} : worker'[v] = worker[v]
    BY <1>5, WorkerSteps
  <2>2. CASE Takes(w)
    <3> DEFINE d == worker'[w].d
    <3>1. \A v \in Workers \ {w} : Busy(v) => worker[v].d # d
      BY <2>2 DEF Holders, Takes
    <3>2. job'[d].state = "active" /\ \A x \in Deliveries \ {d} : job'[x] = job[x]
      BY <2>2 DEF TypeOK, Takes
    <3>3. \A v \in Workers \ {w} : Busy(v) => job'[worker[v].d] = job[worker[v].d]
      BY <1>1, <3>1, <3>2
    <3> QED BY <2>1, <3>1, <3>2, <3>3 DEF Holders, Busy
  <2>3. CASE Continues(w)
    BY <2>1, <2>3 DEF Holders, Busy, Continues
  <2>4. CASE Ends(w)
    BY <1>1, <2>1, <2>4 DEF Holders, Busy, NoRun, Ends
  <2> QED BY <1>5, <2>2, <2>3, <2>4, WorkerSteps
<1>6. \/ UNCHANGED <<job, worker>>
      \/ \E c \in Callers : AddJob(c)
      \/ \E d \in Deliveries : Evict(d)
      \/ \E w \in Workers : Process(w)
  BY DEF Next, vars, Owner, CreateEndpoint, UpdateEndpoint, DeleteEndpoint,
     EnqueueLoanStatusChange, Dispatch, InsertDelivery, InsertConflicts, FindExisting,
     EnsureFails, AddFails, CallerDies
<1> QED BY <1>2, <1>3, <1>4, <1>5, <1>6

(* A worker comes to work at a delivery by reading its row, and posts once.*)
Reads(w) ==
  /\ worker[w].pc = "delivery" /\ worker'[w].pc = "endpoint"
  /\ delivery[worker[w].d] \notin {"none", "success"}
  /\ UNCHANGED <<delivery, endpoint, accepted>>
Looks(w) ==
  /\ worker[w].pc = "endpoint" /\ worker'[w].pc \in {"post", "mark"}
  /\ UNCHANGED <<delivery, endpoint, accepted>>
Posts(w) ==
  /\ worker[w].pc = "post" /\ worker'[w].pc = "mark"
  /\ UNCHANGED <<delivery, endpoint>>

LEMMA WorkSteps ==
  ASSUME TypeOK, NEW w \in Workers, Process(w),
         worker'[w].pc \in {"endpoint", "post", "mark"}
  PROVE  /\ worker[w].d \in Deliveries /\ worker'[w].d = worker[w].d
         /\ Reads(w) \/ Looks(w) \/ Posts(w)
<1>1. worker \in [Workers -> RunType]
  BY DEF TypeOK, RunType
<1>2. Continues(w)
  <2>1. ~Takes(w)
    BY DEF Takes
  <2>2. ~Ends(w)
    BY DEF Ends, NoRun
  <2> QED BY <2>1, <2>2, WorkerSteps
<1>3. worker[w] \in Runs /\ worker[w].d \in Deliveries
  BY <1>2, RunParts DEF Continues, Busy
<1>4. ASSUME \E d \in Deliveries : TakeJob(w, d)
      PROVE  FALSE
  BY <1>2, <1>4 DEF TakeJob, Continues, Busy
<1>5. CASE ReadDelivery(w)
  <2>1. ASSUME JobFails(w) \/ JobCompletes(w)
        PROVE  FALSE
    <3>1. worker'[w] = NoRun
      BY <1>1, <2>1 DEF JobFails, JobCompletes
    <3> QED BY <3>1 DEF NoRun
  <2>2. /\ delivery[worker[w].d] \notin {"none", "success"}
        /\ worker' = [worker EXCEPT ![w].pc = "endpoint"]
    BY <1>5, <2>1 DEF ReadDelivery, Skipped
  <2>3. worker'[w].pc = "endpoint"
    BY <1>1, <1>3, <2>2 DEF Runs
  <2> QED BY <1>2, <1>3, <1>5, <2>2, <2>3 DEF ReadDelivery, Reads, Continues, counts
<1>6. CASE ReadEndpoint(w)
  <2>1. worker'[w].pc \in {"post", "mark"}
    BY <1>1, <1>3, <1>6 DEF ReadEndpoint, Runs
  <2> QED BY <1>2, <1>3, <1>6, <2>1 DEF ReadEndpoint, Looks, Continues, counts
<1>7. CASE PostAccepted(w) \/ PostRefused(w)
  <2>1. worker'[w].pc = "mark"
    BY <1>1, <1>3, <1>7 DEF PostAccepted, PostRefused, Answered, Runs
  <2> QED BY <1>2, <1>3, <1>7, <2>1 DEF PostAccepted, PostRefused, Posts, Continues
<1>8. ASSUME Mark(w)
      PROVE  FALSE
  <2>1. worker'[w].pc = "settle"
    BY <1>1, <1>3, <1>8 DEF Mark, Runs
  <2> QED BY <2>1
<1>9. ASSUME Settle(w) \/ WorkerDies(w)
      PROVE  FALSE
  <2>1. worker'[w] = NoRun
    BY <1>1, <1>9 DEF Settle, WorkerDies, JobFails, JobCompletes
  <2> QED BY <2>1 DEF NoRun
<1> QED BY <1>4, <1>5, <1>6, <1>7, <1>8, <1>9 DEF Process

LEMMA PostingNext ==
  ASSUME TypeOK, Holders, Posting, [Next]_vars
  PROVE  Posting'
<1> DEFINE Active(w) == worker[w].pc \in {"endpoint", "post", "mark"}
<1>1. \A w \in Workers : Active(w) => worker[w].d \in Deliveries
  BY RunParts
<1>2. ASSUME UNCHANGED worker,
             \A d \in Deliveries : delivery'[d] = "success" => delivery[d] = "success"
      PROVE  Posting'
  BY <1>1, <1>2 DEF Posting
<1>3. ASSUME NEW w \in Workers, Process(w), ~Mark(w)
      PROVE  Posting'
  <2>1. UNCHANGED delivery
    BY <1>3 DEF Process, TakeJob, ReadDelivery, ReadEndpoint, PostAccepted, PostRefused,
                Settle, WorkerDies
  <2>2. \A v \in Workers \ {w} : worker'[v] = worker[v]
    BY <1>3, WorkerSteps
  <2>3. ASSUME worker'[w].pc \in {"endpoint", "post", "mark"}
        PROVE  delivery[worker'[w].d] # "success"
    <3>1. worker'[w].d = worker[w].d /\ (Reads(w) \/ Looks(w) \/ Posts(w))
      BY <1>3, <2>3, WorkSteps
    <3> QED BY <3>1 DEF Posting, Reads, Looks, Posts
  <2> QED BY <2>1, <2>2, <2>3 DEF Posting
<1>4. ASSUME NEW w \in Workers, Mark(w)
      PROVE  Posting'
  <2>1. \A v \in Workers \ {w} : worker'[v] = worker[v]
    BY <1>4 DEF Mark, TypeOK
  <2>2. worker'[w].pc = "settle"
    <3>1. worker[w] \in Runs
      BY <1>4, RunParts DEF Mark
    <3> QED BY <1>4, <3>1 DEF Mark, TypeOK, Runs
  <2>3. \A v \in Workers \ {w} : Active(v) => worker[v].d # worker[w].d
    BY <1>4 DEF Holders, Busy, Mark
  <2>4. \A d \in Deliveries \ {worker[w].d} : delivery'[d] = delivery[d]
    BY <1>4 DEF Mark, TypeOK
  <2> QED BY <1>1, <2>1, <2>2, <2>3, <2>4 DEF Posting
<1>5. CASE UNCHANGED vars
  BY <1>2, <1>5 DEF vars
<1>6. CASE \E e \in Endpoints : Owner(e)
  BY <1>2, <1>6 DEF Owner, CreateEndpoint, UpdateEndpoint, DeleteEndpoint
<1>7. CASE \E c \in Callers, t \in Transitions : EnqueueLoanStatusChange(c, t)
  BY <1>2, <1>7 DEF EnqueueLoanStatusChange
<1>8. CASE \E c \in Callers : Dispatch(c)
  <2>1. UNCHANGED worker
    BY <1>8 DEF Dispatch, InsertDelivery, InsertConflicts, FindExisting, EnsureFails,
                AddJob, AddFails, CallerDies
  <2>2. \A d \in Deliveries : delivery'[d] = "success" => delivery[d] = "success"
    BY <1>8 DEF TypeOK, Dispatch, InsertDelivery, InsertConflicts, FindExisting,
                EnsureFails, AddJob, AddFails, CallerDies
  <2> QED BY <1>2, <2>1, <2>2
<1>9. CASE \E d \in Deliveries : Evict(d)
  BY <1>2, <1>9 DEF Evict
<1> QED BY <1>3, <1>4, <1>5, <1>6, <1>7, <1>8, <1>9 DEF Next

LEMMA IInvInit == Init => IInv
<1> SUFFICES ASSUME Init PROVE IInv
  OBVIOUS
<1>1. Holders /\ Posting
  BY DEF Init, Holders, Posting, Busy, NoRun
<1>2. Openings /\ OneOpenOccurrence
  BY DEF Init, Openings, OneOpenOccurrence, NoCall
<1> QED BY <1>1, <1>2, TypeInit DEF IInv

LEMMA IInvNext == IInv /\ [Next]_vars => IInv'
<1> SUFFICES ASSUME IInv, [Next]_vars PROVE IInv'
  OBVIOUS
<1>1. TypeOK'
  BY TypeNext DEF IInv
<1> QED BY <1>1, HoldersNext, PostingNext, OpeningsNext, OneOpenNext DEF IInv

(* An occurrence of a transition is opened only once all earlier ones were *)
(* delivered, however many announce it while others deliver, retry, change *)
(* and delete endpoints, fail and die (ensureDelivery, process).           *)
THEOREM OccurrencesOpenInTurn == Spec => []OneOpenOccurrence
<1>1. IInv => OneOpenOccurrence
  BY DEF IInv
<1> QED BY IInvInit, IInvNext, <1>1, PTL DEF Spec

(* No two workers ever deliver the same occurrence at a time.              *)
THEOREM OneWorkerPerDelivery == Spec => []Holders
<1>1. IInv => Holders
  BY DEF IInv
<1> QED BY IInvInit, IInvNext, <1>1, PTL DEF Spec

-----------------------------------------------------------------------------
(***************************************************************************)
(* Why a delivery is accepted once. What was accepted is marked so, or is  *)
(* about to be, or was deleted with its endpoint, and nobody who may post  *)
(* has a delivery that was accepted.                                       *)
(***************************************************************************)
Faultless == regime \cap {"db", "crash", "answer"} = {}
Marking(w, d) ==
  worker[w].pc = "mark" /\ worker[w].d = d /\ worker[w].outcome = "ok"
Gone(d) == delivery[d] = "none" /\ endpoint[d[1]] = "deleted"
Kept(d) == delivery[d] = "success" \/ Gone(d) \/ \E w \in Workers : Marking(w, d)

(* Who works at a delivery found its row; it goes only with its endpoint.  *)
Found ==
  \A w \in Workers :
    worker[w].pc \in {"endpoint", "post", "mark"}
    => delivery[worker[w].d] # "none" \/ Gone(worker[w].d)

Unposted ==
  \A w \in Workers :
    worker[w].pc \in {"endpoint", "post"} => accepted[worker[w].d] = 0
Acceptances == \A d \in Deliveries : accepted[d] = 0 \/ (accepted[d] = 1 /\ Kept(d))

AInv == IInv /\ Found /\ (Faultless => Unposted /\ Acceptances)

(* Others than a worker's own steps leave it and what was accepted alone.  *)
LEMMA OthersSteps ==
  ASSUME [Next]_vars
  PROVE  \/ UNCHANGED <<worker, accepted>>
         \/ \E v \in Workers : Process(v)
BY DEF Next, vars, counts, Owner, CreateEndpoint, UpdateEndpoint, DeleteEndpoint,
   EnqueueLoanStatusChange, Dispatch, InsertDelivery, InsertConflicts, FindExisting,
   EnsureFails, AddJob, AddFails, CallerDies, Evict

(* A row goes only with its endpoint, and then for good.                   *)
LEMMA RowStays ==
  ASSUME TypeOK, [Next]_vars, NEW d \in Deliveries
  PROVE  /\ delivery[d] # "none" => delivery'[d] # "none" \/ Gone(d)'
         /\ Gone(d) => Gone(d)'
<1>1. CASE UNCHANGED delivery
  BY <1>1, DeletedStays, DeliveryParts DEF Gone
<1>2. ASSUME NEW e \in Endpoints, DeleteEndpoint(e)
      PROVE  /\ delivery[d] # "none" => delivery'[d] # "none" \/ Gone(d)'
             /\ Gone(d) => Gone(d)'
  BY <1>2, DeliveryParts, DeletedStays DEF DeleteEndpoint, TypeOK, Gone
<1>3. ASSUME NEW c \in Callers, InsertDelivery(c)
      PROVE  /\ delivery[d] # "none" => delivery'[d] # "none" \/ Gone(d)'
             /\ Gone(d) => Gone(d)'
  BY <1>3 DEF InsertDelivery, TypeOK, Gone, Exists
<1>4. ASSUME NEW w \in Workers, Mark(w)
      PROVE  /\ delivery[d] # "none" => delivery'[d] # "none" \/ Gone(d)'
             /\ Gone(d) => Gone(d)'
  BY <1>4 DEF Mark, Marked, TypeOK, Gone
<1> QED BY <1>1, <1>2, <1>3, <1>4, DeliveryWriters

LEMMA FoundNext ==
  ASSUME TypeOK, Found, [Next]_vars
  PROVE  Found'
<1> DEFINE Left(d) == delivery'[d] = "none" /\ endpoint'[d[1]] = "deleted"
<1> SUFFICES ASSUME NEW w \in Workers,
                    worker'[w].pc \in {"endpoint", "post", "mark"}
             PROVE  delivery'[worker'[w].d] # "none" \/ Left(worker'[w].d)
  BY DEF Found, Gone
<1>1. CASE worker'[w] = worker[w]
  <2>1. worker[w].d \in Deliveries
    BY <1>1, RunParts
  <2>2. delivery[worker[w].d] # "none" \/ Gone(worker[w].d)
    BY <1>1 DEF Found
  <2>3. delivery'[worker[w].d] # "none" \/ Left(worker[w].d)
    BY <2>1, <2>2, RowStays DEF Gone
  <2> QED BY <1>1, <2>3
<1>2. CASE Process(w)
  <2>1. worker'[w].d = worker[w].d
    BY <1>2, WorkSteps
  <2>2. delivery'[worker[w].d] # "none" \/ Left(worker[w].d)
    BY <1>2, WorkSteps DEF Found, Reads, Looks, Posts, Gone
  <2> QED BY <2>1, <2>2
<1> QED BY <1>1, <1>2, OthersSteps, WorkerSteps

(* Without faults a post is either accepted or refused, and a mark is made.*)
LEMMA PostSteps ==
  ASSUME TypeOK, Faultless, NEW w \in Workers, Process(w)
  PROVE  /\ UNCHANGED endpoint
         /\ \/ UNCHANGED accepted
            \/ /\ worker[w].pc = "post"
               /\ accepted' = [accepted EXCEPT ![worker[w].d] = @ + 1]
               /\ worker'[w].pc = "mark" /\ worker'[w].d = worker[w].d
               /\ worker'[w].outcome = "ok"
<1>1. CASE PostAccepted(w)
  <2>1. worker[w] \in Runs /\ worker \in [Workers -> RunType]
    BY <1>1, RunParts DEF PostAccepted, TypeOK, RunType
  <2>2. worker'[w].pc = "mark" /\ worker'[w].d = worker[w].d
        /\ worker'[w].outcome = "ok"
    BY <1>1, <2>1 DEF PostAccepted, Answered, Runs
  <2> QED BY <1>1, <2>2 DEF PostAccepted
<1>2. CASE ~PostAccepted(w)
  BY <1>2 DEF Process, TakeJob, ReadDelivery, ReadEndpoint, PostRefused, Mark, Settle,
              WorkerDies, Faultless, counts
<1> QED BY <1>1, <1>2

(* What is kept stays kept: a worker that is to mark it does.              *)
LEMMA KeptStays ==
  ASSUME TypeOK, Holders, Posting, Found, Faultless, [Next]_vars,
         NEW d \in Deliveries, Kept(d)
  PROVE  Kept(d)'
<1>1. CASE delivery[d] = "success"
  <2>1. delivery'[d] = "success" \/ endpoint'[d[1]] = "deleted"
    BY <1>1, AcceptedStays
  <2>2. delivery'[d] # "none" \/ Gone(d)'
    BY <1>1, RowStays
  <2>3. delivery'[d] = "success" \/ delivery'[d] = "none"
    <3>1. CASE \E e \in Endpoints : DeleteEndpoint(e)
      BY <1>1, <3>1 DEF DeleteEndpoint
    <3>2. ASSUME NEW c \in Callers, InsertDelivery(c)
          PROVE  delivery'[d] = "success"
      BY <1>1, <3>2 DEF InsertDelivery, TypeOK
    <3>3. ASSUME NEW w \in Workers, Mark(w)
          PROVE  delivery'[d] = "success"
      BY <1>1, <3>3 DEF Mark, Posting, TypeOK
    <3> QED BY <1>1, <3>1, <3>2, <3>3, DeliveryWriters
  <2> QED BY <2>2, <2>3 DEF Kept
<1>2. CASE Gone(d)
  BY <1>2, RowStays DEF Kept
<1>3. ASSUME NEW w \in Workers, Marking(w, d)
      PROVE  Kept(d)'
  <2>1. CASE worker'[w] = worker[w]
    BY <1>3, <2>1 DEF Kept, Marking
  <2>2. CASE Process(w)
    <3>1. Mark(w)
      BY <1>3, <2>2 DEF Marking, Process, TakeJob, ReadDelivery, ReadEndpoint,
         PostAccepted, PostRefused, Settle, WorkerDies, Faultless
    <3>2. CASE delivery[d] = "none"
      BY <1>3, <3>1, <3>2, RowStays DEF Found, Marking, Kept
    <3>3. CASE delivery[d] # "none"
      <4>1. delivery'[d] = "success"
        BY <1>3, <3>1, <3>3 DEF Mark, Marked, Marking, Faultless, TypeOK
      <4> QED BY <4>1 DEF Kept
    <3> QED BY <3>2, <3>3
  <2> QED BY <2>1, <2>2, OthersSteps, WorkerSteps
<1> QED BY <1>1, <1>2, <1>3 DEF Kept

LEMMA AcceptancesNext ==
  ASSUME IInv, Found, Faultless, Unposted, Acceptances, [Next]_vars
  PROVE  Acceptances'
<1> USE DEF IInv
<1> SUFFICES ASSUME NEW d \in Deliveries
             PROVE  accepted'[d] = 0 \/ (accepted'[d] = 1 /\ Kept(d)')
  BY DEF Acceptances
<1>1. CASE accepted'[d] = accepted[d]
  BY <1>1, KeptStays DEF Acceptances
<1>2. CASE accepted'[d] # accepted[d]
  <2>1. PICK w \in Workers : Process(w)
    BY <1>2, OthersSteps
  <2>2. /\ worker[w].pc = "post"
        /\ accepted' = [accepted EXCEPT ![worker[w].d] = @ + 1]
        /\ worker'[w].pc = "mark" /\ worker'[w].d = worker[w].d
        /\ worker'[w].outcome = "ok"
    BY <1>2, <2>1, PostSteps
  <2>3. worker[w].d = d /\ accepted[d] = 0
    BY <1>2, <2>2 DEF TypeOK, Unposted
  <2>4. accepted'[d] = 1
    BY <2>2, <2>3 DEF TypeOK
  <2>5. Kept(d)'
    BY <2>2, <2>3 DEF Kept, Marking
  <2> QED BY <2>4, <2>5
<1> QED BY <1>1, <1>2

LEMMA UnpostedNext ==
  ASSUME IInv, Found, Faultless, Unposted, Acceptances, [Next]_vars
  PROVE  Unposted'
<1> USE DEF IInv
<1> SUFFICES ASSUME NEW w \in Workers, worker'[w].pc \in {"endpoint", "post"}
             PROVE  accepted'[worker'[w].d] = 0
  BY DEF Unposted
<1>1. CASE worker'[w] = worker[w]
  <2>1. worker[w].d \in Deliveries /\ accepted[worker[w].d] = 0
    BY <1>1, RunParts DEF Unposted
  <2>2. CASE UNCHANGED accepted
    BY <1>1, <2>1, <2>2
  <2>3. ASSUME NEW v \in Workers, Process(v), ~UNCHANGED accepted
        PROVE  accepted'[worker[w].d] = 0
    <3>1. /\ worker[v].pc = "post" /\ worker'[v].pc = "mark"
          /\ accepted' = [accepted EXCEPT ![worker[v].d] = @ + 1]
      BY <2>3, PostSteps
    <3>2. v # w
      BY <3>1
    <3>3. worker[v].d # worker[w].d
      BY <1>1, <3>1, <3>2 DEF Holders, Busy
    <3> QED BY <2>1, <3>1, <3>3 DEF TypeOK
  <2> QED BY <1>1, <2>2, <2>3, OthersSteps
<1>2. CASE Process(w)
  <2>1. worker[w].d \in Deliveries /\ worker'[w].d = worker[w].d
    BY <1>2, WorkSteps
  <2>2. CASE Reads(w)
    <3> DEFINE d == worker[w].d
    <3>1. ~\E v \in Workers : Marking(v, d)
      <4> SUFFICES ASSUME NEW v \in Workers, Marking(v, d) PROVE FALSE
        OBVIOUS
      <4>1. v # w /\ Busy(v) /\ Busy(w) /\ worker[v].d = worker[w].d
        BY <2>2 DEF Marking, Reads, Busy
      <4> QED BY <4>1 DEF Holders
    <3>2. ~Kept(d)
      BY <2>2, <3>1 DEF Kept, Gone, Reads
    <3>3. accepted[d] = 0
      BY <2>1, <3>2 DEF Acceptances
    <3> QED BY <2>1, <2>2, <3>3 DEF Reads
  <2>3. CASE Looks(w)
    BY <2>1, <2>3 DEF Looks, Unposted
  <2> QED BY <1>2, <2>2, <2>3, WorkSteps DEF Posts
<1> QED BY <1>1, <1>2, OthersSteps, WorkerSteps

LEMMA AInvInit == Init => AInv
<1> SUFFICES ASSUME Init PROVE AInv
  OBVIOUS
<1>1. Found /\ Unposted /\ Acceptances
  BY DEF Init, Found, Unposted, Acceptances, NoRun
<1> QED BY <1>1, IInvInit DEF AInv

LEMMA AInvNext == AInv /\ [Next]_vars => AInv'
<1> SUFFICES ASSUME AInv, [Next]_vars PROVE AInv'
  OBVIOUS
<1>1. IInv' /\ Found'
  BY IInvNext, FoundNext DEF AInv, IInv
<1>2. regime' = regime
  BY DEF Next, vars, Owner, CreateEndpoint, UpdateEndpoint, DeleteEndpoint,
     EnqueueLoanStatusChange, Dispatch, InsertDelivery, InsertConflicts, FindExisting,
     EnsureFails, AddJob, AddFails, CallerDies, Evict, Process, TakeJob, ReadDelivery,
     ReadEndpoint, PostAccepted, PostRefused, Mark, Settle, WorkerDies
<1>3. Faultless' => Faultless
  BY <1>2 DEF Faultless
<1>4. ASSUME Faultless PROVE Unposted' /\ Acceptances'
  BY <1>4, UnpostedNext, AcceptancesNext DEF AInv
<1> QED BY <1>1, <1>3, <1>4 DEF AInv

(* Where no call of the database fails, nothing dies and no answer is lost,*)
(* no delivery is accepted twice, however often a job is tried and however *)
(* often its transition is announced again (process, enqueue...).          *)
THEOREM DeliveredOnce == Spec => []AcceptedOnce
<1>1. AInv => AcceptedOnce
  BY DEF AInv, IInv, TypeOK, Faultless, Acceptances, AcceptedOnce
<1> QED BY AInvInit, AInvNext, <1>1, PTL DEF Spec
=============================================================================
