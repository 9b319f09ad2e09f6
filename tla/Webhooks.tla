------------------------------ MODULE Webhooks ------------------------------
(***************************************************************************)
(* Outbound webhooks: WebhookDispatchService turns a status change of a    *)
(* loan into a row of webhook_deliveries and a job for each endpoint of    *)
(* the merchant, and WebhookDeliveryProcessor posts a row until it is      *)
(* accepted or its attempts are used up.  The queue is BullMQ (external),  *)
(* as src/ uses it: an id names at most one job, a finished job keeps its  *)
(* id until newer ones push it out, a failing job is tried again and a job *)
(* whose worker died is handed to another one once.                        *)
(*                                                                         *)
(* A delivery <<e, t, n>> is the n-th occurrence of transition t of a loan *)
(* for endpoint e, which is what its event_id spells out.                  *)
(***************************************************************************)
EXTENDS Naturals

CONSTANTS
  Endpoints,      \* webhook endpoints of one merchant
  Transitions,    \* status changes <loan, previous, next> of its loans
  Callers,        \* requests and jobs that announce a status change
  Workers,        \* delivery workers
  MaxOccurrences, \* occurrences tracked for one transition, 1000 in the code
  MaxAttempts,    \* attempts of a job, 5 in the code
  MaxDispatches,  \* bound: [Regimes -> Nat], status changes announced
  MaxRefusals,    \* bound: posts that are refused or not answered
  Regimes         \* sets of circumstances, one of which a behaviour has

(* "db", "queue": a call fails; "crash": a process dies; "evict": a        *)
(* finished job is dropped; "owner": endpoints come, change and go;        *)
(* "answer": an answer is lost; "one": only one endpoint is registered.    *)
Circumstances == {"db", "queue", "crash", "evict", "owner", "answer", "one"}

ASSUME ConstantsAssumption ==
  /\ MaxOccurrences \in Nat \ {0}
  /\ MaxAttempts \in Nat \ {0}
  /\ MaxRefusals \in Nat
  /\ Regimes \subseteq SUBSET Circumstances
  /\ MaxDispatches \in [Regimes -> Nat]

Deliveries == Endpoints \X Transitions \X (0 .. MaxOccurrences - 1)

VARIABLES
  regime,     \* what may happen in this behaviour; it never changes
  endpoint,   \* [Endpoints -> ...]: webhook_endpoints: inactive, or active
              \*   and silent unless its events name loan.status_changed
  delivery,   \* [Deliveries -> ...]: webhook_deliveries.status, or "none"
  job,        \* [Deliveries -> ...]: the job with the id of the delivery
  caller,     \* [Callers -> ...]: a run of enqueueLoanStatusChange
  worker,     \* [Workers -> ...]: a run of process
  dispatches, \* history: status changes announced
  refusals,   \* history: posts refused or not answered
  accepted    \* history: [Deliveries -> Nat], times the endpoint accepted it

counts == <<dispatches, refusals, accepted>>
vars == <<regime, endpoint, delivery, job, caller, worker, counts>>

NoJob == [state |-> "none", made |-> 0, stalled |-> FALSE]
Fresh == [NoJob EXCEPT !.state = "waiting"]

(* Callers at work on an endpoint, and the endpoints they have left.       *)
Calls ==
  [pc : {"insert", "find", "add"}, d : Deliveries, todo : SUBSET Endpoints]
NoCall == [pc |-> "idle"]
Runs == [pc : {"delivery", "endpoint", "post", "mark", "settle"},
         d : Deliveries,
         outcome : {"none", "ok", "refused", "undeliverable"}]
NoRun == [pc |-> "idle"]

TypeOK ==
  /\ regime \in Regimes
  /\ endpoint \in [Endpoints -> {"none", "active", "silent", "inactive", "deleted"}]
  /\ delivery \in [Deliveries -> {"none", "pending", "failed", "success"}]
  /\ job \in [Deliveries ->
       [state : {"none", "waiting", "active", "completed", "failed"},
        made : Nat, stalled : BOOLEAN]]
  /\ caller \in [Callers -> Calls \cup {NoCall}]
  /\ worker \in [Workers -> Runs \cup {NoRun}]
  /\ dispatches \in 0 .. MaxDispatches[regime]
  /\ refusals \in 0 .. MaxRefusals
  /\ accepted \in [Deliveries -> Nat]

Init ==
  /\ regime \in Regimes
  /\ endpoint = [e \in Endpoints |->
       CASE "one" \in regime /\ e # CHOOSE one \in Endpoints : TRUE -> "deleted"
         [] "owner" \in regime -> "none"
         [] OTHER -> "active"]
  /\ delivery = [d \in Deliveries |-> "none"]
  /\ job = [d \in Deliveries |-> NoJob]
  /\ caller = [c \in Callers |-> NoCall]
  /\ worker = [w \in Workers |-> NoRun]
  /\ dispatches = 0
  /\ refusals = 0
  /\ accepted = [d \in Deliveries |-> 0]

-----------------------------------------------------------------------------
(* The owner's and the administrator's endpoints (webhooks.service). An    *)
(* update sets what it names of the row.                                   *)

Exists(e) == endpoint[e] \notin {"none", "deleted"}

CreateEndpoint(e) ==
  /\ "owner" \in regime
  /\ endpoint[e] = "none"
  /\ endpoint' = [endpoint EXCEPT ![e] = "active"]
  /\ UNCHANGED <<regime, delivery, job, caller, worker, counts>>

UpdateEndpoint(e, to) ==
  /\ "owner" \in regime
  /\ Exists(e)
  /\ endpoint' = [endpoint EXCEPT ![e] = to]
  /\ UNCHANGED <<regime, delivery, job, caller, worker, counts>>

(* The deliveries of an endpoint are deleted with it.                      *)
DeleteEndpoint(e) ==
  /\ "owner" \in regime
  /\ Exists(e)
  /\ endpoint' = [endpoint EXCEPT ![e] = "deleted"]
  /\ delivery' = [d \in Deliveries |->
                    IF d[1] = e THEN "none" ELSE delivery[d]]
  /\ UNCHANGED <<regime, job, caller, worker, counts>>

-----------------------------------------------------------------------------
(* enqueueLoanStatusChange: the active endpoints are read, if they can be, *)
(* then each that wants the event is given a delivery and a job.           *)

(* Caller c goes on with one of the endpoints it has left, or returns.     *)
GoesOnWith(c, t, todo) ==
  IF todo = {} THEN caller' = [caller EXCEPT ![c] = NoCall]
  ELSE \E e \in todo : caller' = [caller EXCEPT ![c] =
         [pc |-> "insert", d |-> <<e, t, 0>>, todo |-> todo \ {e}]]
NextEndpoint(c) == GoesOnWith(c, caller[c].d[2], caller[c].todo)

EnqueueLoanStatusChange(c, t) ==
  /\ caller[c].pc = "idle"
  /\ dispatches < MaxDispatches[regime]
  /\ dispatches' = dispatches + 1
  /\ \/ GoesOnWith(c, t, {e \in Endpoints : endpoint[e] = "active"})
     \/ "db" \in regime /\ GoesOnWith(c, t, {})
  /\ UNCHANGED <<regime, endpoint, delivery, job, worker, refusals, accepted>>

(* ensureDelivery inserts a pending row ...                                *)
InsertDelivery(c) ==
  LET d == caller[c].d IN
  /\ caller[c].pc = "insert"
  /\ delivery[d] = "none"
  /\ Exists(d[1])
  /\ delivery' = [delivery EXCEPT ![d] = "pending"]
  /\ caller' = [caller EXCEPT ![c].pc = "add"]
  /\ UNCHANGED <<regime, endpoint, job, worker, counts>>

(* ... or looks at the one there is.                                       *)
InsertConflicts(c) ==
  /\ caller[c].pc = "insert"
  /\ delivery[caller[c].d] # "none"
  /\ caller' = [caller EXCEPT ![c].pc = "find"]
  /\ UNCHANGED <<regime, endpoint, delivery, job, worker, counts>>

(* An occurrence that was delivered is followed by the next one.           *)
BugNotPending(status) == status # "pending"
Delivered(status) == status = "success"

FindExisting(c) ==
  LET d == caller[c].d IN
  /\ caller[c].pc = "find"
  /\ delivery[d] # "none"
  /\ \/ /\ ~Delivered(delivery[d])
        /\ caller' = [caller EXCEPT ![c].pc = "add"]
     \/ /\ Delivered(delivery[d])
        /\ d[3] + 1 < MaxOccurrences
        /\ caller' = [caller EXCEPT ![c] =
             [@ EXCEPT !.pc = "insert", !.d = <<d[1], d[2], d[3] + 1>>]]
     \/ /\ Delivered(delivery[d])
        /\ d[3] + 1 = MaxOccurrences
        /\ NextEndpoint(c)
  /\ UNCHANGED <<regime, endpoint, delivery, job, worker, counts>>

(* A failed call, or a deleted endpoint, leaves the endpoint without one.  *)
EnsureFails(c) ==
  LET d == caller[c].d IN
  /\ \/ caller[c].pc = "insert" /\ ~Exists(d[1])
     \/ caller[c].pc = "find" /\ delivery[d] = "none"
     \/ caller[c].pc \in {"insert", "find"} /\ "db" \in regime
  /\ NextEndpoint(c)
  /\ UNCHANGED <<regime, endpoint, delivery, job, worker, counts>>

(* queue.add: an id that names a job, finished ones included, is ignored.  *)
BugAlwaysFresh(j) == Fresh
Added(j) == IF j = NoJob THEN Fresh ELSE j

AddJob(c) ==
  /\ caller[c].pc = "add"
  /\ job' = [job EXCEPT ![caller[c].d] = Added(@)]
  /\ NextEndpoint(c)
  /\ UNCHANGED <<regime, endpoint, delivery, worker, counts>>

(* An add that throws abandons the endpoints that are left.                *)
AddFails(c) ==
  /\ "queue" \in regime
  /\ caller[c].pc = "add"
  /\ caller' = [caller EXCEPT ![c] = NoCall]
  /\ UNCHANGED <<regime, endpoint, delivery, job, worker, counts>>

CallerDies(c) ==
  /\ "crash" \in regime
  /\ caller[c].pc # "idle"
  /\ caller' = [caller EXCEPT ![c] = NoCall]
  /\ UNCHANGED <<regime, endpoint, delivery, job, worker, counts>>

-----------------------------------------------------------------------------
(* The queue (external).                                                   *)

TakeJob(w, d) ==
  /\ worker[w].pc = "idle"
  /\ job[d].state = "waiting"
  /\ job' = [job EXCEPT ![d].state = "active"]
  /\ worker' = [worker EXCEPT ![w] =
       [pc |-> "delivery", d |-> d, outcome |-> "none"]]
  /\ UNCHANGED <<regime, endpoint, delivery, caller, counts>>

Evict(d) ==
  /\ "evict" \in regime
  /\ job[d].state \in {"completed", "failed"}
  /\ job' = [job EXCEPT ![d] = NoJob]
  /\ UNCHANGED <<regime, endpoint, delivery, caller, worker, counts>>

(* A job that fails is tried again until its attempts are used up.         *)
BugOneFewer(j) ==
  [j EXCEPT !.made = @ + 1,
            !.state = IF j.made + 2 < MaxAttempts THEN "waiting" ELSE "failed"]
AfterFailure(j) ==
  [j EXCEPT !.made = @ + 1,
            !.state = IF j.made + 1 < MaxAttempts THEN "waiting" ELSE "failed"]

JobCompletes(w) ==
  /\ job' = [job EXCEPT ![worker[w].d].state = "completed"]
  /\ worker' = [worker EXCEPT ![w] = NoRun]

JobFails(w) ==
  /\ job' = [job EXCEPT ![worker[w].d] = AfterFailure(@)]
  /\ worker' = [worker EXCEPT ![w] = NoRun]

(* The job of a dead worker stalls: it is handed out again, once.          *)
Stalled(j) ==
  [j EXCEPT !.stalled = TRUE,
            !.state = IF j.stalled THEN "failed" ELSE "waiting"]

WorkerDies(w) ==
  /\ "crash" \in regime
  /\ worker[w].pc # "idle"
  /\ job' = [job EXCEPT ![worker[w].d] = Stalled(@)]
  /\ worker' = [worker EXCEPT ![w] = NoRun]
  /\ UNCHANGED <<regime, endpoint, delivery, caller, counts>>

-----------------------------------------------------------------------------
(* process of the delivery worker.                                         *)

(* A delivery that was accepted is not posted again.                       *)
Skipped(status) == status = "success"

ReadDelivery(w) ==
  LET d == worker[w].d IN
  /\ worker[w].pc = "delivery"
  /\ \/ delivery[d] = "none" /\ JobFails(w)
     \/ "db" \in regime /\ JobFails(w)
     \/ Skipped(delivery[d]) /\ JobCompletes(w)
     \/ /\ delivery[d] # "none"
        /\ ~Skipped(delivery[d])
        /\ worker' = [worker EXCEPT ![w].pc = "endpoint"]
        /\ UNCHANGED job
  /\ UNCHANGED <<regime, endpoint, delivery, caller, counts>>

(* An endpoint that is inactive, missing or cannot be read is given up.    *)
ReadEndpoint(w) ==
  /\ worker[w].pc = "endpoint"
  /\ \/ /\ endpoint[worker[w].d[1]] \in {"active", "silent"}
        /\ worker' = [worker EXCEPT ![w].pc = "post"]
     \/ /\ endpoint[worker[w].d[1]] \in {"inactive", "deleted"} \/ "db" \in regime
        /\ worker' = [worker EXCEPT ![w] =
             [@ EXCEPT !.pc = "mark", !.outcome = "undeliverable"]]
  /\ UNCHANGED <<regime, endpoint, delivery, job, caller, counts>>

Answered(w, outcome) ==
  worker' = [worker EXCEPT ![w] =
    [@ EXCEPT !.pc = "mark", !.outcome = outcome]]

PostAccepted(w) ==
  /\ worker[w].pc = "post"
  /\ accepted' = [accepted EXCEPT ![worker[w].d] = @ + 1]
  /\ Answered(w, "ok")
  /\ UNCHANGED <<regime, endpoint, delivery, job, caller, dispatches,
                 refusals>>

(* Another status than 2xx, a network error, or an answer that is lost.    *)
PostRefused(w) ==
  /\ worker[w].pc = "post"
  /\ refusals < MaxRefusals
  /\ refusals' = refusals + 1
  /\ \/ UNCHANGED accepted
     \/ /\ "answer" \in regime
        /\ accepted' = [accepted EXCEPT ![worker[w].d] = @ + 1]
  /\ Answered(w, "refused")
  /\ UNCHANGED <<regime, endpoint, delivery, job, caller, dispatches>>

(* mark: the row takes the outcome; nobody looks whether the call failed.  *)
BugRawOutcome(outcome) == outcome
Marked(outcome) == IF outcome = "ok" THEN "success" ELSE "failed"

Mark(w) ==
  LET d == worker[w].d IN
  /\ worker[w].pc = "mark"
  /\ \/ delivery' = [delivery EXCEPT ![d] =
          IF @ = "none" THEN @ ELSE Marked(worker[w].outcome)]
     \/ "db" \in regime /\ UNCHANGED delivery
  /\ worker' = [worker EXCEPT ![w].pc = "settle"]
  /\ UNCHANGED <<regime, endpoint, job, caller, counts>>

(* The processor returns, or throws and leaves the rest to the queue.      *)
Settle(w) ==
  /\ worker[w].pc = "settle"
  /\ IF worker[w].outcome = "refused" THEN JobFails(w) ELSE JobCompletes(w)
  /\ UNCHANGED <<regime, endpoint, delivery, caller, counts>>

-----------------------------------------------------------------------------
Owner(e) ==
  \/ CreateEndpoint(e)
  \/ \E to \in {"active", "silent", "inactive"} : UpdateEndpoint(e, to)
  \/ DeleteEndpoint(e)
Dispatch(c) ==
  \/ InsertDelivery(c)
  \/ InsertConflicts(c)
  \/ FindExisting(c)
  \/ EnsureFails(c)
  \/ AddJob(c)
  \/ AddFails(c)
  \/ CallerDies(c)
Process(w) ==
  \/ \E d \in Deliveries : TakeJob(w, d)
  \/ ReadDelivery(w)
  \/ ReadEndpoint(w)
  \/ PostAccepted(w)
  \/ PostRefused(w)
  \/ Mark(w)
  \/ Settle(w)
  \/ WorkerDies(w)

Next ==
  \/ \E e \in Endpoints : Owner(e)
  \/ \E c \in Callers, t \in Transitions : EnqueueLoanStatusChange(c, t)
  \/ \E c \in Callers : Dispatch(c)
  \/ \E d \in Deliveries : Evict(d)
  \/ \E w \in Workers : Process(w)

Spec == Init /\ [][Next]_vars

(***************************************************************************)
(* Requests and workers run on: each of their calls returns, and the queue *)
(* hands a waiting job to a worker in the end (SF: others may come first). *)
(***************************************************************************)
Fairness ==
  /\ \A c \in Callers : WF_vars(Dispatch(c))
  /\ \A w \in Workers : WF_vars(Process(w))
  /\ \A d \in Deliveries : SF_vars(\E w \in Workers : TakeJob(w, d))

FairSpec == Spec /\ Fairness

-----------------------------------------------------------------------------
(* An occurrence is opened only when every earlier one of its transition   *)
(* has been delivered: a repeated announcement never opens a second one    *)
(* beside a delivery that is pending or failed.                            *)
OneOpenOccurrence ==
  \A d \in Deliveries :
    (delivery[d] # "none" /\ d[3] > 0)
    => delivery[<<d[1], d[2], d[3] - 1>>] = "success"

(* As long as no process dies, no answer is lost and every mark is made, an*)
(* endpoint accepts a delivery at most once, however often it is announced.*)
AcceptedOnce ==
  regime \cap {"db", "crash", "answer"} = {} =>
    \A d \in Deliveries : accepted[d] <= 1

(* An endpoint that stays as it is and refuses fewer posts than a job has  *)
(* attempts gets the delivery in the end.                                  *)
RefusalsAreOutlived ==
  \A d \in Deliveries :
    (regime = {} /\ delivery[d] = "pending") ~> delivery[d] = "success"
=============================================================================
