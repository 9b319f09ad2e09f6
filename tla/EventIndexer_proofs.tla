------------------------- MODULE EventIndexer_proofs -------------------------
(***************************************************************************)
(* What the index owes the chain, for any events, any loans and wallets,   *)
(* any number of instances and any circumstances.                          *)
(***************************************************************************)
EXTENDS EventIndexer, FiniteSetTheorems, Induction

-----------------------------------------------------------------------------
(* The feed.                                                               *)

LEMMA FeedTypes ==
  ASSUME setting \in Settings
  PROVE  /\ Len(setting.events) \in Nat
         /\ setting.limit \in Nat \ {0}
         /\ \A e \in Events :
              /\ e \in Nat \ {0}
              /\ LedgerOf(e) \in Nat \ {0}
              /\ Type(e) \in EventTypes
              /\ SubjectOf(e) \in Subjects
              /\ Value(e) \in Nat
<1> DEFINE Rows == [ledger : Nat \ {0}, type : EventTypes, subject : Subjects, value : Nat]
<1>1. setting.events \in Seq(Rows) /\ setting.limit \in Nat \ {0}
  BY ConstantsAssumption DEF Setting
<1> HIDE DEF Rows
<1>2. /\ Len(setting.events) \in Nat
      /\ \A e \in 1 .. Len(setting.events) : setting.events[e] \in Rows
  BY <1>1
<1> QED BY <1>1, <1>2 DEF Rows, Events, LedgerOf, Type, SubjectOf, Value

LEMMA ChainOrder ==
  ASSUME setting \in Settings, NEW d \in Events, NEW e \in Events
  PROVE  /\ d <= e => LedgerOf(d) <= LedgerOf(e)
         /\ (/\ Type(d) = "LOAN_CREATED"
             /\ Type(e) \in {"LOAN_REPAID", "LOAN_DEFAULTED"}
             /\ SubjectOf(d) = SubjectOf(e)) => d < e
<1>1. InOrder(setting.events)
  BY ConstantsAssumption
<1> QED BY <1>1 DEF InOrder, Events, LedgerOf, Type, SubjectOf

-----------------------------------------------------------------------------
(* What was repaid of a loan is a sum.                                     *)

Repaid(feed, paid, s) ==
  [n \in Nat |-> IF n \in paid /\ feed[n].subject = s THEN feed[n].value ELSE 0]

LEMMA PaidInIsSum ==
  ASSUME NEW feed, Len(feed) \in Nat, NEW paid, NEW s
  PROVE  \E f : /\ IsSum(f, Repaid(feed, paid, s), Len(feed))
                /\ PaidIn(feed, paid, s) = f[Len(feed)]
<1> DEFINE D(f) == [n \in 0 .. Len(feed) |->
             IF n = 0 THEN 0
             ELSE f[n - 1] +
                  IF n \in paid /\ feed[n].subject = s THEN feed[n].value ELSE 0]
<1>1. PICK f : IsSum(f, Repaid(feed, paid, s), Len(feed))
  BY SumExists
<1>2. \A h : IsSum(h, Repaid(feed, paid, s), Len(feed)) <=> h = D(h)
  <2>1. \A n \in 0 .. Len(feed) : Repaid(feed, paid, s)[n] =
          IF n \in paid /\ feed[n].subject = s THEN feed[n].value ELSE 0
    BY DEF Repaid
  <2> QED BY <2>1 DEF IsSum
<1> DEFINE sum == CHOOSE h : h = D(h)
<1>3. PaidIn(feed, paid, s) = sum[Len(feed)]
  BY DEF PaidIn
<1> HIDE DEF D
<1>4. sum = D(sum)
  BY <1>1, <1>2
<1> HIDE DEF sum
<1>5. IsSum(sum, Repaid(feed, paid, s), Len(feed))
  BY <1>2, <1>4
<1> QED BY <1>3, <1>5

LEMMA PaidForType ==
  ASSUME setting \in Settings, NEW s
  PROVE  PaidFor(s) \in Nat
<1> DEFINE feed == setting.events
<1>1. PICK f : /\ IsSum(f, Repaid(feed, payments, s), Len(feed))
               /\ PaidIn(feed, payments, s) = f[Len(feed)]
  BY FeedTypes, PaidInIsSum
<1>2. \A n \in 1 .. Len(feed) : Repaid(feed, payments, s)[n] \in Nat
  BY FeedTypes DEF Repaid, Events, Value
<1> QED BY <1>1, <1>2, FeedTypes, SumType DEF PaidFor

(* Payments of other loans do not count.                                   *)
LEMMA PaidForOthers ==
  ASSUME setting \in Settings, UNCHANGED setting, NEW s,
         \A e \in Events : SubjectOf(e) = s => (e \in payments <=> e \in payments')
  PROVE  PaidFor(s)' = PaidFor(s)
<1> DEFINE feed == setting.events
           g == Repaid(feed, payments, s)
           h == Repaid(feed, payments', s)
<1>1. PICK f : IsSum(f, g, Len(feed)) /\ PaidIn(feed, payments, s) = f[Len(feed)]
  BY FeedTypes, PaidInIsSum
<1>2. PICK e : IsSum(e, h, Len(feed)) /\ PaidIn(feed, payments', s) = e[Len(feed)]
  BY FeedTypes, PaidInIsSum
<1>3. \A n \in 1 .. Len(feed) : g[n] = h[n]
  BY DEF Repaid, Events, SubjectOf
<1> HIDE DEF g, h
<1>4. f[Len(feed)] = e[Len(feed)]
  BY <1>1, <1>2, <1>3, FeedTypes, SumSame
<1> QED BY <1>1, <1>2, <1>4 DEF PaidFor

LEMMA NothingPaid ==
  ASSUME setting \in Settings, NEW s, \A e \in Events : SubjectOf(e) = s => e \notin payments
  PROVE  PaidFor(s) = 0
<1> DEFINE feed == setting.events
           g == Repaid(feed, payments, s)
<1>1. PICK f : IsSum(f, g, Len(feed)) /\ PaidIn(feed, payments, s) = f[Len(feed)]
  BY FeedTypes, PaidInIsSum
<1>2. \A n \in 1 .. Len(feed) : g[n] = 0
  BY DEF Repaid, Events, SubjectOf
<1> HIDE DEF g
<1> QED BY <1>1, <1>2, FeedTypes, SumOfNothing DEF PaidFor

-----------------------------------------------------------------------------
(* An answer of the RPC server.                                            *)

(* It holds all earlier events from the asked ledger on of those it holds. *)
LEMMA AnswerPrefix ==
  ASSUME setting \in Settings, ledger \in Nat, NEW first \in Nat,
         NEW x \in Answer(first), NEW d \in Events, LedgerOf(d) >= first, d <= x
  PROVE  d \in Answer(first)
<1> DEFINE Before(y) == {c \in Emitted : LedgerOf(c) >= first /\ c < y}
<1>1. /\ x \in Events /\ LedgerOf(x) <= ledger
      /\ Cardinality(Before(x)) < setting.limit
  BY DEF Answer, Emitted
<1>2. d \in Emitted
  BY <1>1, ChainOrder, FeedTypes DEF Emitted
<1>3. Before(d) \subseteq Before(x)
  BY <1>1, FeedTypes DEF Emitted
<1>4. IsFiniteSet(Before(x)) /\ IsFiniteSet(Before(d))
  <2>1. IsFiniteSet(Events)
    <3>1. Len(setting.events) \in Int /\ 1 \in Int
      BY FeedTypes
    <3> QED BY <3>1, FS_Interval DEF Events
  <2> QED BY <2>1, FS_Subset DEF Emitted
<1> HIDE DEF Before
<1>5. /\ Cardinality(Before(d)) <= Cardinality(Before(x))
      /\ Cardinality(Before(d)) \in Nat /\ Cardinality(Before(x)) \in Nat
  BY <1>3, <1>4, FS_Subset, FS_CardinalityType
<1>6. Cardinality(Before(d)) < setting.limit
  BY <1>1, <1>5, FeedTypes
<1> QED BY <1>2, <1>6 DEF Answer, Before

(* One that may hold all events holds all there are.                       *)
LEMMA AnswerWhole ==
  ASSUME setting \in Settings, setting.limit >= Len(setting.events), ledger \in Nat,
         NEW first \in Nat, NEW d \in Emitted, LedgerOf(d) >= first
  PROVE  d \in Answer(first)
<1> DEFINE Before == {c \in Emitted : LedgerOf(c) >= first /\ c < d}
<1>1. d \in 1 .. Len(setting.events) /\ Len(setting.events) \in Nat /\ setting.limit \in Nat
  BY FeedTypes DEF Emitted, Events
<1>2. Before \subseteq 1 .. d - 1
  BY <1>1, FeedTypes DEF Emitted, Events
<1>3. IsFiniteSet(1 .. d - 1) /\ Cardinality(1 .. d - 1) = d - 1
  <2>1. d \in Nat /\ d - 1 \in Int /\ 1 \in Int /\ d >= 1
    BY <1>1
  <2>2. /\ IsFiniteSet(1 .. d - 1)
        /\ Cardinality(1 .. d - 1) = IF 1 > d - 1 THEN 0 ELSE d - 1 - 1 + 1
    BY <2>1, FS_Interval
  <2>3. (IF 1 > d - 1 THEN 0 ELSE d - 1 - 1 + 1) = d - 1
    BY <2>1
  <2> QED BY <2>2, <2>3
<1> HIDE DEF Before
<1>4. Cardinality(Before) <= d - 1 /\ Cardinality(Before) \in Nat
  BY <1>2, <1>3, FS_Subset, FS_CardinalityType
<1>5. Cardinality(Before) < setting.limit
  BY <1>1, <1>4
<1> QED BY <1>5 DEF Answer, Before

(* What a run takes from an answer: its first event and its last.          *)
First(batch) == CHOOSE e \in batch : \A d \in batch : e <= d
Last(batch) == CHOOSE e \in batch : \A d \in batch : d <= e

LEMMA FirstAndLast ==
  ASSUME setting \in Settings, NEW first, Answer(first) # {}
  PROVE  /\ First(Answer(first)) \in Answer(first)
         /\ Last(Answer(first)) \in Answer(first)
         /\ Answer(first) \subseteq Events
         /\ \A d \in Answer(first) : First(Answer(first)) <= d /\ d <= Last(Answer(first))
<1>1. Answer(first) \subseteq Events
  BY DEF Answer, Emitted
<1>2. Answer(first) \subseteq Nat /\ Answer(first) \subseteq 0 .. Len(setting.events)
  BY <1>1, FeedTypes DEF Events
<1>3. \E e \in Answer(first) : \A d \in Answer(first) : e <= d
  BY <1>2, Smallest
<1>4. \E e \in Answer(first) : \A d \in Answer(first) : d <= e
  BY <1>2, FeedTypes, Greatest
<1> QED BY <1>1, <1>3, <1>4 DEF First, Last

-----------------------------------------------------------------------------
(* Types, and the steps of a worker by what they do to its run.            *)

Between == {"sum", "owed", "mark", "cache", "upgrade"}
Runs == [pc : {"idle", "fetch", "loop"} \cup Between,
         start : Nat, next : Nat, last : Nat, max : Nat, sum : Nat]

(* A second write is one of an event.                                      *)
Positions == \A w \in Workers : worker[w].pc \in Between => worker[w].next \in Events

TInv == TypeOK /\ Positions

LEMMA Types ==
  ASSUME TypeOK
  PROVE  /\ setting \in Settings /\ ledger \in Nat /\ cursor \in Nat
         /\ worker \in [Workers -> Runs]
  BY ConstantsAssumption DEF TypeOK, Runs, Between

(* The events that get into the index, sooner or later.                    *)
Feed == {e \in Known : e \notin Refused \/ Type(e) = "LIQUIDITY_DEPOSITED"}

Fields(w, pc, next, max) ==
  /\ worker'[w].pc = pc
  /\ worker'[w].start = worker[w].start
  /\ worker'[w].next = next
  /\ worker'[w].last = worker[w].last
  /\ worker'[w].max = max
Ends(w) == Fields(w, "loop", worker[w].next + 1, MaxLedgerAfter(w, worker[w].next))
GoesOn(w) == \E label \in Between : Fields(w, label, worker[w].next, worker[w].max)
OthersStay(w) ==
  /\ worker' \in [Workers -> Runs]
  /\ \A v \in Workers \ {w} : worker'[v] = worker[v]

LEMMA Put ==
  ASSUME worker \in [Workers -> Runs], NEW w \in Workers, NEW r \in Runs,
         worker' = [worker EXCEPT ![w] = r]
  PROVE  OthersStay(w) /\ worker'[w] = r
  BY DEF OthersStay

LEMMA DoneStep ==
  ASSUME TypeOK, NEW w \in Workers, NEW e \in Events, worker[w].next = e, Done(w, e)
  PROVE  OthersStay(w) /\ Ends(w) /\ worker'[w].sum = worker[w].sum
<1> DEFINE max == MaxLedgerAfter(w, e)
           r1 == [worker[w] EXCEPT !.pc = "loop"]
           r2 == [r1 EXCEPT !.next = e + 1]
           r3 == [r2 EXCEPT !.max = max]
<1>1. worker \in [Workers -> Runs] /\ worker[w] \in Runs
  BY Types
<1>2. max \in Nat /\ e + 1 \in Nat
  BY <1>1, FeedTypes, Types DEF MaxLedgerAfter, Runs
<1> HIDE DEF max
<1>3. r1 \in Runs /\ r1.pc = "loop" /\ r1.start = worker[w].start
      /\ r1.last = worker[w].last /\ r1.sum = worker[w].sum
  BY <1>1 DEF Runs
<1>4. r2 \in Runs /\ r2.pc = "loop" /\ r2.start = worker[w].start /\ r2.next = e + 1
      /\ r2.last = worker[w].last /\ r2.sum = worker[w].sum
  BY <1>2, <1>3 DEF Runs
<1>5. r3 \in Runs /\ r3.pc = "loop" /\ r3.start = worker[w].start /\ r3.next = e + 1
      /\ r3.last = worker[w].last /\ r3.max = max /\ r3.sum = worker[w].sum
  BY <1>2, <1>4 DEF Runs
<1>6. worker' = [worker EXCEPT ![w] = r3]
  BY <1>1 DEF Done, max
<1> HIDE DEF r3
<1> QED BY <1>1, <1>5, <1>6, Put DEF Ends, Fields, max

LEMMA ThenStep ==
  ASSUME TypeOK, NEW w \in Workers, NEW label \in Between, Then(w, label)
  PROVE  /\ OthersStay(w) /\ Fields(w, label, worker[w].next, worker[w].max)
         /\ worker'[w].sum = worker[w].sum
<1> DEFINE r == [worker[w] EXCEPT !.pc = label]
<1>1. worker \in [Workers -> Runs] /\ worker[w] \in Runs
  BY Types
<1>2. r \in Runs /\ r.pc = label /\ r.start = worker[w].start /\ r.next = worker[w].next
      /\ r.last = worker[w].last /\ r.max = worker[w].max /\ r.sum = worker[w].sum
  BY <1>1 DEF Runs
<1>3. worker' = [worker EXCEPT ![w] = r]
  BY <1>1 DEF Then
<1> HIDE DEF r
<1> QED BY <1>1, <1>2, <1>3, Put DEF Fields

LEMMA PassStep ==
  ASSUME TypeOK, NEW w \in Workers, worker[w].pc = "loop",
         worker' = [worker EXCEPT ![w].next = worker[w].next + 1]
  PROVE  OthersStay(w) /\ Fields(w, "loop", worker[w].next + 1, worker[w].max)
<1> DEFINE r == [worker[w] EXCEPT !.next = worker[w].next + 1]
<1>1. worker \in [Workers -> Runs] /\ worker[w] \in Runs
  BY Types
<1>2. r \in Runs /\ r.pc = "loop" /\ r.start = worker[w].start
      /\ r.next = worker[w].next + 1 /\ r.last = worker[w].last /\ r.max = worker[w].max
  BY <1>1 DEF Runs
<1>3. worker' = [worker EXCEPT ![w] = r]
  BY <1>1
<1> HIDE DEF r
<1> QED BY <1>1, <1>2, <1>3, Put DEF Fields

LEMMA IdleStep ==
  ASSUME TypeOK, NEW w \in Workers, worker' = [worker EXCEPT ![w] = Idle]
  PROVE  OthersStay(w) /\ worker'[w] = Idle
<1>1. Idle \in Runs
  BY DEF Idle, Runs
<1> QED BY <1>1, Types, Put

LEMMA SumStep ==
  ASSUME TInv, NEW w \in Workers, SumPayments(w)
  PROVE  /\ OthersStay(w) /\ Fields(w, "owed", worker[w].next, worker[w].max)
         /\ worker'[w].sum = PaidFor(SubjectOf(worker[w].next))
<1> DEFINE sum == PaidFor(SubjectOf(worker[w].next))
           r1 == [worker[w] EXCEPT !.pc = "owed"]
           r2 == [r1 EXCEPT !.sum = sum]
<1>1. TypeOK /\ worker \in [Workers -> Runs] /\ worker[w] \in Runs
  BY Types DEF TInv
<1>2. sum \in Nat
  BY <1>1, Types, PaidForType
<1> HIDE DEF sum
<1>3. r1 \in Runs /\ r1.pc = "owed" /\ r1.start = worker[w].start
      /\ r1.next = worker[w].next /\ r1.last = worker[w].last /\ r1.max = worker[w].max
  BY <1>1 DEF Runs, Between
<1>4. r2 \in Runs /\ r2.pc = "owed" /\ r2.start = worker[w].start
      /\ r2.next = worker[w].next /\ r2.last = worker[w].last /\ r2.max = worker[w].max
      /\ r2.sum = sum
  BY <1>2, <1>3 DEF Runs
<1>5. worker' = [worker EXCEPT ![w] = r2]
  BY <1>1 DEF SumPayments, sum
<1> HIDE DEF r2
<1> QED BY <1>1, <1>4, <1>5, Put DEF Fields, sum

WorkerOnly == UNCHANGED <<setting, ledger, cursor, tables, indexed>>

Starts(w) ==
  /\ worker[w].pc = "idle"
  /\ May("overlap") \/ \A v \in Workers : worker[v].pc = "idle"
  /\ worker'[w].pc = "fetch"
  /\ \/ worker'[w].start = cursor
     \/ worker'[w].start = 0 /\ May("cursor")
  /\ worker'[w].max = worker'[w].start
  /\ WorkerOnly
Reads(w) ==
  LET batch == Answer(worker[w].start + 1) IN
  /\ worker[w].pc = "fetch"
  /\ batch # {}
  /\ worker'[w].pc = "loop"
  /\ worker'[w].start = worker[w].start
  /\ worker'[w].next = First(batch)
  /\ worker'[w].last = Last(batch)
  /\ worker'[w].max = worker[w].max
  /\ WorkerOnly
Resets(w) ==
  /\ worker[w].pc # "idle"
  /\ worker[w].pc = "fetch" \/ May("crash")
  /\ worker'[w] = Idle
  /\ WorkerOnly
AtEvent(w) ==
  /\ worker[w].pc = "loop"
  /\ worker[w].next \in Events
  /\ worker[w].next <= worker[w].last
Skips(w) ==
  /\ AtEvent(w)
  /\ worker[w].next \notin Feed \/ May("db")
  /\ Fields(w, "loop", worker[w].next + 1, worker[w].max)
  /\ WorkerOnly
Takes(w) ==
  /\ AtEvent(w)
  /\ worker[w].next \in Feed
  /\ indexed' = indexed \cup {worker[w].next}
  /\ Ends(w) \/ GoesOn(w)
  /\ UNCHANGED <<setting, ledger, cursor>>
Continues(w) ==
  /\ worker[w].pc \in Between
  /\ Ends(w) \/ GoesOn(w)
  /\ UNCHANGED <<setting, ledger, cursor, indexed>>
Saves(w) ==
  /\ worker[w].pc = "loop"
  /\ worker[w].next > worker[w].last
  /\ worker'[w] = Idle
  /\ \/ worker[w].max > worker[w].start /\ cursor' = worker[w].max
     \/ UNCHANGED cursor /\ (May("cursor") \/ worker[w].max <= worker[w].start)
  /\ UNCHANGED <<setting, ledger, tables, indexed>>

LEMMA GetCursorStep ==
  ASSUME TypeOK, NEW w \in Workers, GetCursor(w)
  PROVE  OthersStay(w) /\ Starts(w)
<1>1. PICK c \in {0, cursor} :
        /\ c = cursor \/ (c = 0 /\ May("cursor"))
        /\ worker' = [worker EXCEPT ![w] = [Idle EXCEPT !.pc = "fetch", !.start = c, !.max = c]]
  BY DEF GetCursor
<1> DEFINE r1 == [Idle EXCEPT !.pc = "fetch"]
           r2 == [r1 EXCEPT !.start = c]
           r3 == [r2 EXCEPT !.max = c]
<1>2. c \in Nat
  BY Types
<1>3. Idle \in Runs
  BY DEF Idle, Runs
<1>4. r1 \in Runs /\ r1.pc = "fetch"
  BY <1>3 DEF Runs
<1>5. r2 \in Runs /\ r2.pc = "fetch" /\ r2.start = c
  BY <1>2, <1>4 DEF Runs
<1>6. r3 \in Runs /\ r3.pc = "fetch" /\ r3.start = c /\ r3.max = c
  BY <1>2, <1>5 DEF Runs
<1>7. worker' = [worker EXCEPT ![w] = r3]
  BY <1>1
<1> HIDE DEF r3
<1>8. OthersStay(w) /\ worker'[w] = r3
  BY <1>6, <1>7, Types, Put
<1> QED BY <1>1, <1>6, <1>8 DEF GetCursor, Starts, WorkerOnly

LEMMA FetchStep ==
  ASSUME TypeOK, NEW w \in Workers, FetchEvents(w)
  PROVE  OthersStay(w) /\ (Reads(w) \/ Resets(w))
<1> DEFINE batch == Answer(worker[w].start + 1)
           r1 == [worker[w] EXCEPT !.pc = "loop"]
           r2 == [r1 EXCEPT !.next = First(batch)]
           r3 == [r2 EXCEPT !.last = Last(batch)]
<1>1. worker \in [Workers -> Runs] /\ worker[w] \in Runs
  BY Types
<1>2. worker[w].pc = "fetch" /\ WorkerOnly
  BY DEF FetchEvents, WorkerOnly
<1>3. CASE batch = {}
  <2>1. worker' = [worker EXCEPT ![w] = Idle]
    BY <1>3 DEF FetchEvents, StartLedger
  <2> QED BY <1>2, <2>1, IdleStep DEF Resets
<1>4. CASE batch # {}
  <2>1. First(batch) \in Nat /\ Last(batch) \in Nat
    BY <1>4, Types, FirstAndLast, FeedTypes
  <2>2. worker' = [worker EXCEPT ![w] = r3]
    BY <1>1, <1>4 DEF FetchEvents, StartLedger, First, Last
  <2> HIDE DEF batch
  <2>3. r1 \in Runs /\ r1.pc = "loop" /\ r1.start = worker[w].start
        /\ r1.max = worker[w].max
    BY <1>1 DEF Runs
  <2>4. r2 \in Runs /\ r2.pc = "loop" /\ r2.start = worker[w].start
        /\ r2.next = First(batch) /\ r2.max = worker[w].max
    BY <2>1, <2>3 DEF Runs
  <2>5. r3 \in Runs /\ r3.pc = "loop" /\ r3.start = worker[w].start
        /\ r3.next = First(batch) /\ r3.last = Last(batch) /\ r3.max = worker[w].max
    BY <2>1, <2>4 DEF Runs
  <2> HIDE DEF r3
  <2>6. OthersStay(w) /\ worker'[w] = r3
    BY <1>1, <2>2, <2>5, Put
  <2> QED BY <1>2, <1>4, <2>5, <2>6 DEF Reads, batch
<1> QED BY <1>3, <1>4

LEMMA FirstWrites ==
  ASSUME TypeOK, NEW w \in Workers, NEW e \in Events, PersistEvent(w, e) \/ PersistFails(w, e)
  PROVE  OthersStay(w) /\ (Skips(w) \/ Takes(w))
<1> USE DEF At, AtEvent, WorkerOnly, tables
<1>1. AtEvent(w) /\ worker[w].next = e
  BY DEF PersistEvent, PersistFails, SkipUnrecognised, PersistLoanCreated, InsertPayment,
     PersistLoanDefaulted, InsertHistory, ReadRole
<1>2. CASE SkipUnrecognised(w, e)
  <2>1. e \notin Feed
    BY <1>2 DEF SkipUnrecognised, Feed, Known
  <2> QED BY <1>1, <1>2, <2>1, PassStep DEF SkipUnrecognised, Skips
<1>3. CASE PersistFails(w, e)
  <2>1. e \notin Feed \/ May("db")
    BY <1>3 DEF PersistFails, Feed
  <2> QED BY <1>1, <1>3, <2>1, PassStep DEF PersistFails, Skips
<1>4. ASSUME e \in Feed, indexed' = indexed \cup {e}, UNCHANGED <<setting, ledger, cursor>>,
             Done(w, e) \/ \E label \in Between : Then(w, label)
      PROVE  OthersStay(w) /\ Takes(w)
  BY <1>1, <1>4, DoneStep, ThenStep DEF Takes, GoesOn
<1>5. CASE PersistLoanCreated(w, e)
  <2>1. e \in Feed
    BY <1>5 DEF PersistLoanCreated, Feed, Known
  <2> QED BY <1>4, <1>5, <2>1 DEF PersistLoanCreated
<1>6. CASE InsertPayment(w, e)
  <2>1. e \in Feed
    BY <1>6 DEF InsertPayment, Feed, Known
  <2> QED BY <1>4, <1>6, <2>1 DEF InsertPayment, Between
<1>7. CASE PersistLoanDefaulted(w, e)
  <2>1. e \in Feed
    BY <1>7 DEF PersistLoanDefaulted, Feed, Known
  <2> QED BY <1>4, <1>7, <2>1 DEF PersistLoanDefaulted
<1>8. CASE InsertHistory(w, e)
  <2>1. e \in Feed
    BY <1>8 DEF InsertHistory, Feed, Known
  <2> QED BY <1>4, <1>8, <2>1 DEF InsertHistory, Between
<1>9. CASE ReadRole(w, e)
  <2>1. e \in Feed
    BY <1>9 DEF ReadRole, Feed, Known
  <2> QED BY <1>4, <1>9, <2>1 DEF ReadRole, Between
<1> QED BY <1>2, <1>3, <1>5, <1>6, <1>7, <1>8, <1>9 DEF PersistEvent

LEMMA SecondWrites ==
  ASSUME TInv, NEW w \in Workers, SecondWrite(w) \/ SecondWriteFails(w)
  PROVE  OthersStay(w) /\ Continues(w)
<1> USE DEF tables
<1>1. /\ worker[w].pc \in Between /\ worker[w].next \in Events
      /\ UNCHANGED <<setting, ledger, cursor, indexed>>
  BY DEF TInv, Positions, Between, SecondWrite, SumPayments, FetchLoan, MarkRepaid, UpdateCache,
     UpgradeRole, SecondWriteFails
<1>2. CASE Done(w, worker[w].next)
  BY <1>1, <1>2, DoneStep DEF TInv, Continues
<1>3. CASE Then(w, "mark")
  BY <1>1, <1>3, ThenStep DEF TInv, Continues, GoesOn, Between
<1>4. CASE SumPayments(w)
  BY <1>1, <1>4, SumStep DEF Continues, GoesOn, Between
<1> QED BY <1>2, <1>3, <1>4 DEF SecondWrite, FetchLoan, MarkRepaid, UpdateCache, UpgradeRole,
    SecondWriteFails

LEMMA WorkerSteps ==
  ASSUME TInv, NEW w \in Workers, IndexContract(w)
  PROVE  /\ OthersStay(w)
         /\ \/ Starts(w) \/ Reads(w) \/ Resets(w) \/ Skips(w) \/ Takes(w)
            \/ Continues(w) \/ Saves(w)
<1>1. TypeOK
  BY DEF TInv
<1>2. CASE FetchFails(w) \/ Crash(w)
  <2>1. /\ worker' = [worker EXCEPT ![w] = Idle] /\ WorkerOnly
        /\ worker[w].pc # "idle" /\ (worker[w].pc = "fetch" \/ May("crash"))
    BY <1>2 DEF FetchFails, Crash, WorkerOnly
  <2> QED BY <1>1, <2>1, IdleStep DEF Resets
<1>3. CASE UpdateCursor(w)
  <2>1. worker' = [worker EXCEPT ![w] = Idle]
    BY <1>3 DEF UpdateCursor
  <2>2. worker[w].max \in Nat /\ worker[w].start \in Nat
    BY <1>1, Types DEF Runs
  <2>3. OthersStay(w) /\ worker'[w] = Idle
    BY <1>1, <2>1, IdleStep
  <2>4. \/ worker[w].max > worker[w].start /\ cursor' = worker[w].max
        \/ UNCHANGED cursor /\ (May("cursor") \/ worker[w].max <= worker[w].start)
    BY <1>3, <2>2 DEF UpdateCursor
  <2>5. Saves(w)
    BY <1>3, <2>3, <2>4 DEF UpdateCursor, Saves
  <2> QED BY <2>3, <2>5
<1> QED BY <1>1, <1>2, <1>3, GetCursorStep, FetchStep, FirstWrites, SecondWrites
    DEF IndexContract

(* Only reading the role of a depositor touches the note of what others    *)
(* have written.                                                           *)
LEMMA RewrittenSteps ==
  ASSUME NEW w \in Workers, IndexContract(w)
  PROVE  \/ UNCHANGED rewritten
         \/ \E e \in Events :
              ReadRole(w, e) /\ rewritten' = rewritten \ {SubjectOf(e)}
<1>1. ASSUME NEW e \in Events, PersistEvent(w, e) \/ PersistFails(w, e)
      PROVE  \/ UNCHANGED rewritten
             \/ ReadRole(w, e) /\ rewritten' = rewritten \ {SubjectOf(e)}
  BY <1>1 DEF PersistEvent, PersistFails, SkipUnrecognised, PersistLoanCreated, InsertPayment,
     PersistLoanDefaulted, InsertHistory, ReadRole
<1>2. CASE SecondWrite(w) \/ SecondWriteFails(w)
  BY <1>2 DEF SecondWrite, SecondWriteFails, SumPayments, FetchLoan, MarkRepaid, UpdateCache,
     UpgradeRole
<1>3. CASE GetCursor(w) \/ FetchEvents(w) \/ FetchFails(w) \/ UpdateCursor(w) \/ Crash(w)
  BY <1>3 DEF GetCursor, FetchEvents, FetchFails, UpdateCursor, Crash
<1> QED BY <1>1, <1>2, <1>3 DEF IndexContract

(* The steps that write tables, apart from those that do not.              *)
Writes(w) ==
  \/ \E e \in Events :
       \/ PersistLoanCreated(w, e)
       \/ InsertPayment(w, e)
       \/ PersistLoanDefaulted(w, e)
       \/ InsertHistory(w, e)
       \/ ReadRole(w, e)
  \/ MarkRepaid(w) \/ UpdateCache(w) \/ UpgradeRole(w)

LEMMA TableSteps ==
  ASSUME NEW w \in Workers, IndexContract(w)
  PROVE  Writes(w) \/ UNCHANGED <<status, payments, scores, cached, role, indexed>>
<1> USE DEF tables
<1>1. ASSUME NEW e \in Events, PersistEvent(w, e) \/ PersistFails(w, e)
      PROVE  Writes(w) \/ UNCHANGED <<status, payments, scores, cached, role, indexed>>
  BY <1>1 DEF PersistEvent, PersistFails, SkipUnrecognised, Writes
<1>2. CASE SecondWrite(w) \/ SecondWriteFails(w)
  BY <1>2 DEF SecondWrite, SecondWriteFails, SumPayments, FetchLoan, Writes
<1>3. CASE GetCursor(w) \/ FetchEvents(w) \/ FetchFails(w) \/ UpdateCursor(w) \/ Crash(w)
  BY <1>3 DEF GetCursor, FetchEvents, FetchFails, UpdateCursor, Crash
<1> QED BY <1>1, <1>2, <1>3 DEF IndexContract

TableTypes ==
  /\ status \in [Subjects -> {"none", "active", "paid", "defaulted"}]
  /\ payments \subseteq Events
  /\ scores \subseteq Events
  /\ cached \in [Subjects -> Nat]
  /\ role \in [Subjects -> Roles]
  /\ indexed \subseteq Events

LEMMA TableTypesNext ==
  ASSUME TInv, NEW w \in Workers, IndexContract(w), UNCHANGED setting
  PROVE  TableTypes'
<1> USE DEF tables
<1>1. TableTypes /\ Events' = Events /\ setting \in Settings
  BY DEF TInv, TypeOK, TableTypes, Events
<1>2. CASE UNCHANGED <<status, payments, scores, cached, role, indexed>>
  BY <1>1, <1>2 DEF TableTypes
<1>3. ASSUME NEW e \in Events, PersistLoanCreated(w, e) \/ PersistLoanDefaulted(w, e)
      PROVE  TableTypes'
  BY <1>1, <1>3 DEF TableTypes, PersistLoanCreated, PersistLoanDefaulted, Upserted
<1>4. ASSUME NEW e \in Events, InsertPayment(w, e) \/ InsertHistory(w, e) \/ ReadRole(w, e)
      PROVE  TableTypes'
  BY <1>1, <1>4 DEF TableTypes, InsertPayment, InsertHistory, ReadRole
<1>5. worker[w].pc \in Between => worker[w].next \in Events
  BY DEF TInv, Positions
<1>6. CASE MarkRepaid(w)
  BY <1>1, <1>6 DEF TableTypes, MarkRepaid, StatusOf
<1>7. CASE UpdateCache(w)
  <2>1. Value(worker[w].next) \in Nat
    BY <1>1, <1>5, <1>7, FeedTypes DEF UpdateCache, Between
  <2> QED BY <1>1, <1>7, <2>1 DEF TableTypes, UpdateCache, NewScore
<1>8. CASE UpgradeRole(w)
  <2>1. "lp_provider" \in Roles
    BY DEF Roles
  <2> QED BY <1>1, <1>8, <2>1 DEF TableTypes, UpgradeRole
<1> QED BY <1>2, <1>3, <1>4, <1>6, <1>7, <1>8, TableSteps DEF Writes

(* What is not the workers' doing.                                         *)
LEMMA OtherSteps ==
  ASSUME [Next]_vars
  PROVE  \/ \E w \in Workers : IndexContract(w)
         \/ /\ UNCHANGED <<setting, cursor, status, payments, scores, cached, worker, indexed>>
            /\ \/ UNCHANGED <<role, rewritten>> /\ (UNCHANGED ledger \/ CloseLedger)
               \/ UNCHANGED ledger /\ \E s \in Subjects : WriteRole(s)
  BY DEF Next, vars, tables, CloseLedger, WriteRole

LEMMA TInvInit == Init => TInv
<1> SUFFICES ASSUME Init PROVE TInv
  OBVIOUS
<1>1. Idle \in Runs /\ Idle.pc \notin Between
  BY DEF Idle, Runs, Between
<1>2. TypeOK
  BY <1>1, ConstantsAssumption DEF Init, TypeOK, Runs, Between
<1> QED BY <1>1, <1>2 DEF Init, TInv, Positions

LEMMA TInvNext == TInv /\ [Next]_vars => TInv'
<1> SUFFICES ASSUME TInv, [Next]_vars PROVE TInv'
  OBVIOUS
<1>1. TypeOK /\ Positions /\ worker \in [Workers -> Runs] /\ cursor \in Nat
  BY Types DEF TInv
<1>2. ASSUME NEW w \in Workers, IndexContract(w)
      PROVE  TInv'
  <2>1. /\ OthersStay(w)
        /\ \/ Starts(w) \/ Reads(w) \/ Resets(w) \/ Skips(w) \/ Takes(w)
           \/ Continues(w) \/ Saves(w)
    BY <1>2, WorkerSteps
  <2>2. UNCHANGED <<setting, ledger>> /\ cursor' \in Nat
    <3>1. worker[w].max \in Nat
      BY <1>1 DEF Runs
    <3> QED BY <1>1, <2>1, <3>1 DEF Starts, Reads, Resets, Skips, Takes, Continues, Saves,
            WorkerOnly
  <2>3. TableTypes'
    BY <1>2, <2>2, TableTypesNext
  <2> DEFINE Notes == rewritten' \subseteq Subjects
  <2>7. Notes
    BY <1>1, <1>2, RewrittenSteps DEF TypeOK
  <2>4. TypeOK'
    BY <1>1, <2>1, <2>2, <2>3, <2>7 DEF TypeOK, TableTypes, OthersStay, Runs, Between
  <2>5. worker'[w].pc \in Between => worker'[w].next \in Events
    BY <1>1, <2>1 DEF Positions, Starts, Reads, Resets, Skips, Takes, Continues, Saves,
       Ends, GoesOn, Fields, AtEvent, Idle, Between
  <2>6. Positions'
    BY <1>1, <2>1, <2>2, <2>5 DEF Positions, OthersStay, Events
  <2> QED BY <2>4, <2>6 DEF TInv
<1>3. CASE /\ UNCHANGED <<setting, cursor, status, payments, scores, cached, worker, indexed>>
           /\ \/ UNCHANGED <<role, rewritten>> /\ (UNCHANGED ledger \/ CloseLedger)
              \/ UNCHANGED ledger /\ \E s \in Subjects : WriteRole(s)
  <2>1. ledger' \in 0 .. MaxLedger
    BY <1>1, <1>3, ConstantsAssumption DEF TypeOK, CloseLedger
  <2>2. role' \in [Subjects -> Roles] /\ rewritten' \subseteq Subjects
    <3>1. CASE UNCHANGED <<role, rewritten>>
      BY <1>1, <3>1 DEF TypeOK
    <3>2. ASSUME NEW s \in Subjects, WriteRole(s)
          PROVE  role' \in [Subjects -> Roles] /\ rewritten' \subseteq Subjects
      BY <1>1, <3>2 DEF TypeOK, WriteRole
    <3> QED BY <1>3, <3>1, <3>2
  <2> QED BY <1>1, <1>3, <2>1, <2>2 DEF TInv, TypeOK, Positions, Events
<1> QED BY <1>2, <1>3, OtherSteps

(* Every table, cursor and run has its type, whatever the feed and however *)
(* many instances index it at once.                                        *)
THEOREM TypeCorrect == Spec => []TypeOK
<1>1. TInv => TypeOK
  BY DEF TInv
<1> QED BY TInvInit, TInvNext, <1>1, PTL DEF Spec

-----------------------------------------------------------------------------
(* Nothing is passed over where answers are whole and writes are made.     *)

Whole == setting.limit >= Len(setting.events) /\ ~May("db")

Behind(x) == \A e \in Feed : LedgerOf(e) <= x => e \in indexed

(* A run starts where the index ends and takes what follows in order; its  *)
(* answer ends with a ledger.                                              *)
Loop == {"loop"} \cup Between
RunInOrder(w) ==
  /\ worker[w].pc = "fetch" => Behind(worker[w].start) /\ worker[w].max = worker[w].start
  /\ worker[w].pc \in Loop =>
       /\ worker[w].last \in Events
       /\ \A d \in Events : LedgerOf(d) <= LedgerOf(worker[w].last) => d <= worker[w].last
       /\ \A d \in Feed : LedgerOf(d) <= worker[w].max => d <= worker[w].last \/ d \in indexed
       /\ \A d \in Feed : d < worker[w].next => d \in indexed
  /\ worker[w].pc \in Between => worker[w].next \in indexed /\ worker[w].next <= worker[w].last

Chain == Behind(cursor) /\ \A w \in Workers : RunInOrder(w)

CInv == TInv /\ (Whole => Chain)

LEMMA FeedStays ==
  ASSUME UNCHANGED setting
  PROVE  /\ Events' = Events /\ Known' = Known /\ Feed' = Feed /\ Refused' = Refused
         /\ \A e : /\ LedgerOf(e)' = LedgerOf(e)
                  /\ Type(e)' = Type(e)
                  /\ SubjectOf(e)' = SubjectOf(e)
                  /\ Value(e)' = Value(e)
         /\ Whole' = Whole
         /\ \A x : May(x)' = May(x)
  BY DEF Events, Known, Feed, Refused, LedgerOf, Type, SubjectOf, Value, Whole, May

LEMMA FeedIsNat ==
  ASSUME setting \in Settings
  PROVE  /\ Feed \subseteq Events /\ Events \subseteq Nat
         /\ \A e \in Events : LedgerOf(e) \in Nat \ {0}
  BY FeedTypes DEF Feed, Known

LEMMA RunStays ==
  ASSUME NEW v \in Workers, RunInOrder(v), worker'[v] = worker[v], UNCHANGED setting,
         indexed \subseteq indexed'
  PROVE  RunInOrder(v)'
<1>1. worker[v].pc = "fetch" => Behind(worker[v].start)'
  BY FeedStays DEF RunInOrder, Behind
<1>2. \A d : LedgerOf(d)' = LedgerOf(d)
  BY FeedStays
<1>3. LedgerOf(worker[v].last)' = LedgerOf(worker'[v].last)
  BY FeedStays DEF LedgerOf
<1> QED BY <1>1, <1>2, <1>3, FeedStays DEF RunInOrder

(* What a run reads begins where the index ends, and ends with a ledger.   *)
LEMMA ReadsInOrder ==
  ASSUME TInv, NEW w \in Workers, Reads(w)
  PROVE  /\ worker'[w].next \in Events /\ worker'[w].last \in Events
         /\ worker'[w].next <= worker'[w].last
         /\ \A d \in Events : LedgerOf(d) > worker[w].start <=> d >= worker'[w].next
         /\ Whole => \A d \in Events :
              LedgerOf(d) <= LedgerOf(worker'[w].last) => d <= worker'[w].last
<1> DEFINE from == worker[w].start + 1
           batch == Answer(from)
<1>1. setting \in Settings /\ ledger \in Nat /\ from \in Nat /\ worker[w].start \in Nat
  BY Types DEF TInv, Runs
<1>2. /\ worker'[w].next \in batch /\ worker'[w].last \in batch
      /\ batch \subseteq Events
      /\ \A d \in batch : worker'[w].next <= d /\ d <= worker'[w].last
  BY <1>1, FirstAndLast DEF Reads
<1>3. \A d \in batch : LedgerOf(d) >= from /\ LedgerOf(d) <= ledger
  BY DEF Answer, Emitted
<1>4. worker'[w].next \in Events /\ worker'[w].last \in Events
  BY <1>2
<1>5. ASSUME NEW d \in Events
      PROVE  LedgerOf(d) > worker[w].start <=> d >= worker'[w].next
  <2>1. d \in Nat /\ worker'[w].next \in Nat /\ LedgerOf(d) \in Nat
        /\ LedgerOf(worker'[w].next) \in Nat
    BY <1>1, <1>4, FeedTypes
  <2>2. CASE d >= worker'[w].next
    <3>1. LedgerOf(d) >= LedgerOf(worker'[w].next) /\ LedgerOf(worker'[w].next) >= from
      BY <1>1, <1>2, <1>3, <1>4, <2>2, <2>1, ChainOrder
    <3> QED BY <1>1, <2>1, <2>2, <3>1
  <2>3. CASE d < worker'[w].next /\ LedgerOf(d) > worker[w].start
    <3>1. d \in batch
      BY <1>1, <1>2, <2>1, <2>3, AnswerPrefix
    <3> QED BY <1>2, <2>1, <2>3, <3>1
  <2> QED BY <2>1, <2>2, <2>3
<1>6. ASSUME Whole, NEW d \in Events, LedgerOf(d) <= LedgerOf(worker'[w].last)
      PROVE  d <= worker'[w].last
  <2>1. d \in Nat /\ worker'[w].last \in Nat /\ LedgerOf(d) \in Nat
        /\ LedgerOf(worker'[w].last) \in Nat
    BY <1>1, <1>4, FeedTypes
  <2>2. d \in Emitted
    BY <1>1, <1>2, <1>3, <1>6, <2>1 DEF Emitted
  <2>3. CASE LedgerOf(d) >= from
    <3>1. d \in batch
      BY <1>1, <1>6, <2>2, <2>3, AnswerWhole DEF Whole
    <3> QED BY <1>2, <3>1
  <2>4. CASE LedgerOf(d) < from
    <3>1. LedgerOf(worker'[w].last) > LedgerOf(d)
      BY <1>1, <1>2, <1>3, <2>1, <2>4
    <3>2. ~(worker'[w].last <= d)
      BY <1>1, <1>4, <2>1, <3>1, ChainOrder
    <3> QED BY <2>1, <3>2
  <2> QED BY <1>1, <2>1, <2>3, <2>4
<1> QED BY <1>2, <1>4, <1>5, <1>6

LEMMA RunNext ==
  ASSUME TInv, Whole, Chain, NEW w \in Workers, UNCHANGED setting,
         Starts(w) \/ Reads(w) \/ Resets(w) \/ Skips(w) \/ Takes(w) \/ Continues(w) \/ Saves(w)
  PROVE  RunInOrder(w)'
<1>1. /\ setting \in Settings /\ worker[w] \in Runs /\ cursor \in Nat
      /\ Behind(cursor) /\ RunInOrder(w)
  BY Types DEF TInv, Chain
<1>2. Behind(0)
  BY <1>1, FeedIsNat DEF Behind
<1>3. /\ worker[w].next \in Nat /\ worker[w].last \in Nat /\ worker[w].max \in Nat
      /\ worker[w].start \in Nat
  BY <1>1 DEF Runs
<1>4. Feed \subseteq Events /\ Events \subseteq Nat /\ \A e \in Events : LedgerOf(e) \in Nat
  BY <1>1, FeedIsNat
<1>5. CASE Starts(w)
  <2>1. Behind(worker'[w].start) /\ UNCHANGED indexed
    BY <1>1, <1>2, <1>5 DEF Starts, WorkerOnly
  <2>2. Behind(worker[w].start)'
    BY <2>1, FeedStays DEF Behind
  <2> QED BY <1>5, <2>2 DEF Starts, RunInOrder, Loop, Between
<1>6. CASE Reads(w)
  <2>1. UNCHANGED indexed /\ Behind(worker[w].start) /\ worker'[w].max = worker[w].start
        /\ worker'[w].pc = "loop"
    BY <1>1, <1>6 DEF Reads, WorkerOnly, RunInOrder
  <2>2. /\ worker'[w].last \in Events /\ worker'[w].next \in Nat
        /\ \A d \in Events : LedgerOf(d) > worker[w].start <=> d >= worker'[w].next
        /\ \A d \in Events : LedgerOf(d) <= LedgerOf(worker'[w].last) => d <= worker'[w].last
    BY <1>4, <1>6, ReadsInOrder
  <2>3. \A d \in Feed : d < worker'[w].next => d \in indexed
    BY <1>3, <1>4, <2>1, <2>2 DEF Behind
  <2>4. \A d \in Feed : LedgerOf(d) <= worker'[w].max => d \in indexed
    BY <2>1 DEF Behind
  <2>5. LedgerOf(worker[w].last)' = LedgerOf(worker'[w].last)
    BY DEF LedgerOf
  <2> QED BY <2>1, <2>2, <2>3, <2>4, <2>5, FeedStays DEF RunInOrder, Loop, Between
<1>7. CASE Resets(w) \/ Saves(w)
  <2>1. worker'[w].pc = "idle"
    BY <1>7 DEF Resets, Saves, Idle
  <2> QED BY <2>1 DEF RunInOrder, Loop, Between
<1>8. CASE Skips(w)
  <2>1. /\ worker[w].pc = "loop" /\ worker[w].next \notin Feed /\ UNCHANGED indexed
        /\ Fields(w, "loop", worker[w].next + 1, worker[w].max)
    BY <1>8 DEF Skips, AtEvent, WorkerOnly, Whole
  <2>2. \A d \in Feed : d < worker[w].next + 1 => d \in indexed
    <3>1. \A d \in Feed : d < worker[w].next => d \in indexed
      BY <1>1, <2>1 DEF RunInOrder, Loop
    <3>2. \A d \in Feed : d \in Nat /\ d # worker[w].next
      BY <1>4, <2>1
    <3> QED BY <1>3, <3>1, <3>2
  <2>3. LedgerOf(worker[w].last)' = LedgerOf(worker[w].last)
    BY <2>1 DEF LedgerOf, Fields
  <2> QED BY <1>1, <2>1, <2>2, <2>3, FeedStays DEF RunInOrder, Loop, Between, Fields
<1>9. CASE Takes(w) \/ Continues(w)
  <2> DEFINE e == worker[w].next
  <2>1. /\ worker[w].pc \in Loop /\ e \in Events /\ e <= worker[w].last
        /\ e \in indexed' /\ indexed \subseteq indexed'
        /\ Ends(w) \/ GoesOn(w)
    BY <1>1, <1>9 DEF Takes, Continues, AtEvent, Loop, RunInOrder, TInv, Positions
  <2>2. /\ worker[w].last \in Events
        /\ \A d \in Events : LedgerOf(d) <= LedgerOf(worker[w].last) => d <= worker[w].last
        /\ \A d \in Feed : LedgerOf(d) <= worker[w].max => d <= worker[w].last \/ d \in indexed
        /\ \A d \in Feed : d < e => d \in indexed
    BY <1>1, <2>1 DEF RunInOrder
  <2>3. worker'[w].last = worker[w].last
    BY <2>1 DEF Ends, GoesOn, Fields
  <2>4. LedgerOf(worker[w].last)' = LedgerOf(worker[w].last)
    BY <2>3 DEF LedgerOf
  <2>5. CASE Ends(w)
    <3>1. \A d \in Feed : LedgerOf(d) <= MaxLedgerAfter(w, e) => d <= worker[w].last \/ d \in indexed
      <4>1. LedgerOf(e) <= LedgerOf(worker[w].last)
        BY <1>1, <2>1, <2>2, ChainOrder
      <4>2. \A d \in Feed : LedgerOf(d) <= LedgerOf(e) => d <= worker[w].last
        BY <1>4, <2>1, <2>2, <4>1
      <4> QED BY <2>2, <4>2 DEF MaxLedgerAfter
    <3>2. \A d \in Feed : d < e + 1 => d \in indexed'
      BY <1>3, <1>4, <2>1, <2>2
    <3> QED BY <2>1, <2>2, <2>4, <2>5, <3>1, <3>2, FeedStays
            DEF RunInOrder, Loop, Between, Ends, Fields
  <2>6. CASE GoesOn(w)
    <3>1. PICK label \in Between : Fields(w, label, worker[w].next, worker[w].max)
      BY <2>6 DEF GoesOn
    <3> QED BY <2>1, <2>2, <2>4, <3>1, FeedStays DEF RunInOrder, Loop, Between, Fields
  <2> QED BY <2>1, <2>5, <2>6
<1> QED BY <1>5, <1>6, <1>7, <1>8, <1>9

LEMMA CInvInit == Init => CInv
<1> SUFFICES ASSUME Init PROVE Chain
  BY TInvInit DEF CInv
<1>1. setting \in Settings /\ cursor = 0
  BY DEF Init
<1>2. Behind(cursor)
  BY <1>1, FeedIsNat DEF Behind
<1> QED BY <1>2 DEF Init, Chain, RunInOrder, Idle, Loop, Between

LEMMA CInvNext == CInv /\ [Next]_vars => CInv'
<1> SUFFICES ASSUME CInv, [Next]_vars, Whole' PROVE Chain'
  BY TInvNext DEF CInv
<1>1. ASSUME NEW w \in Workers, IndexContract(w)
      PROVE  Chain'
  <2>1. /\ TInv /\ OthersStay(w)
        /\ \/ Starts(w) \/ Reads(w) \/ Resets(w) \/ Skips(w) \/ Takes(w)
           \/ Continues(w) \/ Saves(w)
    BY <1>1, WorkerSteps DEF CInv
  <2>2. UNCHANGED setting /\ indexed \subseteq indexed'
    BY <2>1 DEF Starts, Reads, Resets, Skips, Takes, Continues, Saves, WorkerOnly
  <2>3. Whole /\ Chain
    BY <2>2, FeedStays DEF CInv
  <2>4. RunInOrder(w)'
    BY <2>1, <2>2, <2>3, RunNext
  <2>5. \A v \in Workers \ {w} : RunInOrder(v)'
    BY <2>1, <2>2, <2>3, RunStays DEF Chain, OthersStay
  <2>6. Behind(cursor)'
    <3>1. CASE UNCHANGED cursor
      BY <2>2, <2>3, <3>1, FeedStays DEF Behind, Chain
    <3>2. CASE Saves(w) /\ cursor' = worker[w].max
      <4>1. UNCHANGED indexed /\ worker[w].next > worker[w].last /\ RunInOrder(w)
            /\ worker[w].pc \in Loop
        BY <2>3, <3>2 DEF Saves, Chain, Loop
      <4>2. /\ worker[w].next \in Nat /\ worker[w].last \in Nat /\ Feed \subseteq Nat
        BY <2>1, Types, FeedIsNat DEF TInv, Runs
      <4>3. Behind(worker[w].max)
        BY <4>1, <4>2 DEF RunInOrder, Behind
      <4> QED BY <2>2, <3>2, <4>1, <4>3, FeedStays DEF Behind
    <3> QED BY <2>1, <3>1, <3>2 DEF Starts, Reads, Resets, Skips, Takes, Continues, Saves,
            WorkerOnly
  <2> QED BY <2>4, <2>5, <2>6 DEF Chain
<1>2. CASE UNCHANGED <<setting, cursor, worker, indexed>>
  <2>1. Chain
    BY <1>2, FeedStays DEF CInv
  <2>2. \A v \in Workers : RunInOrder(v)'
    BY <1>2, <2>1, RunStays DEF Chain
  <2>3. Behind(cursor)'
    BY <1>2, <2>1, FeedStays DEF Chain, Behind
  <2> QED BY <2>2, <2>3 DEF Chain
<1> QED BY <1>1, <1>2, OtherSteps

(* Where no answer is cut, no write is rejected and no call to the database*)
(* fails, the cursor passes no event that is not in the index, in spite of *)
(* crashes, outages, lost cursors and any number of instances              *)
(* (indexContract, updateCursor).                                          *)
THEOREM NothingIsPassedOver == Spec => []CursorIsBehindIndex
<1>1. CInv => CursorIsBehindIndex
  BY DEF CInv, Chain, Whole, Behind, Feed, CursorIsBehindIndex, NothingLeftOut,
     NothingBelowCursorIsMissing
<1> QED BY CInvInit, CInvNext, <1>1, PTL DEF Spec

LEMMA ConsumesInOrder ==
  ASSUME CInv, [Next]_vars
  PROVE  [Consumer!Next]_<<IF NothingLeftOut THEN Known ELSE {},
                           IF NothingLeftOut THEN indexed ELSE {}>>
<1>1. UNCHANGED setting
  <2>1. ASSUME NEW w \in Workers, IndexContract(w)
        PROVE  UNCHANGED setting
    BY <2>1, WorkerSteps DEF CInv, Starts, Reads, Resets, Skips, Takes, Continues, Saves,
       WorkerOnly
  <2> QED BY <2>1, OtherSteps
<1>2. NothingLeftOut' = NothingLeftOut /\ Known' = Known
  BY <1>1, FeedStays DEF NothingLeftOut, May
<1>3. CASE ~NothingLeftOut
  BY <1>2, <1>3
<1>4. CASE UNCHANGED indexed
  BY <1>2, <1>4
<1>5. ASSUME NothingLeftOut, NEW w \in Workers, Takes(w)
      PROVE  \/ UNCHANGED indexed
             \/ \E e \in Known :
                  /\ e \in Known \ indexed
                  /\ \A d \in Known : d < e => d \in indexed
                  /\ indexed' = indexed \cup {e}
  <2>1. Whole /\ Feed = Known
    BY <1>5 DEF NothingLeftOut, Whole, Feed
  <2>2. /\ worker[w].next \in Known
        /\ \A d \in Known : d < worker[w].next => d \in indexed
    BY <1>5, <2>1 DEF CInv, Chain, RunInOrder, Takes, AtEvent, Loop
  <2> QED BY <1>5, <2>2 DEF Takes
<1>6. CASE NothingLeftOut /\ \E w \in Workers : IndexContract(w)
  <2>1. \/ UNCHANGED indexed
        \/ \E e \in Known :
             /\ e \in Known \ indexed
             /\ \A d \in Known : d < e => d \in indexed
             /\ indexed' = indexed \cup {e}
    BY <1>5, <1>6, WorkerSteps DEF CInv, Starts, Reads, Resets, Skips, Continues, Saves,
       WorkerOnly
  <2> QED BY <1>2, <1>4, <1>6, <2>1 DEF Consumer!Next, Consumer!Consume
<1> QED BY <1>3, <1>4, <1>6, OtherSteps

(* Then the index consumes the chain: each recognised event once, in order *)
(* and none left out (indexContract, persistEvent).                        *)
THEOREM ConsumesTheChain == Spec => InChainOrder
<1>1. Init => Consumer!Init
  BY FeedIsNat DEF Init, Consumer!Init, Known
<1>2. CInv /\ [Next]_vars => [Consumer!Next]_<<IF NothingLeftOut THEN Known ELSE {},
                           IF NothingLeftOut THEN indexed ELSE {}>>
  BY ConsumesInOrder
<1> QED BY CInvInit, CInvNext, <1>1, <1>2, PTL DEF Spec, InChainOrder, Consumer!Spec

-----------------------------------------------------------------------------
(* The steps of a worker by what they do to the tables.                    *)

Subject(w) == SubjectOf(worker[w].next)

Quiet(w) ==
  /\ worker[w].pc \in Between => May("crash")
  /\ worker'[w].pc \notin Between
  /\ UNCHANGED <<tables, indexed, rewritten>>
Adds(w) ==
  /\ worker[w].pc = "sum"
  /\ Fields(w, "owed", worker[w].next, worker[w].max)
  /\ worker'[w].sum = PaidFor(Subject(w))
  /\ UNCHANGED <<tables, indexed>>
Looks(w) ==
  /\ worker[w].pc = "owed"
  /\ \/ status[Subject(w)] = "none" /\ Ends(w)
     \/ /\ Fields(w, "mark", worker[w].next, worker[w].max)
        /\ worker'[w].sum = worker[w].sum
  /\ UNCHANGED <<tables, indexed>>
GivesUp(w) ==
  /\ worker[w].pc \in Between
  /\ May("db")
  /\ Ends(w)
  /\ UNCHANGED <<tables, indexed>>
Marks(w) ==
  /\ worker[w].pc = "mark"
  /\ status' = [status EXCEPT ![Subject(w)] = StatusOf(worker[w].sum, Owed[Subject(w)])]
  /\ Ends(w)
  /\ UNCHANGED <<payments, scores, cached, role, indexed>>
Caches(w) ==
  /\ worker[w].pc = "cache"
  /\ cached' = [cached EXCEPT ![Subject(w)] = Value(worker[w].next)]
  /\ Ends(w)
  /\ UNCHANGED <<status, payments, scores, role, indexed>>
Upgrades(w) ==
  /\ worker[w].pc = "upgrade"
  /\ role' = [role EXCEPT ![Subject(w)] = "lp_provider"]
  /\ Ends(w)
  /\ UNCHANGED <<status, payments, scores, cached, indexed>>

TakesType(w, type) ==
  /\ AtEvent(w)
  /\ worker[w].next \in Feed
  /\ Type(worker[w].next) = type
  /\ indexed' = indexed \cup {worker[w].next}
Creates(w) ==
  /\ TakesType(w, "LOAN_CREATED")
  /\ status' = [status EXCEPT ![Subject(w)] = Upserted(@)]
  /\ Ends(w)
  /\ UNCHANGED <<payments, scores, cached, role>>
Pays(w) ==
  /\ TakesType(w, "LOAN_REPAID")
  /\ payments' = payments \cup {worker[w].next}
  /\ \/ worker[w].next \in payments /\ Ends(w)
     \/ worker[w].next \notin payments /\ Fields(w, "sum", worker[w].next, worker[w].max)
  /\ UNCHANGED <<status, scores, cached, role>>
Defaults(w) ==
  /\ TakesType(w, "LOAN_DEFAULTED")
  /\ status' = [status EXCEPT ![Subject(w)] = IF @ = "none" THEN @ ELSE "defaulted"]
  /\ Ends(w)
  /\ UNCHANGED <<payments, scores, cached, role>>
Scores(w) ==
  /\ TakesType(w, "SCORE_CHANGED")
  /\ scores' = scores \cup {worker[w].next}
  /\ \/ worker[w].next \in scores /\ Ends(w)
     \/ worker[w].next \notin scores /\ Fields(w, "cache", worker[w].next, worker[w].max)
  /\ UNCHANGED <<status, payments, cached, role>>
Deposits(w) ==
  /\ TakesType(w, "LIQUIDITY_DEPOSITED")
  /\ \/ (role[Subject(w)] # "borrower" \/ May("db")) /\ Ends(w)
     \/ /\ role[Subject(w)] = "borrower"
        /\ Fields(w, "upgrade", worker[w].next, worker[w].max)
  /\ rewritten' = rewritten \ {Subject(w)}
  /\ UNCHANGED tables

FirstKinds(w) == Creates(w) \/ Pays(w) \/ Defaults(w) \/ Scores(w) \/ Deposits(w)
SecondKinds(w) == Adds(w) \/ Looks(w) \/ GivesUp(w) \/ Marks(w) \/ Caches(w) \/ Upgrades(w)

LEMMA FirstKindsStep ==
  ASSUME TInv, NEW w \in Workers, NEW e \in Events, PersistEvent(w, e) \/ PersistFails(w, e)
  PROVE  Quiet(w) \/ FirstKinds(w)
<1> USE DEF At, tables
<1>1. /\ TypeOK /\ worker[w].next = e /\ worker[w].pc = "loop" /\ e <= worker[w].last
      /\ AtEvent(w)
  BY DEF TInv, PersistEvent, PersistFails, SkipUnrecognised, PersistLoanCreated, InsertPayment,
     PersistLoanDefaulted, InsertHistory, ReadRole, AtEvent
<1>2. CASE SkipUnrecognised(w, e) \/ PersistFails(w, e)
  <2>1. worker' = [worker EXCEPT ![w].next = worker[w].next + 1]
    BY <1>1, <1>2 DEF SkipUnrecognised, PersistFails
  <2>2. worker'[w].pc = "loop"
    BY <1>1, <2>1, PassStep DEF Fields
  <2> QED BY <1>1, <1>2, <2>2 DEF SkipUnrecognised, PersistFails, Quiet, Between
<1>3. CASE PersistLoanCreated(w, e)
  <2>1. Ends(w)
    BY <1>1, <1>3, DoneStep DEF PersistLoanCreated
  <2>2. TakesType(w, "LOAN_CREATED")
    BY <1>1, <1>3 DEF PersistLoanCreated, TakesType, Feed, Known
  <2>3. Creates(w)
    BY <1>1, <1>3, <2>1, <2>2 DEF PersistLoanCreated, Creates, Subject
  <2> QED BY <2>3 DEF FirstKinds
<1>4. CASE InsertPayment(w, e)
  <2>1. \/ e \in payments /\ Ends(w)
        \/ e \notin payments /\ Fields(w, "sum", worker[w].next, worker[w].max)
    BY <1>1, <1>4, DoneStep, ThenStep DEF InsertPayment, Between
  <2>2. TakesType(w, "LOAN_REPAID")
    BY <1>1, <1>4 DEF InsertPayment, TakesType, Feed, Known
  <2>3. Pays(w)
    BY <1>1, <1>4, <2>1, <2>2 DEF InsertPayment, Pays
  <2> QED BY <2>3 DEF FirstKinds
<1>5. CASE PersistLoanDefaulted(w, e)
  <2>1. Ends(w)
    BY <1>1, <1>5, DoneStep DEF PersistLoanDefaulted
  <2>2. TakesType(w, "LOAN_DEFAULTED")
    BY <1>1, <1>5 DEF PersistLoanDefaulted, TakesType, Feed, Known
  <2>3. Defaults(w)
    BY <1>1, <1>5, <2>1, <2>2 DEF PersistLoanDefaulted, Defaults, Subject
  <2> QED BY <2>3 DEF FirstKinds
<1>6. CASE InsertHistory(w, e)
  <2>1. \/ e \in scores /\ Ends(w)
        \/ e \notin scores /\ Fields(w, "cache", worker[w].next, worker[w].max)
    BY <1>1, <1>6, DoneStep, ThenStep DEF InsertHistory, Between
  <2>2. TakesType(w, "SCORE_CHANGED")
    BY <1>1, <1>6 DEF InsertHistory, TakesType, Feed, Known
  <2>3. Scores(w)
    BY <1>1, <1>6, <2>1, <2>2 DEF InsertHistory, Scores
  <2> QED BY <2>3 DEF FirstKinds
<1>7. CASE ReadRole(w, e)
  <2>1. \/ (role[Subject(w)] # "borrower" \/ May("db")) /\ Ends(w)
        \/ /\ role[Subject(w)] = "borrower"
           /\ Fields(w, "upgrade", worker[w].next, worker[w].max)
    BY <1>1, <1>7, DoneStep, ThenStep DEF ReadRole, NeedsUpgrade, Between, Subject
  <2>2. TakesType(w, "LIQUIDITY_DEPOSITED")
    BY <1>1, <1>7 DEF ReadRole, TakesType, Feed, Known
  <2>3. Deposits(w)
    BY <1>1, <1>7, <2>1, <2>2 DEF ReadRole, Deposits, Subject
  <2> QED BY <2>3 DEF FirstKinds
<1> QED BY <1>2, <1>3, <1>4, <1>5, <1>6, <1>7 DEF PersistEvent

LEMMA SecondKindsStep ==
  ASSUME TInv, NEW w \in Workers, SecondWrite(w) \/ SecondWriteFails(w)
  PROVE  SecondKinds(w)
<1> USE DEF tables
<1>1. /\ TypeOK /\ worker[w].pc \in Between /\ worker[w].next \in Events
  BY DEF TInv, Positions, Between, SecondWrite, SumPayments, FetchLoan, MarkRepaid, UpdateCache,
     UpgradeRole, SecondWriteFails
<1>2. Done(w, worker[w].next) => Ends(w)
  BY <1>1, DoneStep
<1>3. CASE SumPayments(w)
  <2>1. Adds(w)
    BY <1>3, SumStep DEF SumPayments, Adds, Subject
  <2> QED BY <2>1 DEF SecondKinds
<1>4. CASE FetchLoan(w)
  <2>1. Then(w, "mark") => /\ Fields(w, "mark", worker[w].next, worker[w].max)
                           /\ worker'[w].sum = worker[w].sum
    BY <1>1, ThenStep DEF Between
  <2>2. Looks(w)
    BY <1>2, <1>4, <2>1 DEF FetchLoan, Looks, Subject
  <2> QED BY <2>2 DEF SecondKinds
<1>5. CASE MarkRepaid(w)
  BY <1>2, <1>5 DEF MarkRepaid, Marks, Subject, SecondKinds
<1>6. CASE UpdateCache(w)
  BY <1>2, <1>6 DEF UpdateCache, Caches, NewScore, Subject, SecondKinds
<1>7. CASE UpgradeRole(w)
  BY <1>2, <1>7 DEF UpgradeRole, Upgrades, Subject, SecondKinds
<1>8. CASE SecondWriteFails(w)
  BY <1>1, <1>2, <1>8 DEF SecondWriteFails, GivesUp, SecondKinds
<1> QED BY <1>3, <1>4, <1>5, <1>6, <1>7, <1>8 DEF SecondWrite

LEMMA Kinds ==
  ASSUME TInv, NEW w \in Workers, IndexContract(w)
  PROVE  OthersStay(w) /\ (Quiet(w) \/ FirstKinds(w) \/ SecondKinds(w))
<1> USE DEF tables
<1>1. TypeOK /\ OthersStay(w)
  BY WorkerSteps DEF TInv
<1>2. CASE GetCursor(w)
  BY <1>1, <1>2, GetCursorStep DEF GetCursor, Starts, Quiet, Between
<1>3. CASE FetchEvents(w)
  <2>1. worker[w].pc = "fetch" /\ UNCHANGED <<tables, indexed, rewritten>>
    BY <1>3 DEF FetchEvents
  <2>2. worker'[w].pc \in {"loop", "idle"}
    BY <1>1, <1>3, FetchStep DEF Reads, Resets, Idle
  <2> QED BY <1>1, <2>1, <2>2 DEF Quiet, Between
<1>4. CASE FetchFails(w) \/ UpdateCursor(w) \/ Crash(w)
  <2>1. worker' = [worker EXCEPT ![w] = Idle]
    BY <1>4 DEF FetchFails, UpdateCursor, Crash
  <2>2. worker'[w] = Idle
    BY <1>1, <2>1, IdleStep
  <2> QED BY <1>1, <1>4, <2>2 DEF FetchFails, UpdateCursor, Crash, Quiet, Between, Idle
<1> QED BY <1>1, <1>2, <1>3, <1>4, FirstKindsStep, SecondKindsStep DEF IndexContract

-----------------------------------------------------------------------------
(* What the tables record of the events in the index.                      *)

RecordedRun(w) ==
  /\ worker[w].pc \in Between => worker[w].next \in indexed
  /\ worker[w].pc \in {"sum", "owed", "mark"} => Type(worker[w].next) = "LOAN_REPAID"
  /\ worker[w].pc = "cache" => Type(worker[w].next) = "SCORE_CHANGED"
Recorded ==
  /\ indexed \subseteq Feed
  /\ \A e \in Events : e \in payments <=> (e \in indexed /\ Type(e) = "LOAN_REPAID")
  /\ \A e \in Events : e \in scores <=> (e \in indexed /\ Type(e) = "SCORE_CHANGED")
  /\ \A e \in indexed : Type(e) = "LOAN_CREATED" => status[SubjectOf(e)] # "none"
  /\ \A w \in Workers : RecordedRun(w)

RInv == CInv /\ Recorded

LEMMA SettingKept ==
  ASSUME TInv, [Next]_vars
  PROVE  UNCHANGED setting
<1>1. ASSUME NEW w \in Workers, IndexContract(w)
      PROVE  UNCHANGED setting
  BY <1>1, WorkerSteps DEF Starts, Reads, Resets, Skips, Takes, Continues, Saves, WorkerOnly
<1> QED BY <1>1, OtherSteps

(* A row of loan_index is not deleted.                                     *)
LEMMA RowsStay ==
  ASSUME TInv, NEW w \in Workers, FirstKinds(w) \/ SecondKinds(w)
  PROVE  \A s \in Subjects : status[s] # "none" => status'[s] # "none"
<1>1. status \in [Subjects -> {"none", "active", "paid", "defaulted"}]
  BY DEF TInv, TypeOK
<1>2. CASE Creates(w) \/ Defaults(w)
  BY <1>1, <1>2 DEF Creates, Defaults, Upserted
<1>3. CASE Marks(w)
  BY <1>1, <1>3 DEF Marks, StatusOf
<1> QED BY <1>2, <1>3 DEF FirstKinds, SecondKinds, Pays, Scores, Deposits, Adds, Looks, GivesUp,
    Caches, Upgrades, tables

LEMMA RecordedNext ==
  ASSUME TInv, Recorded, UNCHANGED setting, NEW w \in Workers, IndexContract(w)
  PROVE  Recorded'
<1>1. OthersStay(w) /\ (Quiet(w) \/ FirstKinds(w) \/ SecondKinds(w))
  BY Kinds
<1> DEFINE e == worker[w].next
<1>2. /\ setting \in Settings /\ Feed \subseteq Events
      /\ \A x \in Events : SubjectOf(x) \in Subjects
      /\ status \in [Subjects -> {"none", "active", "paid", "defaulted"}]
  BY Types, FeedTypes, FeedIsNat DEF TInv, TypeOK
<1>3. /\ Events' = Events /\ Feed' = Feed
      /\ \A x : Type(x)' = Type(x) /\ SubjectOf(x)' = SubjectOf(x)
  BY FeedStays
<1>4. ASSUME NEW v \in Workers, v # w, indexed \subseteq indexed'
      PROVE  RecordedRun(v)'
  <2>1. worker'[v] = worker[v] /\ RecordedRun(v)
    BY <1>1, <1>4 DEF OthersStay, Recorded
  <2>2. Type(worker[v].next)' = Type(worker[v].next)
    BY <2>1 DEF Type
  <2> QED BY <1>4, <2>1, <2>2 DEF RecordedRun
<1>5. worker'[w].pc \notin Between => RecordedRun(w)'
  BY DEF RecordedRun, Between
<1>6. Type(worker[w].next)' = Type(worker'[w].next)
  BY DEF Type
<1>7. CASE Quiet(w)
  BY <1>1, <1>3, <1>4, <1>5, <1>7 DEF Recorded, Quiet, tables
<1>8. CASE FirstKinds(w)
  <2>1. /\ e \in Feed /\ indexed' = indexed \cup {e}
        /\ Type(e) = "LOAN_CREATED" => status'[SubjectOf(e)] # "none"
    BY <1>2, <1>8 DEF FirstKinds, Creates, Pays, Defaults, Scores, Deposits, TakesType, Upserted,
       Subject
  <2>2. \A x \in Events : x \in payments' <=> (x \in indexed' /\ Type(x) = "LOAN_REPAID")
    BY <1>2, <1>8, <2>1 DEF Recorded, FirstKinds, Creates, Pays, Defaults, Scores, Deposits,
       TakesType, tables
  <2>3. \A x \in Events : x \in scores' <=> (x \in indexed' /\ Type(x) = "SCORE_CHANGED")
    BY <1>2, <1>8, <2>1 DEF Recorded, FirstKinds, Creates, Pays, Defaults, Scores, Deposits,
       TakesType, tables
  <2>4. \A x \in indexed' : Type(x) = "LOAN_CREATED" => status'[SubjectOf(x)] # "none"
    BY <1>2, <1>8, <2>1, RowsStay DEF Recorded
  <2>5. \/ worker'[w].pc = "loop"
        \/ worker'[w].pc = "sum" /\ worker'[w].next = e /\ Type(e) = "LOAN_REPAID"
        \/ worker'[w].pc = "cache" /\ worker'[w].next = e /\ Type(e) = "SCORE_CHANGED"
        \/ worker'[w].pc = "upgrade" /\ worker'[w].next = e
    BY <1>8 DEF FirstKinds, Creates, Pays, Defaults, Scores, Deposits, TakesType, Ends, Fields
  <2>6. RecordedRun(w)'
    BY <1>3, <1>6, <2>1, <2>5 DEF RecordedRun, Between
  <2> QED BY <1>2, <1>3, <1>4, <2>1, <2>2, <2>3, <2>4, <2>6 DEF Recorded
<1>9. CASE SecondKinds(w)
  <2>1. UNCHANGED <<payments, scores, indexed>> /\ worker[w].pc \in Between
    BY <1>9 DEF SecondKinds, Adds, Looks, GivesUp, Marks, Caches, Upgrades, Between, tables
  <2>2. \A x \in indexed' : Type(x) = "LOAN_CREATED" => status'[SubjectOf(x)] # "none"
    BY <1>2, <1>9, <2>1, RowsStay DEF Recorded
  <2>3. \/ worker'[w].pc = "loop"
        \/ /\ worker'[w].pc \in {"owed", "mark"} /\ worker'[w].next = e
           /\ worker[w].pc \in {"sum", "owed"}
    BY <1>9 DEF SecondKinds, Adds, Looks, GivesUp, Marks, Caches, Upgrades, Ends, Fields
  <2>4. RecordedRun(w)'
    BY <1>3, <1>6, <2>1, <2>3 DEF Recorded, RecordedRun, Between
  <2> QED BY <1>2, <1>3, <1>4, <2>1, <2>2, <2>4 DEF Recorded
<1> QED BY <1>1, <1>7, <1>8, <1>9

LEMMA RInvInit == Init => RInv
  BY CInvInit DEF Init, RInv, Recorded, RecordedRun, Idle, Between

LEMMA RInvNext == RInv /\ [Next]_vars => RInv'
<1> SUFFICES ASSUME RInv, [Next]_vars PROVE Recorded'
  BY CInvNext DEF RInv
<1>1. TInv /\ Recorded /\ UNCHANGED setting
  BY SettingKept DEF RInv, CInv
<1>2. CASE UNCHANGED <<status, payments, scores, worker, indexed>>
  <2>1. \A v \in Workers : Type(worker[v].next)' = Type(worker[v].next)
    BY <1>1, <1>2 DEF Type
  <2> QED BY <1>1, <1>2, <2>1, FeedStays DEF Recorded, RecordedRun
<1> QED BY <1>1, <1>2, RecordedNext, OtherSteps

-----------------------------------------------------------------------------
(* One instance at a time that takes events in order: no event gets into   *)
(* the index after a later one.                                            *)

Calm == ~May("overlap") /\ ~May("db") /\ TakesInOrder

(* Where the index may still grow: from here on it holds all that precedes *)
(* any event it holds.                                                     *)
Base == IF May("cursor") THEN 0 ELSE cursor

Single ==
  \A v, w \in Workers : worker[v].pc # "idle" /\ worker[w].pc # "idle" => v = w
NoGaps ==
  \A e \in Feed, d \in indexed : LedgerOf(e) > Base /\ e \notin indexed => d < e
OrderedRun(w) ==
  /\ worker[w].pc # "idle" =>
       worker[w].start >= Base /\ (~May("cursor") => worker[w].start = cursor)
  /\ worker[w].pc \in Loop =>
       /\ \A d \in Events : d >= worker[w].next => LedgerOf(d) > worker[w].start
       /\ \A d \in Feed : d < worker[w].next /\ LedgerOf(d) > Base => d \in indexed
  /\ worker[w].pc \in Between => worker[w].next \in indexed
Ordered == Single /\ NoGaps /\ \A w \in Workers : OrderedRun(w)

OInv == RInv /\ (Calm => Ordered)

(* A new event comes after all that are in the index.                      *)
LEMMA NewIsNewest ==
  ASSUME TInv, Ordered, NEW w \in Workers, AtEvent(w), worker[w].next \in Feed,
         worker[w].next \notin indexed
  PROVE  \A d \in indexed : d < worker[w].next
<1>1. /\ setting \in Settings /\ worker[w] \in Runs /\ cursor \in Nat
      /\ worker[w].next \in Nat /\ worker[w].start \in Nat
      /\ LedgerOf(worker[w].next) \in Nat
  BY Types, FeedTypes DEF TInv, Runs, AtEvent
<1>2. LedgerOf(worker[w].next) > worker[w].start /\ worker[w].start >= Base
  BY <1>1 DEF Ordered, OrderedRun, AtEvent, Loop
<1>3. LedgerOf(worker[w].next) > Base
  BY <1>1, <1>2 DEF Base
<1> QED BY <1>3 DEF Ordered, NoGaps

LEMMA CalmStays ==
  ASSUME UNCHANGED setting
  PROVE  Calm' = Calm
  BY FeedStays DEF Calm, TakesInOrder

(* The other runs are idle.                                                *)
LEMMA OthersIdle ==
  ASSUME Calm, Ordered, NEW w \in Workers,
         Starts(w) \/ worker[w].pc # "idle"
  PROVE  \A v \in Workers \ {w} : worker[v].pc = "idle"
  BY DEF Calm, Ordered, Single, Starts

LEMMA OrderedNext ==
  ASSUME CInv, CInv', Calm, Ordered, UNCHANGED setting, NEW w \in Workers, OthersStay(w),
         Starts(w) \/ Reads(w) \/ Resets(w) \/ Skips(w) \/ Takes(w) \/ Continues(w) \/ Saves(w)
  PROVE  Ordered'
<1> DEFINE e == worker[w].next
<1>1. /\ TInv /\ setting \in Settings /\ worker[w] \in Runs /\ cursor \in Nat
      /\ Feed \subseteq Events /\ Events \subseteq Nat
      /\ \A d \in Events : LedgerOf(d) \in Nat \ {0}
      /\ \A d \in Feed : d \in Nat /\ LedgerOf(d) \in Nat
  BY Types, FeedIsNat DEF CInv, TInv
<1>2. Base \in Nat
  BY <1>1 DEF Base
<1>3. /\ Events' = Events /\ Feed' = Feed
      /\ \A d : LedgerOf(d)' = LedgerOf(d)
      /\ (\A x : May(x)' = May(x))
  BY FeedStays
<1>4. e \in Nat /\ worker[w].start \in Nat /\ worker[w].max \in Nat
  BY <1>1 DEF Runs
<1>5. \A v \in Workers \ {w} : worker'[v].pc = "idle"
  BY OthersIdle DEF OthersStay, Reads, Resets, Skips, AtEvent, Takes, Continues, Saves, Between
<1>6. Single' /\ \A v \in Workers \ {w} : OrderedRun(v)'
  BY <1>5 DEF Single, OrderedRun, Loop, Between
<1>7. OrderedRun(w)
  BY DEF Ordered
<1>8. CASE Starts(w)
  <2>1. UNCHANGED <<cursor, indexed>> /\ Base' = Base
    BY <1>3, <1>8 DEF Starts, WorkerOnly, Base
  <2>2. worker'[w].start >= Base /\ (~May("cursor") => worker'[w].start = cursor)
    <3>1. CASE May("cursor")
      <4>1. Base = 0 /\ worker'[w].start \in Nat
        BY <1>1, <1>8, <3>1 DEF Starts, Base
      <4> QED BY <3>1, <4>1
    <3>2. CASE ~May("cursor")
      <4>1. Base = cursor /\ worker'[w].start = cursor
        BY <1>8, <3>2 DEF Starts, Base
      <4> QED BY <1>1, <4>1
    <3> QED BY <3>1, <3>2
  <2>3. OrderedRun(w)'
    BY <1>3, <1>8, <2>1, <2>2 DEF Starts, OrderedRun, Loop, Between
  <2>4. NoGaps'
    BY <1>3, <2>1 DEF NoGaps, Ordered
  <2> QED BY <1>6, <2>3, <2>4 DEF Ordered
<1>9. CASE Reads(w)
  <2>1. /\ UNCHANGED <<cursor, indexed>> /\ Base' = Base
        /\ worker[w].pc = "fetch" /\ worker'[w].pc = "loop"
        /\ worker'[w].start = worker[w].start
    BY <1>3, <1>9 DEF Reads, WorkerOnly, Base
  <2>2. /\ worker'[w].next \in Nat
        /\ \A d \in Events : LedgerOf(d) > worker[w].start <=> d >= worker'[w].next
    BY <1>1, <1>9, ReadsInOrder
  <2>3. worker[w].start >= Base /\ (~May("cursor") => worker[w].start = cursor)
    BY <1>7, <2>1 DEF OrderedRun
  <2>4. ASSUME NEW d \in Feed, d < worker'[w].next, LedgerOf(d) > Base
        PROVE  d \in indexed
    <3>1. d \in Events /\ d \in Nat /\ LedgerOf(d) \in Nat
      BY <1>1
    <3>2. LedgerOf(d) <= worker[w].start
      BY <1>4, <2>2, <2>4, <3>1
    <3>3. CASE May("cursor")
      <4>1. Whole
        BY <3>3 DEF Calm, TakesInOrder, Whole
      <4>2. Behind(worker[w].start)
        BY <2>1, <4>1 DEF CInv, Chain, RunInOrder
      <4> QED BY <3>2, <4>2 DEF Behind
    <3>4. CASE ~May("cursor")
      <4>1. worker[w].start = cursor
        BY <2>3, <3>4
      <4> QED BY <1>1, <2>4, <3>1, <3>2, <3>4, <4>1 DEF Base
    <3> QED BY <3>3, <3>4
  <2>5. OrderedRun(w)'
    BY <1>3, <2>1, <2>2, <2>3, <2>4 DEF OrderedRun, Loop, Between
  <2>6. NoGaps'
    BY <1>3, <2>1 DEF NoGaps, Ordered
  <2> QED BY <1>6, <2>5, <2>6 DEF Ordered
<1>10. CASE Resets(w)
  <2>1. UNCHANGED <<cursor, indexed>> /\ Base' = Base /\ worker'[w].pc = "idle"
    BY <1>3, <1>10 DEF Resets, WorkerOnly, Base, Idle
  <2>2. OrderedRun(w)' /\ NoGaps'
    BY <1>3, <2>1 DEF NoGaps, Ordered, OrderedRun, Loop, Between
  <2> QED BY <1>6, <2>2 DEF Ordered
<1>11. CASE Skips(w)
  <2>1. /\ UNCHANGED <<cursor, indexed>> /\ Base' = Base /\ worker[w].pc = "loop"
        /\ e \notin Feed /\ Fields(w, "loop", e + 1, worker[w].max)
    BY <1>3, <1>11 DEF Skips, AtEvent, WorkerOnly, Base, Calm
  <2>2. /\ worker[w].start >= Base /\ (~May("cursor") => worker[w].start = cursor)
        /\ \A d \in Events : d >= e => LedgerOf(d) > worker[w].start
        /\ \A d \in Feed : d < e /\ LedgerOf(d) > Base => d \in indexed
    BY <1>7, <2>1 DEF OrderedRun, Loop
  <2>3. \A d \in Events : d >= e + 1 => LedgerOf(d) > worker[w].start
    <3>1. \A d \in Nat : d >= e + 1 => d >= e
      BY <1>4
    <3> QED BY <1>1, <2>2, <3>1
  <2>4. \A d \in Feed : d < e + 1 /\ LedgerOf(d) > Base => d \in indexed
    <3>1. \A d \in Feed : d \in Nat /\ d # e
      BY <1>1, <2>1
    <3> QED BY <1>4, <2>2, <3>1
  <2>5. OrderedRun(w)' /\ NoGaps'
    BY <1>3, <2>1, <2>2, <2>3, <2>4 DEF NoGaps, Ordered, OrderedRun, Loop, Between, Fields
  <2> QED BY <1>6, <2>5 DEF Ordered
<1>12. CASE Saves(w)
  <2>1. worker'[w].pc = "idle" /\ UNCHANGED indexed /\ worker[w].pc = "loop"
    BY <1>12 DEF Saves, Idle
  <2>2. Base' \in Nat /\ Base' >= Base
    <3>1. CASE May("cursor") \/ UNCHANGED cursor
      <4>1. Base' = Base
        BY <1>3, <3>1 DEF Base
      <4> QED BY <1>2, <4>1
    <3>2. CASE ~May("cursor") /\ cursor' = worker[w].max /\ worker[w].max > worker[w].start
      <4>1. worker[w].start = cursor /\ Base = cursor
        BY <1>7, <2>1, <3>2 DEF OrderedRun, Base
      <4>2. Base' = worker[w].max
        BY <1>3, <3>2 DEF Base
      <4> QED BY <1>4, <3>2, <4>1, <4>2
    <3> QED BY <1>12, <3>1, <3>2 DEF Saves
  <2>3. NoGaps'
    BY <1>1, <1>2, <1>3, <2>1, <2>2 DEF NoGaps, Ordered
  <2>4. OrderedRun(w)'
    BY <2>1 DEF OrderedRun, Loop, Between
  <2> QED BY <1>6, <2>3, <2>4 DEF Ordered
<1>13. CASE Takes(w) \/ Continues(w)
  <2>1. /\ UNCHANGED cursor /\ Base' = Base /\ worker[w].pc \in Loop /\ e \in Events
        /\ e \in indexed' /\ indexed \subseteq indexed'
        /\ Ends(w) \/ GoesOn(w)
    BY <1>1, <1>3, <1>7, <1>13 DEF Takes, Continues, AtEvent, Base, Loop, TInv, Positions,
       OrderedRun
  <2>2. /\ worker[w].start >= Base /\ (~May("cursor") => worker[w].start = cursor)
        /\ \A d \in Events : d >= e => LedgerOf(d) > worker[w].start
        /\ \A d \in Feed : d < e /\ LedgerOf(d) > Base => d \in indexed
    BY <1>7, <2>1 DEF OrderedRun, Loop, Between
  <2>3. NoGaps'
    <3>1. CASE UNCHANGED indexed
      BY <1>3, <2>1, <3>1 DEF NoGaps, Ordered
    <3>2. CASE Takes(w) /\ e \notin indexed
      <4>1. \A d \in Feed : LedgerOf(d) > Base /\ d \notin indexed' => e < d
        BY <1>1, <1>4, <2>1, <2>2
      <4>2. \A d \in Feed, c \in indexed : LedgerOf(d) > Base /\ d \notin indexed' => c < d
        BY <2>1 DEF NoGaps, Ordered
      <4>3. indexed' = indexed \cup {e}
        BY <3>2 DEF Takes
      <4> QED BY <1>3, <2>1, <4>1, <4>2, <4>3 DEF NoGaps
    <3> QED BY <1>13, <3>1, <3>2 DEF Takes, Continues
  <2>4. CASE Ends(w)
    <3>1. \A d \in Events : d >= e + 1 => LedgerOf(d) > worker[w].start
      <4>1. \A d \in Nat : d >= e + 1 => d >= e
        BY <1>4
      <4> QED BY <1>1, <2>2, <4>1
    <3>2. \A d \in Feed : d < e + 1 /\ LedgerOf(d) > Base => d \in indexed'
      BY <1>1, <1>4, <2>1, <2>2
    <3>3. OrderedRun(w)'
      BY <1>3, <2>1, <2>2, <2>4, <3>1, <3>2 DEF OrderedRun, Ends, Fields, Loop, Between
    <3> QED BY <1>6, <2>3, <3>3 DEF Ordered
  <2>5. CASE GoesOn(w)
    <3>1. PICK label \in Between : Fields(w, label, e, worker[w].max)
      BY <2>5 DEF GoesOn
    <3>2. OrderedRun(w)'
      BY <1>3, <2>1, <2>2, <3>1 DEF OrderedRun, Fields, Loop, Between
    <3> QED BY <1>6, <2>3, <3>2 DEF Ordered
  <2> QED BY <2>1, <2>4, <2>5
<1> QED BY <1>8, <1>9, <1>10, <1>11, <1>12, <1>13

LEMMA OInvInit == Init => OInv
  BY RInvInit DEF Init, OInv, Ordered, Single, NoGaps, OrderedRun, Idle, Loop, Between

LEMMA OInvNext == OInv /\ [Next]_vars => OInv'
<1> SUFFICES ASSUME OInv, [Next]_vars, Calm' PROVE Ordered'
  BY RInvNext DEF OInv
<1>1. CInv /\ CInv' /\ UNCHANGED setting /\ Calm /\ Ordered
  BY CInvNext, SettingKept, CalmStays DEF OInv, RInv, CInv
<1>2. CASE UNCHANGED <<cursor, worker, indexed>>
  <2>1. Base' = Base
    BY <1>1, <1>2, FeedStays DEF Base
  <2> QED BY <1>1, <1>2, <2>1, FeedStays DEF Ordered, Single, NoGaps, OrderedRun
<1>3. ASSUME NEW w \in Workers, IndexContract(w)
      PROVE  Ordered'
  BY <1>1, <1>3, WorkerSteps, OrderedNext DEF CInv
<1> QED BY <1>2, <1>3, OtherSteps

(* A payment or a score that is written for the first time is the newest.  *)
Newest ==
  \A w \in Workers : worker[w].pc \in {"sum", "owed", "mark", "cache"} =>
    \A d \in indexed : d <= worker[w].next

NInv == OInv /\ (Calm => Newest)

LEMMA FirstKindsAlone ==
  ASSUME Ordered, NEW w \in Workers, FirstKinds(w) \/ SecondKinds(w)
  PROVE  \A v \in Workers \ {w} : worker[v].pc = "idle"
<1>1. worker[w].pc # "idle"
  BY DEF FirstKinds, SecondKinds, Creates, Pays, Defaults, Scores, Deposits, TakesType, AtEvent,
     Adds, Looks, GivesUp, Marks, Caches, Upgrades, Between
<1> QED BY <1>1 DEF Ordered, Single

LEMMA NewestNext ==
  ASSUME TInv, Recorded, Ordered, Newest, UNCHANGED setting, NEW w \in Workers, IndexContract(w)
  PROVE  Newest'
<1>1. OthersStay(w) /\ (Quiet(w) \/ FirstKinds(w) \/ SecondKinds(w))
  BY Kinds
<1> DEFINE e == worker[w].next
<1>2. CASE Quiet(w)
  BY <1>1, <1>2 DEF Quiet, Newest, OthersStay, Between
<1>3. CASE SecondKinds(w)
  <2>1. /\ UNCHANGED indexed
        /\ \/ worker'[w].pc = "loop"
           \/ worker'[w].next = e /\ worker[w].pc \in {"sum", "owed"}
    BY <1>3 DEF SecondKinds, Adds, Looks, GivesUp, Marks, Caches, Upgrades, Ends, Fields
  <2> QED BY <1>1, <2>1 DEF Newest, OthersStay
<1>4. CASE FirstKinds(w)
  <2>1. /\ indexed' = indexed \cup {e} /\ AtEvent(w) /\ e \in Feed /\ e \in Events
        /\ \/ worker'[w].pc \in {"loop", "upgrade"}
           \/ worker'[w].next = e /\ e \notin payments /\ Type(e) = "LOAN_REPAID"
           \/ worker'[w].next = e /\ e \notin scores /\ Type(e) = "SCORE_CHANGED"
    BY <1>4 DEF FirstKinds, Creates, Pays, Defaults, Scores, Deposits, TakesType, AtEvent, Ends,
       Fields
  <2>2. e \notin indexed => \A d \in indexed' : d <= e
    <3>1. e \in Nat /\ indexed \subseteq Nat
      BY <2>1, Types, FeedIsNat DEF TInv, TypeOK
    <3>2. e \notin indexed => \A d \in indexed : d < e
      BY <2>1, NewIsNewest
    <3>3. \A d, x \in Nat : d < x \/ d = x => d <= x
      OBVIOUS
    <3>4. \A d \in indexed' : d \in indexed \/ d = e
      BY <2>1
    <3> HIDE DEF e
    <3> QED BY <3>1, <3>2, <3>3, <3>4
  <2>3. \A v \in Workers \ {w} : worker'[v].pc = "idle"
    BY <1>1, <1>4, FirstKindsAlone DEF OthersStay
  <2> QED BY <2>1, <2>2, <2>3 DEF Newest, Recorded
<1> QED BY <1>1, <1>2, <1>3, <1>4

LEMMA NInvInit == Init => NInv
  BY OInvInit DEF Init, NInv, Newest, Idle

LEMMA NInvNext == NInv /\ [Next]_vars => NInv'
<1> SUFFICES ASSUME NInv, [Next]_vars, Calm' PROVE Newest'
  BY OInvNext DEF NInv
<1>1. TInv /\ Recorded /\ Ordered /\ Newest /\ UNCHANGED setting
  BY SettingKept, CalmStays DEF NInv, OInv, RInv, CInv
<1>2. CASE UNCHANGED <<worker, indexed>>
  BY <1>1, <1>2 DEF Newest
<1> QED BY <1>1, <1>2, NewestNext, OtherSteps

-----------------------------------------------------------------------------
(* Depositors.                                                             *)

Raised(s) == s \in rewritten \/ role[s] # "borrower"
Upgraded ==
  \A e \in indexed : Type(e) = "LIQUIDITY_DEPOSITED" =>
    \/ Raised(SubjectOf(e))
    \/ \E w \in Workers : worker[w].pc = "upgrade" /\ Subject(w) = SubjectOf(e)

UInv == TInv /\ (Faultless => Upgraded)

LEMMA UpgradedNext ==
  ASSUME TInv, Faultless, Upgraded, UNCHANGED setting, NEW w \in Workers, IndexContract(w)
  PROVE  Upgraded'
<1>1. /\ OthersStay(w) /\ (Quiet(w) \/ FirstKinds(w) \/ SecondKinds(w))
      /\ role \in [Subjects -> Roles]
      /\ indexed \subseteq Events /\ setting \in Settings
  BY Kinds DEF TInv, TypeOK
<1>2. /\ \A x : Type(x)' = Type(x) /\ SubjectOf(x)' = SubjectOf(x)
      /\ \A x \in Events : SubjectOf(x) \in Subjects
  BY <1>1, FeedStays, FeedTypes
<1>3. \A v \in Workers \ {w} : worker'[v] = worker[v] /\ Subject(v)' = Subject(v)
  BY <1>1 DEF OthersStay, Subject, SubjectOf
<1>8. ~GivesUp(w) /\ (Quiet(w) => worker[w].pc \notin Between)
  BY DEF Faultless, May, GivesUp, Quiet
<1>9. \A s \in Subjects : role[s] # "borrower" => role'[s] # "borrower"
  BY <1>1 DEF Quiet, FirstKinds, SecondKinds, Creates, Pays, Defaults, Scores, Deposits,
     Adds, Looks, GivesUp, Marks, Caches, Upgrades, tables
<1>10. \/ UNCHANGED rewritten
       \/ \E e \in Events : ReadRole(w, e) /\ rewritten' = rewritten \ {SubjectOf(e)}
  BY RewrittenSteps
<1>11. worker[w].pc # "loop" \/ Type(worker[w].next) # "LIQUIDITY_DEPOSITED" => UNCHANGED rewritten
  BY <1>10 DEF ReadRole, At
<1>4. \A s \in Subjects :
        /\ worker[w].pc # "loop" \/ s # Subject(w) \/ Type(worker[w].next) # "LIQUIDITY_DEPOSITED"
        /\ Raised(s)
        => Raised(s)'
  BY <1>9, <1>10, <1>11 DEF Raised, ReadRole, At, Subject
<1>5. CASE worker[w].pc # "upgrade" /\ UNCHANGED <<indexed, rewritten, role>>
  <2>1. ASSUME NEW e \in indexed, Type(e) = "LIQUIDITY_DEPOSITED"
        PROVE  \/ Raised(SubjectOf(e))'
               \/ \E v \in Workers : worker'[v].pc = "upgrade" /\ Subject(v)' = SubjectOf(e)
    BY <1>1, <1>2, <1>3, <1>5, <2>1 DEF Upgraded, Raised
  <2> QED BY <1>2, <1>5, <2>1 DEF Upgraded, Raised
<1>6. CASE FirstKinds(w)
  <2>4. PICK n \in Events : n = worker[w].next
    BY <1>6 DEF FirstKinds, Creates, Pays, Defaults, Scores, Deposits, TakesType, AtEvent
  <2>1. /\ worker[w].pc = "loop" /\ indexed' = indexed \cup {n} /\ n \in Events
        /\ Type(n) = "LIQUIDITY_DEPOSITED" =>
             \/ Raised(SubjectOf(n))'
             \/ worker'[w].pc = "upgrade" /\ worker'[w].next = n
    <3>1. ~May("db")
      BY DEF Faultless, May
    <3> QED BY <1>2, <1>6, <2>4, <3>1 DEF FirstKinds, Creates, Pays, Defaults, Scores, Deposits, TakesType,
            AtEvent, Fields, Subject, Raised, tables
  <2>2. worker'[w].next = n => Subject(w)' = SubjectOf(n)
    BY DEF Subject, SubjectOf
  <2>3. ASSUME NEW e \in indexed', Type(e) = "LIQUIDITY_DEPOSITED"
        PROVE  \/ Raised(SubjectOf(e))'
               \/ \E v \in Workers : worker'[v].pc = "upgrade" /\ Subject(v)' = SubjectOf(e)
    <3>1. CASE SubjectOf(e) = SubjectOf(n) /\ Type(n) = "LIQUIDITY_DEPOSITED"
      <4>1. Raised(SubjectOf(e))' = Raised(SubjectOf(n))'
        BY <1>2, <3>1 DEF Raised
      <4> QED BY <2>1, <2>2, <3>1, <4>1
    <3>2. CASE e \in indexed /\ (SubjectOf(e) # SubjectOf(n) \/ Type(n) # "LIQUIDITY_DEPOSITED")
      <4>1. Raised(SubjectOf(e)) => Raised(SubjectOf(e))'
        <5>1. Raised(SubjectOf(e))' = (SubjectOf(e) \in rewritten' \/ role'[SubjectOf(e)] # "borrower")
          BY <1>2 DEF Raised
        <5>2. SubjectOf(e) \in rewritten => SubjectOf(e) \in rewritten'
          BY <1>10, <2>4, <3>2 DEF ReadRole, At
        <5> QED BY <1>1, <1>2, <1>9, <3>2, <5>1, <5>2 DEF Raised
      <4> QED BY <1>1, <1>2, <1>3, <2>1, <2>3, <3>2, <4>1 DEF Upgraded
    <3>3. e = n \/ e \in indexed
      BY <2>1
    <3> QED BY <2>3, <3>1, <3>2, <3>3
  <2> QED BY <1>2, <2>3 DEF Upgraded, Raised
<1>7. CASE Upgrades(w)
  <2>1. role'[Subject(w)] = "lp_provider" \/ Subject(w) \notin Subjects
    BY <1>1, <1>7 DEF Upgrades
  <2>2. ASSUME NEW e \in indexed', Type(e) = "LIQUIDITY_DEPOSITED"
        PROVE  \/ Raised(SubjectOf(e))'
               \/ \E v \in Workers : worker'[v].pc = "upgrade" /\ Subject(v)' = SubjectOf(e)
    <3>1. e \in indexed /\ SubjectOf(e) \in Subjects
      BY <1>1, <1>2, <1>7 DEF Upgrades
    <3>4. Raised(SubjectOf(e))' = (SubjectOf(e) \in rewritten' \/ role'[SubjectOf(e)] # "borrower")
      BY <1>2 DEF Raised
    <3>2. CASE Subject(w) = SubjectOf(e)
      BY <2>1, <3>1, <3>2, <3>4
    <3>3. CASE Subject(w) # SubjectOf(e)
      <4>1. Raised(SubjectOf(e)) => Raised(SubjectOf(e))'
        BY <1>7, <1>9, <1>11, <3>1, <3>4 DEF Raised, Upgrades
      <4> QED BY <1>3, <2>2, <3>1, <3>3, <4>1 DEF Upgraded
    <3> QED BY <3>2, <3>3
  <2> QED BY <1>2, <2>2 DEF Upgraded, Raised
<1> QED BY <1>1, <1>5, <1>6, <1>7, <1>8, <1>11 DEF Quiet, SecondKinds, Adds, Looks, Marks, Caches, Between,
    tables

LEMMA UInvInit == Init => UInv
  BY TInvInit DEF Init, UInv, Upgraded

LEMMA UInvNext == UInv /\ [Next]_vars => UInv'
<1> SUFFICES ASSUME UInv, [Next]_vars, Faultless' PROVE Upgraded'
  BY TInvNext DEF UInv
<1>1. TInv /\ Faultless /\ Upgraded /\ UNCHANGED setting
  BY SettingKept DEF UInv, Faultless
<1>2. CASE /\ UNCHANGED <<worker, indexed>>
           /\ UNCHANGED <<role, rewritten>> \/ \E s \in Subjects : WriteRole(s)
  <2>1. /\ role \in [Subjects -> Roles]
        /\ indexed \subseteq Events /\ \A x \in Events : SubjectOf(x) \in Subjects
    BY <1>1, FeedTypes DEF TInv, TypeOK
  <2>2. \A s \in Subjects : Raised(s) => Raised(s)'
    BY <1>2, <2>1 DEF WriteRole, Raised
  <2>3. \A v \in Workers : Subject(v)' = Subject(v)
    BY <1>1, <1>2 DEF Subject, SubjectOf
  <2>4. \A s : Raised(s)' = (s \in rewritten' \/ role'[s] # "borrower")
    BY DEF Raised
  <2>5. \A e \in indexed : Raised(SubjectOf(e)) => Raised(SubjectOf(e))'
    <3>1. \A e \in indexed : SubjectOf(e)' = SubjectOf(e) /\ SubjectOf(e) \in Subjects
      BY <1>1, <2>1, FeedStays
    <3> QED BY <2>2, <3>1, <2>4 DEF Raised
  <2> QED BY <1>1, <1>2, <2>1, <2>3, <2>5, FeedStays DEF Upgraded
<1> QED BY <1>1, <1>2, UpgradedNext, OtherSteps

-----------------------------------------------------------------------------
(* Defaults.                                                               *)

Excused(e) == \E d \in payments : d > e /\ SubjectOf(d) = SubjectOf(e)
Defaulted ==
  \A e \in indexed : Type(e) = "LOAN_DEFAULTED" =>
    status[SubjectOf(e)] \in {"none", "defaulted"} \/ Excused(e)

DInv == NInv /\ (Calm => Defaulted)

(* A loan gets its row before anything else of it gets into the index.     *)
LEMMA RowComesFirst ==
  ASSUME TInv, Recorded, Ordered, NEW w \in Workers, Creates(w), status[Subject(w)] = "none",
         NEW f \in indexed, Type(f) \in {"LOAN_REPAID", "LOAN_DEFAULTED"}
  PROVE  SubjectOf(f) # Subject(w)
<1> DEFINE n == worker[w].next
<1>1. /\ AtEvent(w) /\ n \in Feed /\ Type(n) = "LOAN_CREATED"
      /\ setting \in Settings /\ indexed \subseteq Events /\ Feed \subseteq Events
  BY Types, FeedIsNat DEF Creates, TakesType, TInv, TypeOK
<1>2. n \notin indexed
  BY <1>1 DEF Recorded, Subject
<1>3. f < n
  BY <1>1, <1>2, NewIsNewest
<1>4. f \in Events /\ n \in Events /\ f \in Nat /\ n \in Nat
  BY <1>1, FeedIsNat
<1>5. SubjectOf(f) = Subject(w) => n < f
  BY <1>1, <1>4, ChainOrder DEF Subject
<1> QED BY <1>3, <1>4, <1>5

LEMMA DefaultedNext ==
  ASSUME TInv, Recorded, Ordered, Newest, Defaulted, UNCHANGED setting,
         NEW w \in Workers, IndexContract(w)
  PROVE  Defaulted'
<1>1. /\ Quiet(w) \/ FirstKinds(w) \/ SecondKinds(w)
      /\ status \in [Subjects -> {"none", "active", "paid", "defaulted"}]
      /\ indexed \subseteq Events /\ payments \subseteq Events /\ setting \in Settings
  BY Kinds DEF TInv, TypeOK
<1>2. /\ \A x : Type(x)' = Type(x) /\ SubjectOf(x)' = SubjectOf(x)
      /\ \A x \in Events : SubjectOf(x) \in Subjects /\ x \in Nat
  BY <1>1, FeedStays, FeedTypes
<1> DEFINE n == worker[w].next
<1>3. payments \subseteq payments'
  BY <1>1 DEF Quiet, FirstKinds, SecondKinds, Creates, Pays, Defaults, Scores, Deposits,
     Adds, Looks, GivesUp, Marks, Caches, Upgrades, tables
<1>4. \A x : Excused(x) => Excused(x)'
  BY <1>2, <1>3 DEF Excused
<1>5. SUFFICES ASSUME NEW e \in indexed', Type(e) = "LOAN_DEFAULTED", ~Excused(e)'
               PROVE  status'[SubjectOf(e)] \in {"none", "defaulted"}
  BY <1>2 DEF Defaulted
<1>6. e \in indexed => status[SubjectOf(e)] \in {"none", "defaulted"}
  BY <1>4, <1>5 DEF Defaulted
<1>7. CASE UNCHANGED <<status, indexed>>
  BY <1>6, <1>7
<1>8. CASE Creates(w)
  <2>1. n \in Feed /\ indexed' = indexed \cup {n} /\ Type(n) = "LOAN_CREATED"
    BY <1>8 DEF Creates, TakesType
  <2>2. e \in indexed
    BY <1>5, <2>1
  <2>3. status[Subject(w)] = "none" => SubjectOf(e) # Subject(w)
    BY <1>5, <1>8, <2>2, RowComesFirst
  <2> QED BY <1>1, <1>2, <1>6, <1>8, <2>2, <2>3 DEF Creates, Upserted
<1>9. CASE Defaults(w)
  <2>1. /\ indexed' = indexed \cup {n} /\ n \in Feed /\ Subject(w) = SubjectOf(n)
        /\ status' = [status EXCEPT ![Subject(w)] = IF @ = "none" THEN @ ELSE "defaulted"]
    BY <1>9 DEF Defaults, TakesType, Subject
  <2>2. SubjectOf(n) \in Subjects
    BY <1>1, <1>2, <2>1, FeedIsNat
  <2>3. status'[Subject(w)] \in {"none", "defaulted"}
    BY <1>1, <2>1, <2>2
  <2>4. SubjectOf(e) # Subject(w) => e \in indexed /\ status'[SubjectOf(e)] = status[SubjectOf(e)]
    BY <1>1, <1>2, <2>1
  <2> QED BY <1>6, <2>3, <2>4
<1>10. CASE Pays(w) \/ Scores(w) \/ Deposits(w)
  <2>1. indexed' = indexed \cup {n} /\ Type(n) # "LOAN_DEFAULTED" /\ UNCHANGED status
    BY <1>10 DEF Pays, Scores, Deposits, TakesType, tables
  <2> QED BY <1>5, <1>6, <2>1
<1>11. CASE Marks(w)
  <2>1. /\ indexed' = indexed /\ payments' = payments /\ worker[w].pc = "mark"
        /\ n \in indexed /\ Type(n) = "LOAN_REPAID"
    BY <1>11 DEF Marks, Recorded, RecordedRun, Between
  <2>2. n \in payments /\ e <= n /\ e # n /\ e \in Nat /\ n \in Nat
    BY <1>1, <1>2, <1>5, <2>1 DEF Newest, Recorded
  <2>3. SubjectOf(n) # SubjectOf(e)
    <3>1. n > e
      BY <2>2
    <3> QED BY <1>2, <1>5, <2>1, <2>2, <3>1 DEF Excused
  <2> QED BY <1>6, <1>11, <2>1, <2>3 DEF Marks, Subject
<1> QED BY <1>1, <1>7, <1>8, <1>9, <1>10, <1>11
    DEF Quiet, FirstKinds, SecondKinds, Adds, Looks, GivesUp, Caches, Upgrades, tables

LEMMA DInvInit == Init => DInv
  BY NInvInit DEF Init, DInv, Defaulted

LEMMA DInvNext == DInv /\ [Next]_vars => DInv'
<1> SUFFICES ASSUME DInv, [Next]_vars, Calm' PROVE Defaulted'
  BY NInvNext DEF DInv
<1>1. TInv /\ Recorded /\ Ordered /\ Newest /\ Defaulted /\ UNCHANGED setting
  BY SettingKept, CalmStays DEF DInv, NInv, OInv, RInv, CInv
<1>2. CASE UNCHANGED <<status, payments, indexed>>
  BY <1>1, <1>2, FeedStays DEF Defaulted, Excused
<1> QED BY <1>1, <1>2, DefaultedNext, OtherSteps

-----------------------------------------------------------------------------
(* Repayments.                                                             *)

Settles(w, s) == worker[w].pc \in {"sum", "owed", "mark"} /\ Subject(w) = s
Covered(s) == status[s] = "paid" <=> PaidFor(s) >= Owed[s]
PaidUp ==
  \A s \in Subjects : status[s] \in {"active", "paid"} =>
    Covered(s) \/ \E w \in Workers : Settles(w, s)
Summed ==
  \A w \in Workers : worker[w].pc \in {"owed", "mark"} => worker[w].sum = PaidFor(Subject(w))

PInv == NInv /\ (Calm /\ Faultless => PaidUp /\ Summed)

LEMMA PaymentsStay ==
  ASSUME UNCHANGED <<setting, payments>>
  PROVE  \A s : PaidFor(s)' = PaidFor(s)
  BY DEF PaidFor

LEMMA SummedNext ==
  ASSUME TInv, Ordered, Faultless, Summed, UNCHANGED setting, NEW w \in Workers, IndexContract(w)
  PROVE  Summed'
<1>1. OthersStay(w) /\ (Quiet(w) \/ FirstKinds(w) \/ SecondKinds(w))
  BY Kinds
<1>2. \A s : UNCHANGED payments => PaidFor(s)' = PaidFor(s)
  BY PaymentsStay
<1>3. Subject(w)' = SubjectOf(worker'[w].next)
  BY DEF Subject, SubjectOf
<1>4. \A v \in Workers \ {w} :
        worker'[v] = worker[v] /\ Subject(v)' = Subject(v)
  BY <1>1 DEF OthersStay, Subject, SubjectOf
<1>5. \A v \in Workers : PaidFor(Subject(v))' = PaidIn(setting.events', payments', Subject(v)')
  BY DEF PaidFor
<1>6. \A s : PaidFor(s)' = PaidIn(setting.events', payments', s)
  BY DEF PaidFor
<1>7. CASE FirstKinds(w)
  <2>1. worker'[w].pc \notin {"owed", "mark"}
    BY <1>7 DEF FirstKinds, Creates, Pays, Defaults, Scores, Deposits, Ends, Fields
  <2>2. \A v \in Workers \ {w} : worker'[v].pc = "idle"
    BY <1>4, <1>7, FirstKindsAlone
  <2> QED BY <2>1, <2>2 DEF Summed
<1>8. CASE Quiet(w) \/ SecondKinds(w)
  <2>1. /\ UNCHANGED payments
        /\ \/ worker'[w].pc \notin {"owed", "mark"}
           \/ /\ worker'[w].next = worker[w].next
              /\ \/ worker'[w].sum = PaidFor(Subject(w))
                 \/ worker[w].pc = "owed" /\ worker'[w].sum = worker[w].sum
    BY <1>8 DEF Quiet, SecondKinds, Adds, Looks, GivesUp, Marks, Caches, Upgrades, Ends, Fields,
       tables, Between
  <2>2. worker'[w].next = worker[w].next => Subject(w)' = Subject(w)
    BY <1>3 DEF Subject
  <2>3. worker'[w].pc \in {"owed", "mark"} => worker'[w].sum = PaidFor(Subject(w))'
    BY <1>2, <1>5, <1>6, <2>1, <2>2 DEF Summed
  <2>4. \A v \in Workers \ {w} :
          worker'[v].pc \in {"owed", "mark"} => worker'[v].sum = PaidFor(Subject(v))'
    BY <1>2, <1>4, <1>5, <1>6, <2>1 DEF Summed
  <2> QED BY <2>3, <2>4 DEF Summed
<1> QED BY <1>1, <1>7, <1>8

(* Faultless, no event is left half written.                               *)
LEMMA NothingHalfDone ==
  ASSUME Faultless, NEW w \in Workers
  PROVE  ~GivesUp(w) /\ (Quiet(w) => worker[w].pc \notin Between)
  BY DEF Faultless, May, GivesUp, Quiet

LEMMA PaidUpNext ==
  ASSUME TInv, Recorded, Ordered, Faultless, PaidUp, Summed, UNCHANGED setting,
         NEW w \in Workers, IndexContract(w)
  PROVE  PaidUp'
<1>1. /\ OthersStay(w) /\ (Quiet(w) \/ FirstKinds(w) \/ SecondKinds(w))
      /\ status \in [Subjects -> {"none", "active", "paid", "defaulted"}]
      /\ indexed \subseteq Events /\ payments \subseteq Events /\ setting \in Settings
  BY Kinds DEF TInv, TypeOK
<1>2. /\ \A x \in Events : SubjectOf(x) \in Subjects
      /\ \A s \in Subjects : Owed[s] \in Nat \ {0} /\ PaidFor(s) \in Nat
  BY <1>1, FeedTypes, PaidForType, ConstantsAssumption
<1> DEFINE n == worker[w].next
<1>3. Subject(w)' = SubjectOf(worker'[w].next)
  BY DEF Subject, SubjectOf
<1>4. \A s : \A v \in Workers \ {w} : Settles(v, s) => Settles(v, s)'
  BY <1>1 DEF OthersStay, Settles, Subject, SubjectOf
<1>5. SUFFICES ASSUME NEW s \in Subjects, status'[s] \in {"active", "paid"},
                      \A v \in Workers : ~Settles(v, s)'
               PROVE  Covered(s)'
  BY DEF PaidUp
<1>6. \A v \in Workers \ {w} : ~Settles(v, s)
  BY <1>4, <1>5
<1>7. /\ ~GivesUp(w)
      /\ Quiet(w) => worker[w].pc \notin Between
  BY NothingHalfDone
<1>8. status'[s] = status[s] /\ PaidFor(s)' = PaidFor(s) /\ ~Settles(w, s) => Covered(s)'
  BY <1>5, <1>6 DEF PaidUp, Covered
<1>9. UNCHANGED payments => PaidFor(s)' = PaidFor(s)
  BY PaymentsStay
<1>10. CASE Quiet(w) \/ Scores(w) \/ Deposits(w) \/ Caches(w) \/ Upgrades(w)
  <2>1. UNCHANGED <<status, payments>> /\ worker[w].pc \notin {"sum", "owed", "mark"}
    BY <1>7, <1>10 DEF Quiet, Scores, Deposits, Caches, Upgrades, TakesType, AtEvent, tables,
       Between
  <2> QED BY <1>8, <1>9, <2>1 DEF Settles
<1>11. CASE Adds(w) \/ Looks(w)
  <2>1. /\ UNCHANGED <<status, payments>>
        /\ \/ worker'[w].pc \in {"owed", "mark"} /\ worker'[w].next = n
           \/ status[Subject(w)] = "none"
    BY <1>11 DEF Adds, Looks, Fields, tables
  <2>2. worker'[w].next = n => Subject(w)' = Subject(w)
    BY <1>3 DEF Subject
  <2>3. ~Settles(w, s)
    BY <1>5, <2>1, <2>2 DEF Settles
  <2> QED BY <1>8, <1>9, <2>1, <2>3
<1>12. CASE Marks(w)
  <2>1. /\ worker[w].pc = "mark" /\ UNCHANGED payments
        /\ status' = [status EXCEPT ![Subject(w)] = StatusOf(worker[w].sum, Owed[Subject(w)])]
    BY <1>12 DEF Marks
  <2>2. CASE Subject(w) = s
    <3>1. status'[s] = StatusOf(PaidFor(s), Owed[s])
      BY <1>1, <2>1, <2>2 DEF Summed
    <3> QED BY <1>9, <2>1, <3>1 DEF Covered, StatusOf
  <2>3. CASE Subject(w) # s
    BY <1>1, <1>8, <1>9, <2>1, <2>3 DEF Settles
  <2> QED BY <2>2, <2>3
<1>13. CASE Creates(w)
  <2>1. /\ worker[w].pc = "loop" /\ UNCHANGED payments
        /\ status' = [status EXCEPT ![Subject(w)] = Upserted(@)]
    BY <1>13 DEF Creates, TakesType, AtEvent
  <2>2. CASE status[s] # "none"
    BY <1>1, <1>8, <1>9, <2>1, <2>2 DEF Settles, Upserted
  <2>3. CASE status[s] = "none"
    <3>1. Subject(w) = s /\ status'[s] = "active"
      BY <1>1, <1>5, <2>1, <2>3 DEF Upserted
    <3>2. \A d \in payments : SubjectOf(d) # s
      BY <1>1, <1>13, <2>3, <3>1, RowComesFirst DEF Recorded
    <3>3. PaidFor(s) = 0
      BY <1>1, <3>2, NothingPaid
    <3>4. PaidFor(s)' = 0
      BY <1>9, <2>1, <3>3
    <3> QED BY <1>2, <3>1, <3>4 DEF Covered
  <2> QED BY <2>2, <2>3
<1>14. CASE Defaults(w)
  <2>1. /\ worker[w].pc = "loop" /\ UNCHANGED payments
        /\ status' = [status EXCEPT ![Subject(w)] = IF @ = "none" THEN @ ELSE "defaulted"]
    BY <1>14 DEF Defaults, TakesType, AtEvent
  <2>2. status'[s] = status[s]
    BY <1>1, <1>5, <2>1
  <2> QED BY <1>8, <1>9, <2>1, <2>2 DEF Settles
<1>15. CASE Pays(w)
  <2>1. /\ worker[w].pc = "loop" /\ UNCHANGED status /\ payments' = payments \cup {n}
        /\ n \in payments \/ (worker'[w].pc = "sum" /\ worker'[w].next = n)
    BY <1>15 DEF Pays, TakesType, AtEvent, Fields
  <2>2. CASE n \in payments
    <3>1. payments' = payments
      BY <2>1, <2>2
    <3> QED BY <1>8, <1>9, <2>1, <3>1 DEF Settles
  <2>3. CASE worker'[w].pc = "sum" /\ worker'[w].next = n
    <3>1. SubjectOf(n) # s
      <4>1. Subject(w)' = SubjectOf(n)
        BY <1>3, <2>3
      <4> QED BY <1>5, <2>3, <4>1 DEF Settles
    <3>2. \A e \in Events : SubjectOf(e) = s => (e \in payments <=> e \in payments')
      BY <2>1, <3>1
    <3>3. PaidFor(s)' = PaidFor(s)
      BY <1>1, <3>2, PaidForOthers
    <3> QED BY <1>8, <2>1, <3>3 DEF Settles
  <2> QED BY <2>1, <2>2, <2>3
<1> QED BY <1>1, <1>7, <1>10, <1>11, <1>12, <1>13, <1>14, <1>15 DEF FirstKinds, SecondKinds

LEMMA PInvInit == Init => PInv
<1> SUFFICES ASSUME Init PROVE PInv
  OBVIOUS
<1>1. PaidUp
  BY DEF Init, PaidUp
<1>2. Summed
  BY DEF Init, Summed, Idle
<1> QED BY <1>1, <1>2, NInvInit DEF PInv

LEMMA PInvNext == PInv /\ [Next]_vars => PInv'
<1> SUFFICES ASSUME PInv, [Next]_vars, Calm', Faultless' PROVE PaidUp' /\ Summed'
  BY NInvNext DEF PInv
<1>1. /\ TInv /\ Recorded /\ Ordered /\ UNCHANGED setting /\ Faultless /\ PaidUp /\ Summed
  BY SettingKept, CalmStays DEF PInv, NInv, OInv, RInv, CInv, Faultless
<1>2. CASE UNCHANGED <<status, payments, worker>>
  <2>1. /\ \A s : PaidFor(s)' = PaidFor(s)
        /\ \A v \in Workers : Subject(v)' = Subject(v) /\ PaidFor(Subject(v))' = PaidFor(Subject(v))
    BY <1>1, <1>2, PaymentsStay DEF Subject, SubjectOf, PaidFor
  <2>2. Summed'
    BY <1>1, <1>2, <2>1 DEF Summed
  <2>3. PaidUp'
    BY <1>1, <1>2, <2>1 DEF PaidUp, Covered, Settles
  <2> QED BY <2>2, <2>3
<1> QED BY <1>1, <1>2, PaidUpNext, SummedNext, OtherSteps

-----------------------------------------------------------------------------
(* Scores.                                                                 *)

LatestScore(s, e) ==
  SubjectOf(e) = s /\ \A d \in scores : SubjectOf(d) = s => d <= e
CachedUp ==
  \A s \in Subjects, e \in scores : LatestScore(s, e) =>
    \/ cached[s] = Value(e)
    \/ \E w \in Workers : worker[w].pc = "cache" /\ Subject(w) = s

KInv == NInv /\ (Calm /\ Faultless => CachedUp)

LEMMA CachedUpNext ==
  ASSUME TInv, Recorded, Ordered, Newest, Faultless, CachedUp, UNCHANGED setting,
         NEW w \in Workers, IndexContract(w)
  PROVE  CachedUp'
<1>1. /\ OthersStay(w) /\ (Quiet(w) \/ FirstKinds(w) \/ SecondKinds(w))
      /\ cached \in [Subjects -> Nat]
      /\ indexed \subseteq Events /\ scores \subseteq Events /\ setting \in Settings
  BY Kinds DEF TInv, TypeOK
<1>2. /\ \A x \in Events : SubjectOf(x) \in Subjects /\ x \in Nat
      /\ \A x : SubjectOf(x)' = SubjectOf(x) /\ Value(x)' = Value(x)
  BY <1>1, FeedTypes, FeedStays
<1> DEFINE n == worker[w].next
           Stores(v, s) == worker[v].pc = "cache" /\ Subject(v) = s
<1>3. Subject(w)' = SubjectOf(worker'[w].next)
  BY DEF Subject, SubjectOf
<1>4. \A s : \A v \in Workers \ {w} : Stores(v, s) => Stores(v, s)'
  BY <1>1 DEF OthersStay, Subject, SubjectOf
<1>5. SUFFICES ASSUME NEW s \in Subjects, NEW e \in scores', LatestScore(s, e)',
                      \A v \in Workers : ~Stores(v, s)'
               PROVE  cached'[s] = Value(e)
  BY <1>2 DEF CachedUp
<1>6. /\ ~GivesUp(w)
      /\ Quiet(w) => worker[w].pc \notin Between
  BY NothingHalfDone
<1>7. SubjectOf(e) = s /\ \A d \in scores' : SubjectOf(d) = s => d <= e
  BY <1>2, <1>5 DEF LatestScore
<1>8. \A v \in Workers \ {w} : ~Stores(v, s)
  BY <1>4, <1>5
<1>9. CASE UNCHANGED <<scores, cached>> /\ worker[w].pc # "cache"
  <2>1. LatestScore(s, e)
    BY <1>7, <1>9 DEF LatestScore
  <2> QED BY <1>5, <1>8, <1>9, <2>1 DEF CachedUp
<1>10. CASE Scores(w)
  <2>1. /\ worker[w].pc = "loop" /\ UNCHANGED cached /\ scores' = scores \cup {n}
        /\ n \in scores \/ (worker'[w].pc = "cache" /\ worker'[w].next = n)
    BY <1>10 DEF Scores, TakesType, AtEvent, Fields
  <2>2. n \in scores => UNCHANGED scores
    BY <2>1
  <2>3. CASE worker'[w].pc = "cache" /\ worker'[w].next = n
    <3>1. SubjectOf(n) # s
      BY <1>3, <1>5, <2>3
    <3>2. e \in scores /\ LatestScore(s, e)
      BY <1>7, <2>1, <3>1 DEF LatestScore
    <3> QED BY <1>8, <2>1, <3>2 DEF CachedUp
  <2> QED BY <1>9, <2>1, <2>2, <2>3
<1>11. CASE Caches(w)
  <2>1. /\ worker[w].pc = "cache" /\ UNCHANGED scores
        /\ cached' = [cached EXCEPT ![Subject(w)] = Value(n)]
    BY <1>11 DEF Caches
  <2>2. CASE Subject(w) = s
    <3>1. n \in indexed /\ Type(n) = "SCORE_CHANGED" /\ SubjectOf(n) = s
      BY <2>1, <2>2 DEF Recorded, RecordedRun, Between, Subject
    <3>2. n \in scores /\ n \in Events /\ e \in Events
      BY <1>1, <2>1, <3>1 DEF Recorded
    <3>3. n <= e
      BY <1>7, <2>1, <3>1, <3>2
    <3>4. e <= n
      BY <2>1, <3>2 DEF Newest, Recorded
    <3>5. e = n
      BY <1>2, <3>2, <3>3, <3>4
    <3> QED BY <1>1, <2>1, <2>2, <3>5
  <2>3. CASE Subject(w) # s
    <3>1. LatestScore(s, e)
      BY <1>7, <2>1 DEF LatestScore
    <3>2. cached'[s] = cached[s]
      BY <1>1, <2>1, <2>3
    <3> QED BY <1>8, <2>1, <2>3, <3>1, <3>2 DEF CachedUp
  <2> QED BY <2>2, <2>3
<1>12. /\ Quiet(w) \/ Creates(w) \/ Pays(w) \/ Defaults(w) \/ Deposits(w) \/ Adds(w) \/ Looks(w)
            \/ Marks(w) \/ Upgrades(w)
          => UNCHANGED <<scores, cached>> /\ worker[w].pc # "cache"
  BY <1>6 DEF Quiet, Creates, Pays, Defaults, Deposits, Adds, Looks, Marks, Upgrades, TakesType,
     AtEvent, tables, Between
<1> QED BY <1>1, <1>6, <1>9, <1>10, <1>11, <1>12 DEF FirstKinds, SecondKinds

LEMMA KInvInit == Init => KInv
  BY NInvInit DEF Init, KInv, CachedUp

LEMMA KInvNext == KInv /\ [Next]_vars => KInv'
<1> SUFFICES ASSUME KInv, [Next]_vars, Calm', Faultless' PROVE CachedUp'
  BY NInvNext DEF KInv
<1>1. /\ TInv /\ Recorded /\ Ordered /\ Newest /\ UNCHANGED setting /\ Faultless /\ CachedUp
  BY SettingKept, CalmStays DEF KInv, NInv, OInv, RInv, CInv, Faultless
<1>2. CASE UNCHANGED <<scores, cached, worker>>
  <2>1. \A v \in Workers : Subject(v)' = Subject(v)
    BY <1>1, <1>2 DEF Subject, SubjectOf
  <2> QED BY <1>1, <1>2, <2>1, FeedStays DEF CachedUp, LatestScore
<1> QED BY <1>1, <1>2, CachedUpNext, OtherSteps

-----------------------------------------------------------------------------
(* Where nothing is gone over again, a default that is taken is newer than *)
(* every repayment in the index.                                           *)

Fresh ==
  /\ (\A w \in Workers : worker[w].pc \notin Loop) => \A d \in indexed : LedgerOf(d) <= cursor
  /\ \A w \in Workers :
       /\ worker[w].pc = "fetch" => worker[w].max = worker[w].start
       /\ worker[w].pc \in Loop =>
            /\ worker[w].max >= worker[w].start
            /\ \A d \in indexed :
                 /\ \/ LedgerOf(d) <= worker[w].max
                    \/ worker[w].pc \in Between /\ d = worker[w].next
                 /\ \/ LedgerOf(d) <= cursor
                    \/ d < worker[w].next
                    \/ worker[w].pc \in Between /\ d = worker[w].next

Answered(d) ==
  \E e \in indexed : e > d /\ Type(e) = "LOAN_DEFAULTED" /\ SubjectOf(e) = SubjectOf(d)
Kept ==
  \A d \in payments :
    \/ status[SubjectOf(d)] # "defaulted"
    \/ Answered(d)
    \/ \E w \in Workers : Settles(w, SubjectOf(d))

FInv == NInv /\ (GoesOverNothingAgain => Fresh /\ Kept)

LEMMA NothingAgain ==
  ASSUME GoesOverNothingAgain
  PROVE  Calm /\ Faultless /\ ~May("cursor") /\ ~May("crash") /\ ~May("db")
  BY DEF GoesOverNothingAgain, Calm, TakesInOrder, Faultless, May

LEMMA FreshNext ==
  ASSUME TInv, Calm, ~May("cursor"), ~May("crash"), Ordered, Fresh, UNCHANGED setting,
         NEW w \in Workers, OthersStay(w),
         Starts(w) \/ Reads(w) \/ Resets(w) \/ Skips(w) \/ Takes(w) \/ Continues(w) \/ Saves(w)
  PROVE  Fresh'
<1>1. /\ setting \in Settings /\ worker[w] \in Runs /\ cursor \in Nat /\ indexed \subseteq Nat
      /\ Events \subseteq Nat /\ \A d \in Events : LedgerOf(d) \in Nat
      /\ indexed \subseteq Events
  BY Types, FeedIsNat DEF TInv, TypeOK
<1>2. PICK n \in Nat, max \in Nat, start \in Nat :
        n = worker[w].next /\ max = worker[w].max /\ start = worker[w].start
  BY <1>1 DEF Runs
<1>3. \A d : LedgerOf(d)' = LedgerOf(d)
  BY FeedStays
<1>4. \A v \in Workers \ {w} : worker'[v].pc = "idle"
  BY OthersIdle DEF OthersStay, Reads, Resets, Skips, AtEvent, Takes, Continues, Saves, Between
<1>5. worker[w].pc \notin Loop => \A v \in Workers : worker[v].pc \notin Loop
  BY OthersIdle DEF Starts, Reads, Resets, Skips, AtEvent, Takes, Continues, Saves, Between, Loop
<1>6. OrderedRun(w)
  BY DEF Ordered
<1>7. CASE Starts(w)
  BY <1>3, <1>4, <1>5, <1>7 DEF Fresh, Starts, WorkerOnly, Loop, Between
<1>8. CASE Reads(w)
  <2>1. /\ worker[w].pc = "fetch" /\ worker'[w].pc = "loop" /\ UNCHANGED <<cursor, indexed>>
        /\ worker'[w].max = max /\ worker'[w].start = start
    BY <1>2, <1>8 DEF Reads, WorkerOnly
  <2>2. start = cursor /\ max = start /\ \A d \in indexed : LedgerOf(d) <= cursor
    BY <1>2, <1>5, <1>6, <2>1 DEF Fresh, OrderedRun, Loop, Between
  <2> QED BY <1>3, <1>4, <2>1, <2>2 DEF Fresh, Loop, Between
<1>9. CASE Resets(w)
  <2>1. worker[w].pc = "fetch" /\ worker'[w].pc = "idle" /\ UNCHANGED <<cursor, indexed>>
    BY <1>9 DEF Resets, WorkerOnly, Idle
  <2> QED BY <1>3, <1>4, <1>5, <2>1 DEF Fresh, Loop, Between
<1>10. CASE Skips(w)
  <2>1. /\ worker[w].pc = "loop" /\ worker'[w].pc = "loop" /\ UNCHANGED <<cursor, indexed>>
        /\ worker'[w].next = n + 1 /\ worker'[w].max = max /\ worker'[w].start = start
    BY <1>2, <1>10 DEF Skips, AtEvent, WorkerOnly, Fields
  <2>2. /\ max >= start
        /\ \A d \in indexed : LedgerOf(d) <= max /\ (LedgerOf(d) <= cursor \/ d < n)
    BY <1>2, <2>1 DEF Fresh, Loop, Between
  <2>3. \A d \in indexed : d < n => d < n + 1
    BY <1>1
  <2> QED BY <1>3, <1>4, <2>1, <2>2, <2>3 DEF Fresh, Loop, Between
<1>11. CASE Takes(w) \/ Continues(w)
  <2>1. /\ worker[w].pc \in Loop /\ UNCHANGED cursor
        /\ n \in Events /\ indexed' \subseteq indexed \cup {n}
        /\ Ends(w) \/ GoesOn(w)
    BY <1>2, <1>11 DEF Takes, Continues, AtEvent, Loop, TInv, Positions
  <2>2. /\ max >= start
        /\ \A d \in indexed : LedgerOf(d) <= max \/ d = n
        /\ \A d \in indexed : LedgerOf(d) <= cursor \/ d < n \/ d = n
    BY <1>2, <2>1 DEF Fresh
  <2>3. \A d \in indexed' : d \in Nat /\ LedgerOf(d) \in Nat
    BY <1>1, <2>1
  <2>4. \A d \in indexed' :
          (LedgerOf(d) <= max \/ d = n) /\ (LedgerOf(d) <= cursor \/ d < n \/ d = n)
    BY <2>1, <2>2
  <2>5. CASE Ends(w)
    <3>1. PICK top \in Nat : top = MaxLedgerAfter(w, n)
      BY <1>1, <1>2, <2>1 DEF MaxLedgerAfter
    <3>2. top >= max /\ top >= LedgerOf(n) /\ LedgerOf(n) \in Nat
      BY <1>1, <1>2, <2>1, <3>1 DEF MaxLedgerAfter
    <3>3. worker'[w].pc = "loop" /\ worker'[w].next = n + 1 /\ worker'[w].max = top
          /\ worker'[w].start = start
      BY <1>2, <2>5, <3>1 DEF Ends, Fields
    <3>4. \A d \in indexed' : LedgerOf(d) <= top /\ (LedgerOf(d) <= cursor \/ d < n + 1)
      BY <2>3, <2>4, <3>2
    <3>5. top >= start
      BY <2>2, <3>2
    <3> QED BY <1>3, <1>4, <2>1, <3>3, <3>4, <3>5 DEF Fresh, Loop, Between
  <2>6. CASE GoesOn(w)
    <3>1. worker'[w].pc \in Between /\ worker'[w].next = n /\ worker'[w].max = max
          /\ worker'[w].start = start
      BY <1>2, <2>6 DEF GoesOn, Fields
    <3> QED BY <1>3, <1>4, <2>1, <2>2, <2>4, <3>1 DEF Fresh, Loop, Between
  <2> QED BY <2>1, <2>5, <2>6
<1>12. CASE Saves(w)
  <2>1. /\ worker[w].pc = "loop" /\ worker'[w].pc = "idle" /\ UNCHANGED indexed
        /\ \/ max > start /\ cursor' = max
           \/ UNCHANGED cursor /\ max <= start
    BY <1>2, <1>12 DEF Saves, Idle
  <2>2. /\ max >= start /\ start = cursor
        /\ \A d \in indexed : LedgerOf(d) <= max
    BY <1>2, <1>6, <2>1 DEF Fresh, OrderedRun, Loop, Between
  <2>3. \A d \in indexed : LedgerOf(d) <= cursor'
    BY <1>1, <2>1, <2>2
  <2> QED BY <1>3, <1>4, <2>1, <2>3 DEF Fresh, Loop, Between
<1> QED BY <1>7, <1>8, <1>9, <1>10, <1>11, <1>12

(* An event that is about to be taken has not been taken before.           *)
LEMMA NotTakenBefore ==
  ASSUME TInv, ~May("cursor"), Ordered, Fresh, NEW w \in Workers, AtEvent(w)
  PROVE  worker[w].next \notin indexed
<1>1. PICK n \in Events : n = worker[w].next
  BY DEF AtEvent
<1>2. /\ n \in Nat /\ LedgerOf(n) \in Nat /\ cursor \in Nat
  BY Types, FeedIsNat DEF TInv
<1>3. LedgerOf(n) > cursor
  BY <1>1, <1>2 DEF Ordered, OrderedRun, AtEvent, Loop
<1>4. n \in indexed => LedgerOf(n) <= cursor \/ n < n
  BY <1>1 DEF Fresh, AtEvent, Loop, Between
<1> QED BY <1>1, <1>2, <1>3, <1>4

LEMMA KeptNext ==
  ASSUME TInv, Recorded, Ordered, Faultless, ~May("cursor"), Fresh, Kept, UNCHANGED setting,
         NEW w \in Workers, IndexContract(w)
  PROVE  Kept'
<1>1. /\ OthersStay(w) /\ (Quiet(w) \/ FirstKinds(w) \/ SecondKinds(w))
      /\ status \in [Subjects -> {"none", "active", "paid", "defaulted"}]
      /\ indexed \subseteq Events /\ payments \subseteq Events /\ setting \in Settings
  BY Kinds DEF TInv, TypeOK
<1>2. /\ \A x : Type(x)' = Type(x) /\ SubjectOf(x)' = SubjectOf(x)
      /\ \A x \in Events : SubjectOf(x) \in Subjects /\ x \in Nat
  BY <1>1, FeedStays, FeedTypes
<1>3. ~GivesUp(w) /\ (Quiet(w) => worker[w].pc \notin Between)
  BY NothingHalfDone
<1>4. PICK n : n = worker[w].next
  OBVIOUS
<1>5. Subject(w) = SubjectOf(n) /\ (worker'[w].next = n => Subject(w)' = SubjectOf(n))
  BY <1>2, <1>4 DEF Subject, SubjectOf
<1>6. \A s : \A v \in Workers \ {w} : Settles(v, s) => Settles(v, s)'
  BY <1>1 DEF OthersStay, Settles, Subject, SubjectOf
<1>7. indexed \subseteq indexed'
  BY <1>1 DEF Quiet, FirstKinds, SecondKinds, Creates, Pays, Defaults, Scores, Deposits, TakesType,
     Adds, Looks, GivesUp, Marks, Caches, Upgrades
<1>8. SUFFICES ASSUME NEW d \in payments', status'[SubjectOf(d)] = "defaulted",
                      ~\E e \in indexed' : e > d /\ Type(e) = "LOAN_DEFAULTED"
                                           /\ SubjectOf(e) = SubjectOf(d)
               PROVE  \E v \in Workers : Settles(v, SubjectOf(d))'
  <2>1. \A d : Answered(d)' <=> \E e \in indexed' : e > d /\ Type(e) = "LOAN_DEFAULTED"
                                                  /\ SubjectOf(e) = SubjectOf(d)
    BY <1>2 DEF Answered
  <2>2. \A d : \A v \in Workers : Settles(v, SubjectOf(d))' <=>
               (worker'[v].pc \in {"sum", "owed", "mark"} /\ Subject(v)' = SubjectOf(d))
    BY <1>2 DEF Settles
  <2> QED BY <1>2, <1>8, <2>1, <2>2 DEF Kept, Settles
<1>9. PICK s : s = SubjectOf(d)
  OBVIOUS
<1>10. SUFFICES \E v \in Workers : Settles(v, s)'
  BY <1>2, <1>9 DEF Settles
<1>11. ~Answered(d)
  BY <1>7, <1>8 DEF Answered
<1>12. CASE d \in payments /\ status[s] = "defaulted"
             /\ (Settles(w, s) => worker'[w].pc \in {"sum", "owed", "mark"} /\ worker'[w].next = n)
  <2>1. PICK v \in Workers : Settles(v, s)
    BY <1>9, <1>11, <1>12 DEF Kept
  <2>2. CASE v = w
    <3>1. Subject(w)' = s
      BY <1>5, <1>12, <2>1, <2>2 DEF Settles
    <3> QED BY <1>12, <2>1, <2>2, <3>1 DEF Settles
  <2> QED BY <1>6, <2>1, <2>2
<1>13. CASE Quiet(w) \/ Scores(w) \/ Deposits(w) \/ Caches(w) \/ Upgrades(w)
  <2>1. UNCHANGED <<status, payments>> /\ worker[w].pc \notin {"sum", "owed", "mark"}
    BY <1>3, <1>13 DEF Quiet, Scores, Deposits, Caches, Upgrades, TakesType, AtEvent, tables,
       Between
  <2> QED BY <1>8, <1>9, <1>12, <2>1 DEF Settles
<1>14. CASE Adds(w) \/ Looks(w)
  <2>1. /\ UNCHANGED <<status, payments>>
        /\ \/ worker'[w].pc \in {"owed", "mark"} /\ worker'[w].next = n
           \/ status[SubjectOf(n)] = "none"
    BY <1>4, <1>5, <1>14 DEF Adds, Looks, Fields, tables
  <2>2. status[s] = "defaulted"
    BY <1>8, <1>9, <2>1
  <2> QED BY <1>5, <1>8, <1>12, <2>1, <2>2 DEF Settles
<1>15. CASE Marks(w)
  <2>1. /\ UNCHANGED payments
        /\ status' = [status EXCEPT ![Subject(w)] = StatusOf(worker[w].sum, Owed[Subject(w)])]
    BY <1>15 DEF Marks
  <2>2. Subject(w) # s
    BY <1>1, <1>2, <1>8, <1>9, <2>1 DEF StatusOf
  <2> QED BY <1>1, <1>8, <1>9, <1>12, <2>1, <2>2 DEF Settles
<1>16. CASE Creates(w)
  <2>1. /\ worker[w].pc = "loop" /\ UNCHANGED payments
        /\ status' = [status EXCEPT ![Subject(w)] = Upserted(@)]
    BY <1>16 DEF Creates, TakesType, AtEvent
  <2>2. status[s] = "defaulted" /\ d \in payments
    BY <1>1, <1>2, <1>8, <1>9, <2>1 DEF Upserted
  <2> QED BY <1>12, <2>1, <2>2 DEF Settles
<1>17. CASE Defaults(w)
  <2>1. /\ worker[w].pc = "loop" /\ UNCHANGED payments /\ AtEvent(w) /\ n \in Feed /\ n \in Events
        /\ indexed' = indexed \cup {n} /\ Type(n) = "LOAN_DEFAULTED"
        /\ status' = [status EXCEPT ![Subject(w)] = IF @ = "none" THEN @ ELSE "defaulted"]
    BY <1>4, <1>17 DEF Defaults, TakesType, AtEvent
  <2>2. n \notin indexed
    BY <1>4, <2>1, NotTakenBefore
  <2>3. d < n
    <3>1. d \in indexed
      BY <1>1, <1>8, <2>1 DEF Recorded
    <3> QED BY <1>4, <2>1, <2>2, <3>1, NewIsNewest
  <2>4. SubjectOf(n) # s
    <3>1. d \in Nat /\ n \in Nat
      BY <1>1, <1>2, <1>8, <2>1
    <3>2. n > d
      BY <2>3, <3>1
    <3> QED BY <1>8, <1>9, <2>1, <3>2
  <2>5. status[s] = "defaulted"
    BY <1>1, <1>2, <1>5, <1>8, <1>9, <2>1, <2>4
  <2> QED BY <1>8, <1>12, <2>1, <2>5 DEF Settles
<1>18. CASE Pays(w)
  <2>1. /\ worker[w].pc = "loop" /\ UNCHANGED status /\ payments' = payments \cup {n}
        /\ n \in payments \/ (worker'[w].pc = "sum" /\ worker'[w].next = n)
    BY <1>4, <1>18 DEF Pays, TakesType, AtEvent, Fields
  <2>2. CASE d \in payments
    BY <1>8, <1>9, <1>12, <2>1, <2>2 DEF Settles
  <2>3. CASE d = n /\ n \notin payments
    BY <1>5, <1>9, <2>1, <2>3 DEF Settles
  <2> QED BY <2>1, <2>2, <2>3
<1> QED BY <1>1, <1>3, <1>13, <1>14, <1>15, <1>16, <1>17, <1>18 DEF FirstKinds, SecondKinds

LEMMA FInvInit == Init => FInv
<1> SUFFICES ASSUME Init PROVE FInv
  OBVIOUS
<1>1. Fresh
  BY DEF Init, Fresh, Idle, Loop, Between
<1>2. Kept
  BY DEF Init, Kept
<1> QED BY <1>1, <1>2, NInvInit DEF FInv

LEMMA FInvNext == FInv /\ [Next]_vars => FInv'
<1> SUFFICES ASSUME FInv, [Next]_vars, GoesOverNothingAgain' PROVE Fresh' /\ Kept'
  BY NInvNext DEF FInv
<1>1. TInv /\ UNCHANGED setting
  BY SettingKept DEF FInv, NInv, OInv, RInv, CInv
<1>2. /\ GoesOverNothingAgain /\ Calm /\ Faultless
      /\ ~May("cursor") /\ ~May("crash")
  BY <1>1, NothingAgain DEF GoesOverNothingAgain
<1>3. Recorded /\ Ordered /\ Fresh /\ Kept
  BY <1>2 DEF FInv, NInv, OInv, RInv
<1>4. CASE UNCHANGED <<cursor, status, payments, worker, indexed>>
  <2>1. \A v \in Workers : Subject(v)' = Subject(v)
    BY <1>1, <1>4 DEF Subject, SubjectOf
  <2>2. \A d : /\ LedgerOf(d)' = LedgerOf(d) /\ SubjectOf(d)' = SubjectOf(d)
               /\ Answered(d)' = Answered(d)
    BY <1>1, <1>4, FeedStays DEF Answered
  <2>3. Fresh'
    BY <1>3, <1>4, <2>2 DEF Fresh
  <2>4. Kept'
    BY <1>3, <1>4, <2>1, <2>2 DEF Kept, Settles
  <2> QED BY <2>3, <2>4
<1>5. ASSUME NEW w \in Workers, IndexContract(w)
      PROVE  Fresh' /\ Kept'
  BY <1>1, <1>2, <1>3, <1>5, WorkerSteps, FreshNext, KeptNext
<1> QED BY <1>4, <1>5, OtherSteps

-----------------------------------------------------------------------------
(* It is a borrower that is raised, where one instance runs.               *)

Borrowers ==
  \A w \in Workers : worker[w].pc = "upgrade" =>
    Subject(w) \in rewritten \/ role[Subject(w)] = "borrower"

BInv == TInv /\ (~May("overlap") => Single /\ Borrowers)

LEMMA BInvInit == Init => BInv
  BY TInvInit DEF Init, BInv, Single, Borrowers, Idle

LEMMA SingleNext ==
  ASSUME TInv, ~May("overlap"), Single, NEW w \in Workers, IndexContract(w)
  PROVE  Single'
<1>1. /\ OthersStay(w)
      /\ \/ Starts(w) \/ Reads(w) \/ Resets(w) \/ Skips(w) \/ Takes(w)
         \/ Continues(w) \/ Saves(w)
  BY WorkerSteps
<1>2. \A v \in Workers \ {w} : worker'[v].pc = "idle"
  BY <1>1 DEF OthersStay, Single, Starts, Reads, Resets, Skips, AtEvent, Takes, Continues, Saves,
     Between
<1> QED BY <1>2 DEF Single

LEMMA BorrowersNext ==
  ASSUME TInv, Single, Single', UNCHANGED setting, NEW w \in Workers, IndexContract(w)
  PROVE  Borrowers'
<1>1. OthersStay(w) /\ (Quiet(w) \/ FirstKinds(w) \/ SecondKinds(w))
  BY Kinds
<1>2. PICK n : n = worker[w].next
  OBVIOUS
<1>3. worker'[w].next = n => Subject(w)' = SubjectOf(n)
  BY DEF Subject, SubjectOf
<1>4. \/ worker'[w].pc # "upgrade"
      \/ /\ worker'[w].next = n /\ worker[w].pc = "loop" /\ UNCHANGED role
         /\ role[SubjectOf(n)] = "borrower"
  <2>1. CASE Deposits(w)
    BY <1>2, <2>1 DEF Deposits, TakesType, AtEvent, Ends, Fields, Subject, tables
  <2>2. Quiet(w) => worker'[w].pc # "upgrade"
    BY DEF Quiet, Between
  <2>3. FirstKinds(w) /\ ~Deposits(w) => worker'[w].pc # "upgrade"
    BY DEF FirstKinds, Creates, Pays, Defaults, Scores, Ends, Fields
  <2>4. SecondKinds(w) => worker'[w].pc # "upgrade"
    BY DEF SecondKinds, Adds, Looks, GivesUp, Marks, Caches, Upgrades, Ends, Fields
  <2> QED BY <1>1, <2>1, <2>2, <2>3, <2>4
<1>5. \A v \in Workers \ {w} : worker'[v].pc = worker[v].pc
  BY <1>1 DEF OthersStay
<1>6. worker[w].pc # "idle" => \A v \in Workers \ {w} : worker'[v].pc = "idle"
  BY <1>5 DEF Single
<1>7. CASE worker[w].pc = "idle"
  <2>1. Starts(w)
    BY <1>7, WorkerSteps DEF Starts, Reads, Resets, Skips, AtEvent, Takes, Continues, Saves,
       Between
  <2> QED BY <1>5, <2>1 DEF Starts, Borrowers, Single
<1> QED BY <1>3, <1>4, <1>6, <1>7 DEF Borrowers

LEMMA BInvNext == BInv /\ [Next]_vars => BInv'
<1> SUFFICES ASSUME BInv, [Next]_vars, ~May("overlap")' PROVE Single' /\ Borrowers'
  BY TInvNext DEF BInv
<1>1. TInv /\ UNCHANGED setting /\ Single /\ Borrowers
  BY SettingKept DEF BInv, May
<1>2. CASE UNCHANGED <<worker, role, rewritten>>
  <2>1. \A v \in Workers : Subject(v)' = Subject(v)
    BY <1>1, <1>2 DEF Subject, SubjectOf
  <2> QED BY <1>1, <1>2, <2>1 DEF Single, Borrowers
<1>3. ASSUME UNCHANGED worker, NEW s \in Subjects, WriteRole(s)
      PROVE  Single' /\ Borrowers'
  <2>1. \A v \in Workers : Subject(v)' = Subject(v)
    BY <1>1, <1>3 DEF Subject, SubjectOf
  <2>2. /\ rewritten' = rewritten \cup {s}
        /\ \A t : t # s => role'[t] = role[t]
    BY <1>3 DEF WriteRole
  <2> QED BY <1>1, <1>3, <2>1, <2>2 DEF Single, Borrowers
<1>4. ASSUME NEW w \in Workers, IndexContract(w)
      PROVE  Single' /\ Borrowers'
  <2>1. ~May("overlap")
    BY <1>1 DEF May
  <2> QED BY <1>1, <1>4, <2>1, SingleNext, BorrowersNext
<1> QED BY <1>2, <1>3, <1>4, OtherSteps

-----------------------------------------------------------------------------
(* The tables say what the indexed events say, each part under its own     *)
(* premise: payments, scores and defaults where one instance at a time     *)
(* takes events in order; repayments against earlier defaults where        *)
(* nothing is gone over again; roles where no call fails, as far as nobody *)
(* else writes them (persistLoanRepaid, persistLoanDefaulted,              *)
(* persistScoreChanged, persistLiquidityDeposited).                        *)
THEOREM TablesSayWhatIsIndexed == Spec => []TablesFollowIndex
<1>1. Spec => [](DInv /\ PInv /\ KInv /\ UInv)
  BY DInvInit, DInvNext, PInvInit, PInvNext, KInvInit, KInvNext, UInvInit, UInvNext, PTL DEF Spec
<1>2. Spec => [](FInv /\ BInv)
  BY FInvInit, FInvNext, BInvInit, BInvNext, PTL DEF Spec
<1>3. DInv /\ PInv /\ KInv /\ UInv /\ FInv /\ BInv => TablesFollowIndex
  <2> SUFFICES ASSUME DInv, PInv, KInv, UInv, FInv, BInv PROVE TablesFollowIndex
    OBVIOUS
  <2>1. /\ Faultless => ~May("db")
        /\ AtRest => \A w \in Workers : worker[w].pc \notin Between
    BY DEF Faultless, May, AtRest, Busy, Between
  <2>2. PaidIffCovered
    BY <2>1 DEF PInv, PaidIffCovered, Calm, PaidUp, Covered, Settles, Between
  <2>3. CacheIsLatestScore
    BY <2>1 DEF KInv, CacheIsLatestScore, Calm, CachedUp, LatestScore, Between
  <2>4. DefaultStands
    <3>1. status \in [Subjects -> {"none", "active", "paid", "defaulted"}]
      BY DEF UInv, TInv, TypeOK
    <3> QED BY <3>1 DEF DInv, DefaultStands, Calm, Defaulted, Excused
  <2>5. DepositorsAreUpgraded
    BY <2>1 DEF UInv, DepositorsAreUpgraded, Upgraded, Raised, Between
  <2>6. RepaymentStands
    BY <2>1 DEF FInv, RepaymentStands, Kept, Answered, Settles, Between
  <2>7. OnlyBorrowersAreRaised
    BY DEF BInv, OnlyBorrowersAreRaised, Borrowers, Subject
  <2> QED BY <2>2, <2>3, <2>4, <2>5, <2>6, <2>7 DEF TablesFollowIndex
<1> QED BY <1>1, <1>2, <1>3, PTL
=============================================================================
