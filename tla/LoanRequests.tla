---------------------------- MODULE LoanRequests ----------------------------
(***************************************************************************)
(* POST /loans/create of one wallet, behind the idempotency interceptor:   *)
(* the answer remembered for a key, the reputation score with its two      *)
(* caches, the checks of LoansService.createLoan and the insertion of the  *)
(* pending loan.  Answers and the hot cache of scores are in the memory of *)
(* the process that handles a request; reputation_cache is shared.         *)
(*                                                                         *)
(* A tick of the clock is the time-to-live of the hot cache (its unit is   *)
(* the millisecond, whatever the comments say); the other times are        *)
(* multiples of it.  Fetching a score takes 800 of those milliseconds, more*)
(* than two ticks, so time may always pass meanwhile.                      *)
(***************************************************************************)
EXTENDS Naturals, Sequences, FiniteSets

CONSTANTS
  Processes, \* of the API
  Home,      \* the one that serves all requests where there are no others
  Keys,      \* idempotency keys
  Requests,  \* requests in flight
  Scores,    \* reputation scores the contract has announced
  HotTtl,    \* REPUTATION_CACHE_TTL
  WarmTtl,   \* how long a row of reputation_cache is good for
  KeyTtl,    \* IDEMPOTENCY_TTL
  MaxTime,   \* bound: ticks
  MaxLoans,  \* bound: loans inserted
  MaxScores, \* bound: scores recorded by the indexer
  Regimes    \* sets of circumstances, one of which a behaviour has

(* "overlap": requests of one key overlap; "slow": the clock ticks during  *)
(* calls other than a fetch; "fail": calls fail and processes die; "rls":  *)
(* the policies of the migrations hide reputation_cache from the client;   *)
(* "instances": several processes serve the requests.                      *)
Circumstances == {"overlap", "slow", "fail", "rls", "instances"}

MIN_LOAN_REPUTATION_SCORE == 60

VARIABLES
  regime,  \* what may happen in this behaviour; it never changes
  now,     \* ticks
  hashed,  \* the score that is computed from the wallet's address
  hot,     \* [Processes -> ...]: the score cached, and until when it is there
  warm,    \* the wallet's row of reputation_cache
  recorded, \* a history: the scores the indexer put into that row, and when
  answers, \* [Processes -> [Keys -> ...]]: until when an answer is remembered
  loans,   \* the loans, with the key, the process, the time and the score
  req      \* [Requests -> ...]: what a request is about to do

caches == <<hot, warm, recorded>>
vars == <<regime, now, hashed, caches, answers, loans, req>>

Times == 0 .. MaxTime
Done == [pc |-> "done"]

(* A row has lastUpdated, and, a history the code does not keep, when the  *)
(* table was last asked before the row's score was obtained.  A score as a *)
(* request has it also has when it was read from the table or fetched.     *)
Rows == [score : 0 .. 100, synced : Times, looked : Times]
Reputations == [score : 0 .. 100, synced : Times, looked : Times, read : Times]
NoRow == [score |-> 0, synced |-> 0, looked |-> 0]
Unread == [score |-> 0, synced |-> 0, looked |-> 0, read |-> 0]
Row(rep) == [score |-> rep.score, synced |-> rep.synced, looked |-> rep.looked]
NoAnswers == [k \in Keys |-> 0]
Cold == [rep |-> Unread, until |-> 0]

TypeOK ==
  /\ regime \in Regimes
  /\ now \in Times
  /\ hashed \in 0 .. 100
  /\ hot \in [Processes -> [rep : Reputations, until : 0 .. MaxTime + HotTtl]]
  /\ warm \in Rows
  /\ recorded \subseteq [score : 0 .. 100, at : Times]
  /\ answers \in [Processes -> [Keys -> 0 .. MaxTime + KeyTtl]]
  /\ loans \in Seq([key : Keys, on : Processes, at : Times, rep : Reputations])
  /\ Len(loans) <= MaxLoans
  /\ req \in [Requests -> {Done}
       \cup [pc : {"hot", "warm", "backfill", "fetch", "persist", "upsert",
                   "fallback", "merchant", "insert", "remember"},
             key : Keys, on : Processes, rep : Reputations]]

Init ==
  /\ regime \in Regimes
  /\ now = 1
  /\ hashed \in Scores
  /\ hot = [p \in Processes |-> Cold]
  /\ \/ warm = NoRow /\ recorded = {}
     \/ \E s \in Scores :
          /\ warm = [score |-> s, synced |-> 1, looked |-> 1]
          /\ recorded = {[score |-> s, at |-> 1]}
  /\ answers = [p \in Processes |-> NoAnswers]
  /\ loans = <<>>
  /\ req = [q \in Requests |-> Done]

Busy(q) == req[q].pc # "done"
InFlight(k) == \E q \in Requests : Busy(q) /\ req[q].key = k
Goes(q, pc, rep) == req' = [req EXCEPT ![q] = [@ EXCEPT !.pc = pc, !.rep = rep]]
Continues(q, pc) == Goes(q, pc, req[q].rep)
Ends(q) == req' = [req EXCEPT ![q] = Done]

-----------------------------------------------------------------------------
(* IdempotencyInterceptor: a remembered answer is returned as it is.       *)
BugForgetful(until) == FALSE
Remembered(until) == now < until

Create(q, k, p) ==
  /\ ~Busy(q)
  /\ "overlap" \in regime \/ ~InFlight(k)
  /\ "instances" \in regime \/ p = Home
  /\ ~Remembered(answers[p][k])
  /\ req' = [req EXCEPT ![q] =
       [pc |-> "hot", key |-> k, on |-> p, rep |-> Unread]]
  /\ UNCHANGED <<regime, now, hashed, caches, answers, loans>>

Remember(q) ==
  /\ req[q].pc = "remember"
  /\ answers' = [answers EXCEPT ![req[q].on][req[q].key] = now + KeyTtl]
  /\ Ends(q)
  /\ UNCHANGED <<regime, now, hashed, caches, loans>>

-----------------------------------------------------------------------------
(* ReputationService.getReputationScore.                                   *)
ReadHot(q) ==
  /\ req[q].pc = "hot"
  /\ LET cached == hot[req[q].on] IN
     IF now < cached.until
     THEN Goes(q, "merchant", cached.rep)
     ELSE Continues(q, "warm")
  /\ UNCHANGED <<regime, now, hashed, caches, answers, loans>>

BugAnyRow(row) == row # NoRow
IsFresh(row) == row # NoRow /\ now - row.synced < WarmTtl

ReadWarm(q) ==
  /\ req[q].pc = "warm"
  /\ IF IsFresh(warm) /\ "rls" \notin regime
     THEN Goes(q, "backfill", [score |-> warm.score, synced |-> warm.synced,
                               looked |-> warm.looked, read |-> now])
     ELSE Goes(q, "fetch", [score |-> 0, synced |-> 0, looked |-> now, read |-> 0])
  /\ UNCHANGED <<regime, now, hashed, caches, answers, loans>>

(* The hot cache takes what was read, at the time it is written.           *)
SetHot(q) ==
  /\ req[q].pc \in {"backfill", "persist"}
  /\ hot' = [hot EXCEPT ![req[q].on] = [rep |-> req[q].rep, until |-> now + HotTtl]]
  /\ Continues(q, IF req[q].pc = "backfill" THEN "merchant" ELSE "upsert")
  /\ UNCHANGED <<regime, now, hashed, warm, recorded, answers, loans>>

(* fetchScoreFromBlockchain asks nobody: it waits, computes a score from   *)
(* the address, and says that it is of now.                                *)
Fetch(q) ==
  /\ req[q].pc \in {"fetch", "fallback"}
  /\ Goes(q, IF req[q].pc = "fetch" THEN "persist" ELSE "merchant",
          [score |-> hashed, synced |-> now, looked |-> req[q].rep.looked,
           read |-> now])
  /\ UNCHANGED <<regime, now, hashed, caches, answers, loans>>

(* The table refuses the tier 'poor', and a wallet without a user; nobody  *)
(* looks at the result.                                                    *)
UpsertWarm(q) ==
  /\ req[q].pc = "upsert"
  /\ \/ /\ "rls" \notin regime
        /\ req[q].rep.score >= MIN_LOAN_REPUTATION_SCORE
        /\ warm' = Row(req[q].rep)
     \/ UNCHANGED warm
  /\ Continues(q, "merchant")
  /\ UNCHANGED <<regime, now, hashed, hot, recorded, answers, loans>>

(* An error while the caches are read leads to a fetch that is not kept; an*)
(* error while they are written by persistReputation is swallowed.         *)
CacheFails(q) ==
  /\ "fail" \in regime
  /\ \/ req[q].pc \in {"hot", "backfill"} /\ Continues(q, "fallback")
     \/ req[q].pc \in {"persist", "upsert"} /\ Continues(q, "merchant")
  /\ UNCHANGED <<regime, now, hashed, caches, answers, loans>>

-----------------------------------------------------------------------------
(* The merchant, the score and the amount are checked, the transaction is  *)
(* built and the row inserted. The provisional id makes every transaction  *)
(* differ, so no duplicate is found and the partial unique index refuses   *)
(* nothing.                                                                *)
Check(q) ==
  /\ req[q].pc = "merchant"
  /\ \/ /\ req[q].rep.score >= MIN_LOAN_REPUTATION_SCORE
        /\ Continues(q, "insert")
     \/ Ends(q)
  /\ UNCHANGED <<regime, now, hashed, caches, answers, loans>>

Insert(q) ==
  /\ req[q].pc = "insert"
  /\ Len(loans) < MaxLoans
  /\ loans' = Append(loans, [key |-> req[q].key, on |-> req[q].on,
                             at |-> now, rep |-> req[q].rep])
  /\ Goes(q, "remember", Unread)
  /\ UNCHANGED <<regime, now, hashed, caches, answers>>

(* A call fails; what was inserted stays.                                  *)
Abort(q) ==
  /\ "fail" \in regime
  /\ Busy(q)
  /\ Ends(q)
  /\ UNCHANGED <<regime, now, hashed, caches, answers, loans>>

(* A process dies, with its requests and its memory, and another comes.    *)
Restart(p) ==
  /\ "fail" \in regime
  /\ hot' = [hot EXCEPT ![p] = Cold]
  /\ answers' = [answers EXCEPT ![p] = NoAnswers]
  /\ req' = [q \in Requests |->
       IF Busy(q) /\ req[q].on = p THEN Done ELSE req[q]]
  /\ UNCHANGED <<regime, now, hashed, warm, recorded, loans>>

(* The indexer updates the row of a wallet that has one.                   *)
ScoreChanged ==
  /\ warm # NoRow
  /\ Cardinality(recorded) < MaxScores
  /\ \E s \in Scores \ {warm.score} :
       /\ warm' = [score |-> s, synced |-> now, looked |-> now]
       /\ recorded' = recorded \cup {[score |-> s, at |-> now]}
  /\ UNCHANGED <<regime, now, hashed, hot, answers, loans, req>>

(* What a cache has held for its time is gone.                             *)
Fetching(q) == req[q].pc \in {"fetch", "fallback"}
Tick ==
  /\ now < MaxTime
  /\ "slow" \in regime \/ \A q \in Requests : Busy(q) => Fetching(q)
  /\ now' = now + 1
  /\ hot' = [p \in Processes |-> IF hot[p].until <= now' THEN Cold ELSE hot[p]]
  /\ answers' = [p \in Processes |-> [k \in Keys |->
       IF answers[p][k] <= now' THEN 0 ELSE answers[p][k]]]
  /\ UNCHANGED <<regime, hashed, warm, recorded, loans, req>>

Next ==
  \/ \E q \in Requests, k \in Keys, p \in Processes : Create(q, k, p)
  \/ \E q \in Requests :
       \/ ReadHot(q) \/ ReadWarm(q) \/ SetHot(q) \/ Fetch(q) \/ UpsertWarm(q)
       \/ CacheFails(q)
       \/ Check(q) \/ Insert(q) \/ Remember(q) \/ Abort(q)
  \/ \E p \in Processes : Restart(p)
  \/ ScoreChanged
  \/ Tick

Spec == Init /\ [][Next]_vars

-----------------------------------------------------------------------------
(* A key whose requests come one after the other, to one process and       *)
(* however slow, makes one loan as long as the answer to the first is      *)
(* remembered. Another process does not know that answer, and makes another*)
(* loan.                                                                   *)
KeyCreatesOneLoan ==
  regime \cap {"overlap", "fail"} = {} =>
    \A i, j \in DOMAIN loans :
      i < j /\ loans[i].key = loans[j].key /\ loans[i].on = loans[j].on =>
        loans[j].at >= loans[i].at + KeyTtl

(* A score that the indexer recorded when its lastUpdated says, and that   *)
(* was the last one it had recorded when it was read.                      *)
IsRecorded(rep) ==
  \E a \in recorded :
    /\ a.score = rep.score /\ a.at = rep.synced
    /\ \A b \in recorded : b.at > a.at => b.at >= rep.read

(* The address's own score, taken because nothing had been recorded for the*)
(* life of a row when the table was asked.  What is recorded during the    *)
(* fetch is overwritten.                                                   *)
IsComputed(rep) ==
  /\ rep.score = hashed
  /\ regime \cap {"slow", "fail", "rls"} = {} =>
       \A b \in recorded : b.at + WarmTtl <= rep.looked \/ b.at >= rep.looked

(* A loan is granted on the recorded score, or on the computed one where   *)
(* none was recorded of late, and on neither for longer than the two caches*)
(* keep it, however long a fetch takes; other calls that are slower than a *)
(* hot entry lives add their time.                                         *)
PricedFresh ==
  \A i \in DOMAIN loans :
    LET rep == loans[i].rep IN
    /\ IsRecorded(rep) \/ IsComputed(rep)
    /\ "slow" \notin regime =>
         /\ loans[i].at < rep.read + HotTtl
         /\ loans[i].at < rep.synced + WarmTtl + HotTtl
=============================================================================
