--------------------------- MODULE Services_proofs ---------------------------
(***************************************************************************)
(* What the services around the loans promise, for any values of their     *)
(* constants: the invariant of each service that exercises it, and the     *)
(* theorem about the behaviours of Services that follows.  The figures of  *)
(* the merchants are here as well (MerchantFiguresAgree); the accounts, the*)
(* terms and the pool have theirs in AccountsAndMoney_proofs. The last     *)
(* section is about the types of all of them.                              *)
(***************************************************************************)
EXTENDS AccountsAndMoney_proofs

(* A step is one of the service that the behaviour exercises.              *)
LEMMA Exercised ==
  ASSUME [Next]_vars
  PROVE  /\ service' = service
         /\ service = "Sessions" => [S!Next]_(S!vars)
         /\ service = "SignIn" => [N!Next]_(N!vars)
         /\ service = "LoanRequests" => [L!Next]_(L!vars)
         /\ service = "Reminders" => [R!Next]_(R!vars)
  BY DEF Next, vars, sessions, signing, loanRequests, reminders,
         S!vars, N!vars, L!vars, L!caches, R!vars

LEMMA ConstantsTyped == LoanRequestConstants /\ SignInConstants /\ SessionConstants
  BY ConstantsAssumption DEF ConstantsAssumption

-----------------------------------------------------------------------------
(* LoanRequests.                                                           *)

Calls == {"hot", "warm", "backfill", "fetch", "persist", "upsert", "fallback",
          "merchant", "insert", "remember"}
Creations == [pc : Calls, key : Keys, on : Processes, rep : L!Reputations]
Credits == [key : Keys, on : Processes, at : L!Times, rep : L!Reputations]
HotEntries == [rep : L!Reputations, until : 0 .. LoanTime + HotTtl]
Announcements == [score : 0 .. 100, at : L!Times]
StoreTypes ==
  /\ regime \in Regimes["LoanRequests"] /\ now \in L!Times
  /\ hashed \in 0 .. 100
  /\ hot \in [Processes -> HotEntries]
  /\ warm \in L!Rows
  /\ recorded \subseteq Announcements
  /\ answers \in [Processes -> [Keys -> 0 .. LoanTime + KeyTtl]]
  /\ loans \in Seq(Credits) /\ Len(loans) <= MaxLoans
CreationTypes == req \in [Requests -> {L!Done} \cup Creations]

LEMMA LoanRequestTypes ==
  /\ L!TypeOK <=> StoreTypes /\ CreationTypes
  /\ L!TypeOK' <=> StoreTypes' /\ CreationTypes'
  BY DEF L!TypeOK, StoreTypes, CreationTypes, Credits, Creations, Calls,
         HotEntries, Announcements

LEMMA BusyCreates ==
  ASSUME CreationTypes, NEW q \in Requests
  PROVE  L!Busy(q) <=> req[q] \in Creations
  BY DEF CreationTypes, L!Busy, L!Done, Creations, Calls

(* A request goes on to another call, or ends.                             *)
MovesTo(q, pc, rep) ==
  /\ req'[q] \in Creations
  /\ req'[q].pc = pc /\ req'[q].key = req[q].key /\ req'[q].on = req[q].on
  /\ req'[q].rep = rep
  /\ \A p \in Requests : p # q => req'[p] = req[p]
Stops(q) ==
  /\ ~L!Busy(q)'
  /\ \A p \in Requests : p # q => req'[p] = req[p]

LEMMA Updated ==
  ASSUME NEW Ks, NEW Ps, NEW Pcs, NEW Reps,
         NEW x \in [pc : Pcs, key : Ks, on : Ps, rep : Reps], NEW pc \in Pcs, NEW rep \in Reps
  PROVE  /\ [x EXCEPT !.pc = pc, !.rep = rep] \in [pc : Pcs, key : Ks, on : Ps, rep : Reps]
         /\ [x EXCEPT !.pc = pc, !.rep = rep].pc = pc
         /\ [x EXCEPT !.pc = pc, !.rep = rep].key = x.key
         /\ [x EXCEPT !.pc = pc, !.rep = rep].on = x.on
         /\ [x EXCEPT !.pc = pc, !.rep = rep].rep = rep
  OBVIOUS

LEMMA GoesMoves ==
  ASSUME CreationTypes, NEW q \in Requests, L!Busy(q),
         NEW pc \in Calls, NEW rep \in L!Reputations, L!Goes(q, pc, rep)
  PROVE  CreationTypes' /\ MovesTo(q, pc, rep)
<1>1. req[q] \in Creations
  BY BusyCreates
<1> DEFINE r == [req[q] EXCEPT !.pc = pc, !.rep = rep]
<1>2. r \in Creations /\ r.pc = pc /\ r.key = req[q].key /\ r.on = req[q].on /\ r.rep = rep
  BY <1>1, Updated DEF Creations
<1>3. req' = [req EXCEPT ![q] = r]
  BY DEF L!Goes
<1> HIDE DEF r
<1> QED BY <1>2, <1>3 DEF CreationTypes, MovesTo

LEMMA ContinuesMoves ==
  ASSUME CreationTypes, NEW q \in Requests, L!Busy(q), NEW pc \in Calls, L!Continues(q, pc)
  PROVE  CreationTypes' /\ MovesTo(q, pc, req[q].rep)
<1>1. req[q].rep \in L!Reputations
  BY BusyCreates DEF Creations
<1> QED BY <1>1, GoesMoves DEF L!Continues

LEMMA EndsStops ==
  ASSUME CreationTypes, NEW q \in Requests, L!Ends(q)
  PROVE  CreationTypes' /\ Stops(q)
  BY DEF CreationTypes, L!Ends, Stops, L!Busy, L!Done

LEMMA UnreadTyped ==
  ASSUME LoanRequestConstants
  PROVE  L!Unread \in L!Reputations /\ L!Cold \in HotEntries /\ 0 \in L!Times
  BY DEF LoanRequestConstants, L!Unread, L!Cold, L!Reputations, L!Times, HotEntries

LEMMA LoanRequestTypesNext ==
  ASSUME LoanRequestConstants, L!TypeOK, [L!Next]_(L!vars)
  PROVE  L!TypeOK'
<1> USE DEF LoanRequestConstants
<1>1. StoreTypes /\ CreationTypes
  BY LoanRequestTypes
<1>2. SUFFICES StoreTypes' /\ CreationTypes'
  BY LoanRequestTypes
<1>3. ASSUME NEW q \in Requests, NEW k \in Keys, NEW p \in Processes, L!Create(q, k, p)
      PROVE  StoreTypes' /\ CreationTypes'
  <2>1. [pc |-> "hot", key |-> k, on |-> p, rep |-> L!Unread] \in Creations
    BY UnreadTyped DEF Creations, Calls
  <2> QED BY <1>1, <1>3, <2>1 DEF L!Create, L!caches, StoreTypes, CreationTypes
<1>4. ASSUME NEW q \in Requests, L!ReadHot(q)
      PROVE  StoreTypes' /\ CreationTypes'
  <2>1. L!Busy(q)
    BY <1>4 DEF L!ReadHot, L!Busy
  <2>2. hot[req[q].on].rep \in L!Reputations
    BY <1>1, <2>1, BusyCreates DEF Creations, StoreTypes, HotEntries
  <2> QED BY <1>1, <1>4, <2>1, <2>2, GoesMoves, ContinuesMoves DEF L!ReadHot, L!caches, StoreTypes, Calls
<1>5. ASSUME NEW q \in Requests, L!ReadWarm(q)
      PROVE  StoreTypes' /\ CreationTypes'
  <2>1. L!Busy(q)
    BY <1>5 DEF L!ReadWarm, L!Busy
  <2>2. /\ [score |-> warm.score, synced |-> warm.synced,
            looked |-> warm.looked, read |-> now] \in L!Reputations
        /\ [score |-> 0, synced |-> 0, looked |-> now, read |-> 0] \in L!Reputations
    BY <1>1, UnreadTyped DEF StoreTypes, L!Reputations, L!Rows
  <2> QED BY <1>1, <1>5, <2>1, <2>2, GoesMoves, ContinuesMoves DEF L!ReadWarm, L!caches, StoreTypes, Calls
<1>6. ASSUME NEW q \in Requests, L!SetHot(q)
      PROVE  StoreTypes' /\ CreationTypes'
  <2>1. L!Busy(q)
    BY <1>6 DEF L!SetHot, L!Busy
  <2>2. CreationTypes'
    BY <1>1, <1>6, <2>1, ContinuesMoves DEF L!SetHot, Calls
  <2>3. req[q].rep \in L!Reputations
    BY <1>1, <2>1, BusyCreates DEF Creations
  <2>4. [rep |-> req[q].rep, until |-> now + HotTtl] \in HotEntries
    BY <1>1, <2>3 DEF StoreTypes, L!Times, HotEntries
  <2>5. hot' \in [Processes -> HotEntries]
    BY <1>1, <1>6, <2>4 DEF L!SetHot, StoreTypes
  <2> QED BY <1>1, <1>6, <2>2, <2>5 DEF L!SetHot, StoreTypes
<1>7. ASSUME NEW q \in Requests, L!Fetch(q)
      PROVE  StoreTypes' /\ CreationTypes'
  <2>1. L!Busy(q)
    BY <1>7 DEF L!Fetch, L!Busy
  <2>2. L!Goes(q, IF req[q].pc = "fetch" THEN "persist" ELSE "merchant",
               [score |-> hashed, synced |-> now, looked |-> req[q].rep.looked,
                read |-> now])
    BY <1>7 DEF L!Fetch
  <2>3. [score |-> hashed, synced |-> now, looked |-> req[q].rep.looked,
         read |-> now] \in L!Reputations
    BY <1>1, <2>1, BusyCreates DEF StoreTypes, Creations, L!Reputations
  <2>4. (IF req[q].pc = "fetch" THEN "persist" ELSE "merchant") \in Calls
    BY DEF Calls
  <2>5. CreationTypes'
    BY <1>1, <2>1, <2>2, <2>3, <2>4, GoesMoves
  <2> QED BY <1>1, <1>7, <2>5 DEF L!Fetch, L!caches, StoreTypes
<1>8. ASSUME NEW q \in Requests, L!UpsertWarm(q)
      PROVE  StoreTypes' /\ CreationTypes'
  <2>1. L!Busy(q)
    BY <1>8 DEF L!UpsertWarm, L!Busy
  <2>2. CreationTypes'
    BY <1>1, <1>8, <2>1, ContinuesMoves DEF L!UpsertWarm, Calls
  <2>3. req[q].rep \in L!Reputations
    BY <1>1, <2>1, BusyCreates DEF Creations
  <2>4. warm' \in L!Rows
    <3>1. CASE UNCHANGED warm
      BY <1>1, <3>1 DEF StoreTypes
    <3>2. CASE warm' = L!Row(req[q].rep)
      BY <2>3, <3>2 DEF L!Reputations, L!Row, L!Rows
    <3> QED BY <1>8, <3>1, <3>2 DEF L!UpsertWarm
  <2> QED BY <1>1, <1>8, <2>2, <2>4 DEF L!UpsertWarm, StoreTypes
<1>9. ASSUME NEW q \in Requests, L!CacheFails(q) \/ L!Check(q) \/ L!Abort(q)
      PROVE  StoreTypes' /\ CreationTypes'
  <2>1. L!Busy(q)
    BY <1>9 DEF L!CacheFails, L!Check, L!Abort, L!Busy
  <2>2. CreationTypes'
    BY <1>1, <1>9, <2>1, ContinuesMoves, EndsStops DEF L!CacheFails, L!Check, L!Abort, Calls
  <2> QED BY <1>1, <1>9, <2>2 DEF L!CacheFails, L!Check, L!Abort, L!caches, StoreTypes
<1>10. ASSUME NEW q \in Requests, L!Insert(q)
       PROVE  StoreTypes' /\ CreationTypes'
  <2>1. L!Busy(q)
    BY <1>10 DEF L!Insert, L!Busy
  <2>2. CreationTypes'
    BY <1>1, <1>10, <2>1, GoesMoves, UnreadTyped DEF L!Insert, Calls
  <2>3. [key |-> req[q].key, on |-> req[q].on, at |-> now, rep |-> req[q].rep] \in Credits
    BY <1>1, <2>1, BusyCreates DEF Creations, Credits, StoreTypes
  <2> QED BY <1>1, <1>10, <2>2, <2>3 DEF L!Insert, L!caches, StoreTypes
<1>11. ASSUME NEW q \in Requests, L!Remember(q)
       PROVE  StoreTypes' /\ CreationTypes'
  <2>1. CreationTypes'
    BY <1>1, <1>11, EndsStops DEF L!Remember
  <2>2. now + KeyTtl \in 0 .. LoanTime + KeyTtl
    BY <1>1 DEF StoreTypes, L!Times
  <2>3. answers' \in [Processes -> [Keys -> 0 .. LoanTime + KeyTtl]]
    BY <1>1, <1>11, <2>2 DEF L!Remember, L!caches, StoreTypes
  <2> QED BY <1>1, <1>11, <2>1, <2>3 DEF L!Remember, L!caches, StoreTypes
<1>12. CASE L!ScoreChanged \/ L!Tick \/ UNCHANGED L!vars
  <2>1. CreationTypes'
    BY <1>1, <1>12 DEF L!ScoreChanged, L!Tick, L!vars, CreationTypes
  <2>2. CASE L!ScoreChanged
    <3>1. PICK s \in Scores :
            /\ warm' = [score |-> s, synced |-> now, looked |-> now]
            /\ recorded' = recorded \cup {[score |-> s, at |-> now]}
      BY <2>2 DEF L!ScoreChanged
    <3>2. warm' \in L!Rows /\ recorded' \subseteq Announcements
      <4>1. s \in 0 .. 100 /\ now \in L!Times /\ recorded \subseteq Announcements
        BY <1>1 DEF StoreTypes
      <4> QED BY <3>1, <4>1 DEF L!Rows, Announcements
    <3> QED BY <1>1, <2>1, <2>2, <3>2 DEF L!ScoreChanged, StoreTypes
  <2>3. CASE L!Tick
    <3>1. now' \in L!Times
      BY <1>1, <2>3 DEF L!Tick, StoreTypes, L!Times
    <3>2. hot' \in [Processes -> HotEntries]
      BY <1>1, <2>3, UnreadTyped DEF L!Tick, StoreTypes
    <3>3. \A p \in Processes :
            [k \in Keys |-> IF answers[p][k] <= now' THEN 0 ELSE answers[p][k]]
              \in [Keys -> 0 .. LoanTime + KeyTtl]
      BY <1>1 DEF StoreTypes
    <3>4. answers' \in [Processes -> [Keys -> 0 .. LoanTime + KeyTtl]]
      BY <2>3, <3>3 DEF L!Tick
    <3> QED BY <1>1, <2>1, <2>3, <3>1, <3>2, <3>4 DEF L!Tick, StoreTypes
  <2>4. CASE UNCHANGED L!vars
    BY <1>1, <2>1, <2>4 DEF L!vars, L!caches, StoreTypes
  <2> QED BY <1>12, <2>2, <2>3, <2>4
<1>13. ASSUME NEW p \in Processes, L!Restart(p)
       PROVE  StoreTypes' /\ CreationTypes'
  <2>1. CreationTypes'
    BY <1>1, <1>13 DEF L!Restart, CreationTypes
  <2>2. hot' \in [Processes -> HotEntries]
    BY <1>1, <1>13, UnreadTyped DEF L!Restart, StoreTypes
  <2>3. L!NoAnswers \in [Keys -> 0 .. LoanTime + KeyTtl]
    BY DEF L!NoAnswers
  <2>4. answers' \in [Processes -> [Keys -> 0 .. LoanTime + KeyTtl]]
    BY <1>1, <1>13, <2>3 DEF L!Restart, StoreTypes
  <2> QED BY <1>1, <1>13, <2>1, <2>2, <2>4 DEF L!Restart, StoreTypes
<1> QED
  BY <1>3, <1>4, <1>5, <1>6, <1>7, <1>8, <1>9, <1>10, <1>11, <1>12, <1>13 DEF L!Next

(* Between the calls of a request, when nothing overlaps and nothing fails:*)
(* a key has one request; its loans of a process are behind an answer that *)
(* process remembers, has forgotten in time or is about to remember; and a *)
(* request under way before that point found none.                         *)
Apart == \A p, q \in Requests : L!Busy(p) /\ L!Busy(q) /\ req[p].key = req[q].key => p = q
Behind(k, p, t) ==
  \A i \in DOMAIN loans :
    loans[i].key = k /\ loans[i].on = p => t >= loans[i].at + KeyTtl
Remembering(k, p) ==
  \E q \in Requests : req[q].pc = "remember" /\ req[q].key = k /\ req[q].on = p
Covered(k, p) == Behind(k, p, answers[p][k]) \/ Behind(k, p, now) \/ Remembering(k, p)
Kept == \A k \in Keys, p \in Processes : Covered(k, p)
Waited == \A q \in Requests :
            L!Busy(q) /\ req[q].pc # "remember" => Behind(req[q].key, req[q].on, now)
Past == \A i \in DOMAIN loans : loans[i].at <= now
InSequence == Apart /\ Kept /\ Waited /\ Past
Undisturbed == regime \cap {"overlap", "fail"} = {}
KeyInvariant == L!TypeOK /\ L!KeyCreatesOneLoan /\ (Undisturbed => InSequence)

(* What a request does to itself leaves the rest of the invariant alone.   *)
LEMMA MovesInSequence ==
  ASSUME LoanRequestConstants, StoreTypes, CreationTypes, CreationTypes', InSequence,
         UNCHANGED <<now, answers, loans>>, NEW q \in Requests, L!Busy(q),
         req[q].pc # "remember",
         \A p \in Requests : p # q => req'[p] = req[p],
         L!Busy(q)' => /\ req'[q].key = req[q].key /\ req'[q].on = req[q].on
                       /\ req'[q].pc # "remember"
  PROVE  InSequence'
<1>1. Apart'
  BY DEF InSequence, Apart, L!Busy
<1>2. Kept'
  <2>1. SUFFICES ASSUME NEW k \in Keys, NEW p \in Processes PROVE Covered(k, p)'
    BY DEF Kept
  <2>2. CASE Behind(k, p, answers[p][k]) \/ Behind(k, p, now)
    BY <2>2 DEF Behind, Covered
  <2>3. CASE Remembering(k, p)
    BY <2>3 DEF Remembering, Covered
  <2> QED BY <2>2, <2>3 DEF InSequence, Kept, Covered
<1>3. Waited'
  BY DEF InSequence, Waited, Behind, L!Busy
<1>4. Past'
  BY DEF InSequence, Past
<1> QED BY <1>1, <1>2, <1>3, <1>4 DEF InSequence

LEMMA CreditsTyped ==
  ASSUME LoanRequestConstants, StoreTypes
  PROVE  /\ now \in Int /\ KeyTtl \in Int
         /\ \A i \in DOMAIN loans : i \in Int /\ loans[i] \in Credits /\ loans[i].at \in Int
<1>1. \A i \in DOMAIN loans : i \in Int /\ loans[i] \in Credits
  BY DEF StoreTypes
<1>2. \A c \in Credits : c.at \in Int
  BY DEF Credits, L!Times, LoanRequestConstants
<1> QED BY <1>1, <1>2 DEF LoanRequestConstants, StoreTypes, L!Times

LEMMA BehindLater ==
  ASSUME LoanRequestConstants, StoreTypes, NEW k, NEW s \in Int, NEW t \in Int,
         NEW p, s <= t, Behind(k, p, s)
  PROVE  Behind(k, p, t)
  BY CreditsTyped DEF Behind

LEMMA InsertInSequence ==
  ASSUME LoanRequestConstants, StoreTypes, CreationTypes, InSequence, L!KeyCreatesOneLoan,
         Undisturbed, NEW q \in Requests, L!Insert(q)
  PROVE  InSequence' /\ L!KeyCreatesOneLoan'
<1> DEFINE k == req[q].key
           on == req[q].on
           new == [key |-> k, on |-> on, at |-> now, rep |-> req[q].rep]
           last == Len(loans) + 1
<1>1. L!Busy(q) /\ req[q].pc # "remember"
  BY DEF L!Insert, L!Busy
<1>2. /\ CreationTypes' /\ req'[q].pc = "remember"
      /\ req'[q].key = k /\ req'[q].on = on
      /\ \A p \in Requests : p # q => req'[p] = req[p]
  BY <1>1, GoesMoves, UnreadTyped DEF L!Insert, MovesTo, Calls
<1>3. now \in Int /\ KeyTtl \in Nat
  BY DEF LoanRequestConstants, StoreTypes, L!Times
<1>4. /\ DOMAIN loans = 1 .. Len(loans) /\ Len(loans) \in Nat
      /\ DOMAIN loans' = DOMAIN loans \cup {last}
      /\ last \notin DOMAIN loans /\ last \in Int
      /\ loans'[last] = new /\ loans'[last].key = k /\ loans'[last].on = on
      /\ loans'[last].at = now
      /\ \A i \in DOMAIN loans : loans'[i] = loans[i] /\ i < last
  BY DEF StoreTypes, L!Insert
<1>5. now' = now /\ answers' = answers /\ regime' = regime
  BY DEF L!Insert
<1> HIDE DEF new, last
<1>6. Behind(k, on, now)
  BY <1>1 DEF InSequence, Waited
<1>8. Apart'
  <2>1. \A p \in Requests : L!Busy(p)' => L!Busy(p)
    BY <1>1, <1>2 DEF L!Busy
  <2>2. \A p \in Requests : req'[p].key = req[p].key
    BY <1>2
  <2> QED BY <2>1, <2>2 DEF InSequence, Apart
<1>9. Kept'
  <2>1. SUFFICES ASSUME NEW h \in Keys, NEW p \in Processes PROVE Covered(h, p)'
    BY DEF Kept
  <2>2. CASE h = k /\ p = on
    BY <1>2, <2>2 DEF Remembering, Covered
  <2>3. CASE ~(h = k /\ p = on) /\ (Behind(h, p, answers[p][h]) \/ Behind(h, p, now))
    BY <1>4, <1>5, <2>3 DEF Behind, Covered
  <2>4. CASE ~(h = k /\ p = on) /\ Remembering(h, p)
    BY <1>2, <2>4 DEF Remembering, Covered
  <2> QED BY <2>2, <2>3, <2>4 DEF InSequence, Kept, Covered
<1>10. Waited'
  <2>1. SUFFICES ASSUME NEW p \in Requests, L!Busy(p)', req'[p].pc # "remember"
                 PROVE  Behind(req[p].key, req[p].on, now)'
    BY DEF Waited
  <2>2. p # q /\ req'[p] = req[p] /\ L!Busy(p) /\ req[p].pc # "remember"
    BY <1>2, <2>1 DEF L!Busy
  <2>3. req[p].key # k
    BY <1>1, <2>2 DEF InSequence, Apart
  <2>4. Behind(req[p].key, req[p].on, now)
    BY <2>2 DEF InSequence, Waited
  <2> QED BY <1>4, <1>5, <2>2, <2>3, <2>4 DEF Behind
<1>11. Past'
  BY <1>3, <1>4, <1>5, CreditsTyped DEF InSequence, Past
<1>12. L!KeyCreatesOneLoan'
  <2>1. SUFFICES ASSUME NEW i \in DOMAIN loans', NEW j \in DOMAIN loans', i < j,
                        loans'[i].key = loans'[j].key, loans'[i].on = loans'[j].on
                 PROVE  loans'[j].at >= loans'[i].at + KeyTtl
    BY DEF L!KeyCreatesOneLoan
  <2>2. i \in DOMAIN loans
    BY <1>4, <2>1, CreditsTyped
  <2>3. CASE j = last
    BY <1>4, <1>6, <2>1, <2>2, <2>3 DEF Behind
  <2>4. CASE j \in DOMAIN loans
    BY <1>4, <2>1, <2>2, <2>4 DEF L!KeyCreatesOneLoan, Undisturbed
  <2> QED BY <1>4, <2>3, <2>4
<1> QED BY <1>8, <1>9, <1>10, <1>11, <1>12 DEF InSequence

LEMMA RememberInSequence ==
  ASSUME LoanRequestConstants, StoreTypes, CreationTypes, InSequence,
         NEW q \in Requests, L!Remember(q)
  PROVE  InSequence'
<1> DEFINE k == req[q].key
           on == req[q].on
<1>1. L!Busy(q) /\ k \in Keys /\ on \in Processes
  <2>1. L!Busy(q)
    BY DEF L!Remember, L!Busy
  <2> QED BY <2>1, BusyCreates DEF Creations
<1>2. CreationTypes' /\ ~L!Busy(q)' /\ \A p \in Requests : p # q => req'[p] = req[p]
  BY EndsStops DEF L!Remember, Stops
<1>3. /\ now' = now /\ loans' = loans
      /\ answers'[on][k] = now + KeyTtl
      /\ \A h \in Keys, p \in Processes :
           ~(h = k /\ p = on) => answers'[p][h] = answers[p][h]
  BY <1>1 DEF L!Remember, L!caches, StoreTypes
<1>4. Apart'
  BY <1>2 DEF InSequence, Apart, L!Busy
<1>5. Kept'
  <2>1. SUFFICES ASSUME NEW h \in Keys, NEW p \in Processes PROVE Covered(h, p)'
    BY DEF Kept
  <2>2. CASE h = k /\ p = on
    <3>1. \A i \in DOMAIN loans : loans[i].at \in Int /\ loans[i].at <= now
      BY CreditsTyped DEF InSequence, Past
    <3>2. now \in Int /\ KeyTtl \in Int
      BY DEF StoreTypes, L!Times, LoanRequestConstants
    <3>3. \A i \in DOMAIN loans : now + KeyTtl >= loans[i].at + KeyTtl
      BY <3>1, <3>2
    <3> QED BY <1>3, <2>2, <3>3 DEF Behind, Covered
  <2>3. CASE ~(h = k /\ p = on) /\ (Behind(h, p, answers[p][h]) \/ Behind(h, p, now))
    BY <1>3, <2>3 DEF Behind, Covered
  <2>4. CASE ~(h = k /\ p = on) /\ Remembering(h, p)
    BY <1>2, <2>4 DEF Remembering, Covered
  <2> QED BY <2>2, <2>3, <2>4 DEF InSequence, Kept, Covered
<1>6. Waited'
  BY <1>2, <1>3 DEF InSequence, Waited, Behind, L!Busy
<1>7. Past'
  BY <1>3 DEF InSequence, Past
<1> QED BY <1>4, <1>5, <1>6, <1>7 DEF InSequence

LEMMA CreateInSequence ==
  ASSUME LoanRequestConstants, StoreTypes, CreationTypes, InSequence, Undisturbed,
         NEW q \in Requests, NEW k \in Keys, NEW on \in Processes, L!Create(q, k, on)
  PROVE  InSequence'
<1>1. ~L!InFlight(k) /\ now' = now /\ loans' = loans /\ answers' = answers
  BY DEF L!Create, Undisturbed
<1>2. /\ req'[q].pc = "hot" /\ req'[q].key = k /\ req'[q].on = on
      /\ \A p \in Requests : p # q => req'[p] = req[p]
  BY DEF L!Create, CreationTypes
<1>3. \A p \in Requests : L!Busy(p) => req[p].key # k
  BY <1>1 DEF L!InFlight
<1>4. ~Remembering(k, on)
  BY <1>3 DEF Remembering, L!Busy
<1>5. Behind(k, on, now)
  <2>1. answers[on][k] \in Int /\ now \in Int /\ answers[on][k] <= now
    BY DEF L!Create, L!Remembered, StoreTypes, L!Times, LoanRequestConstants
  <2> QED BY <1>4, <2>1, BehindLater DEF InSequence, Kept, Covered
<1>6. Apart'
  <2>1. SUFFICES ASSUME NEW p \in Requests, NEW r \in Requests, L!Busy(p)', L!Busy(r)',
                        req'[p].key = req'[r].key, p # r
                 PROVE  FALSE
    BY DEF Apart
  <2>2. CASE p = q
    BY <1>2, <1>3, <2>1, <2>2 DEF L!Busy
  <2>3. CASE r = q
    BY <1>2, <1>3, <2>1, <2>3 DEF L!Busy
  <2>4. CASE p # q /\ r # q
    BY <1>2, <2>1, <2>4 DEF L!Busy, InSequence, Apart
  <2> QED BY <2>2, <2>3, <2>4
<1>7. Kept'
  <2>1. SUFFICES ASSUME NEW h \in Keys, NEW p \in Processes PROVE Covered(h, p)'
    BY DEF Kept
  <2>2. CASE Behind(h, p, answers[p][h]) \/ Behind(h, p, now)
    BY <1>1, <2>2 DEF Behind, Covered
  <2>3. CASE Remembering(h, p)
    BY <1>2, <2>3 DEF Remembering, L!Create, L!Busy, Covered
  <2> QED BY <2>2, <2>3 DEF InSequence, Kept, Covered
<1>8. Waited'
  BY <1>1, <1>2, <1>5 DEF InSequence, Waited, Behind, L!Busy
<1>9. Past'
  BY <1>1 DEF InSequence, Past
<1> QED BY <1>6, <1>7, <1>8, <1>9 DEF InSequence

LEMMA KeyInvariantNext ==
  ASSUME LoanRequestConstants, KeyInvariant, [L!Next]_(L!vars)
  PROVE  KeyInvariant'
<1>1. L!TypeOK' /\ StoreTypes /\ CreationTypes /\ StoreTypes' /\ CreationTypes'
  BY LoanRequestTypesNext, LoanRequestTypes DEF KeyInvariant
<1>2. regime' = regime
  BY DEF L!Next, L!vars, L!Restart, L!Create, L!ReadHot, L!ReadWarm, L!SetHot, L!Fetch, L!UpsertWarm,
         L!CacheFails, L!Check, L!Insert, L!Remember, L!Abort, L!ScoreChanged, L!Tick
<1>3. Undisturbed' <=> Undisturbed
  BY <1>2 DEF Undisturbed
<1>4. CASE ~Undisturbed
  BY <1>1, <1>2, <1>3, <1>4 DEF KeyInvariant, Undisturbed, L!KeyCreatesOneLoan
<1>5. CASE Undisturbed
  <2>1. InSequence /\ L!KeyCreatesOneLoan
    BY <1>5 DEF KeyInvariant
  <2>2. SUFFICES InSequence' /\ L!KeyCreatesOneLoan'
    BY <1>1 DEF KeyInvariant
  <2>3. ASSUME loans' = loans PROVE L!KeyCreatesOneLoan'
    BY <1>2, <2>1, <2>3 DEF L!KeyCreatesOneLoan
  <2>4. ASSUME NEW q \in Requests, NEW k \in Keys, NEW p \in Processes, L!Create(q, k, p)
        PROVE  InSequence' /\ L!KeyCreatesOneLoan'
    <3>1. loans' = loans
      BY <2>4 DEF L!Create
    <3> QED BY <1>1, <1>5, <2>1, <2>3, <2>4, <3>1, CreateInSequence
  <2>5. ASSUME NEW q \in Requests,
               L!ReadHot(q) \/ L!ReadWarm(q) \/ L!SetHot(q) \/ L!Fetch(q)
                 \/ L!UpsertWarm(q) \/ L!Check(q)
        PROVE  InSequence' /\ L!KeyCreatesOneLoan'
    <3>1. UNCHANGED <<now, answers, loans>> /\ L!Busy(q) /\ req[q].pc # "remember"
      BY <2>5 DEF L!ReadHot, L!ReadWarm, L!SetHot, L!Fetch, L!UpsertWarm, L!Check, L!Busy
    <3>2. /\ \A p \in Requests : p # q => req'[p] = req[p]
          /\ L!Busy(q)' => /\ req'[q].key = req[q].key /\ req'[q].on = req[q].on
                           /\ req'[q].pc # "remember"
      <4> DEFINE Stays(pc, rep) == req' = [req EXCEPT ![q] = [@ EXCEPT !.pc = pc, !.rep = rep]]
      <4>1. \/ \E pc \in Calls \ {"remember"} : \E rep : Stays(pc, rep)
            \/ L!Ends(q)
        <5>1. CASE L!ReadHot(q)
          BY <5>1 DEF L!ReadHot, L!Goes, L!Continues, Calls
        <5>2. CASE L!ReadWarm(q)
          BY <5>2 DEF L!ReadWarm, L!Goes, L!Continues, Calls
        <5>3. CASE L!SetHot(q)
          BY <5>3 DEF L!SetHot, L!Goes, L!Continues, Calls
        <5>4. CASE L!Fetch(q)
          BY <5>4 DEF L!Fetch, L!Goes, Calls
        <5>5. CASE L!UpsertWarm(q)
          BY <5>5 DEF L!UpsertWarm, L!Goes, L!Continues, Calls
        <5>6. CASE L!Check(q)
          BY <5>6 DEF L!Check, L!Goes, L!Continues, Calls
        <5> QED BY <2>5, <5>1, <5>2, <5>3, <5>4, <5>5, <5>6
      <4>2. ASSUME NEW pc \in Calls \ {"remember"}, NEW rep, Stays(pc, rep)
            PROVE  /\ \A p \in Requests : p # q => req'[p] = req[p]
                   /\ req'[q].key = req[q].key /\ req'[q].on = req[q].on
                   /\ req'[q].pc # "remember"
        <5>1. req[q] \in Creations
          BY <1>1, <3>1, BusyCreates
        <5>2. [req[q] EXCEPT !.pc = pc, !.rep = rep].key = req[q].key
              /\ [req[q] EXCEPT !.pc = pc, !.rep = rep].on = req[q].on
              /\ [req[q] EXCEPT !.pc = pc, !.rep = rep].pc = pc
          BY <5>1 DEF Creations
        <5> QED BY <1>1, <4>2, <5>2 DEF CreationTypes
      <4>3. ASSUME L!Ends(q)
            PROVE  (\A p \in Requests : p # q => req'[p] = req[p]) /\ ~L!Busy(q)'
        BY <1>1, <4>3 DEF L!Ends, CreationTypes, L!Busy, L!Done
      <4> HIDE DEF Stays
      <4> QED BY <4>1, <4>2, <4>3
    <3> QED BY <1>1, <2>1, <2>3, <3>1, <3>2, MovesInSequence
  <2>6. ASSUME NEW q \in Requests, L!Insert(q)
        PROVE  InSequence' /\ L!KeyCreatesOneLoan'
    BY <1>1, <1>5, <2>1, <2>6, InsertInSequence
  <2>7. ASSUME NEW q \in Requests, L!Remember(q)
        PROVE  InSequence' /\ L!KeyCreatesOneLoan'
    <3>1. loans' = loans
      BY <2>7 DEF L!Remember
    <3> QED BY <1>1, <2>1, <2>3, <2>7, <3>1, RememberInSequence
  <2>8. ASSUME \/ \E q \in Requests : L!CacheFails(q) \/ L!Abort(q)
               \/ \E p \in Processes : L!Restart(p)
        PROVE  FALSE
    BY <1>5, <2>8 DEF L!CacheFails, L!Abort, L!Restart, Undisturbed
  <2>9. CASE L!ScoreChanged \/ L!Tick \/ UNCHANGED L!vars
    <3>1. UNCHANGED <<loans, req>> /\ now <= now'
      BY <1>1, <2>9, CreditsTyped DEF L!ScoreChanged, L!Tick, L!vars
    <3>2. \A k \in Keys, p \in Processes : answers'[p][k] = answers[p][k] \/ answers[p][k] <= now'
      BY <1>1, <2>9 DEF L!ScoreChanged, L!Tick, L!vars, StoreTypes
    <3>3. now \in Int /\ now' \in Int
      BY <1>1 DEF StoreTypes, L!Times, LoanRequestConstants
    <3>4. \A k, p : Behind(k, p, now) => Behind(k, p, now')
      BY <1>1, <3>1, <3>3, BehindLater
    <3>5. Kept'
      <4>1. SUFFICES ASSUME NEW k \in Keys, NEW p \in Processes PROVE Covered(k, p)'
        BY DEF Kept
      <4>2. answers[p][k] \in Int
        BY <1>1 DEF StoreTypes, LoanRequestConstants
      <4>3. CASE Behind(k, p, answers[p][k])
        <5>1. CASE answers'[p][k] = answers[p][k]
          BY <3>1, <4>3, <5>1 DEF Behind, Covered
        <5>2. CASE answers[p][k] <= now'
          <6>1. Behind(k, p, now')
            BY <1>1, <3>3, <4>2, <4>3, <5>2, BehindLater
          <6> QED BY <3>1, <6>1 DEF Behind, Covered
        <5> QED BY <3>2, <5>1, <5>2
      <4>4. CASE Behind(k, p, now)
        BY <3>1, <3>4, <4>4 DEF Behind, Covered
      <4>5. CASE Remembering(k, p)
        BY <3>1, <4>5 DEF Remembering, Covered
      <4> QED BY <2>1, <4>3, <4>4, <4>5 DEF InSequence, Kept, Covered
    <3>6. Apart'
      BY <2>1, <3>1 DEF InSequence, Apart, L!Busy
    <3>7. Past'
      BY <1>1, <2>1, <3>1, <3>3, CreditsTyped DEF InSequence, Past
    <3>8. Waited'
      BY <2>1, <3>1, <3>4 DEF InSequence, Waited, Behind, L!Busy
    <3> QED BY <2>3, <3>1, <3>5, <3>6, <3>7, <3>8 DEF InSequence
  <2> QED BY <2>4, <2>5, <2>6, <2>7, <2>8, <2>9 DEF L!Next
<1> QED BY <1>4, <1>5

LEMMA LoanRequestInit ==
  ASSUME LoanRequestConstants, L!Init
  PROVE  StoreTypes /\ CreationTypes /\ loans = <<>> /\ \A q \in Requests : ~L!Busy(q)
<1> USE DEF LoanRequestConstants, L!Init
<1>1. now \in L!Times /\ 0 \in L!Times
  BY DEF L!Times
<1>2. hot \in [Processes -> HotEntries]
  BY UnreadTyped
<1>3. warm \in L!Rows /\ recorded \subseteq Announcements
  <2>1. 1 \in L!Times
    BY DEF L!Times
  <2>2. CASE warm = L!NoRow /\ recorded = {}
    BY <1>1, <2>1, <2>2 DEF L!NoRow, L!Rows, Announcements
  <2>3. ASSUME NEW s \in Scores, warm = [score |-> s, synced |-> 1, looked |-> 1],
               recorded = {[score |-> s, at |-> 1]}
        PROVE  warm \in L!Rows /\ recorded \subseteq Announcements
    BY <2>1, <2>3 DEF L!Rows, Announcements
  <2> QED BY <2>2, <2>3
<1>4. answers \in [Processes -> [Keys -> 0 .. LoanTime + KeyTtl]]
  BY DEF L!NoAnswers
<1>5. loans \in Seq(Credits) /\ Len(loans) <= MaxLoans
  OBVIOUS
<1> QED BY <1>1, <1>2, <1>3, <1>4, <1>5 DEF StoreTypes, CreationTypes, L!Busy, L!Done

LEMMA KeyInvariantInit == L!Init => KeyInvariant
<1> SUFFICES ASSUME L!Init PROVE KeyInvariant
  OBVIOUS
<1>1. /\ StoreTypes /\ CreationTypes /\ DOMAIN loans = {}
      /\ \A q \in Requests : ~L!Busy(q)
  BY LoanRequestInit, ConstantsTyped
<1>2. InSequence /\ L!KeyCreatesOneLoan
  BY <1>1 DEF InSequence, Apart, Kept, Covered, Behind, Waited, Past, L!KeyCreatesOneLoan
<1> QED BY <1>1, <1>2, LoanRequestTypes DEF KeyInvariant

(* POST /loans/create, whatever the requests, keys, processes, scores and  *)
(* times to live: where requests of one key come one after the other and   *)
(* nothing fails, a process makes no second loan of the key while it       *)
(* remembers the answer to the first, however slow the requests are.  Each *)
(* process may make one.                                                   *)
THEOREM OneLoanPerKey == Spec => []KeyCreatesOneLoan
<1> DEFINE Inv == service = "LoanRequests" => KeyInvariant
<1>1. KeyInvariant => L!KeyCreatesOneLoan
  BY DEF KeyInvariant
<1>2. Init => Inv
  BY KeyInvariantInit DEF Init
<1>3. Inv /\ [Next]_vars => Inv'
  BY Exercised, KeyInvariantNext, ConstantsTyped
<1>4. Inv => KeyCreatesOneLoan
  BY <1>1 DEF KeyCreatesOneLoan
<1> QED BY <1>2, <1>3, <1>4, PTL DEF Spec
(* What is said of a score holds from when it was read: what is recorded   *)
(* later was not there to be read.  A fetch is of a wallet whose row was   *)
(* missing or too old when it was looked for.                              *)
Earlier(rep) == rep.read <= now /\ rep.looked <= now
Granted(rep) == L!IsRecorded(rep) \/ L!IsComputed(rep)
Steady == regime \cap {"slow", "fail", "rls"} = {}
Spared(t) == \A b \in recorded : b.at + WarmTtl <= t \/ b.at >= t
Prompt == "slow" \notin regime

(* The row is the last score recorded, or one computed since; where calls  *)
(* take no time, nothing is recorded after its lastUpdated.                *)
LastRecorded ==
  \E a \in recorded :
    /\ a.score = warm.score /\ a.at = warm.synced
    /\ \A b \in recorded : b.at <= a.at
RowHolds ==
  /\ 1 <= now
  /\ \A b \in recorded : b.at <= now
  /\ warm.looked <= now
  /\ warm = L!NoRow => recorded = {}
  /\ warm # L!NoRow => LastRecorded \/ (warm.score = hashed /\ (Steady => Spared(warm.looked)))
  /\ Prompt => \A b \in recorded : b.at <= warm.synced
HotHolds ==
  \A p \in Processes :
    Earlier(hot[p].rep) /\ (now < hot[p].until => Granted(hot[p].rep))
LoansHold == \A i \in DOMAIN loans : Earlier(loans[i].rep) /\ Granted(loans[i].rep)
Holds(r) ==
  /\ Earlier(r.rep)
  /\ r.pc = "fetch" => (Steady => Spared(r.rep.looked))
  /\ r.pc = "fallback" => ~Steady
  /\ r.pc \in {"persist", "upsert"} =>
       L!IsComputed(r.rep) /\ (Prompt => r.rep.synced = now)
  /\ r.pc \in {"backfill", "merchant", "insert"} => Granted(r.rep)
ReqsHold == \A q \in Requests : L!Busy(q) => Holds(req[q])
Values == RowHolds /\ HotHolds /\ LoansHold /\ ReqsHold

(* When no call but a fetch takes time: what the hot                       *)
(* cache holds was fit to be read when it was read, which bounds its life; *)
(* and so is what a request carries, of now until it comes from the cache. *)
Fit(rep) == rep.read < rep.synced + WarmTtl
HotFit == \A p \in Processes :
            hot[p].until <= hot[p].rep.read + HotTtl /\ Fit(hot[p].rep)
CarriesNow(r) == r.rep.read = now /\ Fit(r.rep)
CarriesFresh(r) == now < r.rep.read + HotTtl /\ Fit(r.rep)
Carries(r) ==
  /\ r.pc \in {"backfill", "persist", "upsert"} => CarriesNow(r)
  /\ r.pc \in {"merchant", "insert"} => CarriesFresh(r)
AllFresh == HotFit /\ \A q \in Requests : Carries(req[q])
InTime == \A i \in DOMAIN loans :
            /\ loans[i].at < loans[i].rep.read + HotTtl
            /\ loans[i].at < loans[i].rep.synced + WarmTtl + HotTtl
PriceInvariant == L!TypeOK /\ Values /\ (Prompt => AllFresh /\ InTime)

LEMMA ReputationsTyped ==
  ASSUME LoanRequestConstants
  PROVE  /\ \A rep \in L!Reputations :
              rep.read \in Int /\ rep.synced \in Int /\ rep.looked \in Int
         /\ HotTtl \in Nat \ {0} /\ WarmTtl \in Nat \ {0}
         /\ StoreTypes =>
              /\ now \in Int /\ warm.synced \in Int /\ warm.looked \in Int
              /\ \A p \in Processes : hot[p].until \in Int /\ hot[p].rep \in L!Reputations
              /\ \A b \in recorded : b.at \in Int
              /\ \A i \in DOMAIN loans : loans[i].rep \in L!Reputations
<1>1. \A e \in HotEntries : e.until \in Int /\ e.rep \in L!Reputations
  BY DEF LoanRequestConstants, HotEntries
<1>2. \A b \in Announcements : b.at \in Int
  BY DEF Announcements, L!Times, LoanRequestConstants
<1>3. \A c \in Credits : c.rep \in L!Reputations
  BY DEF Credits
<1>4. \A w \in L!Rows : w.synced \in Int /\ w.looked \in Int
  BY DEF L!Rows, L!Times, LoanRequestConstants
<1>5. StoreTypes => \A i \in DOMAIN loans : loans[i] \in Credits
  BY DEF StoreTypes
<1>6. \A rep \in L!Reputations :
        rep.read \in Int /\ rep.synced \in Int /\ rep.looked \in Int
  BY DEF LoanRequestConstants, L!Reputations, L!Times
<1> QED BY <1>1, <1>2, <1>3, <1>4, <1>5, <1>6 DEF LoanRequestConstants, L!Times, StoreTypes

(* Nothing that is true of a score stops being so when time passes or      *)
(* another score is recorded.                                              *)
Onward ==
  /\ regime' = regime /\ hashed' = hashed /\ now <= now'
  /\ recorded \subseteq recorded' /\ \A b \in recorded' : b \in recorded \/ b.at = now

LEMMA Lasts ==
  ASSUME LoanRequestConstants, StoreTypes, StoreTypes', Onward
  PROVE  /\ \A rep \in L!Reputations : Earlier(rep) =>
              /\ Earlier(rep)'
              /\ L!IsRecorded(rep) => L!IsRecorded(rep)'
              /\ L!IsComputed(rep) => L!IsComputed(rep)'
              /\ Granted(rep) => Granted(rep)'
         /\ \A t \in Int : t <= now /\ Spared(t) => Spared(t)'
<1>1. now \in Int /\ now' \in Int
  BY DEF StoreTypes, L!Times, LoanRequestConstants
<1>2. ASSUME NEW rep \in L!Reputations, Earlier(rep)
      PROVE  /\ Earlier(rep)'
             /\ L!IsRecorded(rep) => L!IsRecorded(rep)'
             /\ L!IsComputed(rep) => L!IsComputed(rep)'
  <2>1. Earlier(rep)' /\ rep.read <= now /\ rep.looked <= now
    BY <1>1, <1>2, ReputationsTyped DEF Earlier, Onward
  <2>2. ASSUME L!IsRecorded(rep) PROVE L!IsRecorded(rep)'
    <3>1. PICK a \in recorded :
            /\ a.score = rep.score /\ a.at = rep.synced
            /\ \A b \in recorded : b.at > a.at => b.at >= rep.read
      BY <2>2 DEF L!IsRecorded
    <3>2. a \in recorded' /\ \A b \in recorded' : b.at > a.at => b.at >= rep.read
      BY <2>1, <3>1 DEF Onward
    <3> QED BY <3>1, <3>2 DEF L!IsRecorded
  <2>3. ASSUME L!IsComputed(rep) PROVE L!IsComputed(rep)'
    BY <2>1, <2>3 DEF L!IsComputed, Onward
  <2> QED BY <2>1, <2>2, <2>3
<1>3. ASSUME NEW t \in Int, t <= now, Spared(t) PROVE Spared(t)'
  BY <1>3 DEF Spared, Onward
<1> QED BY <1>2, <1>3 DEF Granted

LEMMA OnwardNext ==
  ASSUME LoanRequestConstants, StoreTypes, [L!Next]_(L!vars)
  PROVE  Onward
<1>1. now \in Int
  BY DEF StoreTypes, L!Times, LoanRequestConstants
<1>2. CASE L!ScoreChanged
  <2>1. PICK s \in Scores : recorded' = recorded \cup {[score |-> s, at |-> now]}
    BY <1>2 DEF L!ScoreChanged
  <2> QED BY <1>1, <1>2, <2>1 DEF L!ScoreChanged, Onward
<1>3. CASE L!Tick
  BY <1>1, <1>3 DEF L!Tick, Onward
<1>4. CASE UNCHANGED <<regime, hashed, now, recorded>>
  BY <1>1, <1>4 DEF Onward
<1>5. ASSUME ~L!ScoreChanged, ~L!Tick PROVE UNCHANGED <<regime, hashed, now, recorded>>
  BY <1>5 DEF L!Next, L!vars, L!caches, L!Restart, L!Create, L!ReadHot, L!ReadWarm, L!SetHot,
     L!Fetch, L!UpsertWarm, L!CacheFails, L!Check, L!Insert, L!Remember, L!Abort
<1> QED BY <1>2, <1>3, <1>4, <1>5

(* A request that holds keeps to it unless it is the one that moves.       *)
LEMMA HoldsOn ==
  ASSUME LoanRequestConstants, StoreTypes, StoreTypes', Onward, Values,
         CreationTypes, NEW q \in Requests, L!Busy(q), req'[q] = req[q],
         now' = now \/ L!Fetching(q) \/ ~Prompt
  PROVE  Holds(req[q])'
<1>1. req[q].rep \in L!Reputations /\ Holds(req[q]) /\ req[q].rep.looked \in Int
  BY BusyCreates, ReputationsTyped DEF Creations, Values, ReqsHold
<1>2. /\ Earlier(req[q].rep) /\ Earlier(req[q].rep)'
      /\ L!IsComputed(req[q].rep) => L!IsComputed(req[q].rep)'
      /\ Granted(req[q].rep) => Granted(req[q].rep)'
      /\ Spared(req[q].rep.looked) => Spared(req[q].rep.looked)'
  <2> DEFINE rep == req[q].rep
  <2>1. rep' = rep
    OBVIOUS
  <2>2. Earlier(rep) /\ rep.looked <= now
    BY <1>1 DEF Holds, Earlier
  <2>3. PICK r \in L!Reputations : r = rep
    BY <1>1
  <2>4. PICK t \in Int : t = rep.looked
    BY <1>1
  <2>5. /\ Earlier(r)' /\ (L!IsComputed(r) => L!IsComputed(r)')
        /\ (Granted(r) => Granted(r)') /\ (Spared(t) => Spared(t)')
    BY <2>2, <2>3, <2>4, Lasts
  <2> QED
    BY <2>1, <2>2, <2>3, <2>4, <2>5 DEF Earlier, L!IsComputed, Granted, L!IsRecorded, Spared
<1>3. (Steady' <=> Steady) /\ (Prompt' <=> Prompt)
  BY DEF Onward, Steady, Prompt
<1>4. L!Fetching(q) => req[q].pc \in {"fetch", "fallback"}
  BY DEF L!Fetching
<1> QED BY <1>1, <1>2, <1>3, <1>4 DEF Holds

LEMMA ComputedOnSlow ==
  ASSUME NEW rep, ~Steady, rep.score = hashed
  PROVE  L!IsComputed(rep)
  BY DEF L!IsComputed, Steady

LEMMA HotHoldsOn ==
  ASSUME LoanRequestConstants, StoreTypes, StoreTypes', Onward, HotHolds,
         \A p \in Processes : hot'[p] = hot[p] \/ hot'[p] = L!Cold
  PROVE  HotHolds'
<1>1. SUFFICES ASSUME NEW p \in Processes
               PROVE  Earlier(hot[p].rep)' /\ ((now < hot[p].until)' => Granted(hot[p].rep)')
  BY DEF HotHolds
<1>2. now \in Int /\ now' \in Int /\ 0 <= now' /\ now <= now'
  BY DEF StoreTypes, L!Times, LoanRequestConstants, Onward
<1>3. CASE hot'[p] = L!Cold
  BY <1>2, <1>3 DEF L!Cold, L!Unread, Earlier
<1>4. CASE hot'[p] = hot[p]
  <2>1. PICK r \in L!Reputations : r = hot[p].rep
    BY ReputationsTyped
  <2>2. Earlier(r) /\ Earlier(r)' /\ (Granted(r) => Granted(r)')
    BY <2>1, Lasts DEF HotHolds, Earlier
  <2>3. hot[p].until \in Int /\ (now < hot[p].until => Granted(r))
    BY <2>1, ReputationsTyped DEF HotHolds, Granted, L!IsRecorded, L!IsComputed
  <2>4. (now < hot[p].until)' => Granted(r)'
    BY <1>2, <1>4, <2>2, <2>3
  <2> QED
    BY <1>4, <2>1, <2>2, <2>4 DEF Earlier, Granted, L!IsRecorded, L!IsComputed
<1> QED BY <1>3, <1>4

LEMMA LoansHoldOn ==
  ASSUME LoanRequestConstants, StoreTypes, StoreTypes', Onward, LoansHold, loans' = loans
  PROVE  LoansHold'
<1>1. SUFFICES ASSUME NEW i \in DOMAIN loans
               PROVE  Earlier(loans[i].rep)' /\ Granted(loans[i].rep)'
  BY DEF LoansHold
<1>2. PICK r \in L!Reputations : r = loans[i].rep
  BY ReputationsTyped
<1>3. Earlier(r) /\ Granted(r)
  BY <1>2 DEF LoansHold, Earlier, Granted, L!IsRecorded, L!IsComputed
<1>4. Earlier(r)' /\ Granted(r)'
  BY <1>3, Lasts
<1> QED BY <1>2, <1>4 DEF Earlier, Granted, L!IsRecorded, L!IsComputed

LEMMA RowHoldsOn ==
  ASSUME LoanRequestConstants, StoreTypes, StoreTypes', Onward, RowHolds,
         UNCHANGED <<warm, recorded>>
  PROVE  RowHolds'
<1>1. now \in Int /\ now' \in Int /\ now <= now'
  BY DEF StoreTypes, L!Times, LoanRequestConstants, Onward
<1>2. \A b \in recorded : b.at \in Int
  BY ReputationsTyped
<1>3. warm.looked \in Int
  BY ReputationsTyped
<1>4. 1 <= now' /\ (\A b \in recorded : b.at <= now') /\ warm.looked <= now'
  BY <1>1, <1>2, <1>3 DEF RowHolds
<1> QED
  BY <1>4 DEF RowHolds, LastRecorded, Spared, Steady, Prompt, Onward

(* What the row says is what a request reads of it.                        *)
LEMMA ReadsTheRow ==
  ASSUME LoanRequestConstants, StoreTypes, RowHolds, L!IsFresh(warm),
         NEW rep \in L!Reputations,
         rep = [score |-> warm.score, synced |-> warm.synced,
                looked |-> warm.looked, read |-> now]
  PROVE  Earlier(rep) /\ Granted(rep)
<1>1. Earlier(rep)
  BY ReputationsTyped DEF RowHolds, Earlier
<1>2. ASSUME LastRecorded PROVE L!IsRecorded(rep)
  <2>1. PICK a \in recorded :
          /\ a.score = warm.score /\ a.at = warm.synced
          /\ \A b \in recorded : b.at <= a.at
    BY <1>2 DEF LastRecorded
  <2>2. a.score = rep.score /\ a.at = rep.synced
    BY <2>1
  <2>3. \A b \in recorded : b.at > a.at => b.at >= rep.read
    BY <2>1, ReputationsTyped
  <2> QED BY <2>2, <2>3 DEF L!IsRecorded
<1>3. ASSUME warm.score = hashed, Steady => Spared(warm.looked)
      PROVE  L!IsComputed(rep)
  BY <1>3 DEF L!IsComputed, Steady, Spared
<1>4. warm # L!NoRow
  BY DEF L!IsFresh
<1> QED BY <1>1, <1>2, <1>3, <1>4 DEF RowHolds, Granted

(* A row that is too old is older than the life of one, and so is all that *)
(* was recorded.                                                           *)
LEMMA LooksInVain ==
  ASSUME LoanRequestConstants, StoreTypes, RowHolds, Steady,
         ~(L!IsFresh(warm) /\ "rls" \notin regime)
  PROVE  Spared(now)
<1>1. ~L!IsFresh(warm) /\ Prompt
  BY DEF Steady, Prompt
<1>2. CASE warm = L!NoRow
  BY <1>2 DEF RowHolds, Spared
<1>3. CASE now - warm.synced >= WarmTtl
  <2>1. \A b \in recorded : b.at <= warm.synced /\ b.at \in Int
    BY <1>1, ReputationsTyped DEF RowHolds
  <2> QED BY <1>3, <2>1, ReputationsTyped DEF Spared
<1> QED BY <1>1, <1>2, <1>3, ReputationsTyped DEF L!IsFresh

LEMMA ValuesNext ==
  ASSUME LoanRequestConstants, L!TypeOK, Values, [L!Next]_(L!vars)
  PROVE  Values'
<1>1. StoreTypes /\ CreationTypes /\ StoreTypes' /\ CreationTypes' /\ Onward
  BY LoanRequestTypesNext, LoanRequestTypes, OnwardNext
<1>2. now \in Int /\ now' \in Int /\ (Steady' <=> Steady) /\ (Prompt' <=> Prompt)
  BY <1>1 DEF StoreTypes, L!Times, LoanRequestConstants, Onward, Steady, Prompt
<1>3. RowHolds /\ HotHolds /\ LoansHold /\ ReqsHold
  BY DEF Values
<1>4. ASSUME UNCHANGED <<warm, recorded>> PROVE RowHolds'
  BY <1>1, <1>3, <1>4, RowHoldsOn
<1>5. ASSUME hot' = hot PROVE HotHolds'
  BY <1>1, <1>3, <1>5, HotHoldsOn
<1>6. ASSUME loans' = loans PROVE LoansHold'
  BY <1>1, <1>3, <1>6, LoansHoldOn
<1>7. ASSUME NEW q \in Requests, now' = now, L!Busy(q)' => Holds(req[q])',
             \A p \in Requests : p # q => req'[p] = req[p]
      PROVE  ReqsHold'
  <2>1. SUFFICES ASSUME NEW p \in Requests, p # q, L!Busy(p)' PROVE Holds(req[p])'
    BY <1>7 DEF ReqsHold
  <2>2. req'[p] = req[p] /\ L!Busy(p)
    BY <1>7, <2>1 DEF L!Busy
  <2> QED BY <1>1, <1>7, <2>2, HoldsOn
<1>8. ASSUME NEW q \in Requests, L!Busy(q)
      PROVE  req[q].rep \in L!Reputations /\ Holds(req[q])
  BY <1>1, <1>3, <1>8, BusyCreates DEF Creations, ReqsHold
<1>9. ASSUME NEW q \in Requests, now' = now, Stops(q) PROVE ReqsHold'
  BY <1>7, <1>9 DEF Stops
<1>10. ASSUME NEW q \in Requests, NEW pc \in Calls, NEW rep \in L!Reputations,
              UNCHANGED <<now, recorded>>, MovesTo(q, pc, rep), Earlier(rep),
              pc = "fetch" => (Steady => Spared(rep.looked)),
              pc = "fallback" => ~Steady,
              pc \in {"persist", "upsert"} => L!IsComputed(rep) /\ (Prompt => rep.synced = now),
              pc \in {"backfill", "merchant", "insert"} => Granted(rep)
       PROVE  ReqsHold'
  <2>1. req'[q].pc = pc /\ req'[q].rep = rep
    BY <1>10 DEF MovesTo
  <2>2. hashed' = hashed /\ regime' = regime
    BY <1>1 DEF Onward
  <2>3. /\ Earlier(rep)' /\ (Granted(rep) => Granted(rep)')
        /\ (L!IsComputed(rep) => L!IsComputed(rep)')
        /\ (Spared(rep.looked) => Spared(rep.looked)')
    BY <1>10, <2>2 DEF Earlier, Granted, L!IsComputed, L!IsRecorded, Spared
  <2>4. /\ (Granted(rep) => Granted(req[q].rep)')
        /\ (L!IsComputed(rep) => L!IsComputed(req[q].rep)')
        /\ (Spared(rep.looked) => Spared(req[q].rep.looked)')
    BY <1>10, <2>1, <2>2 DEF Earlier, Granted, L!IsComputed, L!IsRecorded, Spared
  <2>5. Earlier(req[q].rep)'
    BY <1>10, <2>1, <2>2 DEF Earlier
  <2>6. Holds(req[q])'
    BY <1>2, <1>10, <2>1, <2>4, <2>5 DEF Holds
  <2> QED BY <1>7, <1>10, <2>6 DEF MovesTo
<1>11. ASSUME NEW q \in Requests, NEW k \in Keys, NEW on \in Processes, L!Create(q, k, on)
       PROVE  Values'
  <2>1. /\ UNCHANGED <<now, hot, warm, recorded, loans>>
        /\ req'[q].pc = "hot" /\ req'[q].rep = L!Unread
        /\ \A p \in Requests : p # q => req'[p] = req[p]
    BY <1>1, <1>11 DEF L!Create, L!caches, CreationTypes
  <2>2. 0 <= now
    BY <1>1 DEF StoreTypes, L!Times
  <2>3. Holds(req[q])'
    BY <2>1, <2>2 DEF Holds, Earlier, L!Unread
  <2> QED BY <1>4, <1>5, <1>6, <1>7, <2>1, <2>3 DEF Values
<1>12. ASSUME NEW q \in Requests, L!ReadHot(q) PROVE Values'
  <2> DEFINE cached == hot[req[q].on]
  <2>1. L!Busy(q) /\ UNCHANGED <<now, hot, warm, recorded, loans>>
    BY <1>12 DEF L!ReadHot, L!caches, L!Busy
  <2>2. req[q].on \in Processes
    BY <1>1, <2>1, BusyCreates DEF Creations
  <2>3. PICK r \in L!Reputations : r = cached.rep
    BY <1>1, <2>2, ReputationsTyped
  <2>4. CASE now < cached.until
    <3>1. MovesTo(q, "merchant", r)
      BY <1>1, <1>12, <2>1, <2>3, <2>4, GoesMoves DEF L!ReadHot, Calls
    <3>2. Earlier(r) /\ Granted(r)
      BY <1>3, <2>2, <2>3, <2>4
      DEF HotHolds, Earlier, Granted, L!IsRecorded, L!IsComputed
    <3>3. ReqsHold'
      BY <1>10, <2>1, <3>1, <3>2 DEF Calls
    <3> QED BY <1>4, <1>5, <1>6, <2>1, <3>3 DEF Values
  <2>5. CASE ~(now < cached.until)
    <3>1. MovesTo(q, "warm", req[q].rep)
      BY <1>1, <1>12, <2>1, <2>5, ContinuesMoves DEF L!ReadHot, Calls
    <3>2. ReqsHold'
      BY <1>8, <1>10, <2>1, <3>1 DEF Holds, Calls
    <3> QED BY <1>4, <1>5, <1>6, <2>1, <3>2 DEF Values
  <2> QED BY <2>4, <2>5
<1>13. ASSUME NEW q \in Requests, L!ReadWarm(q) PROVE Values'
  <2>1. L!Busy(q) /\ UNCHANGED <<now, hot, warm, recorded, loans>>
    BY <1>13 DEF L!ReadWarm, L!caches, L!Busy
  <2>2. CASE L!IsFresh(warm) /\ "rls" \notin regime
    <3>1. PICK r \in L!Reputations :
            r = [score |-> warm.score, synced |-> warm.synced,
                 looked |-> warm.looked, read |-> now]
      BY <1>1 DEF StoreTypes, L!Rows, L!Reputations
    <3>2. L!Goes(q, "backfill", r)
      BY <1>13, <2>2, <3>1 DEF L!ReadWarm
    <3>3. MovesTo(q, "backfill", r)
      BY <1>1, <2>1, <3>2, GoesMoves DEF Calls
    <3>4. Earlier(r) /\ Granted(r)
      BY <1>1, <1>3, <2>2, <3>1, ReadsTheRow
    <3>5. ReqsHold'
      BY <1>10, <2>1, <3>3, <3>4 DEF Calls
    <3> QED BY <1>4, <1>5, <1>6, <2>1, <3>5 DEF Values
  <2>3. CASE ~(L!IsFresh(warm) /\ "rls" \notin regime)
    <3>0. [score |-> 0, synced |-> 0, looked |-> now, read |-> 0] \in L!Reputations
      BY <1>1, UnreadTyped DEF StoreTypes, L!Reputations
    <3>1. PICK r \in L!Reputations :
            r = [score |-> 0, synced |-> 0, looked |-> now, read |-> 0]
      BY <3>0
    <3>2. L!Goes(q, "fetch", r)
      BY <1>13, <2>3, <3>1 DEF L!ReadWarm
    <3>3. MovesTo(q, "fetch", r)
      BY <1>1, <2>1, <3>2, GoesMoves DEF Calls
    <3>4. 0 <= now /\ r.looked = now /\ r.read = 0
      BY <1>1, <3>1 DEF StoreTypes, L!Times
    <3>5. Earlier(r)
      BY <1>2, <3>4 DEF Earlier
    <3>6. Steady => Spared(r.looked)
      BY <1>1, <1>3, <2>3, <3>4, LooksInVain DEF Spared
    <3>7. ReqsHold'
      BY <1>10, <2>1, <3>3, <3>5, <3>6 DEF Calls
    <3> QED BY <1>4, <1>5, <1>6, <2>1, <3>7 DEF Values
  <2> QED BY <2>2, <2>3
<1>14. ASSUME NEW q \in Requests, L!SetHot(q) PROVE Values'
  <2> DEFINE pc == IF req[q].pc = "backfill" THEN "merchant" ELSE "upsert"
  <2>0. PICK on \in Processes : on = req[q].on
    BY <1>1, <1>14, BusyCreates DEF L!SetHot, L!Busy, Creations
  <2>1. /\ L!Busy(q) /\ UNCHANGED <<now, warm, recorded, loans>>
        /\ req[q].pc \in {"backfill", "persist"} /\ L!Continues(q, pc)
        /\ hot' = [hot EXCEPT ![on] = [rep |-> req[q].rep, until |-> now + HotTtl]]
    BY <1>14, <2>0 DEF L!SetHot, L!caches, L!Busy
  <2>2. PICK r \in L!Reputations : r = req[q].rep
    BY <1>8, <2>1
  <2>3. /\ Earlier(r) /\ Granted(r)
        /\ pc = "upsert" => L!IsComputed(r) /\ (Prompt => r.synced = now)
    BY <1>8, <2>1, <2>2 DEF Holds, Granted, Earlier, L!IsComputed, L!IsRecorded
  <2>4. pc \in {"merchant", "upsert"}
    OBVIOUS
  <2> HIDE DEF pc
  <2>5. MovesTo(q, pc, r)
    BY <1>1, <2>1, <2>2, <2>4, ContinuesMoves DEF Calls
  <2>6. ReqsHold'
    BY <1>10, <2>1, <2>3, <2>4, <2>5 DEF Calls
  <2>7. HotHolds'
    <3>2. /\ hot'[on].rep = r
          /\ \A p \in Processes : p # on => hot'[p] = hot[p]
      BY <1>1, <2>1, <2>2 DEF StoreTypes
    <3>3. Earlier(r)' /\ Granted(r)'
      BY <1>1, <2>3, Lasts
    <3>4. Earlier(hot[on].rep)' /\ Granted(hot[on].rep)'
      BY <3>2, <3>3 DEF Earlier, Granted, L!IsRecorded, L!IsComputed
    <3>5. ASSUME NEW p \in Processes, p # on
          PROVE  Earlier(hot[p].rep)' /\ ((now < hot[p].until)' => Granted(hot[p].rep)')
      <4>1. hot'[p] = hot[p] /\ UNCHANGED <<now, recorded, hashed, regime>>
        BY <1>1, <2>1, <3>2, <3>5 DEF Onward
      <4> QED BY <1>3, <4>1 DEF HotHolds, Earlier, Granted, L!IsRecorded, L!IsComputed
    <3> QED BY <3>4, <3>5 DEF HotHolds
  <2> QED BY <1>4, <1>6, <2>1, <2>6, <2>7 DEF Values
<1>15. ASSUME NEW q \in Requests, L!Fetch(q) PROVE Values'
  <2> DEFINE pc == IF req[q].pc = "fetch" THEN "persist" ELSE "merchant"
  <2>1. /\ L!Busy(q) /\ UNCHANGED <<now, hot, warm, recorded, loans>>
        /\ req[q].pc \in {"fetch", "fallback"}
    BY <1>15 DEF L!Fetch, L!caches, L!Busy
  <2>2. PICK r \in L!Reputations :
          r = [score |-> hashed, synced |-> now, looked |-> req[q].rep.looked,
               read |-> now]
    BY <1>1, <1>8, <2>1 DEF StoreTypes, L!Reputations
  <2>3. L!Goes(q, pc, r)
    BY <1>15, <2>2 DEF L!Fetch
  <2>4. /\ r.score = hashed /\ r.synced = now /\ r.read = now
        /\ r.looked = req[q].rep.looked
    BY <2>2
  <2>5. Earlier(r)
    BY <1>2, <1>8, <2>1, <2>4 DEF Holds, Earlier
  <2>6. Steady => req[q].pc = "fetch" /\ Spared(r.looked)
    BY <1>8, <2>1, <2>4 DEF Holds, Spared
  <2>7. L!IsComputed(r)
    BY <2>4, <2>6 DEF L!IsComputed, Steady, Spared
  <2>8. pc \in {"persist", "merchant"}
    OBVIOUS
  <2> HIDE DEF pc
  <2>9. MovesTo(q, pc, r)
    BY <1>1, <2>1, <2>3, <2>8, GoesMoves DEF Calls
  <2>10. ReqsHold'
    BY <1>10, <2>1, <2>4, <2>5, <2>7, <2>8, <2>9 DEF Calls, Granted
  <2> QED BY <1>4, <1>5, <1>6, <2>1, <2>10 DEF Values
<1>16. ASSUME NEW q \in Requests, L!UpsertWarm(q) PROVE Values'
  <2>1. /\ L!Busy(q) /\ UNCHANGED <<now, hot, recorded, loans>>
        /\ req[q].pc = "upsert" /\ L!Continues(q, "merchant")
        /\ warm' = warm \/ /\ req[q].rep.score >= 60
                           /\ warm' = L!Row(req[q].rep)
    BY <1>16 DEF L!UpsertWarm, L!Busy, L!MIN_LOAN_REPUTATION_SCORE
  <2>2. PICK r \in L!Reputations : r = req[q].rep
    BY <1>8, <2>1
  <2>3. Earlier(r) /\ L!IsComputed(r) /\ (Prompt => r.synced = now)
    BY <1>8, <2>1, <2>2 DEF Holds, Earlier, L!IsComputed
  <2>4. MovesTo(q, "merchant", r)
    BY <1>1, <2>1, <2>2, ContinuesMoves DEF Calls
  <2>5. ReqsHold'
    BY <1>10, <2>1, <2>3, <2>4 DEF Calls, Granted
  <2>6. CASE warm' = L!Row(req[q].rep) /\ req[q].rep.score >= 60
    <3>1. warm'.score = r.score /\ warm'.synced = r.synced /\ warm'.looked = r.looked
      BY <2>2, <2>6 DEF L!Row
    <3>2. warm' # L!NoRow
      <4>1. r.score >= 60 /\ r.score \in Int
        BY <2>2, <2>6 DEF L!Reputations
      <4> QED BY <3>1, <4>1 DEF L!NoRow
    <3>3. r.score = hashed /\ (Steady => Spared(r.looked))
      BY <2>3 DEF L!IsComputed, Steady, Spared
    <3>4. UNCHANGED <<now, recorded, hashed, regime>>
      BY <1>1, <2>1 DEF Onward
    <3>5. 1 <= now /\ (\A b \in recorded : b.at <= now) /\ r.looked <= now
      BY <1>3, <2>3 DEF RowHolds, Earlier
    <3>6. RowHolds'
      BY <2>3, <3>1, <3>2, <3>3, <3>4, <3>5 DEF RowHolds, Spared, Steady, Prompt
    <3> QED BY <1>5, <1>6, <2>1, <2>5, <3>6 DEF Values
  <2>7. CASE warm' = warm
    BY <1>4, <1>5, <1>6, <2>1, <2>5, <2>7 DEF Values
  <2> QED BY <2>1, <2>6, <2>7
<1>17. ASSUME NEW q \in Requests, L!CacheFails(q) PROVE Values'
  <2>1. L!Busy(q) /\ UNCHANGED <<now, hot, warm, recorded, loans>> /\ ~Steady
    BY <1>17 DEF L!CacheFails, L!caches, L!Busy, Steady
  <2>2. PICK r \in L!Reputations : r = req[q].rep
    BY <1>8, <2>1
  <2>3. Earlier(r)
    BY <1>8, <2>1, <2>2 DEF Holds, Earlier
  <2>4. CASE L!Continues(q, "fallback")
    <3>1. MovesTo(q, "fallback", r)
      BY <1>1, <2>1, <2>2, <2>4, ContinuesMoves DEF Calls
    <3>2. ReqsHold'
      BY <1>10, <2>1, <2>3, <3>1 DEF Calls
    <3> QED BY <1>4, <1>5, <1>6, <2>1, <3>2 DEF Values
  <2>5. CASE req[q].pc \in {"persist", "upsert"} /\ L!Continues(q, "merchant")
    <3>1. MovesTo(q, "merchant", r)
      BY <1>1, <2>1, <2>2, <2>5, ContinuesMoves DEF Calls
    <3>2. L!IsComputed(r)
      BY <1>8, <2>1, <2>2, <2>5 DEF Holds, L!IsComputed
    <3>3. ReqsHold'
      BY <1>10, <2>1, <2>3, <3>1, <3>2 DEF Calls, Granted
    <3> QED BY <1>4, <1>5, <1>6, <2>1, <3>3 DEF Values
  <2> QED BY <1>17, <2>4, <2>5 DEF L!CacheFails
<1>18. ASSUME NEW q \in Requests, L!Check(q) PROVE Values'
  <2>1. L!Busy(q) /\ UNCHANGED <<now, hot, warm, recorded, loans>> /\ req[q].pc = "merchant"
    BY <1>18 DEF L!Check, L!caches, L!Busy
  <2>2. CASE L!Continues(q, "insert")
    <3>1. PICK r \in L!Reputations : r = req[q].rep
      BY <1>8, <2>1
    <3>2. Earlier(r) /\ Granted(r)
      BY <1>8, <2>1, <3>1 DEF Holds, Earlier, Granted, L!IsRecorded, L!IsComputed
    <3>3. MovesTo(q, "insert", r)
      BY <1>1, <2>1, <2>2, <3>1, ContinuesMoves DEF Calls
    <3>4. ReqsHold'
      BY <1>10, <2>1, <3>2, <3>3 DEF Calls
    <3> QED BY <1>4, <1>5, <1>6, <2>1, <3>4 DEF Values
  <2>3. CASE L!Ends(q)
    BY <1>1, <1>4, <1>5, <1>6, <1>9, <2>1, <2>3, EndsStops DEF Values
  <2> QED BY <1>18, <2>2, <2>3 DEF L!Check
<1>19. ASSUME NEW q \in Requests, L!Insert(q) PROVE Values'
  <2> DEFINE new == [key |-> req[q].key, on |-> req[q].on, at |-> now, rep |-> req[q].rep]
  <2>1. L!Busy(q) /\ UNCHANGED <<now, hot, warm, recorded>> /\ req[q].pc = "insert"
    BY <1>19 DEF L!Insert, L!caches, L!Busy
  <2>2. PICK r \in L!Reputations : r = req[q].rep
    BY <1>8, <2>1
  <2>3. Earlier(r)' /\ Granted(r)'
    <3>1. Earlier(r) /\ Granted(r)
      BY <1>8, <2>1, <2>2 DEF Holds, Earlier, Granted, L!IsRecorded, L!IsComputed
    <3> QED BY <1>1, <3>1, Lasts
  <2>4. \A i \in DOMAIN loans' : \/ i \in DOMAIN loans /\ loans'[i] = loans[i]
                                 \/ loans'[i] = new
    BY <1>1, <1>19 DEF L!Insert, StoreTypes
  <2>5. new.rep = r
    BY <2>2
  <2> HIDE DEF new
  <2>6. LoansHold'
    <3>1. SUFFICES ASSUME NEW i \in DOMAIN loans'
                   PROVE  Earlier(loans[i].rep)' /\ Granted(loans[i].rep)'
      BY DEF LoansHold
    <3>2. CASE loans'[i] = new
      BY <2>3, <2>5, <3>2 DEF Earlier, Granted, L!IsRecorded, L!IsComputed
    <3>3. CASE i \in DOMAIN loans /\ loans'[i] = loans[i]
      <4>1. PICK s \in L!Reputations : s = loans[i].rep
        BY <1>1, <3>3, ReputationsTyped
      <4>2. Earlier(s) /\ Granted(s)
        BY <1>3, <3>3, <4>1 DEF LoansHold, Earlier, Granted, L!IsRecorded, L!IsComputed
      <4>3. Earlier(s)' /\ Granted(s)'
        BY <1>1, <4>2, Lasts
      <4> QED BY <3>3, <4>1, <4>3 DEF Earlier, Granted, L!IsRecorded, L!IsComputed
    <3> QED BY <2>4, <3>2, <3>3
  <2>7. MovesTo(q, "remember", L!Unread)
    BY <1>1, <1>19, <2>1, GoesMoves, UnreadTyped DEF L!Insert, Calls
  <2>8. Earlier(L!Unread)
    BY <1>1 DEF StoreTypes, L!Times, L!Unread, Earlier
  <2>9. ReqsHold'
    BY <1>10, <2>1, <2>7, <2>8, UnreadTyped DEF Calls
  <2> QED BY <1>4, <1>5, <2>1, <2>6, <2>9 DEF Values
<1>20. ASSUME NEW q \in Requests, L!Remember(q) \/ L!Abort(q) PROVE Values'
  <2>1. UNCHANGED <<now, hot, warm, recorded, loans>> /\ L!Ends(q)
    BY <1>20 DEF L!Remember, L!Abort, L!caches
  <2> QED BY <1>1, <1>4, <1>5, <1>6, <1>9, <2>1, EndsStops DEF Values
<1>21. ASSUME NEW on \in Processes, L!Restart(on) PROVE Values'
  <2>1. /\ UNCHANGED <<now, warm, recorded, loans>>
        /\ \A p \in Processes : hot'[p] = hot[p] \/ hot'[p] = L!Cold
        /\ \A q \in Requests : req'[q] = req[q] \/ req'[q] = L!Done
    BY <1>1, <1>21 DEF L!Restart, StoreTypes, CreationTypes
  <2>2. HotHolds'
    BY <1>1, <1>3, <2>1, HotHoldsOn
  <2>3. ReqsHold'
    <3>1. SUFFICES ASSUME NEW q \in Requests, L!Busy(q)' PROVE Holds(req[q])'
      BY DEF ReqsHold
    <3>2. req'[q] = req[q] /\ L!Busy(q)
      BY <2>1, <3>1 DEF L!Busy, L!Done
    <3> QED BY <1>1, <2>1, <3>2, HoldsOn
  <2> QED BY <1>4, <1>6, <2>1, <2>2, <2>3 DEF Values
<1>22. CASE L!ScoreChanged
  <2>1. PICK s \in Scores :
          /\ warm' = [score |-> s, synced |-> now, looked |-> now]
          /\ recorded' = recorded \cup {[score |-> s, at |-> now]}
    BY <1>22 DEF L!ScoreChanged
  <2>2. UNCHANGED <<now, hot, loans, req>>
    BY <1>22 DEF L!ScoreChanged
  <2>3. RowHolds'
    <3>1. warm'.score = s /\ warm'.synced = now /\ warm'.looked = now
      BY <2>1
    <3>2. 1 <= now /\ (\A b \in recorded' : b.at <= now) /\ warm' # L!NoRow
      <4>1. \A b \in recorded' : b \in recorded \/ b.at = now
        BY <2>1
      <4>2. warm # L!NoRow /\ \A b \in recorded : b.at <= now
        BY <1>3, <1>22 DEF L!ScoreChanged, RowHolds
      <4>3. warm' # L!NoRow
        <5>1. now # 0
          BY <1>2, <1>3 DEF RowHolds
        <5> QED BY <3>1, <5>1 DEF L!NoRow
      <4> QED BY <1>2, <1>3, <4>1, <4>2, <4>3 DEF RowHolds
    <3>3. [score |-> s, at |-> now] \in recorded'
      BY <2>1
    <3>4. LastRecorded'
      BY <2>2, <3>1, <3>2, <3>3 DEF LastRecorded
    <3> QED BY <1>2, <2>2, <3>1, <3>2, <3>4 DEF RowHolds
  <2>4. ReqsHold'
    <3>1. SUFFICES ASSUME NEW q \in Requests, L!Busy(q)' PROVE Holds(req[q])'
      BY DEF ReqsHold
    <3>2. req'[q] = req[q] /\ L!Busy(q)
      BY <2>2, <3>1 DEF L!Busy
    <3> QED BY <1>1, <2>2, <3>2, HoldsOn
  <2> QED BY <1>5, <1>6, <2>2, <2>3, <2>4 DEF Values
<1>23. CASE L!Tick
  <2>1. /\ UNCHANGED <<warm, recorded, loans, req>>
        /\ Prompt => \A q \in Requests : L!Busy(q) => L!Fetching(q)
        /\ \A p \in Processes : hot'[p] = hot[p] \/ hot'[p] = L!Cold
    BY <1>1, <1>23 DEF L!Tick, Prompt, StoreTypes
  <2>2. HotHolds'
    BY <1>1, <1>3, <2>1, HotHoldsOn
  <2>3. ReqsHold'
    <3>1. SUFFICES ASSUME NEW q \in Requests, L!Busy(q)' PROVE Holds(req[q])'
      BY DEF ReqsHold
    <3>2. req'[q] = req[q] /\ L!Busy(q)
      BY <2>1, <3>1 DEF L!Busy
    <3> QED BY <1>1, <2>1, <3>2, HoldsOn
  <2> QED BY <1>4, <1>6, <2>1, <2>2, <2>3 DEF Values
<1>24. CASE UNCHANGED L!vars
  <2>1. UNCHANGED <<now, hot, warm, recorded, loans, req>>
    BY <1>24 DEF L!vars, L!caches
  <2>2. ReqsHold'
    <3>1. SUFFICES ASSUME NEW q \in Requests, L!Busy(q)' PROVE Holds(req[q])'
      BY DEF ReqsHold
    <3>2. req'[q] = req[q] /\ L!Busy(q)
      BY <2>1, <3>1 DEF L!Busy
    <3> QED BY <1>1, <2>1, <3>2, HoldsOn
  <2> QED BY <1>4, <1>5, <1>6, <2>1, <2>2 DEF Values
<1> QED
  BY <1>11, <1>12, <1>13, <1>14, <1>15, <1>16, <1>17, <1>18, <1>19, <1>20, <1>21, <1>22,
     <1>23, <1>24 DEF L!Next

LEMMA PriceInvariantNext ==
  ASSUME LoanRequestConstants, PriceInvariant, [L!Next]_(L!vars)
  PROVE  PriceInvariant'
<1>1. L!TypeOK' /\ StoreTypes /\ CreationTypes /\ StoreTypes' /\ CreationTypes'
  BY LoanRequestTypesNext, LoanRequestTypes DEF PriceInvariant
<1>2. regime' = regime /\ Values'
  BY <1>1, OnwardNext, ValuesNext DEF PriceInvariant, Onward
<1>3. CASE ~Prompt
  BY <1>1, <1>2, <1>3 DEF PriceInvariant, Prompt
<1>4. CASE Prompt
  <2> DEFINE Goal == AllFresh' /\ InTime'
  <2>1. AllFresh /\ InTime
    BY <1>4 DEF PriceInvariant
  <2>2. SUFFICES Goal
    BY <1>1, <1>2 DEF PriceInvariant
  <2>3. ASSUME loans' = loans PROVE InTime'
    BY <2>1, <2>3 DEF InTime
  <2>4. ASSUME NEW q \in Requests, UNCHANGED <<now, hot>>,
               \A p \in Requests : p # q => req'[p] = req[p], Carries(req[q])'
        PROVE  AllFresh'
    BY <2>1, <2>4 DEF AllFresh, HotFit, Fit, Carries, CarriesNow, CarriesFresh
  <2>5. ASSUME NEW q \in Requests, L!Busy(q)
        PROVE  req[q].rep \in L!Reputations
    BY <1>1, <2>5, BusyCreates DEF Creations
  <2>6. ASSUME NEW q \in Requests, UNCHANGED <<now, hot, loans>>, Stops(q)
        PROVE  Goal
    <3>1. Carries(req[q])'
      BY <2>6 DEF Stops, L!Busy, Carries
    <3> QED BY <2>3, <2>4, <2>6, <3>1 DEF Stops
  <2>7. ASSUME NEW q \in Requests, NEW pc, NEW rep, UNCHANGED <<now, hot, loans>>,
               MovesTo(q, pc, rep), rep \in L!Reputations,
               \/ pc \in {"warm", "fetch", "fallback", "remember"}
               \/ /\ pc \in {"backfill", "persist", "upsert"}
                  /\ rep.read = now /\ Fit(rep)
               \/ /\ pc \in {"merchant", "insert"}
                  /\ now < rep.read + HotTtl /\ Fit(rep)
        PROVE  Goal
    <3>1. Carries(req[q])'
      BY <2>7 DEF MovesTo, Carries, CarriesNow, CarriesFresh, Fit
    <3> QED BY <2>3, <2>4, <2>7, <3>1 DEF MovesTo
  <2>8. ASSUME NEW q \in Requests, NEW k \in Keys, NEW on \in Processes, L!Create(q, k, on)
        PROVE  Goal
    <3>1. /\ UNCHANGED <<now, hot, loans>> /\ req'[q].pc = "hot"
          /\ \A p \in Requests : p # q => req'[p] = req[p]
      BY <1>1, <2>8 DEF L!Create, L!caches, CreationTypes
    <3>2. Carries(req[q])'
      BY <3>1 DEF Carries
    <3> QED BY <2>3, <2>4, <3>1, <3>2
  <2>9. ASSUME NEW q \in Requests, L!ReadHot(q) PROVE Goal
    <3>1. L!Busy(q) /\ UNCHANGED <<now, hot, loans>>
      BY <2>9 DEF L!ReadHot, L!caches, L!Busy
    <3>2. PICK on \in Processes : on = req[q].on
      BY <1>1, <3>1, BusyCreates DEF Creations
    <3>3. CASE now < hot[on].until
      <4>1. PICK r \in L!Reputations : r = hot[on].rep
        BY <1>1, ReputationsTyped
      <4>2. MovesTo(q, "merchant", r)
        BY <1>1, <2>9, <3>1, <3>2, <3>3, <4>1, GoesMoves DEF L!ReadHot, Calls
      <4>3. now < r.read + HotTtl /\ Fit(r)
        BY <1>1, <2>1, <3>3, <4>1, ReputationsTyped DEF AllFresh, HotFit, Fit
      <4> QED BY <2>7, <3>1, <4>2, <4>3
    <3>4. CASE ~(now < hot[on].until)
      <4>1. MovesTo(q, "warm", req[q].rep)
        BY <1>1, <2>9, <3>1, <3>2, <3>4, ContinuesMoves DEF L!ReadHot, Calls
      <4> QED BY <2>5, <2>7, <3>1, <4>1
    <3> QED BY <3>3, <3>4
  <2>10. ASSUME NEW q \in Requests, L!ReadWarm(q) PROVE Goal
    <3> DEFINE rep == [score |-> warm.score, synced |-> warm.synced,
                       looked |-> warm.looked, read |-> now]
    <3>1. L!Busy(q) /\ UNCHANGED <<now, hot, loans>>
      BY <2>10 DEF L!ReadWarm, L!caches, L!Busy
    <3>2. CASE L!IsFresh(warm) /\ "rls" \notin regime
      <4>1. rep \in L!Reputations /\ rep.read = now /\ rep.synced = warm.synced
        BY <1>1 DEF StoreTypes, L!Reputations, L!Rows
      <4>2. Fit(rep)
        BY <1>1, <3>2, <4>1, ReputationsTyped DEF L!IsFresh, Fit
      <4>3. L!Goes(q, "backfill", rep)
        BY <2>10, <3>2 DEF L!ReadWarm
      <4> HIDE DEF rep
      <4>4. MovesTo(q, "backfill", rep)
        BY <1>1, <3>1, <4>1, <4>3, GoesMoves DEF Calls
      <4> QED BY <2>7, <3>1, <4>1, <4>2, <4>4
    <3>3. CASE ~(L!IsFresh(warm) /\ "rls" \notin regime)
      <4>1. [score |-> 0, synced |-> 0, looked |-> now, read |-> 0] \in L!Reputations
        BY <1>1, UnreadTyped DEF StoreTypes, L!Reputations
      <4>2. PICK r \in L!Reputations : L!Goes(q, "fetch", r)
        BY <2>10, <3>3, <4>1 DEF L!ReadWarm
      <4>3. MovesTo(q, "fetch", r)
        BY <1>1, <3>1, <4>2, GoesMoves DEF Calls
      <4> QED BY <2>7, <3>1, <4>3
    <3> QED BY <3>2, <3>3
  <2>11. ASSUME NEW q \in Requests, L!SetHot(q) PROVE Goal
    <3> DEFINE pc == IF req[q].pc = "backfill" THEN "merchant" ELSE "upsert"
    <3>0. PICK on \in Processes : on = req[q].on
      BY <1>1, <2>11, BusyCreates DEF L!SetHot, L!Busy, Creations
    <3>1. /\ L!Busy(q) /\ UNCHANGED <<now, loans>>
          /\ hot'[on].rep = req[q].rep /\ hot'[on].until = now + HotTtl
          /\ \A p \in Processes : p # on => hot'[p] = hot[p]
          /\ CarriesNow(req[q]) /\ L!Continues(q, pc)
      BY <1>1, <2>1, <2>11, <3>0
      DEF L!SetHot, L!caches, L!Busy, AllFresh, Carries, StoreTypes
    <3>2. pc \in {"merchant", "upsert"}
      OBVIOUS
    <3> HIDE DEF pc
    <3>3. MovesTo(q, pc, req[q].rep)
      BY <1>1, <3>1, <3>2, ContinuesMoves DEF Calls
    <3>4. req[q].rep.read = now /\ now < now + HotTtl /\ Fit(req[q].rep)
      BY <1>1, <3>1, ReputationsTyped DEF CarriesNow
    <3>5. HotFit'
      <4>1. now + HotTtl <= req[q].rep.read + HotTtl
        BY <1>1, <3>4, ReputationsTyped
      <4> QED BY <2>1, <3>1, <3>4, <4>1 DEF AllFresh, HotFit, Fit
    <3>6. Carries(req[q])'
      BY <3>1, <3>2, <3>3, <3>4 DEF MovesTo, Carries, CarriesNow, CarriesFresh, Fit
    <3>7. \A p \in Requests : p # q => Carries(req[p])'
      BY <2>1, <3>1, <3>3 DEF AllFresh, MovesTo, Carries, CarriesNow, CarriesFresh, Fit
    <3> QED BY <2>3, <3>1, <3>5, <3>6, <3>7 DEF AllFresh
  <2>12. ASSUME NEW q \in Requests, L!Fetch(q) PROVE Goal
    <3> DEFINE pc == IF req[q].pc = "fetch" THEN "persist" ELSE "merchant"
    <3> DEFINE rep == [score |-> hashed, synced |-> now, looked |-> req[q].rep.looked,
                       read |-> now]
    <3>2. L!Busy(q) /\ UNCHANGED <<now, hot, loans>> /\ pc \in {"persist", "merchant"}
      BY <2>12 DEF L!Fetch, L!caches, L!Busy
    <3>3. rep \in L!Reputations /\ rep.read = now /\ rep.synced = now
      BY <1>1, <2>5, <3>2 DEF StoreTypes, L!Reputations
    <3>4. Fit(rep) /\ now < rep.read + HotTtl
      BY <1>1, <3>3, ReputationsTyped DEF Fit
    <3>5. L!Goes(q, pc, rep)
      BY <2>12 DEF L!Fetch
    <3> HIDE DEF pc, rep
    <3>6. MovesTo(q, pc, rep)
      BY <1>1, <3>2, <3>3, <3>5, GoesMoves DEF Calls
    <3> QED BY <2>7, <3>2, <3>3, <3>4, <3>6
  <2>13. ASSUME NEW q \in Requests, L!UpsertWarm(q) PROVE Goal
    <3>1. L!Busy(q) /\ UNCHANGED <<now, hot, loans>> /\ CarriesNow(req[q])
      BY <2>1, <2>13 DEF L!UpsertWarm, L!Busy, AllFresh, Carries
    <3>2. MovesTo(q, "merchant", req[q].rep)
      BY <1>1, <2>13, <3>1, ContinuesMoves DEF L!UpsertWarm, Calls
    <3>3. now < req[q].rep.read + HotTtl /\ Fit(req[q].rep)
      BY <1>1, <3>1, ReputationsTyped DEF CarriesNow
    <3> QED BY <2>5, <2>7, <3>1, <3>2, <3>3
  <2>14. ASSUME NEW q \in Requests, L!CacheFails(q) PROVE Goal
    <3>1. L!Busy(q) /\ UNCHANGED <<now, hot, loans>>
      BY <2>14 DEF L!CacheFails, L!caches, L!Busy
    <3>2. CASE L!Continues(q, "fallback")
      <4>1. MovesTo(q, "fallback", req[q].rep)
        BY <1>1, <3>1, <3>2, ContinuesMoves DEF Calls
      <4> QED BY <2>5, <2>7, <3>1, <4>1
    <3>3. CASE req[q].pc \in {"persist", "upsert"} /\ L!Continues(q, "merchant")
      <4>1. MovesTo(q, "merchant", req[q].rep)
        BY <1>1, <3>1, <3>3, ContinuesMoves DEF Calls
      <4>2. CarriesNow(req[q])
        BY <2>1, <3>3 DEF AllFresh, Carries
      <4>3. now < req[q].rep.read + HotTtl /\ Fit(req[q].rep)
        BY <1>1, <4>2, ReputationsTyped DEF CarriesNow
      <4> QED BY <2>5, <2>7, <3>1, <4>1, <4>3
    <3> QED BY <2>14, <3>2, <3>3 DEF L!CacheFails
  <2>15. ASSUME NEW q \in Requests, L!Check(q) PROVE Goal
    <3>1. L!Busy(q) /\ UNCHANGED <<now, hot, loans>> /\ CarriesFresh(req[q])
      BY <2>1, <2>15 DEF L!Check, L!caches, L!Busy, AllFresh, Carries
    <3>2. CASE L!Continues(q, "insert")
      <4>1. MovesTo(q, "insert", req[q].rep)
        BY <1>1, <3>1, <3>2, ContinuesMoves DEF Calls
      <4> QED BY <2>5, <2>7, <3>1, <4>1 DEF CarriesFresh
    <3>3. CASE L!Ends(q)
      BY <1>1, <2>6, <3>1, <3>3, EndsStops
    <3> QED BY <2>15, <3>2, <3>3 DEF L!Check
  <2>16. ASSUME NEW q \in Requests, L!Insert(q) PROVE Goal
    <3> DEFINE new == [key |-> req[q].key, on |-> req[q].on, at |-> now, rep |-> req[q].rep]
    <3>1. L!Busy(q) /\ UNCHANGED <<now, hot>> /\ CarriesFresh(req[q])
      BY <2>1, <2>16 DEF L!Insert, L!caches, L!Busy, AllFresh, Carries
    <3>2. MovesTo(q, "remember", L!Unread)
      BY <1>1, <2>16, <3>1, GoesMoves, UnreadTyped DEF L!Insert, Calls
    <3>3. Carries(req[q])'
      BY <3>2 DEF MovesTo, Carries
    <3>4. AllFresh'
      BY <2>4, <3>1, <3>2, <3>3 DEF MovesTo
    <3>5. \A i \in DOMAIN loans' : \/ i \in DOMAIN loans /\ loans'[i] = loans[i]
                                   \/ loans'[i] = new
      BY <1>1, <2>16 DEF L!Insert, StoreTypes
    <3>6. new.at = now /\ new.rep = req[q].rep
      OBVIOUS
    <3> HIDE DEF new
    <3>7. new.at < new.rep.read + HotTtl /\ new.at < new.rep.synced + WarmTtl + HotTtl
      BY <1>1, <2>5, <3>1, <3>6, ReputationsTyped DEF CarriesFresh, Fit
    <3>8. InTime'
      BY <2>1, <3>5, <3>7 DEF InTime
    <3> QED BY <3>4, <3>8
  <2>17. ASSUME NEW q \in Requests, L!Remember(q) \/ L!Abort(q) PROVE Goal
    <3>1. UNCHANGED <<now, hot, loans>> /\ L!Ends(q)
      BY <2>17 DEF L!Remember, L!Abort, L!caches
    <3> QED BY <1>1, <2>6, <3>1, EndsStops
  <2>18. CASE L!Tick
    <3>1. \A q \in Requests : L!Busy(q) => L!Fetching(q)
      BY <1>4, <2>18 DEF L!Tick, Prompt
    <3>2. /\ UNCHANGED <<loans, req>>
          /\ \A p \in Processes : hot'[p] = hot[p] \/ hot'[p] = L!Cold
      BY <1>1, <2>18 DEF L!Tick, StoreTypes
    <3>3. HotFit'
      <4>1. /\ L!Cold.until <= L!Cold.rep.read + HotTtl
            /\ L!Cold.rep.read < L!Cold.rep.synced + WarmTtl
        BY ReputationsTyped DEF L!Cold, L!Unread
      <4> QED BY <2>1, <3>2, <4>1 DEF AllFresh, HotFit, Fit
    <3>4. \A q \in Requests : Carries(req[q])'
      BY <3>1, <3>2 DEF L!Fetching, L!Busy, Carries
    <3> QED BY <2>3, <3>2, <3>3, <3>4 DEF AllFresh
  <2>19. CASE L!ScoreChanged \/ UNCHANGED L!vars
    <3>1. UNCHANGED <<now, hot, loans, req>>
      BY <2>19 DEF L!ScoreChanged, L!vars, L!caches
    <3> QED BY <2>1, <2>3, <3>1 DEF AllFresh, HotFit, Fit, Carries, CarriesNow, CarriesFresh
  <2>20. ASSUME NEW on \in Processes, L!Restart(on) PROVE Goal
    <3>1. /\ UNCHANGED <<now, loans>>
          /\ \A p \in Processes : hot'[p] = hot[p] \/ hot'[p] = L!Cold
          /\ \A q \in Requests : req'[q] = req[q] \/ req'[q] = L!Done
      BY <1>1, <2>20 DEF L!Restart, StoreTypes, CreationTypes
    <3>2. HotFit'
      <4>1. /\ L!Cold.until <= L!Cold.rep.read + HotTtl
            /\ L!Cold.rep.read < L!Cold.rep.synced + WarmTtl
        BY ReputationsTyped DEF L!Cold, L!Unread
      <4> QED BY <2>1, <3>1, <4>1 DEF AllFresh, HotFit, Fit
    <3>3. \A q \in Requests : Carries(req[q])'
      BY <2>1, <3>1 DEF AllFresh, L!Done, Carries, CarriesNow, CarriesFresh, Fit
    <3> QED BY <2>3, <3>1, <3>2, <3>3 DEF AllFresh
  <2> QED
    BY <2>8, <2>9, <2>10, <2>11, <2>12, <2>13, <2>14, <2>15, <2>16, <2>17, <2>18, <2>19,
       <2>20 DEF L!Next
<1> QED BY <1>3, <1>4

LEMMA PriceInvariantInit == L!Init => PriceInvariant
<1> SUFFICES ASSUME L!Init PROVE PriceInvariant
  OBVIOUS
<1>1. /\ StoreTypes /\ CreationTypes /\ DOMAIN loans = {}
      /\ \A q \in Requests : ~L!Busy(q)
  BY LoanRequestInit, ConstantsTyped
<1>2. /\ now = 1 /\ \A p \in Processes : hot[p] = L!Cold
      /\ \/ warm = L!NoRow /\ recorded = {}
         \/ \E s \in Scores : /\ warm = [score |-> s, synced |-> 1, looked |-> 1]
                             /\ recorded = {[score |-> s, at |-> 1]}
  BY DEF L!Init
<1>3. HotFit /\ HotHolds
  BY <1>2, ReputationsTyped, ConstantsTyped
  DEF L!Cold, L!Unread, HotFit, Fit, HotHolds, Earlier
<1>4. RowHolds
  <2>1. CASE warm = L!NoRow /\ recorded = {}
    BY <1>2, <2>1 DEF RowHolds, L!NoRow
  <2>2. ASSUME NEW s \in Scores, warm = [score |-> s, synced |-> 1, looked |-> 1],
               recorded = {[score |-> s, at |-> 1]}
        PROVE  RowHolds
    <3>1. LastRecorded /\ warm # L!NoRow
      BY <2>2 DEF LastRecorded, L!NoRow
    <3> QED BY <1>2, <2>2, <3>1 DEF RowHolds
  <2> QED BY <1>2, <2>1, <2>2
<1>5. LoansHold /\ ReqsHold /\ AllFresh /\ InTime
  BY <1>1, <1>3 DEF LoansHold, ReqsHold, AllFresh, Carries, L!Busy, InTime
<1> QED BY <1>1, <1>3, <1>4, <1>5, LoanRequestTypes DEF PriceInvariant, Values

(* The score a loan of POST /loans/create is granted on, with its two      *)
(* caches, whatever the scores, the lives of the entries, the processes,   *)
(* the time a fetch takes and the failures: it is the last that the indexer*)
(* had recorded when it was read, or else the one computed from the address*)
(* (and this, where only fetches take time and no read fails, of a wallet  *)
(* for which nothing had been recorded during the life of a row when the   *)
(* table was asked). Where only fetches take time, it was read no longer   *)
(* ago than a hot entry lives, and synchronised no longer ago than a row   *)
(* and a hot entry live.                                                   *)
THEOREM PricesAreFresh == Spec => []PricedFresh
<1> DEFINE Inv == service = "LoanRequests" => PriceInvariant
<1>1. PriceInvariant => L!PricedFresh
  BY DEF PriceInvariant, Values, LoansHold, InTime, Prompt, Granted, L!PricedFresh
<1>2. Init => Inv
  BY PriceInvariantInit DEF Init
<1>3. Inv /\ [Next]_vars => Inv'
  BY Exercised, PriceInvariantNext, ConstantsTyped
<1>4. Inv => PricedFresh
  BY <1>1 DEF PricedFresh
<1> QED BY <1>2, <1>3, <1>4, PTL DEF Spec

-----------------------------------------------------------------------------
(* Reminders.                                                              *)

Runs == [pc : {"fetch", "check", "create"}, today : BOOLEAN,
         todo : SUBSET R!Candidates, cur : R!Candidates \cup {R!AnyCandidate}]
RunTypes ==
  /\ sent \in [R!Candidates -> Nat]
  /\ job \in [Workers -> {R!Idle} \cup Runs]

(* What is due to the loans that have been active all day.                 *)
Due == R!identifyCandidates(active \cap lasting)
Calm == regime \cap {"fail", "overlap"} = {}

(* A run on its own: what it is about to send has not been sent, and of    *)
(* what is due today it has left out nothing.                              *)
OneRun == \A w, v \in Workers : job[w] # R!Idle /\ job[v] # R!Idle => w = v
SentOnce == \A c \in R!Candidates : sent[c] <= 1
AboutToSend == \A w \in Workers :
  job[w].pc = "create" => /\ job[w].cur \in job[w].todo
                          /\ sent[job[w].cur] = 0
NoneLeftOut == \A w \in Workers :
  job[w].pc \in {"check", "create"} /\ job[w].today
    => \A c \in Due : c \in job[w].todo \/ sent[c] = 1
AllSent == whole => \A c \in Due : sent[c] = 1
RunInvariant ==
  RunTypes /\ (Calm => OneRun /\ SentOnce /\ AboutToSend /\ NoneLeftOut /\ AllSent)

LEMMA DueShrinks ==
  ASSUME day' = day, active' \cap lasting' \subseteq active \cap lasting
  PROVE  Due' \subseteq Due
  BY DEF Due, R!identifyCandidates, R!daysUntilDueUtc

LEMMA DueCandidates ==
  Due \subseteq R!Candidates /\ Due \subseteq R!identifyCandidates(active)
    /\ R!identifyCandidates(active) \subseteq R!Candidates
  BY DEF Due, R!identifyCandidates

LEMMA IdleHasNoCall ==
  ASSUME RunTypes, NEW w \in Workers
  PROVE  /\ job[w] # R!Idle <=> job[w] \in Runs
         /\ job[w] # R!Idle <=> job[w].pc \in {"fetch", "check", "create"}
  BY DEF RunTypes, Runs, R!Idle

LEMMA RunGoesOn ==
  ASSUME NEW x \in Runs, NEW pc \in {"fetch", "check", "create"},
         NEW todo \in SUBSET R!Candidates
  PROVE  /\ [x EXCEPT !.pc = pc, !.todo = todo] \in Runs
         /\ [x EXCEPT !.pc = pc, !.todo = todo].pc = pc
         /\ [x EXCEPT !.pc = pc, !.todo = todo].todo = todo
         /\ [x EXCEPT !.pc = pc, !.todo = todo].today = x.today
  BY DEF Runs

LEMMA RunCreates ==
  ASSUME NEW x \in Runs, NEW c \in R!Candidates
  PROVE  /\ [x EXCEPT !.pc = "create", !.cur = c] \in Runs
         /\ [x EXCEPT !.pc = "create", !.cur = c].pc = "create"
         /\ [x EXCEPT !.pc = "create", !.cur = c].cur = c
         /\ [x EXCEPT !.pc = "create", !.cur = c].todo = x.todo
         /\ [x EXCEPT !.pc = "create", !.cur = c].today = x.today
  BY DEF Runs

LEMMA RunDrops ==
  ASSUME NEW x \in Runs, NEW todo \in SUBSET R!Candidates
  PROVE  /\ [x EXCEPT !.todo = todo] \in Runs
         /\ [x EXCEPT !.todo = todo].pc = x.pc
         /\ [x EXCEPT !.todo = todo].todo = todo
         /\ [x EXCEPT !.todo = todo].today = x.today
  BY DEF Runs

(* A run that goes on is alone, so the other workers are idle.             *)
LEMMA ResumesAlone ==
  ASSUME RunTypes, OneRun, NEW w \in Workers, job[w] # R!Idle,
         \A v \in Workers : v # w => job'[v] = job[v]
  PROVE  /\ OneRun'
         /\ \A v \in Workers : v # w => job'[v] = R!Idle
  BY DEF OneRun

LEMMA RunInvariantNext ==
  ASSUME RunInvariant, [R!Next]_(R!vars)
  PROVE  RunInvariant'
<1> USE DEF R!Running
<1>1. RunTypes
  BY DEF RunInvariant
<1>2. regime' = regime /\ (Calm' <=> Calm)
  BY DEF R!Next, R!vars, R!Start, R!FetchActiveLoans, R!CheckCandidate, R!CreateNotification,
         R!Finish, R!Abort, R!StatusChanges, R!Midnight, Calm
<1> DEFINE Calmly == Calm => OneRun /\ SentOnce /\ AboutToSend /\ NoneLeftOut /\ AllSent
<1>3. Calmly
  BY DEF RunInvariant
<1>4. SUFFICES RunTypes' /\ Calmly'
  BY DEF RunInvariant
<1>5. ASSUME NEW w \in Workers, ~(job'[w].pc \in {"check", "create"}),
             OneRun, AboutToSend, NoneLeftOut, UNCHANGED <<day, active, sent, lasting>>,
             \A v \in Workers : v # w => job'[v] = job[v]
      PROVE  AboutToSend' /\ NoneLeftOut'
  BY <1>5 DEF AboutToSend, NoneLeftOut, Due, R!identifyCandidates, R!daysUntilDueUtc
<1>6. ASSUME UNCHANGED <<day, active, lasting>>
      PROVE  Due' = Due
  BY <1>6 DEF Due, R!identifyCandidates, R!daysUntilDueUtc
<1>7. ASSUME NEW w \in Workers, R!Start(w) PROVE RunTypes' /\ Calmly'
  <2> DEFINE run == [pc |-> "fetch", today |-> TRUE, todo |-> {}, cur |-> R!AnyCandidate]
  <2>1. run \in Runs /\ run.pc = "fetch"
    BY DEF Runs
  <2>2. /\ job[w] = R!Idle /\ job' = [job EXCEPT ![w] = run]
        /\ R!Running = {} \/ "overlap" \in regime
        /\ UNCHANGED <<day, active, sent, lasting, whole>>
    BY <1>7 DEF R!Start, R!AnyCandidate
  <2> HIDE DEF run
  <2>3. RunTypes'
    BY <1>1, <2>1, <2>2 DEF RunTypes
  <2>4. job'[w].pc = "fetch" /\ \A v \in Workers : v # w => job'[v] = job[v]
    BY <1>1, <2>1, <2>2 DEF RunTypes
  <2>5. ASSUME Calm PROVE OneRun' /\ SentOnce' /\ AboutToSend' /\ NoneLeftOut' /\ AllSent'
    <3>1. \A v \in Workers : job[v] = R!Idle
      BY <2>2, <2>5 DEF Calm
    <3>2. OneRun'
      BY <2>4, <3>1 DEF OneRun
    <3>3. SentOnce' /\ AllSent'
      BY <1>3, <1>6, <2>2, <2>5 DEF SentOnce, AllSent
    <3> QED BY <1>3, <1>5, <2>2, <2>4, <2>5, <3>2, <3>3
  <2> QED BY <1>2, <2>3, <2>5
<1>8. ASSUME NEW w \in Workers, R!FetchActiveLoans(w) PROVE RunTypes' /\ Calmly'
  <2> DEFINE all == R!identifyCandidates(active)
             run == [job[w] EXCEPT !.pc = "check", !.todo = all]
  <2>1. /\ job[w].pc = "fetch" /\ job' = [job EXCEPT ![w] = run]
        /\ UNCHANGED <<day, active, sent, lasting, whole>>
    BY <1>8 DEF R!FetchActiveLoans
  <2>2. job[w] # R!Idle /\ job[w] \in Runs
    BY <1>1, <2>1, IdleHasNoCall
  <2>3. run \in Runs /\ run.pc = "check" /\ run.todo = all
    BY <2>2, RunGoesOn, DueCandidates
  <2> HIDE DEF run
  <2>4. RunTypes'
    BY <1>1, <2>1, <2>3 DEF RunTypes
  <2>5. job'[w] = run /\ \A v \in Workers : v # w => job'[v] = job[v]
    BY <1>1, <2>1 DEF RunTypes
  <2>6. ASSUME Calm PROVE OneRun' /\ SentOnce' /\ AboutToSend' /\ NoneLeftOut' /\ AllSent'
    <3>1. OneRun' /\ \A v \in Workers : v # w => job'[v].pc = "idle"
      BY <1>1, <1>3, <2>2, <2>5, <2>6, ResumesAlone DEF R!Idle
    <3>2. SentOnce' /\ AllSent'
      BY <1>3, <1>6, <2>1, <2>6 DEF SentOnce, AllSent
    <3>3. AboutToSend'
      BY <2>3, <2>5, <3>1 DEF AboutToSend
    <3>4. NoneLeftOut'
      <4>1. \A c \in Due : c \in run.todo
        BY <2>3, DueCandidates
      <4> QED BY <1>6, <2>1, <2>5, <3>1, <4>1 DEF NoneLeftOut
    <3> QED BY <3>1, <3>2, <3>3, <3>4
  <2> QED BY <1>2, <2>4, <2>6
<1>9. ASSUME NEW w \in Workers, R!CheckCandidate(w) PROVE RunTypes' /\ Calmly'
  <2>1. PICK c \in job[w].todo :
          \/ /\ ~R!IsDuplicate(c) \/ "fail" \in regime
             /\ job' = [job EXCEPT ![w] = [job[w] EXCEPT !.pc = "create", !.cur = c]]
          \/ /\ R!IsDuplicate(c)
             /\ job' = [job EXCEPT ![w] = [job[w] EXCEPT !.todo = job[w].todo \ {c}]]
    BY <1>9 DEF R!CheckCandidate
  <2>2. job[w].pc = "check" /\ UNCHANGED <<day, active, sent, lasting, whole>>
    BY <1>9 DEF R!CheckCandidate
  <2>3. job[w] # R!Idle /\ job[w] \in Runs
    BY <1>1, <2>2, IdleHasNoCall
  <2>4. c \in R!Candidates /\ job[w].todo \ {c} \in SUBSET R!Candidates
        /\ sent[c] \in Nat /\ job[w].todo \in SUBSET R!Candidates
    BY <1>1, <2>3 DEF Runs, RunTypes
  <2>5. CASE /\ ~R!IsDuplicate(c) \/ "fail" \in regime
             /\ job' = [job EXCEPT ![w] = [job[w] EXCEPT !.pc = "create", !.cur = c]]
    <3> DEFINE run == [job[w] EXCEPT !.pc = "create", !.cur = c]
    <3>1. /\ run \in Runs /\ run.pc = "create" /\ run.todo = job[w].todo /\ run.cur = c
          /\ run.today = job[w].today
      BY <2>3, <2>4, RunCreates
    <3>2. job' = [job EXCEPT ![w] = run]
      BY <2>5
    <3> HIDE DEF run
    <3>3. RunTypes'
      BY <1>1, <2>2, <3>1, <3>2 DEF RunTypes
    <3>4. job'[w] = run /\ \A v \in Workers : v # w => job'[v] = job[v]
      BY <1>1, <3>2 DEF RunTypes
    <3>5. ASSUME Calm PROVE OneRun' /\ SentOnce' /\ AboutToSend' /\ NoneLeftOut' /\ AllSent'
      <4>1. OneRun' /\ \A v \in Workers : v # w => job'[v].pc = "idle"
        BY <1>1, <1>3, <2>3, <3>4, <3>5, ResumesAlone DEF R!Idle
      <4>2. SentOnce' /\ AllSent'
        BY <1>3, <1>6, <2>2, <3>5 DEF SentOnce, AllSent
      <4>3. sent[c] = 0
        BY <2>4, <2>5, <3>5 DEF Calm, R!IsDuplicate
      <4>4. AboutToSend'
        BY <2>2, <3>1, <3>4, <4>1, <4>3 DEF AboutToSend
      <4>5. NoneLeftOut'
        BY <1>3, <1>6, <2>2, <3>1, <3>4, <3>5, <4>1 DEF NoneLeftOut
      <4> QED BY <4>1, <4>2, <4>4, <4>5
    <3> QED BY <1>2, <3>3, <3>5
  <2>6. CASE /\ R!IsDuplicate(c)
             /\ job' = [job EXCEPT ![w] = [job[w] EXCEPT !.todo = job[w].todo \ {c}]]
    <3> DEFINE run == [job[w] EXCEPT !.todo = job[w].todo \ {c}]
    <3>1. /\ run \in Runs /\ run.pc = "check" /\ run.todo = job[w].todo \ {c}
          /\ run.today = job[w].today
      BY <2>2, <2>3, <2>4, RunDrops
    <3>2. job' = [job EXCEPT ![w] = run]
      BY <2>6
    <3> HIDE DEF run
    <3>3. RunTypes'
      BY <1>1, <2>2, <3>1, <3>2 DEF RunTypes
    <3>4. job'[w] = run /\ \A v \in Workers : v # w => job'[v] = job[v]
      BY <1>1, <3>2 DEF RunTypes
    <3>5. ASSUME Calm PROVE OneRun' /\ SentOnce' /\ AboutToSend' /\ NoneLeftOut' /\ AllSent'
      <4>1. OneRun' /\ \A v \in Workers : v # w => job'[v].pc = "idle"
        BY <1>1, <1>3, <2>3, <3>4, <3>5, ResumesAlone DEF R!Idle
      <4>2. SentOnce' /\ AllSent'
        BY <1>3, <1>6, <2>2, <3>5 DEF SentOnce, AllSent
      <4>3. sent[c] = 1
        BY <1>3, <2>4, <2>6, <3>5 DEF SentOnce, R!IsDuplicate
      <4>4. AboutToSend'
        BY <3>1, <3>4, <4>1 DEF AboutToSend
      <4>5. NoneLeftOut'
        BY <1>3, <1>6, <2>2, <3>1, <3>4, <3>5, <4>1, <4>3 DEF NoneLeftOut
      <4> QED BY <4>1, <4>2, <4>4, <4>5
    <3> QED BY <1>2, <3>3, <3>5
  <2> QED BY <2>1, <2>5, <2>6
<1>10. ASSUME NEW w \in Workers, R!CreateNotification(w) PROVE RunTypes' /\ Calmly'
  <2> DEFINE c == job[w].cur
             run == [job[w] EXCEPT !.pc = "check", !.todo = job[w].todo \ {c}]
  <2>1. /\ job[w].pc = "create" /\ job' = [job EXCEPT ![w] = run]
        /\ \/ sent' = [sent EXCEPT ![c] = sent[c] + 1]
           \/ "fail" \in regime /\ UNCHANGED sent
        /\ UNCHANGED <<day, active, lasting, whole>>
    BY <1>10 DEF R!CreateNotification
  <2>2. job[w] # R!Idle /\ job[w] \in Runs
    BY <1>1, <2>1, IdleHasNoCall
  <2>3. /\ run \in Runs /\ run.pc = "check" /\ run.todo = job[w].todo \ {c}
        /\ run.today = job[w].today
    <3> DEFINE left == job[w].todo \ {c}
    <3>1. left \in SUBSET R!Candidates
      BY <2>2 DEF Runs
    <3>2. run = [job[w] EXCEPT !.pc = "check", !.todo = left]
      OBVIOUS
    <3> HIDE DEF left, run
    <3>3. run \in Runs /\ run.pc = "check" /\ run.todo = left /\ run.today = job[w].today
      BY <2>2, <3>1, <3>2, RunGoesOn
    <3> QED BY <3>3 DEF left
  <2> HIDE DEF run
  <2>4. job'[w] = run /\ \A v \in Workers : v # w => job'[v] = job[v]
    BY <1>1, <2>1 DEF RunTypes
  <2>5. RunTypes'
    <3>1. \A d \in R!Candidates : sent[d] + 1 \in Nat
      BY <1>1 DEF RunTypes
    <3>2. sent' \in [R!Candidates -> Nat]
      BY <1>1, <2>1, <3>1 DEF RunTypes
    <3>3. job' \in [Workers -> {R!Idle} \cup Runs]
      BY <1>1, <2>1, <2>3 DEF RunTypes
    <3> QED BY <3>2, <3>3 DEF RunTypes
  <2>6. ASSUME Calm PROVE OneRun' /\ SentOnce' /\ AboutToSend' /\ NoneLeftOut' /\ AllSent'
    <3>1. OneRun' /\ \A v \in Workers : v # w => job'[v].pc = "idle"
      BY <1>1, <1>3, <2>2, <2>4, <2>6, ResumesAlone DEF R!Idle
    <3>2. c \in job[w].todo /\ sent[c] = 0 /\ c \in R!Candidates
      BY <1>3, <2>1, <2>2, <2>6 DEF AboutToSend, Runs
    <3> HIDE DEF c
    <3>3. sent'[c] = 1 /\ \A d \in R!Candidates : d # c => sent'[d] = sent[d]
      BY <1>1, <2>1, <2>6, <3>2 DEF Calm, RunTypes
    <3>4. SentOnce'
      BY <1>3, <2>6, <3>3 DEF SentOnce
    <3>5. AllSent'
      BY <1>3, <1>6, <2>1, <2>6, <3>3, DueCandidates DEF AllSent
    <3>6. AboutToSend'
      BY <2>3, <2>4, <3>1 DEF AboutToSend
    <3>7. NoneLeftOut'
      BY <1>3, <1>6, <2>1, <2>3, <2>4, <2>6, <3>1, <3>3, DueCandidates DEF NoneLeftOut
    <3> QED BY <3>1, <3>4, <3>5, <3>6, <3>7
  <2> QED BY <1>2, <2>5, <2>6
<1>11. ASSUME NEW w \in Workers, R!Finish(w) \/ R!Abort(w) PROVE RunTypes' /\ Calmly'
  <2>1. /\ job' = [job EXCEPT ![w] = R!Idle] /\ UNCHANGED <<day, active, sent, lasting>>
        /\ job[w] # R!Idle
    BY <1>11 DEF R!Finish, R!Abort, R!Idle
  <2>2. RunTypes'
    BY <1>1, <2>1 DEF RunTypes
  <2>3. job'[w] = R!Idle /\ \A v \in Workers : v # w => job'[v] = job[v]
    BY <1>1, <2>1 DEF RunTypes
  <2>4. ASSUME Calm PROVE OneRun' /\ SentOnce' /\ AboutToSend' /\ NoneLeftOut' /\ AllSent'
    <3>1. OneRun'
      BY <1>1, <1>3, <2>1, <2>3, <2>4, ResumesAlone
    <3>2. SentOnce'
      BY <1>3, <2>1, <2>4 DEF SentOnce
    <3>3. AboutToSend' /\ NoneLeftOut'
      BY <1>3, <1>5, <2>1, <2>3, <2>4 DEF R!Idle
    <3>4. CASE R!Abort(w)
      BY <1>3, <1>6, <2>1, <2>4, <3>1, <3>2, <3>3, <3>4 DEF R!Abort, AllSent
    <3>5. CASE R!Finish(w)
      <4>1. job[w].pc = "check" /\ job[w].todo = {} /\ whole' = (whole \/ job[w].today)
        BY <3>5 DEF R!Finish
      <4>2. job[w].today => \A c \in Due : sent[c] = 1
        BY <1>3, <2>4, <4>1 DEF NoneLeftOut
      <4>3. AllSent'
        BY <1>3, <1>6, <2>1, <2>4, <4>1, <4>2 DEF AllSent
      <4> QED BY <3>1, <3>2, <3>3, <4>3
    <3> QED BY <1>11, <3>4, <3>5
  <2> QED BY <1>2, <2>2, <2>4
<1>12. ASSUME NEW l \in Loans, R!StatusChanges(l) PROVE RunTypes' /\ Calmly'
  <2>1. UNCHANGED <<day, sent, job, whole>> /\ active' \cap lasting' \subseteq active \cap lasting
    BY <1>12 DEF R!StatusChanges
  <2>2. Due' \subseteq Due
    BY <2>1, DueShrinks
  <2> QED BY <1>1, <1>2, <1>3, <2>1, <2>2
          DEF RunTypes, OneRun, SentOnce, AboutToSend, NoneLeftOut, AllSent
<1>13. CASE R!Midnight
  <2>1. sent' = [c \in R!Candidates |-> 0] /\ whole' = FALSE
    BY <1>13 DEF R!Midnight, R!NoneSent
  <2>2. job' = [w \in Workers |->
                  IF job[w] = R!Idle THEN R!Idle ELSE [job[w] EXCEPT !.today = FALSE]]
    BY <1>13 DEF R!Midnight
  <2>3. ASSUME NEW x \in Runs
        PROVE  /\ [x EXCEPT !.today = FALSE] \in Runs
               /\ [x EXCEPT !.today = FALSE].pc = x.pc
               /\ [x EXCEPT !.today = FALSE].today = FALSE
               /\ [x EXCEPT !.today = FALSE].cur = x.cur
               /\ [x EXCEPT !.today = FALSE].todo = x.todo
    BY DEF Runs
  <2>4. ASSUME NEW w \in Workers
        PROVE  \/ job[w] = R!Idle /\ job'[w] = R!Idle /\ job'[w].pc = "idle"
               \/ /\ job[w] \in Runs /\ job'[w] \in Runs /\ ~job'[w].today
                  /\ job[w] # R!Idle /\ job'[w].pc = job[w].pc /\ job'[w].cur = job[w].cur
                  /\ job'[w].todo = job[w].todo
    <3>1. CASE job[w] = R!Idle
      BY <2>2, <3>1 DEF R!Idle
    <3>2. CASE job[w] # R!Idle
      <4>1. job[w] \in Runs /\ job'[w] = [job[w] EXCEPT !.today = FALSE]
        BY <1>1, <2>2, <3>2, IdleHasNoCall
      <4> QED BY <2>3, <3>2, <4>1
    <3> QED BY <3>1, <3>2
  <2>5. RunTypes'
    BY <2>1, <2>2, <2>4 DEF RunTypes
  <2>6. ASSUME Calm PROVE OneRun' /\ SentOnce' /\ AboutToSend' /\ NoneLeftOut' /\ AllSent'
    <3>1. OneRun'
      BY <1>3, <2>4, <2>6 DEF OneRun
    <3>2. SentOnce' /\ AllSent'
      BY <2>1 DEF SentOnce, AllSent
    <3>3. AboutToSend'
      <4>1. \A c \in R!Candidates : sent'[c] = 0
        BY <2>1
      <4>2. \A w \in Workers : job[w] \in Runs => job[w].todo \subseteq R!Candidates
        BY DEF Runs
      <4> QED BY <1>3, <2>4, <2>6, <4>1, <4>2 DEF AboutToSend
    <3>4. NoneLeftOut'
      BY <2>4 DEF NoneLeftOut
    <3> QED BY <3>1, <3>2, <3>3, <3>4
  <2> QED BY <1>2, <2>5, <2>6
<1>14. CASE UNCHANGED R!vars
  BY <1>1, <1>2, <1>3, <1>6, <1>14
  DEF R!vars, RunTypes, OneRun, SentOnce, AboutToSend, NoneLeftOut, AllSent
<1> QED
  BY <1>7, <1>8, <1>9, <1>10, <1>11, <1>12, <1>13, <1>14 DEF R!Next

LEMMA RunInvariantInit == R!Init => RunInvariant
  BY DEF R!Init, R!NoneSent, R!Idle, RunInvariant, RunTypes, OneRun, SentOnce, AboutToSend,
         NoneLeftOut, AllSent

(* The reminders, for any loans, due dates and workers: while no call fails*)
(* and runs do not overlap, a loan gets one reminder of a type a day       *)
(* however often the job is run, interrupted or delayed past midnight, and *)
(* a run that comes to its end leaves out no loan that was active all day. *)
THEOREM RemindedDaily == Spec => []OneReminderADay
<1> DEFINE Inv == service = "Reminders" => RunInvariant
<1>1. RunInvariant => R!OneReminderADay
  BY DEF RunInvariant, R!OneReminderADay, Calm, SentOnce, AllSent, Due
<1>2. Init => Inv
  BY RunInvariantInit DEF Init
<1>3. Inv /\ [Next]_vars => Inv'
  BY Exercised, RunInvariantNext
<1>4. Inv => OneReminderADay
  BY <1>1 DEF OneReminderADay
<1> QED BY <1>2, <1>3, <1>4, PTL DEF Spec

-----------------------------------------------------------------------------
(* SignIn.                                                                 *)

Rows == [wallet : Signers, expires : 1 .. SignInTime + NonceLife, used : BOOLEAN]
Verifications == [pc : {"check", "mark", "issue"}, wallet : Signers, nonce : N!Nonces,
                  signed : BOOLEAN, at : 0 .. SignInTime]
SignIns == [no : 1 .. MaxSignIns, wallet : Signers, nonce : N!Nonces, at : 1 .. SignInTime]
SignInTypes ==
  /\ now \in 1 .. SignInTime
  /\ nonces \in [N!Nonces -> {N!Free} \cup Rows]
  /\ verify \in [Requests -> {N!Done} \cup Verifications]
  /\ signIns \in SUBSET SignIns

(* The verifications of a nonce that are under way, and its sign-ins.      *)
Verifying(n) == {q \in Requests : verify[q] # N!Done /\ verify[q].nonce = n}
Times(n) == {s \in signIns : s.nonce = n}

(* The sign-ins are numbered; what a verification found was its wallet's,  *)
(* and in time once it was checked; and so was what has signed in.         *)
Numbered == IsFiniteSet(signIns) /\ \A s \in signIns : s.no <= Cardinality(signIns)
Own(q) ==
  /\ nonces[verify[q].nonce] # N!Free
  /\ verify[q].wallet = nonces[verify[q].nonce].wallet
  /\ verify[q].pc \in {"mark", "issue"} =>
        verify[q].at >= 1 /\ verify[q].at <= nonces[verify[q].nonce].expires
Owned == \A q \in Requests : verify[q] # N!Done => Own(q)
Issued == \A s \in signIns :
  /\ nonces[s.nonce] # N!Free
  /\ s.wallet = nonces[s.nonce].wallet /\ s.at <= nonces[s.nonce].expires

(* Unless calls fail: who is to issue tokens has marked the nonce, so that *)
(* one that is not marked has signed nobody in, and sign-ins and           *)
(* verifications together are no more than the verifications that found it.*)
Marks ==
  /\ \A q \in Requests : verify[q].pc = "issue" => nonces[verify[q].nonce].used
  /\ \A n \in N!Nonces : ~nonces[n].used => Times(n) = {}
Counted == \A n \in N!Nonces :
  Cardinality(Times(n)) + Cardinality(Verifying(n)) <= Cardinality(Requests)
(* And if they do not overlap either: all that is there is one of the two. *)
Single == \A n \in N!Nonces :
  /\ \A p, q \in Verifying(n) : p = q
  /\ \A s, t \in Times(n) : s = t
  /\ Times(n) # {} => Verifying(n) = {}
Reliable == "fail" \notin regime
Orderly == regime \cap {"overlap", "fail"} = {}
SignInInvariant ==
  /\ SignInTypes /\ Numbered /\ Owned /\ Issued
  /\ Reliable => Marks /\ Counted
  /\ Orderly => Single

(* The instance counts with a FiniteSets of its own.                       *)
LEMMA CountsTheSame == ASSUME NEW set PROVE N!Cardinality(set) = Cardinality(set)
  BY DEF N!Cardinality, Cardinality

LEMMA VerifyTyped ==
  ASSUME SignInTypes, NEW q \in Requests
  PROVE  /\ verify[q] # N!Done <=> verify[q] \in Verifications
         /\ verify[q] # N!Done <=> verify[q].pc \in {"check", "mark", "issue"}
         /\ verify[q] # N!Done => verify[q].nonce \in N!Nonces /\ verify[q].wallet \in Signers
  BY DEF SignInTypes, Verifications, N!Done

LEMMA RowsTyped ==
  ASSUME SignInConstants, SignInTypes, NEW n \in N!Nonces
  PROVE  /\ nonces[n] # N!Free <=> nonces[n] \in Rows
         /\ nonces[n] # N!Free => nonces[n].expires \in Int
         /\ nonces[n] = N!Free => ~nonces[n].used
  BY DEF SignInConstants, SignInTypes, Rows, N!Free

LEMMA SetsFinite ==
  ASSUME SignInConstants, Numbered, NEW n
  PROVE  /\ IsFiniteSet(Times(n)) /\ IsFiniteSet(Verifying(n))
         /\ Cardinality(Times(n)) \in Nat /\ Cardinality(Verifying(n)) \in Nat
         /\ Cardinality(Requests) \in Nat
         /\ Cardinality(Verifying(n)) <= Cardinality(Requests)
<1>1. Times(n) \in SUBSET signIns /\ Verifying(n) \in SUBSET Requests
  BY DEF Times, Verifying
<1>2. IsFiniteSet(signIns) /\ IsFiniteSet(Requests)
  BY DEF Numbered, SignInConstants
<1> QED BY <1>1, <1>2, FS_Subset, FS_CardinalityType

(* What is written to a row keeps its wallet and its expiry, and the mark. *)
RowsKept == \A n \in N!Nonces :
  nonces[n] # N!Free =>
    /\ nonces'[n] # N!Free
    /\ nonces'[n].wallet = nonces[n].wallet /\ nonces'[n].expires = nonces[n].expires
    /\ nonces[n].used => nonces'[n].used

(* Steps that sign nobody in, and start no verification.                   *)
LEMMA NobodyIsSignedIn ==
  ASSUME SignInConstants, SignInInvariant, SignInTypes', RowsKept,
         UNCHANGED <<regime, signIns>>,
         \A q \in Requests : verify'[q] # N!Done =>
            /\ verify[q] # N!Done
            /\ verify'[q].nonce = verify[q].nonce /\ verify'[q].wallet = verify[q].wallet,
         Owned',
         Reliable => \A q \in Requests : verify'[q].pc = "issue" => nonces'[verify'[q].nonce].used
  PROVE  SignInInvariant'
<1>1. Numbered'
  BY DEF SignInInvariant, Numbered
<1>2. Issued'
  BY DEF SignInInvariant, Issued, RowsKept, SignInTypes, SignIns
<1>3. \A n \in N!Nonces : Times(n)' = Times(n) /\ Verifying(n)' \subseteq Verifying(n)
  BY DEF Times, Verifying
<1>4. ASSUME Reliable PROVE Marks' /\ Counted'
  <2>1. Marks'
    <3>1. \A n \in N!Nonces : ~nonces'[n].used => ~nonces[n].used
      BY RowsTyped DEF RowsKept, SignInInvariant
    <3>2. \A n \in N!Nonces : ~nonces'[n].used => Times(n)' = {}
      BY <1>3, <1>4, <3>1 DEF SignInInvariant, Marks
    <3> QED BY <1>4, <3>2 DEF Marks
  <2>2. Counted'
    <3>1. SUFFICES ASSUME NEW n \in N!Nonces
                   PROVE  Cardinality(Times(n)') + Cardinality(Verifying(n)') <= Cardinality(Requests)
      BY DEF Counted
    <3> DEFINE before == Verifying(n)
               after == Verifying(n)'
    <3>2. IsFiniteSet(before) /\ Cardinality(before) \in Nat /\ Cardinality(Times(n)) \in Nat
          /\ Cardinality(Requests) \in Nat
      BY SetsFinite DEF SignInInvariant
    <3>3. after \in SUBSET before
      BY <1>3
    <3>4. Cardinality(Times(n)) + Cardinality(before) <= Cardinality(Requests)
      BY <1>4 DEF SignInInvariant, Counted
    <3> HIDE DEF before, after
    <3>5. Cardinality(after) <= Cardinality(before) /\ Cardinality(after) \in Nat
      BY <3>2, <3>3, FS_Subset, FS_CardinalityType
    <3>6. Cardinality(Times(n)) + Cardinality(after) <= Cardinality(Requests)
      BY <3>2, <3>4, <3>5
    <3> QED BY <1>3, <3>6 DEF after
  <2> QED BY <2>1, <2>2
<1>5. ASSUME Orderly PROVE Single'
  BY <1>3, <1>5 DEF SignInInvariant, Single
<1> QED
  BY <1>1, <1>2, <1>4, <1>5 DEF SignInInvariant, Reliable, Orderly

LEMMA SignInTypesNext ==
  ASSUME SignInConstants, SignInTypes, Numbered, Owned, [N!Next]_(N!vars)
  PROVE  SignInTypes'
<1> USE DEF SignInConstants
<1>1. ASSUME NEW w \in Signers, N!GenerateNonce(w) PROVE SignInTypes'
  <2> DEFINE row == [wallet |-> w, expires |-> now + NonceLife, used |-> FALSE]
  <2>1. row \in Rows
    <3>1. now + NonceLife \in 1 .. SignInTime + NonceLife
      BY DEF SignInTypes
    <3> QED BY <3>1 DEF Rows
  <2>2. \E n \in N!Nonces : nonces' = [nonces EXCEPT ![n] = row]
    BY <1>1 DEF N!GenerateNonce
  <2>3. UNCHANGED <<regime, now, verify, signIns>>
    BY <1>1 DEF N!GenerateNonce
  <2> HIDE DEF row
  <2> QED BY <2>1, <2>2, <2>3 DEF SignInTypes
<1>2. ASSUME NEW q \in Requests, NEW w \in Signers, NEW n \in N!Nonces, NEW signed \in BOOLEAN,
             N!FindNonce(q, w, n, signed)
      PROVE  SignInTypes'
  <2> DEFINE found == [pc |-> "check", wallet |-> w, nonce |-> n, signed |-> signed, at |-> 0]
  <2>1. found \in Verifications
    BY DEF Verifications
  <2>2. verify' = [verify EXCEPT ![q] = found] /\ UNCHANGED <<regime, now, nonces, signIns>>
    BY <1>2 DEF N!FindNonce
  <2> HIDE DEF found
  <2> QED BY <2>1, <2>2 DEF SignInTypes
<1>3. ASSUME NEW q \in Requests, N!Check(q) PROVE SignInTypes'
  <2>1. verify[q] \in Verifications
    BY <1>3, VerifyTyped DEF N!Check
  <2> DEFINE checked == [verify[q] EXCEPT !.pc = "mark", !.at = now]
  <2>2. checked \in Verifications
    <3>1. now \in 0 .. SignInTime
      BY DEF SignInTypes
    <3> QED BY <2>1, <3>1 DEF Verifications
  <2>3. /\ \/ verify' = [verify EXCEPT ![q] = N!Done]
           \/ verify' = [verify EXCEPT ![q] = checked]
        /\ UNCHANGED <<regime, now, nonces, signIns>>
    BY <1>3 DEF N!Check
  <2> HIDE DEF checked
  <2> QED BY <2>2, <2>3 DEF SignInTypes
<1>4. ASSUME NEW q \in Requests, N!MarkUsed(q) PROVE SignInTypes'
  <2>1. verify[q] \in Verifications /\ verify[q].nonce \in N!Nonces
    BY <1>4, VerifyTyped DEF N!MarkUsed
  <2> DEFINE marked == [verify[q] EXCEPT !.pc = "issue"]
             row == [nonces[verify[q].nonce] EXCEPT !.used = TRUE]
  <2>2. marked \in Verifications
    BY <2>1 DEF Verifications
  <2>3. /\ verify' = [verify EXCEPT ![q] = marked]
        /\ UNCHANGED nonces \/ nonces' = [nonces EXCEPT ![verify[q].nonce] = row]
        /\ UNCHANGED <<regime, now, signIns>>
    BY <1>4 DEF N!MarkUsed, N!Marked
  <2>4. nonces[verify[q].nonce] \in Rows => row \in Rows
    BY DEF Rows
  <2>5. nonces[verify[q].nonce] # N!Free
    BY <1>4 DEF N!MarkUsed, Owned, Own, N!Done
  <2> HIDE DEF marked, row
  <2> QED BY <2>1, <2>2, <2>3, <2>4, <2>5, RowsTyped DEF SignInTypes
<1>5. ASSUME NEW q \in Requests, N!IssueTokens(q) PROVE SignInTypes'
  <2> DEFINE new == [no |-> Cardinality(signIns) + 1, wallet |-> verify[q].wallet,
                     nonce |-> verify[q].nonce, at |-> verify[q].at]
  <2>1. verify[q] \in Verifications /\ verify[q].at >= 1
    BY <1>5, VerifyTyped DEF N!IssueTokens, Owned, Own, N!Done
  <2>2. Cardinality(signIns) + 1 \in 1 .. MaxSignIns
    <3>1. Cardinality(signIns) \in Nat
      BY FS_CardinalityType DEF Numbered
    <3>2. Cardinality(signIns) < MaxSignIns
      BY <1>5, CountsTheSame DEF N!IssueTokens
    <3> QED BY <3>1, <3>2
  <2>3. new \in SignIns
    BY <2>1, <2>2 DEF SignIns, Verifications
  <2>4. /\ signIns' = signIns \cup {new} /\ verify' = [verify EXCEPT ![q] = N!Done]
        /\ UNCHANGED <<regime, now, nonces>>
    BY <1>5, CountsTheSame DEF N!IssueTokens
  <2> HIDE DEF new
  <2> QED BY <2>3, <2>4 DEF SignInTypes
<1>6. ASSUME NEW q \in Requests, N!Abort(q) PROVE SignInTypes'
  BY <1>6 DEF N!Abort, SignInTypes
<1>7. CASE N!Tick \/ UNCHANGED N!vars
  BY <1>7 DEF N!Tick, N!vars, SignInTypes
<1> QED
  BY <1>1, <1>2, <1>3, <1>4, <1>5, <1>6, <1>7 DEF N!Next

LEMMA SignInInvariantNext ==
  ASSUME SignInConstants, SignInInvariant, [N!Next]_(N!vars)
  PROVE  SignInInvariant'
<1>1. SignInTypes /\ Numbered /\ Owned /\ Issued /\ SignInTypes'
  BY SignInTypesNext DEF SignInInvariant
<1>2. ASSUME NEW w \in Signers, N!GenerateNonce(w) PROVE SignInInvariant'
  <2>1. UNCHANGED <<regime, now, verify, signIns>>
    BY <1>2 DEF N!GenerateNonce
  <2>2. PICK n \in N!Nonces : nonces[n] = N!Free
               /\ nonces' = [nonces EXCEPT ![n] =
                    [wallet |-> w, expires |-> now + NonceLife, used |-> FALSE]]
    BY <1>2 DEF N!GenerateNonce
  <2>3. \A m \in N!Nonces : nonces[m] # N!Free => nonces'[m] = nonces[m]
    BY <1>1, <2>2 DEF SignInTypes
  <2>4. RowsKept
    BY <2>3 DEF RowsKept
  <2>5. Owned'
    BY <1>1, <2>1, <2>3, VerifyTyped DEF Owned, Own
  <2>6. Reliable => \A q \in Requests : verify'[q].pc = "issue" => nonces'[verify'[q].nonce].used
    <3>1. \A q \in Requests : verify[q].pc = "issue" =>
             verify[q].nonce \in N!Nonces /\ nonces[verify[q].nonce] # N!Free
      BY <1>1, VerifyTyped DEF Owned, Own
    <3> QED BY <2>1, <2>3, <3>1 DEF SignInInvariant, Marks
  <2> QED BY <1>1, <2>1, <2>4, <2>5, <2>6, NobodyIsSignedIn
<1>3. ASSUME NEW q \in Requests, NEW w \in Signers, NEW n \in N!Nonces, NEW signed \in BOOLEAN,
             N!FindNonce(q, w, n, signed)
      PROVE  SignInInvariant'
  <2>1. /\ UNCHANGED <<regime, now, nonces, signIns>>
        /\ verify[q] = N!Done
        /\ "overlap" \in regime \/ ~N!InFlight(n)
        /\ nonces[n] # N!Free /\ nonces[n].wallet = w /\ ~nonces[n].used
    BY <1>3 DEF N!FindNonce, N!Findable
  <2>2. /\ verify'[q].pc = "check" /\ verify'[q].nonce = n /\ verify'[q].wallet = w
        /\ \A p \in Requests : p # q => verify'[p] = verify[p]
    BY <1>1, <1>3 DEF N!FindNonce, SignInTypes
  <2>3. Numbered' /\ Issued'
    BY <1>1, <2>1 DEF Numbered, Issued
  <2>4. Owned'
    BY <1>1, <2>1, <2>2 DEF Owned, Own
  <2>5. \A m \in N!Nonces : Times(m)' = Times(m)
    BY <2>1 DEF Times
  <2>6. ASSUME NEW m \in N!Nonces, m # n PROVE Verifying(m)' = Verifying(m)
    <3>1. \A p \in Requests : /\ verify'[p] # N!Done /\ verify'[p].nonce = m
                            <=> verify[p] # N!Done /\ verify[p].nonce = m
      BY <2>1, <2>2, <2>6
    <3> QED BY <3>1 DEF Verifying
  <2>7. ASSUME Reliable PROVE Marks' /\ Counted' /\ Times(n)' = {}
    <3>1. Times(n)' = {} /\ Cardinality(Times(n)') = 0
      BY <2>1, <2>5, <2>7, FS_EmptySet DEF SignInInvariant, Marks
    <3>2. Marks'
      BY <2>1, <2>2, <2>5, <2>7 DEF SignInInvariant, Marks
    <3>3. Cardinality(Times(n)') + Cardinality(Verifying(n)') <= Cardinality(Requests)
      <4> DEFINE after == Verifying(n)'
      <4>1. after \in SUBSET Requests
        BY DEF Verifying
      <4> HIDE DEF after
      <4>2. Cardinality(after) <= Cardinality(Requests) /\ Cardinality(after) \in Nat
        BY <4>1, FS_Subset, FS_CardinalityType DEF SignInConstants
      <4> QED BY <3>1, <4>2 DEF after
    <3>4. Counted'
      BY <2>5, <2>6, <2>7, <3>3 DEF SignInInvariant, Counted
    <3> QED BY <3>1, <3>2, <3>4
  <2>8. ASSUME Orderly PROVE Single'
    <3>1. Reliable /\ ~N!InFlight(n)
      BY <2>1, <2>8 DEF Orderly, Reliable
    <3>2. \A p \in Requests : p # q => p \notin Verifying(n)'
      BY <2>2, <3>1 DEF N!InFlight, Verifying
    <3>3. \A p \in Verifying(n)' : p = q
      BY <3>2 DEF Verifying
    <3> QED BY <2>5, <2>6, <2>7, <2>8, <3>1, <3>3 DEF SignInInvariant, Single
  <2> QED BY <1>1, <2>1, <2>3, <2>4, <2>7, <2>8 DEF SignInInvariant, Reliable, Orderly
<1>4. ASSUME NEW q \in Requests, N!Check(q) PROVE SignInInvariant'
  <2>1. verify[q] # N!Done /\ UNCHANGED <<regime, now, nonces, signIns>>
    BY <1>4 DEF N!Check, N!Done
  <2>2. /\ verify[q] \in Verifications /\ verify[q].nonce \in N!Nonces
        /\ nonces[verify[q].nonce].expires \in Int /\ now \in Int /\ now >= 1
    BY <1>1, <2>1, VerifyTyped, RowsTyped DEF Owned, Own, SignInTypes, SignInConstants
  <2>3. ASSUME NEW x \in Verifications
        PROVE  /\ [x EXCEPT !.pc = "mark", !.at = now].pc = "mark"
               /\ [x EXCEPT !.pc = "mark", !.at = now].at = now
               /\ [x EXCEPT !.pc = "mark", !.at = now].nonce = x.nonce
               /\ [x EXCEPT !.pc = "mark", !.at = now].wallet = x.wallet
    BY DEF Verifications
  <2>4. /\ \A p \in Requests : p # q => verify'[p] = verify[p]
        /\ \/ verify'[q] = N!Done
           \/ /\ verify'[q].pc = "mark" /\ verify'[q].nonce = verify[q].nonce
              /\ verify'[q].wallet = verify[q].wallet /\ verify'[q].at = now
              /\ now <= nonces[verify[q].nonce].expires
    <3>1. CASE nonces[verify[q].nonce].expires < now \/ ~verify[q].signed
      BY <1>1, <1>4, <3>1 DEF N!Check, SignInTypes
    <3>2. CASE ~(nonces[verify[q].nonce].expires < now \/ ~verify[q].signed)
      <4>1. verify' = [verify EXCEPT ![q] = [verify[q] EXCEPT !.pc = "mark", !.at = now]]
        BY <1>4, <3>2 DEF N!Check
      <4>2. verify'[q] = [verify[q] EXCEPT !.pc = "mark", !.at = now]
            /\ \A p \in Requests : p # q => verify'[p] = verify[p]
        BY <1>1, <4>1 DEF SignInTypes
      <4> QED BY <2>2, <2>3, <3>2, <4>2
    <3> QED BY <3>1, <3>2
  <2>5. Owned'
    BY <1>1, <2>1, <2>2, <2>4 DEF Owned, Own
  <2>6. Reliable => \A p \in Requests : verify'[p].pc = "issue" => nonces'[verify'[p].nonce].used
    BY <2>1, <2>4 DEF SignInInvariant, Marks, N!Done
  <2>7. RowsKept
    BY <2>1 DEF RowsKept
  <2> QED BY <1>1, <2>1, <2>4, <2>5, <2>6, <2>7, NobodyIsSignedIn
<1>5. ASSUME NEW q \in Requests, N!MarkUsed(q) PROVE SignInInvariant'
  <2> DEFINE n == verify[q].nonce
  <2>1. verify[q] # N!Done /\ verify[q].pc = "mark" /\ UNCHANGED <<regime, now, signIns>>
    BY <1>5 DEF N!MarkUsed, N!Done
  <2>2. verify[q] \in Verifications /\ n \in N!Nonces /\ nonces[n] \in Rows
    BY <1>1, <2>1, VerifyTyped, RowsTyped DEF Owned, Own
  <2>3. \/ UNCHANGED nonces /\ ~Reliable
        \/ nonces' = [nonces EXCEPT ![n] = [nonces[n] EXCEPT !.used = TRUE]]
    BY <1>5 DEF N!MarkUsed, N!Marked, Reliable
  <2>4. ASSUME NEW x \in Rows
        PROVE  /\ [x EXCEPT !.used = TRUE] \in Rows
               /\ [x EXCEPT !.used = TRUE].wallet = x.wallet
               /\ [x EXCEPT !.used = TRUE].expires = x.expires
               /\ [x EXCEPT !.used = TRUE].used
    BY DEF Rows
  <2>5. /\ \A m \in N!Nonces : m # n => nonces'[m] = nonces[m]
        /\ \/ nonces'[n] = nonces[n] /\ ~Reliable
           \/ nonces'[n] = [nonces[n] EXCEPT !.used = TRUE]
    BY <1>1, <2>2, <2>3 DEF SignInTypes
  <2>6. /\ nonces'[n] \in Rows /\ nonces'[n].wallet = nonces[n].wallet
        /\ nonces'[n].expires = nonces[n].expires
        /\ nonces'[n].used \/ ~Reliable
        /\ nonces[n].used => nonces'[n].used
    BY <2>2, <2>4, <2>5
  <2>7. nonces'[n] # N!Free
    <3>1. \A x \in Rows : x # N!Free
      BY DEF Rows, N!Free, SignInConstants
    <3> QED BY <2>6, <3>1
  <2>8. RowsKept
    BY <2>5, <2>6, <2>7 DEF RowsKept
  <2>9. /\ verify'[q].pc = "issue" /\ verify'[q].nonce = n /\ verify'[q].at = verify[q].at
        /\ verify'[q].wallet = verify[q].wallet
        /\ \A p \in Requests : p # q => verify'[p] = verify[p]
    <3>1. ASSUME NEW x \in Verifications
          PROVE  /\ [x EXCEPT !.pc = "issue"].pc = "issue"
                 /\ [x EXCEPT !.pc = "issue"].nonce = x.nonce
                 /\ [x EXCEPT !.pc = "issue"].at = x.at
                 /\ [x EXCEPT !.pc = "issue"].wallet = x.wallet
      BY DEF Verifications
    <3>2. verify' = [verify EXCEPT ![q] = [verify[q] EXCEPT !.pc = "issue"]]
      BY <1>5 DEF N!MarkUsed
    <3>3. verify'[q] = [verify[q] EXCEPT !.pc = "issue"]
          /\ \A p \in Requests : p # q => verify'[p] = verify[p]
      BY <1>1, <3>2 DEF SignInTypes
    <3> QED BY <2>2, <3>1, <3>3
  <2> HIDE DEF n
  <2>10. Owned'
    <3>1. SUFFICES ASSUME NEW p \in Requests, verify'[p] # N!Done PROVE Own(p)'
      BY DEF Owned
    <3>2. verify[p] # N!Done /\ Own(p) /\ verify'[p].nonce = verify[p].nonce
          /\ verify'[p].wallet = verify[p].wallet /\ verify'[p].at = verify[p].at
          /\ (verify'[p].pc \in {"mark", "issue"} => verify[p].pc \in {"mark", "issue"})
      BY <1>1, <2>1, <2>9, <3>1 DEF Owned, n
    <3>3. verify[p].nonce \in N!Nonces
      BY <1>1, <3>2, VerifyTyped
    <3> QED BY <2>8, <3>2, <3>3 DEF Own, RowsKept
  <2>11. Reliable => \A p \in Requests : verify'[p].pc = "issue" => nonces'[verify'[p].nonce].used
    <3>1. SUFFICES ASSUME Reliable, NEW p \in Requests, verify'[p].pc = "issue"
                   PROVE  nonces'[verify'[p].nonce].used
      OBVIOUS
    <3>2. CASE p = q
      BY <2>6, <2>9, <3>1, <3>2
    <3>3. CASE p # q
      <4>1. verify'[p] = verify[p] /\ nonces[verify[p].nonce].used
        BY <2>9, <3>1, <3>3 DEF SignInInvariant, Marks
      <4>2. verify[p].nonce \in N!Nonces /\ nonces[verify[p].nonce] # N!Free
        BY <1>1, <3>1, <4>1, VerifyTyped DEF Owned, Own
      <4> QED BY <2>8, <4>1, <4>2 DEF RowsKept
    <3> QED BY <3>2, <3>3
  <2> QED BY <1>1, <2>1, <2>8, <2>9, <2>10, <2>11, NobodyIsSignedIn DEF n
<1>6. ASSUME NEW q \in Requests, N!IssueTokens(q) PROVE SignInInvariant'
  <2>0. PICK n \in N!Nonces : n = verify[q].nonce
    BY <1>1, <1>6, VerifyTyped DEF N!IssueTokens
  <2> DEFINE new == [no |-> Cardinality(signIns) + 1, wallet |-> verify[q].wallet,
                     nonce |-> verify[q].nonce, at |-> verify[q].at]
  <2>1. /\ verify[q] # N!Done /\ verify[q].pc = "issue" /\ UNCHANGED <<regime, now, nonces>>
        /\ signIns' = signIns \cup {new}
    BY <1>6, CountsTheSame DEF N!IssueTokens, N!Done
  <2>2. n \in N!Nonces /\ Own(q) /\ q \in Verifying(n)
    BY <1>1, <2>0, <2>1 DEF Owned, Verifying
  <2>3. verify'[q] = N!Done /\ \A p \in Requests : p # q => verify'[p] = verify[p]
    BY <1>1, <1>6 DEF N!IssueTokens, SignInTypes
  <2>4. /\ new.no = Cardinality(signIns) + 1 /\ new.nonce = n
        /\ new.wallet = verify[q].wallet /\ new.at = verify[q].at
    BY <2>0
  <2> HIDE DEF new
  <2>5. Cardinality(signIns) \in Nat /\ IsFiniteSet(signIns)
    BY <1>1, FS_CardinalityType DEF Numbered
  <2>6. new \notin signIns
    BY <1>1, <2>4, <2>5 DEF Numbered
  <2>7. Numbered'
    <3>1. IsFiniteSet(signIns') /\ Cardinality(signIns') = Cardinality(signIns) + 1
      BY <2>1, <2>5, <2>6, FS_AddElement
    <3>2. \A s \in signIns : s.no \in Int
      BY <1>1 DEF SignInTypes, SignIns, SignInConstants
    <3> QED BY <1>1, <2>1, <2>4, <2>5, <3>1, <3>2 DEF Numbered
  <2>8. Owned'
    BY <1>1, <2>1, <2>3 DEF Owned, Own
  <2>9. Issued'
    BY <1>1, <2>0, <2>1, <2>2, <2>4 DEF Issued, Own
  <2>10. /\ \A m \in N!Nonces : m # n => Times(m)' = Times(m) /\ Verifying(m)' = Verifying(m)
         /\ Times(n)' = Times(n) \cup {new} /\ new \notin Times(n)
         /\ Verifying(n)' = Verifying(n) \ {q}
    <3>1. Times(n)' = Times(n) \cup {new} /\ new \notin Times(n)
      BY <2>1, <2>4, <2>6 DEF Times
    <3>2. ASSUME NEW m \in N!Nonces, m # n
          PROVE  Times(m)' = Times(m) /\ Verifying(m)' = Verifying(m)
      <4>1. Times(m)' = Times(m)
        BY <2>1, <2>4, <3>2 DEF Times
      <4>2. \A p \in Requests : /\ verify'[p] # N!Done /\ verify'[p].nonce = m
                              <=> verify[p] # N!Done /\ verify[p].nonce = m
        BY <2>0, <2>1, <2>3, <3>2
      <4> QED BY <4>1, <4>2 DEF Verifying
    <3>3. Verifying(n)' = Verifying(n) \ {q}
      <4>1. \A p \in Requests : /\ verify'[p] # N!Done /\ verify'[p].nonce = n
                              <=> /\ verify[p] # N!Done /\ verify[p].nonce = n
                                  /\ p # q
        BY <2>0, <2>1, <2>3
      <4> QED BY <4>1 DEF Verifying
    <3> QED BY <3>1, <3>2, <3>3
  <2>11. ASSUME Reliable PROVE Marks' /\ Counted'
    <3>1. nonces[n].used
      BY <2>0, <2>1, <2>11 DEF SignInInvariant, Marks
    <3>2. Marks'
      BY <2>1, <2>3, <2>10, <2>11, <3>1 DEF SignInInvariant, Marks, N!Done
    <3>3. Cardinality(Times(n)') = Cardinality(Times(n)) + 1
      BY <1>1, <2>10, SetsFinite, FS_AddElement
    <3>4. Cardinality(Verifying(n)') = Cardinality(Verifying(n)) - 1
      BY <1>1, <2>2, <2>10, SetsFinite, FS_RemoveElement
    <3>5. Cardinality(Times(n)') + Cardinality(Verifying(n)') <= Cardinality(Requests)
      BY <1>1, <2>2, <2>11, <3>3, <3>4, SetsFinite DEF SignInInvariant, Counted
    <3>6. Counted'
      BY <2>10, <2>11, <3>5 DEF SignInInvariant, Counted
    <3> QED BY <3>2, <3>6
  <2>12. ASSUME Orderly PROVE Single'
    <3>1. Single
      BY <2>12 DEF SignInInvariant
    <3>2. Times(n) = {} /\ \A p \in Verifying(n) : p = q
      BY <2>2, <3>1 DEF Single
    <3>3. Times(n)' = {new} /\ Verifying(n)' = {}
      BY <2>10, <3>2
    <3> QED BY <2>10, <3>1, <3>3 DEF Single
  <2> QED BY <1>1, <2>1, <2>7, <2>8, <2>9, <2>11, <2>12 DEF SignInInvariant, Reliable, Orderly
<1>7. ASSUME NEW q \in Requests, N!Abort(q) PROVE SignInInvariant'
  <2>1. UNCHANGED <<regime, now, nonces, signIns>>
    BY <1>7 DEF N!Abort
  <2>2. verify'[q] = N!Done /\ \A p \in Requests : p # q => verify'[p] = verify[p]
    BY <1>1, <1>7 DEF N!Abort, SignInTypes
  <2>3. Owned' /\ RowsKept
    BY <1>1, <2>1, <2>2 DEF Owned, Own, RowsKept
  <2>4. ~Reliable
    BY <1>7 DEF N!Abort, Reliable
  <2> QED BY <1>1, <2>1, <2>2, <2>3, <2>4, NobodyIsSignedIn
<1>8. CASE N!Tick \/ UNCHANGED N!vars
  <2>1. UNCHANGED <<regime, nonces, verify, signIns>>
    BY <1>8 DEF N!Tick, N!vars
  <2>2. Owned' /\ RowsKept
    BY <1>1, <2>1 DEF Owned, Own, RowsKept
  <2>3. Reliable => \A p \in Requests : verify'[p].pc = "issue" => nonces'[verify'[p].nonce].used
    BY <2>1 DEF SignInInvariant, Marks
  <2> QED BY <1>1, <2>1, <2>2, <2>3, NobodyIsSignedIn
<1> QED
  BY <1>2, <1>3, <1>4, <1>5, <1>6, <1>7, <1>8 DEF N!Next

LEMMA SignInHolds ==
  ASSUME SignInConstants, SignInInvariant
  PROVE  N!NonceSignsInOnce
<1>1. \A s \in signIns : s.wallet = nonces[s.nonce].wallet /\ s.at <= nonces[s.nonce].expires
  BY DEF SignInInvariant, Issued
<1>2. ASSUME NEW n \in N!Nonces, Orderly PROVE Cardinality(Times(n)) <= 1
  <2>1. CASE Times(n) = {}
    BY <2>1, FS_EmptySet
  <2>2. CASE Times(n) # {}
    <3>1. PICK s \in Times(n) : TRUE
      BY <2>2
    <3>2. Times(n) = {s}
      BY <1>2, <3>1 DEF SignInInvariant, Single
    <3>3. Cardinality({s}) = 1
      BY FS_Singleton
    <3> QED BY <3>2, <3>3
  <2> QED BY <2>1, <2>2
<1>3. ASSUME NEW n \in N!Nonces, Reliable PROVE Cardinality(Times(n)) <= Cardinality(Requests)
  BY <1>3, SetsFinite DEF SignInInvariant, Counted
<1>4. \A n : N!Cardinality(Times(n)) = Cardinality(Times(n))
  BY CountsTheSame
<1>5. N!Cardinality(Requests) = Cardinality(Requests)
  BY CountsTheSame
<1> QED BY <1>1, <1>2, <1>3, <1>4, <1>5 DEF N!NonceSignsInOnce, Times, Orderly, Reliable

LEMMA SignInInvariantInit == N!Init => SignInInvariant
<1> SUFFICES ASSUME N!Init PROVE SignInInvariant
  OBVIOUS
<1>1. SignInTypes
  BY ConstantsTyped DEF N!Init, SignInTypes, SignInConstants
<1>2. Numbered
  BY FS_EmptySet DEF N!Init, Numbered
<1>3. \A n : Times(n) = {} /\ Verifying(n) = {}
  BY DEF N!Init, Times, Verifying
<1>4. Owned /\ Issued /\ Single
  BY <1>3 DEF N!Init, Owned, Issued, Single
<1>5. Marks
  BY <1>3 DEF N!Init, Marks, N!Done
<1>6. Counted
  BY <1>1, <1>2, <1>3, SetsFinite, FS_EmptySet, ConstantsTyped DEF Counted
<1> QED BY <1>1, <1>2, <1>4, <1>5, <1>6 DEF SignInInvariant

(* Signing in, for any wallets, nonces and lifetimes: a nonce signs in its *)
(* own wallet and in time, once if its verifications do not overlap and no *)
(* call fails, and if they overlap no more often than there are requests.  *)
THEOREM NoncesAreUsedOnce == Spec => []NonceSignsInOnce
<1> DEFINE Inv == service = "SignIn" => SignInInvariant
<1>1. SignInInvariant => N!NonceSignsInOnce
  BY SignInHolds, ConstantsTyped
<1>2. Init => Inv
  BY SignInInvariantInit DEF Init
<1>3. Inv /\ [Next]_vars => Inv'
  BY Exercised, SignInInvariantNext, ConstantsTyped
<1>4. Inv => NonceSignsInOnce
  BY <1>1 DEF NonceSignsInOnce
<1> QED BY <1>2, <1>3, <1>4, PTL DEF Spec

-----------------------------------------------------------------------------
(* Sessions.                                                               *)

SessionRows == [hash : S!Seconds, expires : 1 .. SessionTime + TokenLife]
Refreshes == [pc : {"create", "user", "rotate", "answer"}, device : Devices,
              row : S!Logins \cup {S!None}, token : S!Seconds]
SessionTypes ==
  /\ now \in S!Seconds
  /\ session \in [S!Logins -> {S!NoRow} \cup SessionRows]
  /\ logins \in 0 .. MaxLogins
  /\ holds \in [Devices -> S!Seconds \cup {S!None}]
  /\ req \in [Requests -> {S!Done} \cup Refreshes]

(* A row of the table expires when its token does.                         *)
Ledger == \A i \in S!Logins :
  session[i] # S!NoRow => /\ i <= logins
                          /\ session[i].expires = session[i].hash + TokenLife

(* The token a device is to present next: the one that is on its way to it,*)
(* or else the one it holds.                                               *)
Answered(d) == \E q \in Requests : req[q].pc = "answer" /\ req[q].device = d
Claims(d, t) ==
  \/ \E q \in Requests : req[q].pc = "answer" /\ req[q].device = d /\ req[q].token = t
  \/ holds[d] = t /\ ~Answered(d)
Valid(t) == now < t + TokenLife

(* When a device sends one request at a time: its request finds the row of *)
(* the token it holds, unless that is gone, and no other request has it;   *)
(* and a token that is valid has its row, and is of one device only.       *)
OneAtATime == \A p, q \in Requests :
  req[p].pc # "done" /\ req[q].pc # "done" /\ req[p].device = req[q].device => p = q
Refreshing(q) == req[q].pc \in {"user", "rotate"}
FindsItsRow(q) ==
  /\ req[q].row \in 1 .. logins
  /\ holds[req[q].device] # S!None
  /\ session[req[q].row] # S!NoRow => session[req[q].row].hash = holds[req[q].device]
RowsFound == \A q \in Requests : Refreshing(q) => FindsItsRow(q)
RowsApart == \A p, q \in Requests :
  Refreshing(p) /\ Refreshing(q) /\ req[p].row = req[q].row => p = q
Backed == \A d \in Devices, t \in S!Seconds : Claims(d, t) /\ Valid(t) => S!Rows(t) # {}
ClaimedOnce == \A d, e \in Devices, t \in S!Seconds :
  Claims(d, t) /\ Claims(e, t) /\ Valid(t) => d = e
InTurn == regime \cap {"tabs", "lost"} = {}
SessionInvariant ==
  /\ SessionTypes /\ Ledger
  /\ InTurn => OneAtATime /\ RowsFound /\ RowsApart /\ Backed /\ ClaimedOnce

LEMMA RequestsTyped ==
  ASSUME SessionTypes, NEW q \in Requests
  PROVE  /\ req[q].pc # "done" <=> req[q] \in Refreshes
         /\ req[q].pc \in {"done", "create", "user", "rotate", "answer"}
         /\ req[q] \in Refreshes => /\ req[q].device \in Devices /\ req[q].token \in S!Seconds
                                    /\ req[q].row \in S!Logins \cup {S!None}
  BY DEF SessionTypes, Refreshes, S!Done

LEMMA SecondsTyped ==
  ASSUME SessionConstants, SessionTypes
  PROVE  /\ now \in Int /\ logins \in Int /\ TokenLife \in Int
         /\ \A t \in S!Seconds : t \in Int /\ t # S!None
         /\ \A i \in S!Logins : i \in Int
         /\ \A i \in S!Logins : session[i].hash \in Int /\ session[i].expires \in Int
         /\ \A i \in S!Logins : session[i].hash # S!None => session[i] # S!NoRow
<1>1. \A t \in S!Seconds : t \in Int /\ t # S!None
  BY DEF SessionConstants, S!Seconds, S!None
<1>2. now \in Int /\ logins \in Int /\ TokenLife \in Int /\ \A i \in S!Logins : i \in Int
  BY <1>1 DEF SessionConstants, SessionTypes, S!Logins
<1>3. ASSUME NEW i \in S!Logins
      PROVE  /\ session[i].hash \in Int /\ session[i].expires \in Int
             /\ session[i].hash # S!None => session[i] # S!NoRow
  <2>1. CASE session[i] = S!NoRow
    BY <2>1 DEF S!NoRow, S!None
  <2>2. CASE session[i] \in SessionRows
    BY <1>1, <2>2 DEF SessionRows, SessionConstants, S!NoRow, S!None
  <2> QED BY <2>1, <2>2 DEF SessionTypes
<1> QED BY <1>1, <1>2, <1>3

LEMMA SessionUpdated ==
  ASSUME NEW x \in Refreshes, NEW t \in S!Seconds
  PROVE  /\ [x EXCEPT !.pc = "answer"] \in Refreshes
         /\ [x EXCEPT !.pc = "answer"].pc = "answer"
         /\ [x EXCEPT !.pc = "answer"].device = x.device
         /\ [x EXCEPT !.pc = "answer"].token = x.token
         /\ [x EXCEPT !.pc = "rotate", !.token = t] \in Refreshes
         /\ [x EXCEPT !.pc = "rotate", !.token = t].pc = "rotate"
         /\ [x EXCEPT !.pc = "rotate", !.token = t].device = x.device
         /\ [x EXCEPT !.pc = "rotate", !.token = t].row = x.row
  BY DEF Refreshes

(* What the steps of a request do to it.                                   *)
Becomes(q, r) == req'[q] = r /\ \A p \in Requests : p # q => req'[p] = req[p]

LEMMA RequestBecomes ==
  ASSUME SessionTypes, NEW q \in Requests, NEW r \in {S!Done} \cup Refreshes,
         req' = [req EXCEPT ![q] = r]
  PROVE  Becomes(q, r) /\ req' \in [Requests -> {S!Done} \cup Refreshes]
  BY DEF SessionTypes, Becomes

LEMMA RowTyped ==
  ASSUME SessionConstants, NEW t \in S!Seconds
  PROVE  /\ S!Row(t) \in SessionRows /\ S!Row(t).hash = t /\ S!Row(t).expires = t + TokenLife
         /\ S!Row(t) # S!NoRow
<1>1. t + TokenLife \in 1 .. SessionTime + TokenLife
  BY DEF SessionConstants, S!Seconds
<1>2. S!Row(t) \in SessionRows /\ S!Row(t).hash = t /\ S!Row(t).expires = t + TokenLife
  BY <1>1 DEF S!Row, SessionRows
<1>3. S!NoRow.hash = 0 /\ t # 0
  BY DEF S!NoRow, S!None, S!Seconds
<1> QED BY <1>2, <1>3

(* A request that neither writes a row nor brings an answer.               *)
LEMMA QuietRequest ==
  ASSUME SessionConstants, SessionTypes, Backed, ClaimedOnce,
         UNCHANGED <<now, session, holds>>,
         NEW q \in Requests, req[q].pc # "answer", req'[q].pc # "answer",
         \A p \in Requests : p # q => req'[p] = req[p]
  PROVE  Backed' /\ ClaimedOnce'
<1>1. \A d : Answered(d)' <=> Answered(d)
  BY DEF Answered
<1>2. \A d, t : Claims(d, t)' <=> Claims(d, t)
  BY <1>1 DEF Claims
<1>3. \A t : S!Rows(t)' = S!Rows(t) /\ (Valid(t)' <=> Valid(t))
  BY DEF S!Rows, Valid
<1> QED BY <1>2, <1>3 DEF Backed, ClaimedOnce

LEMMA SessionTypesNext ==
  ASSUME SessionConstants, SessionTypes, [S!Next]_(S!vars)
  PROVE  SessionTypes'
<1> USE DEF SessionConstants
<1>1. ASSUME NEW q \in Requests, NEW r \in {S!Done} \cup Refreshes,
             req' = [req EXCEPT ![q] = r]
      PROVE  req' \in [Requests -> {S!Done} \cup Refreshes]
  BY <1>1, RequestBecomes
<1>2. ASSUME NEW q \in Requests, NEW d \in Devices, S!Login(q, d)
      PROVE  SessionTypes'
  <2>1. [pc |-> "create", device |-> d, row |-> S!None, token |-> now] \in Refreshes
    BY DEF Refreshes, SessionTypes
  <2> QED BY <1>1, <1>2, <2>1 DEF S!Login, SessionTypes
<1>3. ASSUME NEW q \in Requests, NEW d \in Devices, S!Refresh(q, d)
      PROVE  SessionTypes'
  <2>1. PICK i \in S!Rows(holds[d]) : req' = [req EXCEPT ![q] =
               [pc |-> "user", device |-> d, row |-> i, token |-> holds[d]]]
    BY <1>3 DEF S!Refresh
  <2>2. [pc |-> "user", device |-> d, row |-> i, token |-> holds[d]] \in Refreshes
    BY <1>3 DEF S!Refresh, S!Rows, Refreshes, SessionTypes
  <2> QED BY <1>1, <1>3, <2>1, <2>2 DEF S!Refresh, SessionTypes
<1>4. ASSUME NEW q \in Requests, S!CreateSession(q)
      PROVE  SessionTypes'
  <2>1. req[q] \in Refreshes /\ req[q].token \in S!Seconds
    BY <1>4, RequestsTyped DEF S!CreateSession
  <2>2. [req[q] EXCEPT !.pc = "answer"] \in Refreshes
    BY <2>1, SessionUpdated
  <2>3. logins + 1 \in 0 .. MaxLogins
    BY <1>4 DEF S!CreateSession, SessionTypes
  <2>4. CASE /\ logins' = logins + 1
             /\ session' = [session EXCEPT ![logins + 1] = S!Row(req[q].token)]
             /\ req' = [req EXCEPT ![q].pc = "answer"]
    <3>1. S!Row(req[q].token) \in SessionRows
      BY <2>1, RowTyped
    <3>2. session' \in [S!Logins -> {S!NoRow} \cup SessionRows]
      BY <2>4, <3>1 DEF SessionTypes
    <3>3. req' \in [Requests -> {S!Done} \cup Refreshes]
      BY <1>1, <2>2, <2>4
    <3> QED BY <1>4, <2>3, <2>4, <3>2, <3>3 DEF S!CreateSession, SessionTypes
  <2>5. CASE S!Ends(q) /\ UNCHANGED <<session, logins>>
    BY <1>1, <1>4, <2>5 DEF S!CreateSession, S!Ends, SessionTypes
  <2> QED BY <1>4, <2>4, <2>5 DEF S!CreateSession
<1>5. ASSUME NEW q \in Requests, S!ReadUser(q)
      PROVE  SessionTypes'
  <2>1. req[q] \in Refreshes /\ now \in S!Seconds
    BY <1>5, RequestsTyped DEF S!ReadUser, SessionTypes
  <2>2. [req[q] EXCEPT !.pc = "rotate", !.token = now] \in Refreshes
    BY <2>1, SessionUpdated
  <2>3. \/ S!Ends(q)
        \/ req' = [req EXCEPT ![q] = [req[q] EXCEPT !.pc = "rotate", !.token = now]]
    BY <1>5 DEF S!ReadUser
  <2>4. req' \in [Requests -> {S!Done} \cup Refreshes]
    BY <1>1, <2>2, <2>3 DEF S!Ends
  <2> QED BY <1>5, <2>4 DEF S!ReadUser, SessionTypes
<1>6. ASSUME NEW q \in Requests, S!Rotate(q)
      PROVE  SessionTypes'
  <2>1. req[q] \in Refreshes /\ req[q].token \in S!Seconds
    BY <1>6, RequestsTyped DEF S!Rotate
  <2>2. [req[q] EXCEPT !.pc = "answer"] \in Refreshes
    BY <2>1, SessionUpdated
  <2>3. CASE /\ session' = [session EXCEPT ![req[q].row] = S!Row(req[q].token)]
             /\ req' = [req EXCEPT ![q].pc = "answer"]
    <3>1. S!Row(req[q].token) \in SessionRows
      BY <2>1, RowTyped
    <3>2. session' \in [S!Logins -> {S!NoRow} \cup SessionRows]
      BY <2>3, <3>1 DEF SessionTypes
    <3>3. req' \in [Requests -> {S!Done} \cup Refreshes]
      BY <1>1, <2>2, <2>3
    <3> QED BY <1>6, <3>2, <3>3 DEF S!Rotate, SessionTypes
  <2>4. CASE S!Ends(q) /\ UNCHANGED session
    BY <1>1, <1>6, <2>4 DEF S!Rotate, S!Ends, SessionTypes
  <2> QED BY <1>6, <2>3, <2>4 DEF S!Rotate
<1>7. ASSUME NEW q \in Requests, S!Answer(q)
      PROVE  SessionTypes'
  <2>1. req[q].token \in S!Seconds
    BY <1>7, RequestsTyped DEF S!Answer
  <2>2. holds' \in [Devices -> S!Seconds \cup {S!None}]
    BY <1>7, <2>1 DEF S!Answer, SessionTypes
  <2> QED BY <1>1, <1>7, <2>2 DEF S!Answer, S!Ends, SessionTypes
<1>8. ASSUME NEW q \in Requests, S!Abort(q)
      PROVE  SessionTypes'
  BY <1>1, <1>8 DEF S!Abort, S!Ends, SessionTypes
<1>9. ASSUME NEW d \in Devices, S!RefreshIsRefused(d) \/ S!Logout(d)
      PROVE  SessionTypes'
  BY <1>9 DEF S!RefreshIsRefused, S!Logout, S!Without, SessionTypes
<1>10. CASE S!CleanUp \/ S!Block \/ S!Tick \/ UNCHANGED S!vars
  BY <1>10 DEF S!CleanUp, S!Without, S!Block, S!Tick, S!vars, SessionTypes, S!Seconds
<1> QED
  BY <1>2, <1>3, <1>4, <1>5, <1>6, <1>7, <1>8, <1>9, <1>10 DEF S!Next

(* Rows that go take no claim with them, if no valid one is theirs.        *)
LEMMA RowsGo ==
  ASSUME SessionConstants, SessionTypes, SessionTypes',
         OneAtATime, RowsFound, RowsApart, Backed, ClaimedOnce,
         UNCHANGED <<logins, req>>, now <= now', NEW gone \in SUBSET S!Logins,
         session' = S!Without(gone) \/ session' = session,
         \A d \in Devices : holds'[d] = holds[d] \/ (holds'[d] = S!None /\ ~S!InFlight(d)),
         \A d \in Devices, t \in S!Seconds :
            Claims(d, t)' /\ Valid(t) => \A i \in gone : session[i].hash # t
  PROVE  OneAtATime' /\ RowsFound' /\ RowsApart' /\ Backed' /\ ClaimedOnce'
<1>1. \A i \in S!Logins : session'[i] = session[i] \/ (session'[i] = S!NoRow /\ i \in gone)
  BY DEF S!Without
<1>2. \A d : Answered(d)' <=> Answered(d)
  BY DEF Answered
<1>3. \A d \in Devices, t \in S!Seconds : Claims(d, t)' => Claims(d, t)
  BY <1>2, SecondsTyped DEF Claims
<1>4. \A t \in S!Seconds : Valid(t)' => Valid(t)
  <2>1. now \in Int /\ now' \in Int /\ TokenLife \in Int /\ \A t \in S!Seconds : t \in Int
    BY SecondsTyped DEF SessionTypes, SessionConstants
  <2> QED BY <2>1 DEF Valid
<1>5. OneAtATime' /\ RowsApart'
  BY DEF OneAtATime, RowsApart, Refreshing
<1>6. ClaimedOnce'
  BY <1>3, <1>4 DEF ClaimedOnce
<1>7. Backed'
  <2>1. SUFFICES ASSUME NEW d \in Devices, NEW t \in S!Seconds, Claims(d, t)', Valid(t)'
                 PROVE  S!Rows(t)' # {}
    BY DEF Backed
  <2>2. PICK i \in S!Logins : session[i].hash = t
    BY <1>3, <1>4, <2>1 DEF Backed, S!Rows
  <2>3. i \notin gone
    BY <1>4, <2>1, <2>2
  <2>4. session'[i].hash = t
    BY <1>1, <2>2, <2>3
  <2> QED BY <2>4 DEF S!Rows
<1>8. RowsFound'
  <2>1. SUFFICES ASSUME NEW q \in Requests, Refreshing(q)' PROVE FindsItsRow(q)'
    BY DEF RowsFound
  <2>2. Refreshing(q) /\ FindsItsRow(q) /\ req' = req
    BY <2>1 DEF RowsFound, Refreshing
  <2>3. req[q].device \in Devices /\ req[q].pc # "done"
    BY <2>2, RequestsTyped DEF Refreshing
  <2>4. holds'[req[q].device] = holds[req[q].device]
    BY <2>3 DEF S!InFlight
  <2>5. req[q].row \in S!Logins /\ logins' = logins
    BY <2>2 DEF FindsItsRow, SessionTypes, S!Logins, SessionConstants
  <2> QED BY <1>1, <2>2, <2>4, <2>5 DEF FindsItsRow
<1> QED BY <1>5, <1>6, <1>7, <1>8

(* A row that is written is of the device whose request writes it: what it *)
(* replaces was that device's, and a valid token in it is nobody else's.   *)
LEMMA RowIsWritten ==
  ASSUME SessionConstants, SessionTypes, SessionTypes',
         OneAtATime, RowsFound, RowsApart, Backed, ClaimedOnce,
         UNCHANGED <<now, holds>>,
         NEW q \in Requests, req[q].pc \in {"create", "rotate"},
         req'[q].pc = "answer", req'[q].device = req[q].device,
         req'[q].token = req[q].token,
         \A p \in Requests : p # q => req'[p] = req[p],
         NEW i \in S!Logins,
         session' = [session EXCEPT ![i] = S!Row(req[q].token)],
         logins <= logins',
         \/ i > logins /\ S!Rows(req[q].token) = {} /\ session[i] = S!NoRow
         \/ /\ Refreshing(q) /\ i = req[q].row /\ session[i] # S!NoRow
            /\ S!Rows(req[q].token) \subseteq {i}
  PROVE  OneAtATime' /\ RowsFound' /\ RowsApart' /\ Backed' /\ ClaimedOnce'
<1>1. /\ req[q].device \in Devices /\ req[q].token \in S!Seconds /\ req[q].pc # "done"
      /\ req[q].pc # "answer"
  BY RequestsTyped
<1>2. PICK d \in Devices : d = req[q].device
  BY <1>1
<1>3. PICK t \in S!Seconds : t = req[q].token
  BY <1>1
<1>4. /\ session'[i] = S!Row(t) /\ session'[i].hash = t /\ session'[i] # S!NoRow
      /\ \A j \in S!Logins : j # i => session'[j] = session[j]
  BY <1>3, RowTyped DEF SessionTypes
<1>5. \A e : e # d => (Answered(e)' <=> Answered(e))
  BY <1>1, <1>2 DEF Answered
<1>6. \A e, u : e # d => (Claims(e, u)' <=> Claims(e, u))
  BY <1>1, <1>2, <1>5 DEF Claims
<1>7. \A p \in Requests : req[p].pc # "done" /\ req[p].device = d => p = q
  BY <1>1, <1>2 DEF OneAtATime
<1>8. Answered(d)' /\ ~Answered(d)
  BY <1>1, <1>2, <1>7 DEF Answered
<1>9. \A u : Claims(d, u)' <=> u = t
  BY <1>1, <1>2, <1>3, <1>7, <1>8 DEF Claims
<1>10. \A u : Claims(d, u) <=> holds[d] = u
  BY <1>1, <1>8 DEF Claims, Answered
<1>11. \A u : Valid(u)' <=> Valid(u)
  BY DEF Valid
<1>12. ASSUME Refreshing(q), i = req[q].row, session[i] # S!NoRow
       PROVE  session[i].hash = holds[d] /\ holds[d] \in S!Seconds
  BY <1>2, <1>12 DEF RowsFound, FindsItsRow, SessionTypes
<1>13. OneAtATime'
  <2>1. SUFFICES ASSUME NEW p \in Requests, NEW r \in Requests,
                        req'[p].pc # "done", req'[r].pc # "done",
                        req'[p].device = req'[r].device
                 PROVE  p = r
    BY DEF OneAtATime
  <2>2. req[p].pc # "done" /\ req[r].pc # "done" /\ req[p].device = req[r].device
    BY <1>1, <2>1
  <2> QED BY <2>2 DEF OneAtATime
<1>14. \A p \in Requests : Refreshing(p)' => p # q /\ req'[p] = req[p] /\ Refreshing(p)
  BY DEF Refreshing
<1>15. RowsApart'
  BY <1>14 DEF RowsApart
<1>16. RowsFound'
  <2>1. SUFFICES ASSUME NEW p \in Requests, Refreshing(p)' PROVE FindsItsRow(p)'
    BY DEF RowsFound
  <2>2. p # q /\ req'[p] = req[p] /\ Refreshing(p) /\ FindsItsRow(p)
    BY <1>14, <2>1 DEF RowsFound
  <2>3. req[p].row \in S!Logins /\ req[p].row \in 1 .. logins'
    BY <2>2 DEF FindsItsRow, SessionTypes, S!Logins, SessionConstants
  <2>4. req[p].row # i
    <3>1. CASE i > logins
      BY <2>2, <3>1 DEF FindsItsRow, SessionTypes
    <3>2. CASE Refreshing(q) /\ i = req[q].row
      BY <2>2, <3>2 DEF RowsApart
    <3> QED BY <3>1, <3>2
  <2> QED BY <1>4, <2>2, <2>3, <2>4 DEF FindsItsRow
<1>17. Backed'
  <2>1. SUFFICES ASSUME NEW e \in Devices, NEW u \in S!Seconds, Claims(e, u)', Valid(u)'
                 PROVE  S!Rows(u)' # {}
    BY DEF Backed
  <2>2. CASE e = d
    BY <1>4, <1>9, <2>1, <2>2 DEF S!Rows
  <2>3. CASE e # d
    <3>1. PICK j \in S!Logins : session[j].hash = u
      BY <1>6, <1>11, <2>1, <2>3 DEF Backed, S!Rows
    <3>2. u # S!None /\ session[j] # S!NoRow
      BY <3>1, SecondsTyped
    <3>3. j # i
      <4>1. SUFFICES ASSUME j = i PROVE FALSE
        OBVIOUS
      <4>2. Refreshing(q) /\ i = req[q].row /\ session[i] # S!NoRow
        BY <3>2, <4>1
      <4>3. Claims(d, u)
        BY <1>10, <1>12, <3>1, <4>1, <4>2
      <4> QED BY <1>6, <1>11, <2>1, <2>3, <4>3 DEF ClaimedOnce
    <3> QED BY <1>4, <3>1, <3>3 DEF S!Rows
  <2> QED BY <2>2, <2>3
<1>18. ClaimedOnce'
  <2>1. ASSUME NEW e \in Devices, e # d, Claims(e, t), Valid(t)
        PROVE  FALSE
    <3>1. S!Rows(t) # {}
      BY <2>1 DEF Backed
    <3>2. /\ Refreshing(q) /\ i = req[q].row /\ session[i] # S!NoRow
          /\ S!Rows(t) \subseteq {i}
      BY <1>3, <3>1
    <3>3. session[i].hash = t
      BY <3>1, <3>2 DEF S!Rows
    <3>4. Claims(d, t)
      BY <1>10, <1>12, <3>2, <3>3
    <3> QED BY <2>1, <3>4 DEF ClaimedOnce
  <2>2. SUFFICES ASSUME NEW e \in Devices, NEW f \in Devices, NEW u \in S!Seconds,
                        Claims(e, u)', Claims(f, u)', Valid(u)', e # f
                 PROVE  FALSE
    BY DEF ClaimedOnce
  <2>3. CASE e = d
    BY <1>6, <1>9, <1>11, <2>1, <2>2, <2>3
  <2>4. CASE f = d
    BY <1>6, <1>9, <1>11, <2>1, <2>2, <2>4
  <2>5. CASE e # d /\ f # d
    BY <1>6, <1>11, <2>2, <2>5 DEF ClaimedOnce
  <2> QED BY <2>3, <2>4, <2>5
<1> QED BY <1>13, <1>15, <1>16, <1>17, <1>18

LEMMA LedgerNext ==
  ASSUME SessionConstants, SessionTypes, Ledger, SessionTypes',
         logins <= logins',
         \A i \in S!Logins : \/ session'[i] = session[i] \/ session'[i] = S!NoRow
                             \/ i <= logins' /\ \E t \in S!Seconds : session'[i] = S!Row(t)
  PROVE  Ledger'
<1>1. SUFFICES ASSUME NEW i \in S!Logins, session'[i] # S!NoRow
               PROVE  i <= logins' /\ session'[i].expires = session'[i].hash + TokenLife
  BY DEF Ledger
<1>2. CASE session'[i] = session[i]
  <2>1. i <= logins /\ session[i].expires = session[i].hash + TokenLife
    BY <1>1, <1>2 DEF Ledger
  <2>2. i \in Int /\ logins \in Int /\ logins' \in Int
    BY DEF SessionTypes, S!Logins
  <2> QED BY <1>2, <2>1, <2>2
<1>3. CASE i <= logins' /\ \E t \in S!Seconds : session'[i] = S!Row(t)
  BY <1>3, RowTyped
<1> QED BY <1>1, <1>2, <1>3

LEMMA SessionInvariantNext ==
  ASSUME SessionConstants, SessionInvariant, [S!Next]_(S!vars)
  PROVE  SessionInvariant'
<1>1. SessionTypes /\ SessionTypes' /\ Ledger
  BY SessionTypesNext DEF SessionInvariant
<1>2. regime' = regime
  BY DEF S!Next, S!vars, S!Login, S!Refresh, S!CreateSession, S!ReadUser, S!Rotate, S!Answer,
         S!Abort, S!RefreshIsRefused, S!Logout, S!CleanUp, S!Block, S!Tick
<1> DEFINE Turns == OneAtATime /\ RowsFound /\ RowsApart /\ Backed /\ ClaimedOnce
<1>3. InTurn => Turns
  BY DEF SessionInvariant
<1>4. SUFFICES Ledger' /\ (InTurn => Turns')
  BY <1>1, <1>2 DEF SessionInvariant, InTurn
<1>5. ASSUME UNCHANGED <<logins, session>> PROVE Ledger'
  BY <1>1, <1>5 DEF Ledger
<1>6. ASSUME NEW gone, UNCHANGED logins, session' = S!Without(gone) PROVE Ledger'
  <2>1. logins <= logins'
    BY <1>1, <1>6, SecondsTyped
  <2>2. \A i \in S!Logins : session'[i] = session[i] \/ session'[i] = S!NoRow
    BY <1>6 DEF S!Without
  <2> QED BY <1>1, <2>1, <2>2, LedgerNext
<1>7. ASSUME NEW q \in Requests, S!Ends(q), UNCHANGED <<now, session, logins, holds>>,
             req[q].pc # "answer"
      PROVE  Ledger' /\ (InTurn => Turns')
  <2>1. /\ req'[q].pc = "done" /\ req'[q].pc # "answer"
        /\ \A p \in Requests : p # q => req'[p] = req[p]
    BY <1>1, <1>7, RequestBecomes DEF S!Ends, Becomes, S!Done
  <2>2. ASSUME InTurn PROVE Turns'
    <3>1. Backed' /\ ClaimedOnce'
      BY <1>1, <1>3, <1>7, <2>1, <2>2, QuietRequest
    <3>2. \A p \in Requests : req'[p].pc # "done" => p # q /\ req'[p] = req[p]
      BY <2>1
    <3>3. \A p \in Requests : Refreshing(p)' => p # q /\ req'[p] = req[p] /\ Refreshing(p)
      BY <2>1 DEF Refreshing
    <3>4. OneAtATime'
      BY <1>3, <2>2, <3>2 DEF OneAtATime
    <3>5. RowsFound' /\ RowsApart'
      BY <1>3, <1>7, <2>2, <3>3 DEF RowsFound, RowsApart, FindsItsRow
    <3> QED BY <3>1, <3>4, <3>5
  <2> QED BY <1>5, <1>7, <2>2
<1>8. ASSUME NEW q \in Requests, NEW d \in Devices, S!Login(q, d)
      PROVE  Ledger' /\ (InTurn => Turns')
  <2> DEFINE r == [pc |-> "create", device |-> d, row |-> S!None, token |-> now]
  <2>1. r \in Refreshes /\ r.pc = "create" /\ r.device = d
    BY <1>1 DEF Refreshes, SessionTypes
  <2>2. /\ req' = [req EXCEPT ![q] = r] /\ UNCHANGED <<now, session, logins, holds>>
        /\ req[q].pc = "done" /\ S!MaySend(d)
    BY <1>8 DEF S!Login
  <2> HIDE DEF r
  <2>3. /\ req'[q].pc = "create" /\ req'[q].device = d
        /\ \A p \in Requests : p # q => req'[p] = req[p]
    BY <1>1, <2>1, <2>2, RequestBecomes DEF Becomes
  <2>4. ASSUME InTurn PROVE Turns'
    <3>1. \A p \in Requests : req[p].pc # "done" => req[p].device # d
      BY <2>2, <2>4 DEF InTurn, S!MaySend, S!InFlight
    <3>2. Backed' /\ ClaimedOnce'
      BY <1>1, <1>3, <2>2, <2>3, <2>4, QuietRequest
    <3>3. \A p \in Requests : Refreshing(p)' => p # q /\ req'[p] = req[p] /\ Refreshing(p)
      BY <2>3 DEF Refreshing
    <3>4. OneAtATime'
      BY <1>3, <2>3, <2>4, <3>1 DEF OneAtATime
    <3>5. RowsFound' /\ RowsApart'
      BY <1>3, <2>2, <2>4, <3>3 DEF RowsFound, RowsApart, FindsItsRow
    <3> QED BY <3>2, <3>4, <3>5
  <2> QED BY <1>5, <2>2, <2>4
<1>9. ASSUME NEW q \in Requests, NEW d \in Devices, S!Refresh(q, d)
      PROVE  Ledger' /\ (InTurn => Turns')
  <2>1. PICK i \in S!Rows(holds[d]) : req' = [req EXCEPT ![q] =
               [pc |-> "user", device |-> d, row |-> i, token |-> holds[d]]]
    BY <1>9 DEF S!Refresh
  <2> DEFINE r == [pc |-> "user", device |-> d, row |-> i, token |-> holds[d]]
  <2>2. /\ UNCHANGED <<now, session, logins, holds>> /\ req[q].pc = "done" /\ S!MaySend(d)
        /\ holds[d] \in S!Seconds /\ holds[d] # S!None /\ Valid(holds[d])
        /\ i \in S!Logins /\ session[i].hash = holds[d]
    BY <1>1, <1>9 DEF S!Refresh, S!Rows, SessionTypes, Valid
  <2>3. r \in Refreshes /\ r.pc = "user" /\ r.device = d /\ r.row = i
    BY <2>2 DEF Refreshes
  <2>4. req' = [req EXCEPT ![q] = r]
    BY <2>1
  <2> HIDE DEF r
  <2>5. /\ req'[q].pc = "user" /\ req'[q].device = d /\ req'[q].row = i
        /\ \A p \in Requests : p # q => req'[p] = req[p]
    BY <1>1, <2>3, <2>4, RequestBecomes DEF Becomes
  <2>6. ASSUME InTurn PROVE Turns'
    <3>1. \A p \in Requests : req[p].pc # "done" => req[p].device # d
      BY <2>2, <2>6 DEF InTurn, S!MaySend, S!InFlight
    <3>2. Backed' /\ ClaimedOnce'
      BY <1>1, <1>3, <2>2, <2>5, <2>6, QuietRequest
    <3>3. OneAtATime'
      BY <1>3, <2>5, <2>6, <3>1 DEF OneAtATime
    <3>4. i \in 1 .. logins
      <4>1. session[i] # S!NoRow
        BY <1>1, <2>2, SecondsTyped
      <4> QED BY <1>1, <2>2, <4>1 DEF Ledger, S!Logins, SessionTypes
    <3>5. RowsFound'
      BY <1>3, <2>2, <2>5, <2>6, <3>4 DEF RowsFound, FindsItsRow, Refreshing
    <3>6. \A p \in Requests : Refreshing(p) => req[p].row # i
      <4>1. SUFFICES ASSUME NEW p \in Requests, Refreshing(p), req[p].row = i PROVE FALSE
        OBVIOUS
      <4>2. PICK e \in Devices : e = req[p].device
        BY <1>1, <4>1, RequestsTyped DEF Refreshing
      <4>3. session[i] # S!NoRow /\ holds[e] = holds[d] /\ e # d
        BY <1>1, <1>3, <2>2, <2>6, <3>1, <4>1, <4>2, SecondsTyped
        DEF RowsFound, FindsItsRow, Refreshing
      <4>4. ~Answered(e) /\ ~Answered(d)
        <5>1. \A z \in Requests : req[z].pc # "done" /\ req[z].device = e => z = p
          BY <1>3, <2>6, <4>1, <4>2 DEF OneAtATime, Refreshing
        <5> QED BY <3>1, <4>1, <5>1 DEF Answered, Refreshing
      <4>5. Claims(e, holds[d]) /\ Claims(d, holds[d])
        BY <4>3, <4>4 DEF Claims
      <4> QED BY <1>3, <2>2, <2>6, <4>3, <4>5 DEF ClaimedOnce
    <3>7. RowsApart'
      BY <1>3, <2>5, <2>6, <3>6 DEF RowsApart, Refreshing
    <3> QED BY <3>2, <3>3, <3>5, <3>7
  <2> QED BY <1>5, <2>2, <2>6
<1>10. ASSUME NEW q \in Requests, S!ReadUser(q)
       PROVE  Ledger' /\ (InTurn => Turns')
  <2>1. req[q].pc = "user" /\ UNCHANGED <<now, session, logins, holds>>
    BY <1>10 DEF S!ReadUser
  <2>2. CASE S!Ends(q)
    BY <1>7, <2>1, <2>2
  <2>3. CASE req' = [req EXCEPT ![q] = [req[q] EXCEPT !.pc = "rotate", !.token = now]]
    <3> DEFINE r == [req[q] EXCEPT !.pc = "rotate", !.token = now]
    <3>1. /\ r \in Refreshes /\ r.pc = "rotate" /\ r.device = req[q].device
          /\ r.row = req[q].row
      <4>1. now \in S!Seconds /\ req[q] \in Refreshes
        BY <1>1, <2>1, RequestsTyped DEF SessionTypes
      <4> QED BY <4>1, SessionUpdated
    <3>2. req' = [req EXCEPT ![q] = r]
      BY <2>3
    <3> HIDE DEF r
    <3>3. /\ req'[q].pc = "rotate" /\ req'[q].device = req[q].device
          /\ req'[q].row = req[q].row
          /\ \A p \in Requests : p # q => req'[p] = req[p]
      BY <1>1, <3>1, <3>2, RequestBecomes DEF Becomes
    <3>4. ASSUME InTurn PROVE Turns'
      <4>1. Backed' /\ ClaimedOnce'
        BY <1>1, <1>3, <2>1, <3>3, <3>4, QuietRequest
      <4>2. \A p \in Requests : /\ req'[p].device = req[p].device /\ req'[p].row = req[p].row
                                /\ req'[p].pc # "done" => req[p].pc # "done"
                                /\ Refreshing(p)' => Refreshing(p)
        BY <2>1, <3>3 DEF Refreshing
      <4>3. OneAtATime' /\ RowsApart'
        BY <1>3, <3>4, <4>2 DEF OneAtATime, RowsApart
      <4>4. RowsFound'
        BY <1>3, <2>1, <3>4, <4>2 DEF RowsFound, FindsItsRow
      <4> QED BY <4>1, <4>3, <4>4
    <3> QED BY <1>5, <2>1, <3>4
  <2> QED BY <1>10, <2>2, <2>3 DEF S!ReadUser
<1>11. ASSUME NEW q \in Requests, S!CreateSession(q)
       PROVE  Ledger' /\ (InTurn => Turns')
  <2>1. req[q].pc = "create" /\ logins < MaxLogins /\ UNCHANGED <<now, holds>>
    BY <1>11 DEF S!CreateSession
  <2>2. CASE S!Ends(q) /\ UNCHANGED <<session, logins>>
    BY <1>7, <2>1, <2>2
  <2>3. CASE /\ S!Unused(req[q].token)
             /\ logins' = logins + 1
             /\ session' = [session EXCEPT ![logins + 1] = S!Row(req[q].token)]
             /\ req' = [req EXCEPT ![q].pc = "answer"]
    <3> DEFINE r == [req[q] EXCEPT !.pc = "answer"]
    <3>1. req[q] \in Refreshes /\ req[q].token \in S!Seconds
      BY <1>1, <2>1, RequestsTyped
    <3>2. /\ r \in Refreshes /\ r.pc = "answer" /\ r.device = req[q].device
          /\ r.token = req[q].token
      BY <3>1, SessionUpdated
    <3>3. req' = [req EXCEPT ![q] = r]
      BY <2>3
    <3> HIDE DEF r
    <3>4. /\ req'[q].pc = "answer" /\ req'[q].device = req[q].device
          /\ req'[q].token = req[q].token
          /\ \A p \in Requests : p # q => req'[p] = req[p]
      BY <1>1, <3>2, <3>3, RequestBecomes DEF Becomes
    <3>5. PICK i \in S!Logins : i = logins + 1
      BY <1>1, <2>1 DEF S!Logins, SessionTypes, SessionConstants
    <3>6. i > logins /\ logins <= logins' /\ i <= logins'
      BY <1>1, <2>3, <3>5, SecondsTyped
    <3>7. session[i] = S!NoRow
      BY <1>1, <3>6, SecondsTyped DEF Ledger
    <3>8. session' = [session EXCEPT ![i] = S!Row(req[q].token)]
      BY <2>3, <3>5
    <3>9. \A j \in S!Logins : \/ session'[j] = session[j]
                              \/ j <= logins' /\ session'[j] = S!Row(req[q].token)
      BY <1>1, <3>6, <3>8 DEF SessionTypes
    <3>10. Ledger'
      BY <1>1, <3>1, <3>6, <3>9, LedgerNext
    <3>11. S!Rows(req[q].token) = {}
      BY <2>3 DEF S!Unused
    <3>12. ASSUME InTurn PROVE Turns'
      BY <1>1, <1>3, <2>1, <3>4, <3>6, <3>7, <3>8, <3>11, <3>12, RowIsWritten
    <3> QED BY <3>10, <3>12
  <2> QED BY <1>11, <2>2, <2>3 DEF S!CreateSession
<1>12. ASSUME NEW q \in Requests, S!Rotate(q)
       PROVE  Ledger' /\ (InTurn => Turns')
  <2>1. req[q].pc = "rotate" /\ UNCHANGED <<now, logins, holds>>
    BY <1>12 DEF S!Rotate
  <2>2. CASE S!Ends(q) /\ UNCHANGED session
    BY <1>7, <2>1, <2>2
  <2>3. CASE /\ S!Rotatable(req[q].row, req[q].token)
             /\ session' = [session EXCEPT ![req[q].row] = S!Row(req[q].token)]
             /\ req' = [req EXCEPT ![q].pc = "answer"]
    <3> DEFINE r == [req[q] EXCEPT !.pc = "answer"]
    <3>1. req[q] \in Refreshes /\ req[q].token \in S!Seconds
      BY <1>1, <2>1, RequestsTyped
    <3>2. /\ r \in Refreshes /\ r.pc = "answer" /\ r.device = req[q].device
          /\ r.token = req[q].token
      BY <3>1, SessionUpdated
    <3>3. req' = [req EXCEPT ![q] = r]
      BY <2>3
    <3> HIDE DEF r
    <3>4. /\ req'[q].pc = "answer" /\ req'[q].device = req[q].device
          /\ req'[q].token = req[q].token
          /\ \A p \in Requests : p # q => req'[p] = req[p]
      BY <1>1, <3>2, <3>3, RequestBecomes DEF Becomes
    <3>5. session[req[q].row] # S!NoRow /\ S!Rows(req[q].token) \subseteq {req[q].row}
      BY <2>3 DEF S!Rotatable
    <3>6. logins <= logins'
      BY <1>1, <2>1, SecondsTyped
    <3>7. Ledger'
      <4>1. \A j \in S!Logins :
              \/ session'[j] = session[j]
              \/ j = req[q].row /\ session'[j] = S!Row(req[q].token)
        BY <1>1, <2>3 DEF SessionTypes
      <4>2. \A j \in S!Logins : j = req[q].row => j <= logins'
        BY <1>1, <2>1, <3>5 DEF Ledger
      <4> QED BY <1>1, <3>1, <3>6, <4>1, <4>2, LedgerNext
    <3>8. ASSUME InTurn PROVE Turns'
      <4>1. Refreshing(q)
        BY <2>1 DEF Refreshing
      <4>2. PICK i \in S!Logins : i = req[q].row
        BY <1>1, <1>3, <3>8, <4>1
        DEF RowsFound, FindsItsRow, SessionTypes, S!Logins, SessionConstants
      <4>3. session' = [session EXCEPT ![i] = S!Row(req[q].token)]
        BY <2>3, <4>2
      <4>4. session[i] # S!NoRow /\ S!Rows(req[q].token) \subseteq {i}
        BY <3>5, <4>2
      <4> QED BY <1>1, <1>3, <2>1, <3>4, <3>6, <3>8, <4>1, <4>2, <4>3, <4>4, RowIsWritten
    <3> QED BY <3>7, <3>8
  <2> QED BY <1>12, <2>2, <2>3 DEF S!Rotate
<1>13. ASSUME NEW q \in Requests, S!Answer(q)
       PROVE  Ledger' /\ (InTurn => Turns')
  <2>1. req[q].pc = "answer" /\ S!Ends(q) /\ UNCHANGED <<regime, now, session, logins>>
    BY <1>13 DEF S!Answer
  <2>2. /\ req'[q].pc = "done" /\ \A p \in Requests : p # q => req'[p] = req[p]
    BY <1>1, <2>1, RequestBecomes DEF S!Ends, Becomes, S!Done
  <2>3. ASSUME InTurn PROVE Turns'
    <3>1. PICK d \in Devices : d = req[q].device
      BY <1>1, <2>1, RequestsTyped
    <3>2. PICK t \in S!Seconds : t = req[q].token
      BY <1>1, <2>1, RequestsTyped
    <3>3. holds'[d] = t /\ \A e \in Devices : e # d => holds'[e] = holds[e]
      BY <1>1, <1>13, <2>3, <3>1, <3>2 DEF S!Answer, InTurn, SessionTypes
    <3>4. \A p \in Requests : req[p].pc # "done" /\ req[p].device = d => p = q
      BY <1>3, <2>1, <2>3, <3>1 DEF OneAtATime
    <3>5. \A e \in Devices : e # d => (Answered(e)' <=> Answered(e))
      BY <2>1, <2>2, <3>1 DEF Answered
    <3>6. ~Answered(d)'
      BY <2>1, <2>2, <3>4 DEF Answered
    <3>7. \A u : Claims(d, u)' => u = t
      BY <3>3, <3>6 DEF Claims, Answered
    <3>8. Claims(d, t)
      BY <2>1, <3>1, <3>2 DEF Claims
    <3>9. \A e \in Devices, u \in S!Seconds : e # d => (Claims(e, u)' => Claims(e, u))
      BY <2>2, <3>3, <3>5 DEF Claims
    <3>10. \A e \in Devices, u \in S!Seconds : Claims(e, u)' => Claims(e, u)
      BY <3>7, <3>8, <3>9
    <3>11. Backed' /\ ClaimedOnce'
      BY <1>3, <2>1, <2>3, <3>10 DEF Backed, ClaimedOnce, Valid, S!Rows
    <3>12. \A p \in Requests : req'[p].pc # "done" =>
              p # q /\ req'[p] = req[p] /\ req[p].pc # "done" /\ req[p].device # d
      BY <2>2, <3>4
    <3>13. \A p \in Requests : Refreshing(p)' =>
              p # q /\ req'[p] = req[p] /\ Refreshing(p) /\ req[p].device # d
      BY <3>12 DEF Refreshing
    <3>14. OneAtATime' /\ RowsApart'
      BY <1>3, <2>3, <3>12, <3>13 DEF OneAtATime, RowsApart
    <3>15. RowsFound'
      <4>1. SUFFICES ASSUME NEW p \in Requests, Refreshing(p)' PROVE FindsItsRow(p)'
        BY DEF RowsFound
      <4>2. /\ req'[p] = req[p] /\ FindsItsRow(p) /\ req[p].device # d
            /\ req[p].device \in Devices
        BY <1>1, <1>3, <2>3, <3>13, <4>1, RequestsTyped DEF RowsFound, Refreshing
      <4> QED BY <2>1, <3>3, <4>2 DEF FindsItsRow
    <3> QED BY <3>11, <3>14, <3>15
  <2> QED BY <1>5, <2>1, <2>3
<1>14. ASSUME NEW q \in Requests, S!Abort(q)
       PROVE  Ledger' /\ (InTurn => Turns')
  <2>1. S!Ends(q) /\ UNCHANGED <<now, session, logins, holds>> /\ req[q].pc # "answer"
    BY <1>14 DEF S!Abort
  <2> QED BY <1>7, <2>1
<1>15. ASSUME NEW d \in Devices, S!RefreshIsRefused(d)
       PROVE  Ledger' /\ (InTurn => Turns')
  <2>1. UNCHANGED <<now, session, logins, req>> /\ holds' = [holds EXCEPT ![d] = S!None]
        /\ S!MaySend(d)
    BY <1>15 DEF S!RefreshIsRefused
  <2>2. ASSUME InTurn PROVE Turns'
    <3>1. \A e \in Devices : holds'[e] = holds[e] \/ (holds'[e] = S!None /\ ~S!InFlight(e))
      BY <1>1, <2>1, <2>2 DEF InTurn, S!MaySend, SessionTypes
    <3>2. now <= now' /\ {} \in SUBSET S!Logins
      BY <1>1, <2>1, SecondsTyped
    <3>3. \A e \in Devices, t \in S!Seconds :
            Claims(e, t)' /\ Valid(t) => \A i \in {} : session[i].hash # t
      OBVIOUS
    <3> QED BY <1>1, <1>3, <2>1, <2>2, <3>1, <3>2, <3>3, RowsGo
  <2> QED BY <1>5, <2>1, <2>2
<1>16. ASSUME NEW d \in Devices, S!Logout(d)
       PROVE  Ledger' /\ (InTurn => Turns')
  <2>1. /\ UNCHANGED <<now, logins, req>> /\ holds' = [holds EXCEPT ![d] = S!None]
        /\ S!MaySend(d) /\ session' = S!Without(S!Rows(holds[d]))
        /\ holds[d] \in S!Seconds
    BY <1>1, <1>16 DEF S!Logout, SessionTypes
  <2>2. ASSUME InTurn PROVE Turns'
    <3>1. ~S!InFlight(d)
      BY <2>1, <2>2 DEF InTurn, S!MaySend
    <3>2. \A e \in Devices : holds'[e] = holds[e] \/ (holds'[e] = S!None /\ ~S!InFlight(e))
      BY <1>1, <2>1, <3>1 DEF SessionTypes
    <3>3. now <= now' /\ S!Rows(holds[d]) \in SUBSET S!Logins
      BY <1>1, <2>1, SecondsTyped DEF S!Rows
    <3>4. \A e \in Devices, t \in S!Seconds :
            Claims(e, t)' /\ Valid(t) => \A i \in S!Rows(holds[d]) : session[i].hash # t
      <4>1. SUFFICES ASSUME NEW e \in Devices, NEW t \in S!Seconds, Claims(e, t)', Valid(t)
                     PROVE  t # holds[d]
        BY DEF S!Rows
      <4>2. ~Answered(d) /\ ~Answered(d)'
        BY <2>1, <3>1 DEF Answered, S!InFlight
      <4>3. CASE e = d
        BY <1>1, <2>1, <4>1, <4>2, <4>3, SecondsTyped DEF Claims, Answered, SessionTypes
      <4>4. CASE e # d
        <5>1. holds'[e] = holds[e] /\ (Answered(e)' <=> Answered(e))
          BY <1>1, <2>1, <4>4 DEF SessionTypes, Answered
        <5>2. Claims(e, t)
          BY <2>1, <4>1, <5>1 DEF Claims
        <5>3. t = holds[d] => Claims(d, t)
          BY <4>2 DEF Claims
        <5> QED BY <1>3, <2>2, <4>1, <4>4, <5>2, <5>3 DEF ClaimedOnce
      <4> QED BY <4>3, <4>4
    <3> QED BY <1>1, <1>3, <2>1, <2>2, <3>2, <3>3, <3>4, RowsGo
  <2> QED BY <1>6, <2>1, <2>2
<1>17. CASE S!CleanUp
  <2>1. /\ UNCHANGED <<now, logins, holds, req>>
        /\ session' = S!Without({i \in S!Logins : session[i].expires < now})
    BY <1>17 DEF S!CleanUp
  <2> DEFINE gone == {i \in S!Logins : session[i].expires < now}
  <2>2. ASSUME InTurn PROVE Turns'
    <3>1. now <= now' /\ gone \in SUBSET S!Logins
      BY <1>1, <2>1, SecondsTyped
    <3>2. \A d \in Devices, t \in S!Seconds :
            Claims(d, t)' /\ Valid(t) => \A i \in gone : session[i].hash # t
      <4>1. SUFFICES ASSUME NEW t \in S!Seconds, Valid(t), NEW i \in S!Logins,
                            session[i].hash = t
                     PROVE  ~(session[i].expires < now)
        OBVIOUS
      <4>2. session[i].expires = t + TokenLife
        BY <1>1, <4>1, SecondsTyped DEF Ledger
      <4> QED BY <1>1, <4>1, <4>2, SecondsTyped DEF Valid
    <3>3. session' = S!Without(gone)
      BY <2>1
    <3> HIDE DEF gone
    <3> QED BY <1>1, <1>3, <2>1, <2>2, <3>1, <3>2, <3>3, RowsGo
  <2> QED BY <1>6, <2>1, <2>2
<1>18. CASE S!Block \/ S!Tick \/ UNCHANGED S!vars
  <2>1. UNCHANGED <<session, logins, holds, req>>
    BY <1>18 DEF S!Block, S!Tick, S!vars
  <2>2. now <= now'
    BY <1>1, <1>18, SecondsTyped DEF S!Block, S!Tick, S!vars
  <2>3. ASSUME InTurn PROVE Turns'
    <3>1. \A e \in Devices, t \in S!Seconds :
            Claims(e, t)' /\ Valid(t) => \A i \in {} : session[i].hash # t
      OBVIOUS
    <3>2. {} \in SUBSET S!Logins
      OBVIOUS
    <3>3. \A e \in Devices : holds'[e] = holds[e] \/ (holds'[e] = S!None /\ ~S!InFlight(e))
      BY <2>1
    <3> QED BY <1>1, <1>3, <2>1, <2>2, <2>3, <3>1, <3>2, <3>3, RowsGo
  <2> QED BY <1>5, <2>1, <2>3
<1> QED
  BY <1>8, <1>9, <1>10, <1>11, <1>12, <1>13, <1>14, <1>15, <1>16, <1>17, <1>18 DEF S!Next

LEMMA SessionInvariantInit == S!Init => SessionInvariant
<1> SUFFICES ASSUME S!Init PROVE SessionInvariant
  OBVIOUS
<1>1. SessionTypes /\ Ledger
  BY ConstantsTyped DEF S!Init, SessionTypes, Ledger, S!Seconds, SessionConstants
<1>2. \A q \in Requests : req[q].pc = "done"
  BY DEF S!Init, S!Done
<1>3. OneAtATime /\ RowsFound /\ RowsApart
  BY <1>2 DEF OneAtATime, RowsFound, RowsApart, Refreshing
<1>4. \A d \in Devices, t \in S!Seconds : ~Claims(d, t)
  BY <1>1, <1>2, SecondsTyped, ConstantsTyped DEF S!Init, Claims
<1>5. Backed /\ ClaimedOnce
  BY <1>4 DEF Backed, ClaimedOnce
<1> QED BY <1>1, <1>3, <1>5 DEF SessionInvariant

(* The refresh tokens of a wallet, for any devices, lifetimes and requests:*)
(* a device that sends one request at a time and gets every answer holds a *)
(* token that is in the table until it expires, whatever the other devices *)
(* do and whatever fails.                                                  *)
THEOREM HoldersKeepSessions == Spec => []HolderIsNotLockedOut
<1> DEFINE Inv == service = "Sessions" => SessionInvariant
<1>1. SessionInvariant => S!HolderIsNotLockedOut
  <2>1. SUFFICES ASSUME SessionInvariant, InTurn, NEW d \in Devices, holds[d] # S!None,
                        ~S!InFlight(d), now < holds[d] + TokenLife
                 PROVE  S!Rows(holds[d]) # {}
    BY DEF S!HolderIsNotLockedOut, InTurn
  <2>2. holds[d] \in S!Seconds /\ Valid(holds[d])
    BY <2>1 DEF SessionInvariant, SessionTypes, Valid
  <2>3. Claims(d, holds[d])
    BY <2>1 DEF Claims, Answered, S!InFlight
  <2> QED BY <2>1, <2>2, <2>3 DEF SessionInvariant, Backed
<1>2. Init => Inv
  BY SessionInvariantInit DEF Init
<1>3. Inv /\ [Next]_vars => Inv'
  BY Exercised, SessionInvariantNext, ConstantsTyped
<1>4. Inv => HolderIsNotLockedOut
  BY <1>1 DEF HolderIsNotLockedOut
<1> QED BY <1>2, <1>3, <1>4, PTL DEF Spec

-----------------------------------------------------------------------------
(* MerchantStats.                                                          *)

LEMMA MerchantsAreCounted == ASSUME NEW set PROVE M!Cardinality(set) = Cardinality(set)
  BY DEF M!Cardinality, Cardinality

(* Who comes before m, and what it takes for figures to be ranked.         *)
Before(figures, place, m) ==
  {n \in DOMAIN figures : \/ figures[n] > figures[m]
                          \/ figures[n] = figures[m] /\ place[n] < place[m]}
Rankable(P, figures, place) ==
  /\ IsFiniteSet(P) /\ DOMAIN figures = P
  /\ \A m \in P : figures[m] \in Int /\ place[m] \in Int
  /\ \A m, n \in P : place[m] = place[n] => m = n

LEMMA RankIsCount ==
  ASSUME NEW figures, NEW place, NEW m
  PROVE  M!rankOf(figures, place, m) = 1 + Cardinality(Before(figures, place, m))
  BY MerchantsAreCounted DEF M!rankOf, Before

LEMMA RankInRange ==
  ASSUME NEW P, NEW figures, NEW place, Rankable(P, figures, place), NEW m \in P
  PROVE  M!rankOf(figures, place, m) \in 1 .. Cardinality(P)
<1> DEFINE Ahead == Before(figures, place, m)
<1>1. Ahead \subseteq P \ {m}
  BY DEF Before, Rankable
<1>2. /\ IsFiniteSet(P) /\ Cardinality(P) \in Nat
      /\ IsFiniteSet(P \ {m}) /\ Cardinality(P \ {m}) = Cardinality(P) - 1
  BY FS_CardinalityType, FS_RemoveElement DEF Rankable
<1>3. Cardinality(Ahead) \in Nat /\ Cardinality(Ahead) <= Cardinality(P) - 1
  BY <1>1, <1>2, FS_Subset, FS_CardinalityType
<1> HIDE DEF Ahead
<1> QED BY <1>2, <1>3, RankIsCount DEF Ahead

LEMMA RanksDescend ==
  ASSUME NEW P, NEW figures, NEW place, Rankable(P, figures, place),
         NEW m \in P, NEW n \in P, n \in Before(figures, place, m)
  PROVE  M!rankOf(figures, place, n) < M!rankOf(figures, place, m)
<1> DEFINE Ahead == Before(figures, place, m)
           Fewer == Before(figures, place, n)
<1>1. Fewer \subseteq Ahead \ {n}
  BY DEF Before, Rankable
<1>2. IsFiniteSet(Ahead)
  <2>1. Ahead \subseteq P
    BY DEF Before, Rankable
  <2> QED BY <2>1, FS_Subset DEF Rankable
<1>3. /\ IsFiniteSet(Ahead \ {n}) /\ Cardinality(Ahead \ {n}) = Cardinality(Ahead) - 1
      /\ Cardinality(Ahead) \in Nat
  BY <1>2, FS_RemoveElement, FS_CardinalityType
<1>4. Cardinality(Fewer) <= Cardinality(Ahead) - 1 /\ Cardinality(Fewer) \in Nat
  BY <1>1, <1>3, FS_Subset, FS_CardinalityType
<1> HIDE DEF Ahead, Fewer
<1> QED BY <1>3, <1>4, RankIsCount DEF Ahead, Fewer

LEMMA RanksAreApart ==
  ASSUME NEW P, NEW figures, NEW place, Rankable(P, figures, place),
         NEW m \in P, NEW n \in P
  PROVE  /\ M!rankOf(figures, place, m) = M!rankOf(figures, place, n) => m = n
         /\ M!rankOf(figures, place, m) < M!rankOf(figures, place, n)
              => figures[m] >= figures[n]
<1>1. \/ m = n
      \/ n \in Before(figures, place, m)
      \/ m \in Before(figures, place, n)
  BY DEF Before, Rankable
<1>2. /\ M!rankOf(figures, place, m) \in Int /\ M!rankOf(figures, place, n) \in Int
  BY RankInRange
<1>3. m \in Before(figures, place, n) => figures[m] >= figures[n]
  BY DEF Before, Rankable
<1> QED BY <1>1, <1>2, <1>3, RanksDescend

(* Every rank is given.                                                    *)
LEMMA RanksAreGiven ==
  ASSUME NEW P, NEW figures, NEW place, Rankable(P, figures, place),
         NEW r \in 1 .. Cardinality(P)
  PROVE  \E m \in P : M!rankOf(figures, place, m) = r
<1> DEFINE Ranks == 1 .. Cardinality(P)
           f == [m \in P |-> M!rankOf(figures, place, m)]
<1>1. IsFiniteSet(P) /\ Cardinality(P) \in Nat
  BY FS_CardinalityType DEF Rankable
<1>2. IsFiniteSet(Ranks) /\ Cardinality(Ranks) = Cardinality(P)
  BY <1>1, FS_Interval
<1>3. f \in [P -> Ranks] /\ \A m, n \in P : f[m] = f[n] => m = n
  BY RankInRange, RanksAreApart
<1>4. f \in Injection(P, Ranks)
  BY <1>3 DEF Injection, IsInjective
<1>5. f \in Surjection(P, Ranks)
  <2> HIDE DEF f, Ranks
  <2> QED BY <1>1, <1>2, <1>4, FS_Injection
<1> QED BY <1>5 DEF Surjection

(* P list holds who has rank k or less, each once, as ranked.              *)
Listed(list, P, figures, place, k) ==
  /\ \A e \in list :
       /\ e.merchant \in P /\ e.figure = figures[e.merchant]
       /\ e.rank = M!rankOf(figures, place, e.merchant) /\ e.rank <= k
  /\ \A d, e \in list : d.merchant = e.merchant => d = e
  /\ \A m \in P : M!rankOf(figures, place, m) <= k => \E e \in list : e.merchant = m

(* What a list of all of P is to be.                                       *)
Ranking(list, P) ==
  /\ {e.merchant : e \in list} = P
  /\ Cardinality(list) = Cardinality(P)
  /\ {e.rank : e \in list} = 1 .. Cardinality(P)
  /\ \A d, e \in list : d.rank < e.rank => d.figure >= e.figure

LEMMA NothingListed ==
  ASSUME NEW P, NEW figures, NEW place, Rankable(P, figures, place)
  PROVE  Listed({}, P, figures, place, 0)
<1>1. \A m \in P : ~(M!rankOf(figures, place, m) <= 0)
  BY RankInRange
<1> QED BY <1>1 DEF Listed

LEMMA AllListed ==
  ASSUME NEW P, NEW figures, NEW place, Rankable(P, figures, place),
         NEW list, NEW k \in Nat, Listed(list, P, figures, place, k),
         k >= Cardinality(P)
  PROVE  Ranking(list, P)
<1>0. IsFiniteSet(P) /\ Cardinality(P) \in Nat
  BY FS_CardinalityType DEF Rankable
<1>1. \A m \in P : \E e \in list : e.merchant = m
  <2>1. \A m \in P : M!rankOf(figures, place, m) <= k
    BY <1>0, RankInRange
  <2> QED BY <2>1 DEF Listed
<1>2. \A e \in list : e.merchant \in P
  BY DEF Listed
<1>3. Cardinality(list) = Cardinality(P)
  <2> DEFINE f == [e \in list |-> e.merchant]
  <2>1. f \in [list -> P] /\ \A d, e \in list : f[d] = f[e] => d = e
    BY DEF Listed
  <2>2. f \in Injection(list, P)
    BY <2>1 DEF Injection, IsInjective
  <2>3. f \in Surjection(list, P)
    BY <1>1, <2>1 DEF Surjection
  <2> HIDE DEF f
  <2> QED BY <1>0, <2>2, <2>3, FS_Injection
<1>4. {e.rank : e \in list} = 1 .. Cardinality(P)
  <2>1. \A e \in list : e.rank \in 1 .. Cardinality(P)
    BY RankInRange DEF Listed
  <2>2. ASSUME NEW r \in 1 .. Cardinality(P)
        PROVE  \E e \in list : e.rank = r
    <3>1. PICK m \in P : M!rankOf(figures, place, m) = r
      BY RanksAreGiven
    <3>2. PICK e \in list : e.merchant = m
      BY <1>1
    <3> QED BY <3>1, <3>2 DEF Listed
  <2> QED BY <2>1, <2>2
<1>5. ASSUME NEW d \in list, NEW e \in list, d.rank < e.rank
      PROVE  d.figure >= e.figure
  BY <1>5, RanksAreApart DEF Listed
<1> QED BY <1>1, <1>2, <1>3, <1>4, <1>5 DEF Ranking

(* The page that follows a list makes a longer one.                        *)
PageAfter(k, limit, P, figures, place) ==
  {[page |-> k, merchant |-> m, figure |-> figures[m],
    rank |-> M!rankOf(figures, place, m)] :
     m \in {m \in P : M!rankOf(figures, place, m) \in M!pageOf(k, limit)}}

LEMMA ListedFurther ==
  ASSUME NEW P, NEW figures, NEW place, Rankable(P, figures, place),
         NEW list, NEW k \in Nat, NEW limit \in Nat, Listed(list, P, figures, place, k)
  PROVE  Listed(list \cup PageAfter(k, limit, P, figures, place),
                P, figures, place, k + limit)
<1> DEFINE Further == PageAfter(k, limit, P, figures, place)
<1>1. ASSUME NEW e \in Further
      PROVE  /\ e.merchant \in P /\ e.figure = figures[e.merchant]
             /\ e.rank = M!rankOf(figures, place, e.merchant)
             /\ e.rank \in k + 1 .. k + limit
             /\ e = [page |-> k, merchant |-> e.merchant, figure |-> figures[e.merchant],
                     rank |-> M!rankOf(figures, place, e.merchant)]
  BY DEF PageAfter, M!pageOf
<1>2. ASSUME NEW m \in P, M!rankOf(figures, place, m) <= k + limit
      PROVE  \E e \in list \cup Further : e.merchant = m
  <2>1. M!rankOf(figures, place, m) \in Nat
    BY RankInRange
  <2>2. CASE M!rankOf(figures, place, m) <= k
    BY <2>2 DEF Listed
  <2>3. CASE M!rankOf(figures, place, m) > k
    <3>1. M!rankOf(figures, place, m) \in k + 1 .. k + limit
      BY <1>2, <2>1, <2>3
    <3> DEFINE e == [page |-> k, merchant |-> m, figure |-> figures[m],
                     rank |-> M!rankOf(figures, place, m)]
    <3>2. e \in Further /\ e.merchant = m
      BY <3>1 DEF PageAfter, M!pageOf
    <3> HIDE DEF e, Further
    <3> QED BY <3>2
  <2> QED BY <2>1, <2>2, <2>3
<1> HIDE DEF Further
<1>3. ASSUME NEW d \in list \cup Further, NEW e \in list \cup Further, d.merchant = e.merchant
      PROVE  d = e
  <2>1. \A x \in list : x.rank = M!rankOf(figures, place, x.merchant) /\ x.rank <= k
    BY DEF Listed
  <2>2. d \in list <=> e \in list
    BY <1>1, <1>3, <2>1
  <2> QED BY <1>1, <1>3, <2>2 DEF Listed
<1>4. ASSUME NEW e \in list \cup Further
      PROVE  /\ e.merchant \in P /\ e.figure = figures[e.merchant]
             /\ e.rank = M!rankOf(figures, place, e.merchant) /\ e.rank <= k + limit
  <2>1. CASE e \in list
    <3>1. /\ e.merchant \in P /\ e.figure = figures[e.merchant]
          /\ e.rank = M!rankOf(figures, place, e.merchant) /\ e.rank <= k
      BY <2>1 DEF Listed
    <3>2. e.rank \in Int
      BY <3>1, RankInRange
    <3> QED BY <3>1, <3>2
  <2> QED BY <1>1, <2>1
<1>5. Listed(list \cup Further, P, figures, place, k + limit)
  BY <1>2, <1>3, <1>4 DEF Listed
<1> QED BY <1>5 DEF Further

(* What is summed over loans is the sum of Induction.                      *)
LEMMA VolumesAdd ==
  ASSUME NEW f, NEW All
  PROVE  M!SumFunctionOnSet(f, All) = SumOver(f, All)
  BY DEF M!SumFunctionOnSet, M!FoldFunctionOnSet, M!MapThenFoldSet, SumOver

LEMMA SaleConstants ==
  /\ MerchantStatsConstants /\ IsFiniteSet(Merchants) /\ IsFiniteSet(Sales)
  /\ Volume \in [Sales -> Nat] /\ Created \in [Sales -> Nat]
  BY ConstantsAssumption DEF ConstantsAssumption, MerchantStatsConstants

LEMMA SalesOf ==
  ASSUME NEW t, NEW m, NEW statuses
  PROVE  /\ M!Of(t, m, statuses) \subseteq Sales
         /\ IsFiniteSet(M!Of(t, m, statuses))
         /\ Cardinality(M!Of(t, m, statuses)) \in Nat
<1>1. M!Of(t, m, statuses) \subseteq Sales
  BY DEF M!Of
<1> QED BY <1>1, SaleConstants, FS_Subset, FS_CardinalityType

(* Parts of the loans of a merchant.                                       *)
LEMMA PartsOfSales ==
  ASSUME NEW t, NEW m
  PROVE  /\ Cardinality(M!Of(t, m, {"completed"})) + Cardinality(M!Of(t, m, {"defaulted"}))
              <= Cardinality(M!Of(t, m, M!Statuses))
<1> DEFINE All == M!Of(t, m, M!Statuses)
           Good == M!Of(t, m, {"completed"})
           Bad == M!Of(t, m, {"defaulted"})
<1>1. Good \cup Bad \subseteq All /\ Good \cap Bad = {}
  BY DEF M!Of, M!Statuses
<1>2. /\ IsFiniteSet(All) /\ IsFiniteSet(Good) /\ IsFiniteSet(Bad)
      /\ Cardinality(All) \in Nat /\ Cardinality(Good) \in Nat /\ Cardinality(Bad) \in Nat
  BY SalesOf
<1> HIDE DEF All, Good, Bad
<1>3. Cardinality(Good \cup Bad) = Cardinality(Good) + Cardinality(Bad)
  <2>1. Cardinality(Good \cup Bad) = Cardinality(Good) + Cardinality(Bad) - Cardinality(Good \cap Bad)
    BY <1>2, FS_Union
  <2>2. Cardinality(Good \cap Bad) = 0
    BY <1>1, FS_EmptySet
  <2> QED BY <1>2, <2>1, <2>2
<1>4. Cardinality(Good \cup Bad) <= Cardinality(All)
  BY <1>1, <1>2, FS_Subset
<1> QED BY <1>3, <1>4 DEF All, Good, Bad

LEMMA RateTyped ==
  ASSUME NEW part \in Nat, NEW total \in Nat
  PROVE  \E r \in Nat : M!rate(part, total) = r /\ (total = 0 => r = 0)
<1>1. CASE total = 0
  BY <1>1 DEF M!rate
<1>2. CASE total # 0
  <2>1. PICK w \in Nat \ {0} : w = 2 * total
    BY <1>2
  <2>2. PICK a \in Nat : a = 20000 * part + total
    OBVIOUS
  <2>3. PICK r \in Nat : r = a \div w
    BY <2>1, <2>2
  <2> QED BY <1>2, <2>1, <2>2, <2>3 DEF M!rate
<1> QED BY <1>1, <1>2

LEMMA RateRounds ==
  ASSUME NEW part \in Nat, NEW total \in Nat \ {0}, NEW w \in Nat, w = 2 * total
  PROVE  \E r \in Nat : /\ M!rate(part, total) = r
                        /\ w * r <= 20000 * part + total
                        /\ 20000 * part + total < w * r + w
<1>1. PICK a \in Nat : a = 20000 * part + total
  OBVIOUS
<1>2. PICK r \in Nat : r = a \div w
  BY <1>1
<1>3. w * r <= a /\ a < w * r + w
  <2>1. w \in Nat \ {0}
    OBVIOUS
  <2>2. w * (a \div w) <= a /\ a < w * (a \div w) + w
    BY <2>1, Quotient
  <2> QED BY <1>2, <2>2
<1>4. M!rate(part, total) = r
  BY <1>1, <1>2 DEF M!rate
<1> QED BY <1>1, <1>3, <1>4

(* The figures of a merchant are numbers.                                  *)
LEMMA AggregatesTyped ==
  ASSUME NEW t, NEW m
  PROVE  LET a == M!aggregateLoans(t, m) IN
         /\ a.totalLoans = Cardinality(M!Of(t, m, M!Statuses)) /\ a.totalLoans \in Nat
         /\ a.activeLoans = Cardinality(M!Of(t, m, {"active"})) /\ a.activeLoans \in Nat
         /\ a.volume \in Nat
         /\ a.repaymentRate = M!rate(Cardinality(M!Of(t, m, {"completed"})), a.totalLoans)
         /\ a.repaymentRate \in Nat
         /\ a.defaultRate = M!rate(Cardinality(M!Of(t, m, {"defaulted"})), a.totalLoans)
         /\ a.defaultRate \in Nat
<1>1. SumOver(Volume, M!Of(t, m, M!Statuses)) \in Nat
  BY SaleConstants, SalesOf, SumOverType
<1> DEFINE n == Cardinality(M!Of(t, m, M!Statuses))
           a == M!aggregateLoans(t, m)
<1>2. a = [totalLoans |-> n, activeLoans |-> Cardinality(M!Of(t, m, {"active"})),
           volume |-> SumOver(Volume, M!Of(t, m, M!Statuses)),
           repaymentRate |-> M!rate(Cardinality(M!Of(t, m, {"completed"})), n),
           defaultRate |-> M!rate(Cardinality(M!Of(t, m, {"defaulted"})), n)]
  BY VolumesAdd, MerchantsAreCounted, Zenon DEF M!aggregateLoans
<1> HIDE DEF a
<1>3. n \in Nat /\ Cardinality(M!Of(t, m, {"active"})) \in Nat
  BY SalesOf
<1>4. /\ Cardinality(M!Of(t, m, {"completed"})) \in Nat
      /\ Cardinality(M!Of(t, m, {"defaulted"})) \in Nat
  BY SalesOf
<1>5. /\ M!rate(Cardinality(M!Of(t, m, {"completed"})), n) \in Nat
      /\ M!rate(Cardinality(M!Of(t, m, {"defaulted"})), n) \in Nat
  BY <1>3, <1>4, RateTyped
<1> HIDE DEF n
<1>6. /\ a.totalLoans = n /\ a.activeLoans = Cardinality(M!Of(t, m, {"active"}))
      /\ a.volume = SumOver(Volume, M!Of(t, m, M!Statuses))
      /\ a.repaymentRate = M!rate(Cardinality(M!Of(t, m, {"completed"})), n)
      /\ a.defaultRate = M!rate(Cardinality(M!Of(t, m, {"defaulted"})), n)
  BY <1>2
<1> QED BY <1>1, <1>3, <1>5, <1>6 DEF a, n

LEMMA FiguresTyped ==
  ASSUME NEW t, NEW m, NEW metric \in Metrics
  PROVE  M!figure(t, metric, m) \in Nat
<1>1. metric \in {"volume", "score", "repaymentRate", "totalLoans", "listed"}
  BY SaleConstants DEF MerchantStatsConstants
<1> DEFINE a == M!aggregateLoans(t, m)
<1>2. /\ a.totalLoans \in Nat /\ a.volume \in Nat /\ a.repaymentRate \in Nat
      /\ a.defaultRate \in Nat
  BY AggregatesTyped
<1>3. M!figure(t, metric, m) = CASE metric = "volume" -> a.volume
        [] metric = "score" -> M!calculateScore(a)
        [] metric = "repaymentRate" -> a.repaymentRate
        [] metric = "totalLoans" -> a.totalLoans
        [] metric = "listed" -> 0
  BY DEF M!figure
<1> HIDE DEF a
<1>4. M!calculateScore(a) \in Nat
  <2>1. PICK n \in Nat, y \in Nat, r \in Nat, s \in Nat :
          a.totalLoans = n /\ a.volume = y /\ a.repaymentRate = r /\ a.defaultRate = s
    BY <1>2
  <2>2. PICK u \in Int : u = y \div 10
    BY <2>1
  <2>3. PICK v \in 0 .. 10000 : v = IF u < 0 THEN 0 ELSE IF u > 10000 THEN 10000 ELSE u
    BY <2>2
  <2>4. PICK w \in Int : w = (9 * r - 5 * s + v + 500) \div 1000
    BY <2>1, <2>3
  <2>5. n # 0 => M!calculateScore(a) = IF w < 0 THEN 0 ELSE IF w > 100 THEN 100 ELSE w
    BY <2>1, <2>2, <2>3, <2>4 DEF M!calculateScore, M!Clamp
  <2>6. n = 0 => M!calculateScore(a) = 0
    BY <2>1 DEF M!calculateScore
  <2> QED BY <2>4, <2>5, <2>6
<1> QED BY <1>1, <1>2, <1>3, <1>4

LEMMA AtMost ==
  ASSUME NEW w \in Nat \ {0}, NEW p \in Nat, NEW q \in Nat, w * p <= w * q
  PROVE  p <= q
<1> SUFFICES ASSUME p > q PROVE FALSE
  OBVIOUS
<1>1. w * (q + 1) <= w * p
  OBVIOUS
<1>2. w * (q + 1) = w * q + w
  OBVIOUS
<1> QED BY <1>1, <1>2

(* Two rates of disjoint parts.                                            *)
LEMMA RatesTogether ==
  ASSUME NEW c \in Nat, NEW d \in Nat, NEW n \in Nat \ {0}, c + d <= n
  PROVE  \E r, s \in Nat : /\ M!rate(c, n) = r /\ M!rate(d, n) = s
                           /\ r + s <= 10001
                           /\ r = 10000 => s <= 1
<1>0. PICK w \in Nat \ {0} : w = 2 * n
  OBVIOUS
<1>1. PICK r \in Nat : /\ M!rate(c, n) = r
                       /\ w * r <= 20000 * c + n /\ 20000 * c + n < w * r + w
  BY <1>0, RateRounds
<1>2. PICK s \in Nat : M!rate(d, n) = s /\ w * s <= 20000 * d + n
  BY <1>0, RateRounds
<1>3. w * (r + s) = w * r + w * s /\ w * r \in Nat /\ w * s \in Nat
  <2>1. \A x \in Nat : x * (r + s) = x * r + x * s /\ x * r \in Nat /\ x * s \in Nat
    OBVIOUS
  <2> QED BY <1>0, <2>1
<1>4. r + s <= 10001
  <2>1. w * (r + s) <= w * 10001
    BY <1>0, <1>1, <1>2, <1>3
  <2> QED BY <1>0, <2>1, AtMost
<1>5. ASSUME r = 10000
      PROVE  s <= 1
  <2>1. w * s <= w * 1
    BY <1>0, <1>1, <1>2, <1>3, <1>5
  <2> QED BY <1>0, <2>1, AtMost
<1> QED BY <1>1, <1>2, <1>4, <1>5

LEMMA ScoresMeanSomething == M!ScoreMeansSomething
<1> SUFFICES ASSUME NEW m \in Merchants,
                    NEW a, a = M!aggregateLoans(rows, m)
             PROVE  /\ a.totalLoans > 0 /\ a.repaymentRate = 10000
                         => M!calculateScore(a) >= 90
                    /\ a.defaultRate >= 5000 => M!calculateScore(a) < 60
  BY DEF M!ScoreMeansSomething
<1> DEFINE c == Cardinality(M!Of(rows, m, {"completed"}))
           d == Cardinality(M!Of(rows, m, {"defaulted"}))
<1>1. /\ a.totalLoans \in Nat /\ a.volume \in Nat /\ a.repaymentRate \in Nat
      /\ a.defaultRate \in Nat
      /\ a.repaymentRate = M!rate(c, a.totalLoans) /\ a.defaultRate = M!rate(d, a.totalLoans)
      /\ a.totalLoans = Cardinality(M!Of(rows, m, M!Statuses))
  BY AggregatesTyped
<1>2. c \in Nat /\ d \in Nat /\ c + d <= a.totalLoans
  BY <1>1, SalesOf, PartsOfSales
<1> HIDE DEF c, d
<1>3. CASE a.totalLoans = 0
  BY <1>1, <1>2, <1>3, RateTyped
<1>4. CASE a.totalLoans # 0
  <2>1. PICK r \in Nat, s \in Nat :
          /\ a.repaymentRate = r /\ a.defaultRate = s
          /\ r + s <= 10001 /\ (r = 10000 => s <= 1)
    BY <1>1, <1>2, <1>4, RatesTogether
  <2>2. PICK y \in Nat, n \in Nat : a.volume = y /\ a.totalLoans = n
    BY <1>1
  <2>3. PICK u \in Int : u = y \div 10
    BY <2>2
  <2>4. PICK v \in 0 .. 10000 : v = IF u < 0 THEN 0 ELSE IF u > 10000 THEN 10000 ELSE u
    BY <2>3
  <2>5. PICK w \in Int : w = (9 * r - 5 * s + v + 500) \div 1000
    BY <2>1, <2>4
  <2>6. (r = 10000 => w >= 90) /\ (s >= 5000 => w < 60)
    BY <2>1, <2>4, <2>5
  <2>7. M!calculateScore(a) = IF w < 0 THEN 0 ELSE IF w > 100 THEN 100 ELSE w
    BY <1>4, <2>1, <2>2, <2>3, <2>4, <2>5
       DEF M!calculateScore, M!Clamp
  <2> QED BY <2>1, <2>5, <2>6, <2>7
<1> QED BY <1>3, <1>4

(* The i-th of the last months holds what was created in that month.       *)
LEMMA BucketsAreMonths ==
  ASSUME NEW c \in Nat, NEW today \in Nat, NEW months \in Nat, NEW i \in 1 .. months,
         NEW k \in Int, k = (today % 12) - (months - i)
  PROVE  c \div 12 = today \div 12 + k \div 12 /\ c % 12 = k % 12
           <=> c = today - months + i
  OBVIOUS

LEMMA CreatedInBucket ==
  ASSUME NEW l \in Sales, NEW today \in Nat, NEW months \in Nat, NEW i \in 1 .. months
  PROVE  M!isWithinBucket(l, M!buildMonthlyBuckets(today, months)[i])
           <=> Created[l] = today - months + i
<1>1. PICK c \in Nat : c = Created[l]
  BY SaleConstants
<1>2. PICK k \in Int : k = (today % 12) - (months - i)
  OBVIOUS
<1>3. M!buildMonthlyBuckets(today, months)[i]
        = [year |-> today \div 12 + k \div 12, month |-> k % 12]
  BY <1>2 DEF M!buildMonthlyBuckets
<1>4. c \div 12 = today \div 12 + k \div 12 /\ c % 12 = k % 12
        <=> c = today - months + i
  BY <1>1, <1>2, BucketsAreMonths
<1> QED BY <1>1, <1>3, <1>4 DEF M!isWithinBucket

CreatedIn(set, months) == {l \in set : Created[l] \in months}
Monthly(counts, set, today, months) ==
  \A i \in 1 .. months : counts[i] = Cardinality(CreatedIn(set, {today - months + i}))
Totals(data, months) == [i \in 1 .. months |-> data[i].totalLoans]

LEMMA BucketsAddUp ==
  ASSUME NEW set, set \subseteq Sales, NEW today \in Nat, NEW months \in Nat \ {0},
         NEW counts, Monthly(counts, set, today, months)
  PROVE  SumOver(counts, 1 .. months) =
           Cardinality(CreatedIn(set, today - months + 1 .. today))
<1>1. PICK value : value = [l \in Sales |-> Created[l] - today + months]
  OBVIOUS
<1>2. ASSUME NEW l \in set
      PROVE  /\ \A i \in Int : value[l] = i <=> Created[l] = today - months + i
             /\ value[l] \in 1 .. months <=> Created[l] \in today - months + 1 .. today
  <2>1. PICK n \in Nat : Created[l] = n
    BY SaleConstants
  <2>2. value[l] = n - today + months
    BY <1>1, <2>1
  <2> QED BY <2>1, <2>2
<1>3. ASSUME NEW i \in 1 .. months
      PROVE  counts[i] = Cardinality(Having(set, value, {i}))
  <2>1. Having(set, value, {i}) = CreatedIn(set, {today - months + i})
    BY <1>2 DEF Having, CreatedIn
  <2> QED BY <2>1 DEF Monthly
<1>4. Having(set, value, 1 .. months) = CreatedIn(set, today - months + 1 .. today)
  BY <1>2 DEF Having, CreatedIn
<1>5. PICK values : values = 1 .. months
  OBVIOUS
<1>6. /\ IsFiniteSet(set) /\ IsFiniteSet(values)
      /\ \A i \in values : counts[i] = Cardinality(Having(set, value, {i}))
  BY <1>3, <1>5, SaleConstants, FS_Subset, FS_Interval
<1>7. SumOver(counts, values) = Cardinality(Having(set, value, values))
  BY <1>6, CountsAddUp
<1> QED BY <1>4, <1>5, <1>7

Accounted(data, set, today, months) ==
  /\ M!SumFunction(Totals(data, months)) =
       Cardinality(CreatedIn(set, today - months + 1 .. today))
  /\ data[months].totalLoans = Cardinality(CreatedIn(set, {today}))

LEMMA EveryLoanHasItsMonth ==
  ASSUME NEW m, NEW today \in Nat, NEW months \in Nat \ {0},
         NEW data, data = M!monthsData(rows, m, today, months),
         NEW set, set = M!Of(rows, m, M!Statuses)
  PROVE  Accounted(data, set, today, months)
<1>1. set \subseteq Sales
  BY SalesOf
<1>2. ASSUME NEW i \in 1 .. months
      PROVE  data[i].totalLoans = Cardinality(CreatedIn(set, {today - months + i}))
  <2> DEFINE t == [l \in Sales |->
                     IF M!isWithinBucket(l, M!buildMonthlyBuckets(today, months)[i])
                     THEN rows[l] ELSE M!Absent]
  <2>1. data[i] = M!aggregateLoans(t, m)
    BY DEF M!monthsData
  <2>2. data[i].totalLoans = Cardinality(M!Of(t, m, M!Statuses))
    BY <2>1, AggregatesTyped
  <2>3. M!Of(t, m, M!Statuses) = CreatedIn(set, {today - months + i})
    <3>1. \A l \in Sales : t[l] = IF Created[l] = today - months + i THEN rows[l] ELSE M!Absent
      BY CreatedInBucket
    <3> HIDE DEF t
    <3> QED BY <1>1, <3>1 DEF M!Of, CreatedIn
  <2> QED BY <2>2, <2>3
<1>3. Monthly(Totals(data, months), set, today, months)
  BY <1>2 DEF Monthly, Totals
<1>4. SumOver(Totals(data, months), 1 .. months)
        = Cardinality(CreatedIn(set, today - months + 1 .. today))
  BY <1>1, <1>3, BucketsAddUp
<1>5. M!SumFunction(Totals(data, months)) = SumOver(Totals(data, months), 1 .. months)
  BY VolumesAdd DEF M!SumFunction, Totals
<1>6. today - months + months = today /\ months \in 1 .. months
  OBVIOUS
<1> QED BY <1>2, <1>4, <1>5, <1>6 DEF Accounted

LEMMA EveryLoanInItsMonth == M!EveryLoanInItsMonth
<1> SUFFICES ASSUME NEW m \in Merchants, NEW today \in Today, NEW months \in {1, 14}
             PROVE  LET data == M!monthsData(rows, m, today, months) IN
                    /\ M!SumFunction([i \in 1 .. months |-> data[i].totalLoans]) =
                         M!Cardinality({l \in M!Of(rows, m, M!Statuses) :
                                          Created[l] \in today - months + 1 .. today})
                    /\ data[months].totalLoans =
                         M!Cardinality({l \in M!Of(rows, m, M!Statuses) : Created[l] = today})
  BY Zenon DEF M!EveryLoanInItsMonth
<1>0. PICK data, set : data = M!monthsData(rows, m, today, months)
                       /\ set = M!Of(rows, m, M!Statuses)
  OBVIOUS
<1>1. today \in Nat /\ months \in Nat \ {0}
  BY SaleConstants DEF MerchantStatsConstants
<1>2. Accounted(data, set, today, months)
  BY <1>0, <1>1, EveryLoanHasItsMonth
<1>3. CreatedIn(set, {today}) = {l \in set : Created[l] = today}
  BY DEF CreatedIn
<1> QED BY <1>0, <1>2, <1>3, MerchantsAreCounted, Zenon DEF Accounted, CreatedIn, Totals

Tables == [Sales -> {M!Absent} \cup [merchant : Merchants, status : M!Statuses]]
Place == CHOOSE o \in M!Orders : TRUE
Figures(P, t, metric) == [m \in P |-> M!figure(t, metric, m)]

StatsTypes ==
  /\ regime \in Regimes["MerchantStats"] /\ open \subseteq Merchants /\ rows \in Tables

(* What the first query of a page was answered, of the merchants or the    *)
(* loans there were; and who was ranked before is still among them.        *)
WasRead ==
  \/ pager.was = <<>>
  \/ \E x \in SUBSET open :
       /\ pager.was = [open |-> x] /\ pager.ranked \subseteq x
       /\ "moves" \notin regime => x = open
  \/ \E t \in Tables : pager.was = [rows |-> t] /\ ("moves" \notin regime => t = rows)

PagerFields == {"pc", "metric", "limit", "offset", "was", "ranked", "seen"}
PagerTypes ==
  /\ DOMAIN pager = PagerFields /\ pager.pc \in {"ask", "half", "done"}
  /\ pager.metric \in Metrics /\ pager.limit \in Limits /\ pager.offset \in Nat
  /\ pager.ranked \subseteq open
  /\ WasRead
  /\ pager.pc # "half" => pager.was = <<>>
  /\ \A e \in pager.seen :
       e.merchant \in Merchants /\ e.rank \in 1 .. Cardinality(Merchants)

(* Where nothing moves, and no merchants tie or rows keep their order, the *)
(* pages so far are those of one ranking.                                  *)
Fixed == "moves" \notin regime /\ ("reorders" \notin regime \/ M!NoTies)
PagesSoFar ==
  Fixed => Listed(pager.seen, open, Figures(open, rows, pager.metric), Place, pager.offset)

(* A first page that was not the last one left somebody out.               *)
FirstPage ==
  /\ pager.offset = 0 => pager.seen = {} /\ pager.pc # "done"
  /\ pager.offset # 0 /\ pager.pc # "done" => pager.limit < Cardinality(pager.ranked)
LastPage ==
  pager.pc = "done" =>
    /\ Cardinality(pager.ranked) <= pager.limit => Ranking(pager.seen, pager.ranked)
    /\ "moves" \notin regime => pager.ranked = open /\ pager.offset >= Cardinality(open)

PagerInvariant ==
  pager # M!Nobody => PagerTypes /\ PagesSoFar /\ FirstPage /\ LastPage

FolioInvariant ==
  folio # M!Nobody =>
    /\ DOMAIN folio = {"pc", "merchant", "counted", "shown"}
    /\ folio.pc \in {"paging", "counting", "done"}
    /\ folio.counted \in Nat /\ folio.shown \in Nat
    /\ "moves" \notin regime =>
         /\ folio.pc = "paging" => folio.counted = M!Counted(folio.merchant)
         /\ folio.pc = "counting" => folio.shown = M!Shown(folio.merchant)
         /\ folio.pc = "done" => folio.counted = folio.shown

StatsInvariant == StatsTypes /\ PagerInvariant /\ FolioInvariant

(* There is an order of the rows, and in any of them places are apart.     *)
LEMMA OrdersAreOrders ==
  /\ \A o \in M!Orders : /\ \A m \in Merchants : o[m] \in Int
                         /\ \A m, n \in Merchants : o[m] = o[n] => m = n
  /\ Place \in M!Orders
<1> DEFINE K == 1 .. Cardinality(Merchants)
<1>1. IsFiniteSet(Merchants) /\ Cardinality(Merchants) \in Nat
  BY SaleConstants, FS_CardinalityType
<1>2. M!Orders = Bijection(Merchants, K)
  BY MerchantsAreCounted DEF M!Orders, M!Bijection, M!Injection, M!Surjection, M!IsInjective,
     Bijection, Injection, Surjection, IsInjective
<1>3. \A o \in M!Orders : o \in [Merchants -> K] /\ \A m, n \in Merchants : o[m] = o[n] => m = n
  BY <1>2 DEF Bijection, Injection, IsInjective
<1>4. PICK f : f \in Bijection(K, Merchants)
  BY <1>1, FS_CardinalityType DEF ExistsBijection
<1> DEFINE o == [m \in Merchants |-> CHOOSE k \in K : f[k] = m]
<1>5. /\ f \in [K -> Merchants] /\ \A m \in Merchants : \E k \in K : f[k] = m
      /\ \A j, k \in K : f[j] = f[k] => j = k
  BY <1>4 DEF Bijection, Injection, Surjection, IsInjective
<1> HIDE DEF K
<1>6. \A m \in Merchants : o[m] \in K /\ f[o[m]] = m
  BY <1>5
<1>7. o \in [Merchants -> K]
  BY <1>6
<1> HIDE DEF o
<1>8. o \in Bijection(Merchants, K)
  <2>1. \A m, n \in Merchants : o[m] = o[n] => m = n
    BY <1>6
  <2>2. \A k \in K : \E m \in Merchants : o[m] = k
    <3> SUFFICES ASSUME NEW k \in K PROVE o[f[k]] = k /\ f[k] \in Merchants
      OBVIOUS
    <3> QED BY <1>5, <1>6
  <2> QED BY <1>7, <2>1, <2>2 DEF Bijection, Injection, Surjection, IsInjective
<1>9. Place \in M!Orders
  BY <1>2, <1>8 DEF Place
<1> QED BY <1>3, <1>9 DEF K

LEMMA RowOrdersAreOrders ==
  /\ M!RowOrders \subseteq M!Orders
  /\ "reorders" \notin regime => M!RowOrders = {Place}
  BY OrdersAreOrders DEF M!RowOrders, Place

LEMMA FiguresRank ==
  ASSUME NEW P, P \subseteq Merchants, NEW t, NEW metric \in Metrics, NEW place \in M!Orders
  PROVE  Rankable(P, Figures(P, t, metric), place)
<1>1. IsFiniteSet(P)
  BY SaleConstants, FS_Subset
<1>2. \A m \in P : Figures(P, t, metric)[m] \in Nat
  BY FiguresTyped DEF Figures
<1> QED BY <1>1, <1>2, OrdersAreOrders DEF Rankable, Figures

(* Where no figures tie, the order of the rows does not matter.            *)
LEMMA RankWithoutTies ==
  ASSUME NEW P, NEW figures, DOMAIN figures = P, NEW place, NEW other, NEW m \in P,
         \A n, o \in P : figures[n] = figures[o] => n = o,
         Rankable(P, figures, place), Rankable(P, figures, other)
  PROVE  M!rankOf(figures, place, m) = M!rankOf(figures, other, m)
<1>1. Before(figures, place, m) = Before(figures, other, m)
  BY DEF Before, Rankable
<1> QED BY <1>1, RankIsCount

-----------------------------------------------------------------------------
LEMMA LoansMoveOn ==
  ASSUME NEW s \in M!Statuses
  PROVE  M!VALID_LOAN_TRANSITIONS[s] \subseteq M!Statuses
  BY DEF M!VALID_LOAN_TRANSITIONS, M!Statuses

(* What others change while somebody reads.                                *)
Moves == /\ M!Reading => "moves" \in regime
         /\ open \subseteq open' /\ open' \subseteq Merchants /\ rows' \in Tables
         /\ UNCHANGED <<regime, pager, folio>>

LEMMA OthersMove ==
  ASSUME StatsTypes,
         \/ \E m \in Merchants : M!Approved(m)
         \/ \E l \in Sales : M!LoanMoves(l) \/ \E m \in Merchants : M!LoanCreated(l, m)
  PROVE  Moves
<1>1. ASSUME NEW m \in Merchants, M!Approved(m)
      PROVE  Moves
  BY <1>1 DEF M!Approved, M!MayMove, StatsTypes, Moves
<1>2. ASSUME NEW l \in Sales, NEW m \in Merchants, M!LoanCreated(l, m)
      PROVE  Moves
  <2>1. [merchant |-> m, status |-> "pending"] \in [merchant : Merchants, status : M!Statuses]
    BY DEF M!Statuses
  <2>2. rows' \in Tables
    BY <1>2, <2>1 DEF M!LoanCreated, StatsTypes, Tables
  <2> QED BY <1>2, <2>2 DEF M!LoanCreated, M!MayMove, StatsTypes, Moves
<1>3. ASSUME NEW l \in Sales, M!LoanMoves(l)
      PROVE  Moves
  <2>1. rows[l] \in [merchant : Merchants, status : M!Statuses]
    BY <1>3 DEF M!LoanMoves, StatsTypes, Tables
  <2>2. PICK to \in M!VALID_LOAN_TRANSITIONS[rows[l].status] :
          rows' = [rows EXCEPT ![l].status = to]
    BY <1>3 DEF M!LoanMoves
  <2>3. to \in M!Statuses
    BY <2>1, <2>2, LoansMoveOn
  <2>4. [rows[l] EXCEPT !.status = to] \in [merchant : Merchants, status : M!Statuses]
    BY <2>1, <2>3
  <2>5. rows' = [rows EXCEPT ![l] = [rows[l] EXCEPT !.status = to]]
    BY <2>2
  <2>6. rows' \in Tables
    BY <2>4, <2>5 DEF StatsTypes, Tables
  <2> QED BY <1>3, <2>6 DEF M!LoanMoves, M!MayMove, StatsTypes, Moves
<1> QED BY <1>1, <1>2, <1>3

LEMMA MovesKeepStats ==
  ASSUME StatsInvariant, Moves
  PROVE  StatsInvariant'
<1>1. StatsTypes'
  BY DEF StatsInvariant, StatsTypes, Moves
<1>2. CASE ~M!Reading
  <2>1. pager' = M!Nobody /\ folio' = M!Nobody
    BY <1>2 DEF Moves, M!Reading
  <2> QED BY <1>1, <2>1 DEF StatsInvariant, PagerInvariant, FolioInvariant, M!Nobody
<1>3. CASE M!Reading
  <2>1. "moves" \in regime /\ "moves" \in regime' /\ ~Fixed'
    BY <1>3 DEF Moves, Fixed
  <2>2. FolioInvariant'
    BY <2>1 DEF StatsInvariant, FolioInvariant, Moves, M!Nobody
  <2>3. ASSUME pager' # M!Nobody
        PROVE  PagerTypes' /\ PagesSoFar' /\ FirstPage' /\ LastPage'
    <3>1. PagerTypes /\ FirstPage /\ LastPage /\ pager' = pager
      BY <2>3 DEF StatsInvariant, PagerInvariant, Moves, M!Nobody
    <3>2. WasRead'
      BY <2>1, <3>1 DEF PagerTypes, WasRead, Moves
    <3>3. PagerTypes'
      BY <3>1, <3>2 DEF PagerTypes, Moves
    <3>4. FirstPage' /\ LastPage'
      BY <2>1, <3>1 DEF FirstPage, LastPage, Ranking
    <3> QED BY <2>1, <3>3, <3>4 DEF PagesSoFar
  <2> QED BY <1>1, <2>2, <2>3 DEF StatsInvariant, PagerInvariant, M!Nobody
<1> QED BY <1>2, <1>3

LEMMA CountedIsShown ==
  ASSUME NEW m
  PROVE  /\ M!Counted(m) = M!Shown(m) /\ M!Counted(m) \in Nat
         /\ UNCHANGED rows => M!Counted(m)' = M!Counted(m) /\ M!Shown(m)' = M!Shown(m)
<1>1. M!aggregateLoans(rows, m).activeLoans = Cardinality(M!Of(rows, m, {"active"}))
      /\ M!aggregateLoans(rows, m).activeLoans \in Nat
  BY AggregatesTyped
<1>2. M!Shown(m) = Cardinality(M!Of(rows, m, {"active"}))
  BY MerchantsAreCounted DEF M!Shown
<1> QED BY <1>1, <1>2 DEF M!Counted, M!Shown

(* Nothing is ranked differently where merchants and loans are the same.   *)
LEMMA PagesUnchanged ==
  ASSUME UNCHANGED <<regime, open, rows, pager>>
  PROVE  /\ WasRead <=> WasRead'
         /\ PagerInvariant <=> PagerInvariant'
<1>1. WasRead <=> WasRead'
  BY DEF WasRead
<1>2. PagerTypes <=> PagerTypes'
  BY <1>1 DEF PagerTypes
<1>3. Fixed <=> Fixed'
  BY DEF Fixed, M!NoTies
<1>4. PagesSoFar <=> PagesSoFar'
  BY <1>3 DEF PagesSoFar
<1>5. (FirstPage <=> FirstPage') /\ (LastPage <=> LastPage')
  BY DEF FirstPage, LastPage
<1> QED BY <1>1, <1>2, <1>4, <1>5 DEF PagerInvariant, M!Nobody

LEMMA AskPortfolioKeepsStats ==
  ASSUME StatsInvariant, NEW m \in Merchants, M!AskPortfolio(m)
  PROVE  StatsInvariant'
<1>1. StatsTypes' /\ PagerInvariant'
  BY PagesUnchanged DEF M!AskPortfolio, StatsInvariant, StatsTypes
<1>2. M!Counted(m) \in Nat /\ M!Shown(m) \in Nat
      /\ M!Counted(m)' = M!Counted(m) /\ M!Shown(m)' = M!Shown(m)
  BY CountedIsShown DEF M!AskPortfolio
<1>3. FolioInvariant'
  <2>1. CASE folio' = [pc |-> "paging", merchant |-> m, counted |-> M!Counted(m), shown |-> 0]
    BY <1>2, <2>1 DEF FolioInvariant
  <2>2. CASE folio' = [pc |-> "counting", merchant |-> m, counted |-> 0, shown |-> M!Shown(m)]
    BY <1>2, <2>2 DEF FolioInvariant
  <2> QED BY <2>1, <2>2 DEF M!AskPortfolio
<1> QED BY <1>1, <1>3 DEF StatsInvariant

LEMMA PortfolioKeepsStats ==
  ASSUME StatsInvariant, M!Portfolio
  PROVE  StatsInvariant'
<1>1. StatsTypes' /\ PagerInvariant'
  BY PagesUnchanged DEF M!Portfolio, StatsInvariant, StatsTypes
<1>2. folio.pc \in {"paging", "counting"} /\ folio # M!Nobody /\ FolioInvariant
  BY DEF M!Portfolio, M!Nobody, StatsInvariant
<1>3. PICK m : m = folio.merchant
  OBVIOUS
<1>4. M!Counted(m) = M!Shown(m) /\ M!Counted(m) \in Nat
  BY CountedIsShown
<1>5. FolioInvariant'
  <2>1. CASE folio.pc = "paging" /\ folio' = [folio EXCEPT !.pc = "done", !.shown = M!Shown(m)]
    BY <1>2, <1>3, <1>4, <2>1 DEF FolioInvariant, M!Portfolio
  <2>2. CASE folio.pc = "counting" /\ folio' = [folio EXCEPT !.pc = "done", !.counted = M!Counted(m)]
    BY <1>2, <1>3, <1>4, <2>2 DEF FolioInvariant, M!Portfolio
  <2> QED BY <1>3, <2>1, <2>2 DEF M!Portfolio
<1> QED BY <1>1, <1>5 DEF StatsInvariant

LEMMA LeaveKeepsStats ==
  ASSUME StatsInvariant, M!Leave
  PROVE  StatsInvariant'
  BY DEF M!Leave, StatsInvariant, StatsTypes, PagerInvariant, FolioInvariant, M!Nobody

LEMMA FolioUnchanged ==
  ASSUME FolioInvariant, UNCHANGED <<regime, rows, folio>>
  PROVE  FolioInvariant'
<1>1. PICK m : m = folio.merchant
  OBVIOUS
<1>2. M!Counted(m)' = M!Counted(m) /\ M!Shown(m)' = M!Shown(m)
  BY CountedIsShown
<1> QED BY <1>1, <1>2 DEF FolioInvariant, M!Nobody

LEMMA AskLeaderboardKeepsStats ==
  ASSUME StatsInvariant, NEW metric \in Metrics, NEW limit \in Limits,
         M!AskLeaderboard(metric, limit)
  PROVE  StatsInvariant'
<1>1. StatsTypes' /\ FolioInvariant'
  BY FolioUnchanged DEF M!AskLeaderboard, StatsInvariant, StatsTypes
<1>2. /\ pager'.pc \in {"half", "ask"} /\ pager'.metric = metric /\ pager'.limit = limit
      /\ pager'.offset = 0 /\ pager'.was = <<>> /\ pager'.ranked = {} /\ pager'.seen = {}
      /\ DOMAIN pager' = PagerFields
  BY DEF M!AskLeaderboard, M!Begin, PagerFields
<1>3. Rankable(open', Figures(open', rows', metric), Place)
  BY <1>1, FiguresRank, OrdersAreOrders DEF StatsTypes
<1>4. PagesSoFar'
  BY <1>2, <1>3, NothingListed DEF PagesSoFar
<1>5. PagerTypes'
  BY <1>2 DEF PagerTypes, WasRead
<1>6. FirstPage' /\ LastPage'
  BY <1>2 DEF FirstPage, LastPage
<1> QED BY <1>1, <1>4, <1>5, <1>6 DEF StatsInvariant, PagerInvariant

LEMMA FirstAnswerKeepsStats ==
  ASSUME StatsInvariant, M!FirstAnswer
  PROVE  StatsInvariant'
<1>1. StatsTypes' /\ FolioInvariant' /\ UNCHANGED <<regime, open, rows>>
  BY FolioUnchanged DEF M!FirstAnswer, StatsInvariant, StatsTypes
<1>2. pager.pc = "ask" /\ PagerTypes /\ PagesSoFar /\ FirstPage
  BY DEF M!FirstAnswer, M!Nobody, StatsInvariant, PagerInvariant
<1>3. PICK was \in {[open |-> open], [rows |-> rows]} :
        pager' = [pager EXCEPT !.pc = "half", !.was = was]
  BY DEF M!FirstAnswer
<1>4. /\ DOMAIN pager' = PagerFields /\ pager'.pc = "half" /\ pager'.was = was
      /\ pager'.metric = pager.metric /\ pager'.limit = pager.limit
      /\ pager'.offset = pager.offset /\ pager'.ranked = pager.ranked
      /\ pager'.seen = pager.seen
  BY <1>2, <1>3 DEF PagerTypes, PagerFields
<1>5. WasRead'
  <2>1. CASE was = [open |-> open]
    BY <1>1, <1>2, <1>4, <2>1 DEF WasRead, PagerTypes
  <2>2. CASE was = [rows |-> rows]
    BY <1>1, <1>4, <2>2 DEF WasRead, StatsTypes
  <2> QED BY <1>3, <2>1, <2>2
<1>6. PagerTypes'
  BY <1>1, <1>2, <1>4, <1>5 DEF PagerTypes
<1>7. Fixed' => Fixed
  BY <1>1, <1>4 DEF Fixed, M!NoTies
<1>8. PagesSoFar'
  BY <1>1, <1>2, <1>4, <1>7 DEF PagesSoFar
<1>9. FirstPage' /\ LastPage'
  BY <1>2, <1>4 DEF FirstPage, LastPage
<1> QED BY <1>1, <1>6, <1>8, <1>9 DEF StatsInvariant, PagerInvariant

(* What a page ranks: the merchants and loans of its two answers.          *)
Ranks(P, t) ==
  /\ P \subseteq open /\ pager.ranked \subseteq P
  /\ "moves" \notin regime => P = open /\ t = rows
Turns(P, t, place) ==
  /\ DOMAIN pager' = PagerFields
  /\ pager'.pc = (IF pager.offset + pager.limit >= Cardinality(P) THEN "done"
                  ELSE M!Begin(pager.metric))
  /\ pager'.metric = pager.metric /\ pager'.limit = pager.limit
  /\ pager'.offset = pager.offset + pager.limit
  /\ pager'.was = <<>> /\ pager'.ranked = P
  /\ pager'.seen = pager.seen
       \cup PageAfter(pager.offset, pager.limit, P, Figures(P, t, pager.metric), place)

LEMMA PageTurns ==
  ASSUME PagerTypes, M!Page
  PROVE  \E P, t : \E place \in M!RowOrders : Ranks(P, t) /\ Turns(P, t, place)
<1> DEFINE answered == DOMAIN pager.was
           P == IF "open" \in answered THEN pager.was.open ELSE open
           t == IF "rows" \in answered THEN pager.was.rows ELSE rows
<1>1. Ranks(P, t)
  <2>1. CASE pager.was = <<>>
    BY <2>1 DEF PagerTypes, Ranks
  <2>2. ASSUME NEW x \in SUBSET open, pager.was = [open |-> x],
               pager.ranked \subseteq x, "moves" \notin regime => x = open
        PROVE  Ranks(P, t)
    BY <2>2 DEF PagerTypes, Ranks
  <2>3. ASSUME NEW x \in Tables, pager.was = [rows |-> x], "moves" \notin regime => x = rows
        PROVE  Ranks(P, t)
    BY <2>3 DEF PagerTypes, Ranks
  <2> QED BY <2>1, <2>2, <2>3 DEF PagerTypes, WasRead
<1>2. PICK place \in M!RowOrders :
        LET figures == [m \in P |-> M!figure(t, pager.metric, m)]
            page == {m \in P : M!rankOf(figures, place, m)
                                 \in M!pageOf(pager.offset, pager.limit)}
            end == pager.offset + pager.limit
        IN pager' = [pager EXCEPT
             !.pc = IF end >= M!Cardinality(P) THEN "done" ELSE M!Begin(pager.metric),
             !.offset = end, !.was = <<>>, !.ranked = P,
             !.seen = @ \cup
               {[page |-> pager.offset, merchant |-> m, figure |-> figures[m],
                 rank |-> M!rankOf(figures, place, m)] : m \in page}]
  BY Zenon DEF M!Page
<1> HIDE DEF P, t
<1> DEFINE next == PageAfter(pager.offset, pager.limit, P, Figures(P, t, pager.metric), place)
<1>3. pager' = [pager EXCEPT
             !.pc = IF pager.offset + pager.limit >= Cardinality(P) THEN "done"
                    ELSE M!Begin(pager.metric),
             !.offset = pager.offset + pager.limit, !.was = <<>>, !.ranked = P,
             !.seen = pager.seen \cup next]
  BY <1>2, MerchantsAreCounted, Zenon DEF PageAfter, Figures
<1> HIDE DEF next
<1>4. Turns(P, t, place)
  BY <1>3 DEF Turns, PagerTypes, PagerFields, next
<1> QED BY <1>1, <1>2, <1>4

LEMMA PageKeepsStats ==
  ASSUME StatsInvariant, M!Page
  PROVE  StatsInvariant'
<1>1. StatsTypes' /\ FolioInvariant' /\ UNCHANGED <<regime, open, rows>>
  BY FolioUnchanged DEF M!Page, StatsInvariant, StatsTypes
<1>2. pager.pc = "half" /\ PagerTypes /\ PagesSoFar /\ FirstPage
  BY DEF M!Page, M!Nobody, StatsInvariant, PagerInvariant
<1>3. PICK P, t, place : place \in M!RowOrders /\ Ranks(P, t) /\ Turns(P, t, place)
  BY <1>2, PageTurns
<1>4. PICK k \in Nat, limit \in Nat \ {0}, metric \in Metrics :
        k = pager.offset /\ limit = pager.limit /\ metric = pager.metric
  BY <1>2, SaleConstants DEF PagerTypes, MerchantStatsConstants
<1> DEFINE figures == Figures(P, t, metric)
           next == PageAfter(k, limit, P, figures, place)
<1>5. /\ P \subseteq Merchants /\ IsFiniteSet(P) /\ Cardinality(P) \in Nat
      /\ Cardinality(P) <= Cardinality(Merchants) /\ Cardinality(Merchants) \in Nat
  <2>1. P \subseteq Merchants
    BY <1>3 DEF StatsInvariant, StatsTypes, Ranks
  <2> QED BY <2>1, SaleConstants, FS_Subset, FS_CardinalityType
<1>6. Rankable(P, figures, place) /\ place \in M!Orders
  BY <1>3, <1>5, RowOrdersAreOrders, FiguresRank
<1>7. /\ pager'.offset = k + limit /\ pager'.limit = limit /\ pager'.metric = metric
      /\ pager'.ranked = P /\ pager'.seen = pager.seen \cup next /\ pager'.was = <<>>
      /\ pager'.pc = (IF k + limit >= Cardinality(P) THEN "done" ELSE M!Begin(metric))
      /\ DOMAIN pager' = PagerFields
  BY <1>3, <1>4 DEF Turns
<1>8. M!Begin(metric) \in {"half", "ask"}
  BY DEF M!Begin
<1> HIDE DEF figures, next
<1>9. PagerTypes'
  <2>1. \A e \in next : e.merchant \in P /\ e.rank = M!rankOf(figures, place, e.merchant)
    BY DEF next, PageAfter
  <2>2. \A e \in next : e.merchant \in Merchants /\ e.rank \in 1 .. Cardinality(Merchants)
    <3>1. \A m \in P : M!rankOf(figures, place, m) \in 1 .. Cardinality(P)
      BY <1>6, RankInRange
    <3>2. 1 .. Cardinality(P) \subseteq 1 .. Cardinality(Merchants)
      BY <1>5
    <3> QED BY <1>5, <2>1, <3>1, <3>2
  <2>3. \A e \in pager'.seen :
          e.merchant \in Merchants /\ e.rank \in 1 .. Cardinality(Merchants)
    BY <1>2, <1>7, <2>2 DEF PagerTypes
  <2>4. pager'.metric \in Metrics /\ pager'.limit \in Limits /\ pager'.offset \in Nat
    BY <1>2, <1>4, <1>7 DEF PagerTypes
  <2>5. WasRead' /\ pager'.ranked \subseteq open'
    BY <1>1, <1>3, <1>7 DEF WasRead, Ranks
  <2>6. pager'.pc \in {"ask", "half", "done"}
    BY <1>7, <1>8
  <2> QED BY <1>7, <2>3, <2>4, <2>5, <2>6 DEF PagerTypes
<1>10. FirstPage'
  BY <1>5, <1>7 DEF FirstPage
<1>11. PagesSoFar'
  <2> SUFFICES ASSUME Fixed'
               PROVE  Listed(pager'.seen, open, Figures(open, rows, metric), Place, k + limit)
    BY <1>1, <1>7 DEF PagesSoFar
  <2>1. Fixed /\ "moves" \notin regime
    BY <1>1, <1>4, <1>7 DEF Fixed, M!NoTies
  <2>2. P = open /\ t = rows
    BY <1>3, <2>1 DEF Ranks
  <2>3. Listed(pager.seen, P, figures, Place, k)
    BY <1>2, <1>4, <2>1, <2>2 DEF PagesSoFar, figures
  <2>4. Rankable(P, figures, Place)
    BY <1>4, <1>5, OrdersAreOrders, FiguresRank DEF figures
  <2>5. \A m \in P : M!rankOf(figures, place, m) = M!rankOf(figures, Place, m)
    <3>1. CASE "reorders" \notin regime
      BY <1>3, <3>1, RowOrdersAreOrders
    <3>2. CASE M!NoTies
      <4>1. \A m, n \in P : figures[m] = figures[n] => m = n
        BY <1>4, <2>2, <3>2 DEF M!NoTies, figures, Figures
      <4>2. DOMAIN figures = P
        BY DEF figures, Figures
      <4> QED BY <1>6, <2>4, <4>1, <4>2, RankWithoutTies
    <3> QED BY <2>1, <3>1, <3>2 DEF Fixed
  <2>6. next = PageAfter(k, limit, P, figures, Place)
    BY <2>5 DEF next, PageAfter
  <2>7. Listed(pager.seen \cup next, P, figures, Place, k + limit)
    BY <2>3, <2>4, <2>6, ListedFurther
  <2> QED BY <1>7, <2>2, <2>7 DEF figures
<1>12. LastPage'
  <2> SUFFICES ASSUME pager'.pc = "done"
               PROVE  /\ Cardinality(P) <= limit => Ranking(pager'.seen, P)
                      /\ "moves" \notin regime => P = open /\ k + limit >= Cardinality(open)
    BY <1>1, <1>7 DEF LastPage
  <2>1. k + limit >= Cardinality(P)
    BY <1>7, <1>8
  <2>2. "moves" \notin regime => P = open /\ k + limit >= Cardinality(open)
    BY <1>3, <2>1 DEF Ranks
  <2>3. ASSUME Cardinality(P) <= limit
        PROVE  Ranking(pager'.seen, P)
    <3>1. Cardinality(pager.ranked) <= Cardinality(P) /\ Cardinality(pager.ranked) \in Nat
      BY <1>3, <1>5, FS_Subset, FS_CardinalityType DEF Ranks
    <3>2. k = 0 /\ pager.seen = {}
      BY <1>2, <1>4, <1>5, <2>3, <3>1 DEF FirstPage
    <3>3. Listed({} \cup next, P, figures, place, 0 + limit)
      BY <1>6, <3>2, NothingListed, ListedFurther DEF next
    <3>4. Listed(pager'.seen, P, figures, place, limit)
      BY <1>7, <3>2, <3>3
    <3> QED BY <1>6, <2>3, <3>4, AllListed
  <2> QED BY <2>2, <2>3
<1> QED BY <1>1, <1>9, <1>10, <1>11, <1>12 DEF StatsInvariant, PagerInvariant

LEMMA StatsInvariantNext ==
  ASSUME StatsInvariant, [M!Next]_(M!vars)
  PROVE  StatsInvariant'
<1>1. CASE \/ \E m \in Merchants : M!Approved(m)
           \/ \E l \in Sales : M!LoanMoves(l) \/ \E m \in Merchants : M!LoanCreated(l, m)
  BY <1>1, OthersMove, MovesKeepStats DEF StatsInvariant
<1>2. ASSUME NEW m \in Merchants, M!AskPortfolio(m) PROVE StatsInvariant'
  BY <1>2, AskPortfolioKeepsStats
<1>3. ASSUME NEW metric \in Metrics, NEW limit \in Limits, M!AskLeaderboard(metric, limit)
      PROVE  StatsInvariant'
  BY <1>3, AskLeaderboardKeepsStats
<1>4. CASE UNCHANGED M!vars
  BY <1>4, PagesUnchanged, FolioUnchanged DEF M!vars, StatsInvariant, StatsTypes
<1> QED BY <1>1, <1>2, <1>3, <1>4, FirstAnswerKeepsStats, PageKeepsStats, PortfolioKeepsStats,
           LeaveKeepsStats DEF M!Next

LEMMA StatsInvariantInit ==
  ASSUME M!Init
  PROVE  StatsInvariant
  BY DEF M!Init, M!Nobody, StatsInvariant, StatsTypes, Tables, PagerInvariant, FolioInvariant

LEMMA StatsAgree ==
  ASSUME StatsInvariant
  PROVE  M!MerchantFiguresAgree
<1>1. M!PagesMakeOneRanking
  <2> SUFFICES ASSUME pager.pc = "done",
                      "moves" \in regime => M!OnePage,
                      "reorders" \in regime => M!OnePage \/ M!NoTies
               PROVE  Ranking(pager.seen, pager.ranked)
    BY MerchantsAreCounted, Zenon DEF M!PagesMakeOneRanking, Ranking
  <2>1. PagerTypes /\ PagesSoFar /\ LastPage /\ StatsTypes
    BY DEF StatsInvariant, PagerInvariant, M!Nobody
  <2>2. CASE M!OnePage
    BY <2>1, <2>2, MerchantsAreCounted DEF M!OnePage, LastPage
  <2>3. CASE ~M!OnePage
    <3>1. Fixed /\ pager.ranked = open /\ pager.offset >= Cardinality(open)
      BY <2>1, <2>3 DEF Fixed, LastPage
    <3>2. Rankable(open, Figures(open, rows, pager.metric), Place)
      BY <2>1, OrdersAreOrders, FiguresRank DEF PagerTypes, StatsTypes
    <3>3. Listed(pager.seen, open, Figures(open, rows, pager.metric), Place, pager.offset)
      BY <2>1, <3>1 DEF PagesSoFar
    <3> QED BY <2>1, <3>1, <3>2, <3>3, AllListed DEF PagerTypes
  <2> QED BY <2>2, <2>3
<1>2. M!PortfolioAgrees
  BY DEF M!PortfolioAgrees, StatsInvariant, FolioInvariant, M!Nobody
<1> QED BY <1>1, <1>2, ScoresMeanSomething, EveryLoanInItsMonth DEF M!MerchantFiguresAgree

(* What the merchants' figures promise: the pages of a leaderboard make one*)
(* ranking of all active merchants, if nothing moves or one page holds them*)
(* and rows that tie keep their order; a portfolio counts what it shows;   *)
(* who is paid back every loan is gold and who loses half of them poor; and*)
(* the months of the analytics add up to the loans created in them, for any*)
(* merchants, loans, amounts, dates and page sizes.                        *)
THEOREM FiguresAgree == Spec => []MerchantFiguresAgree
<1> DEFINE Inv == service = "MerchantStats" => StatsInvariant
<1>1. Init => Inv
  BY StatsInvariantInit DEF Init
<1>2. Inv /\ [Next]_vars => Inv'
  <2>1. [Next]_vars => /\ service' = service
                       /\ service = "MerchantStats" => [M!Next]_(M!vars)
    BY DEF Next, vars, merchantStats, M!vars
  <2> QED BY <2>1, StatsInvariantNext
<1>3. Inv => MerchantFiguresAgree
  BY StatsAgree DEF MerchantFiguresAgree
<1> QED BY <1>1, <1>2, <1>3, PTL DEF Spec

-----------------------------------------------------------------------------
(* The types of every service: its invariant above says most of them, its  *)
(* Bounds the rest.                                                        *)

LEMMA BoundsTyped == BoundsConstants /\ LoanTermsConstants
  BY ConstantsAssumption DEF ConstantsAssumption

AccountBounds ==
  /\ regime \in Regimes["Accounts"] /\ prefs \subseteq Wallets
  /\ Len(apps) <= MaxApplications
  /\ \A q \in Requests : req[q].pc # "done" => req[q].app <= MaxApplications

(* What one call changes: its request goes on, ends or begins; and at most *)
(* one row more, if there is room.                                         *)
Goes(q) ==
  \/ UNCHANGED req
  \/ A!Ends(q)
  \/ /\ req[q].pc # "done"
     /\ \E pc \in A!Applying \cup A!Reviewing \cup A!Profiling : A!Continues(q, pc)
  \/ \E pc \in A!Applying \cup A!Reviewing \cup A!Profiling, w \in Wallets,
        i \in {0} \cup DOMAIN apps, linked \in BOOLEAN :
       req' = [req EXCEPT ![q] = A!At(pc, w, i, linked)]
Fills(q) ==
  /\ \/ prefs' = prefs
     \/ req[q].pc # "done" /\ prefs' = prefs \cup {req[q].wallet}
  /\ \/ apps' = apps
     \/ Len(apps) < MaxApplications /\ (\E a \in Applications : apps' = Append(apps, a))
     \/ \E i, s : apps' = [apps EXCEPT ![i].status = s]

LEMMA OnboardingGoes ==
  ASSUME AccountTypes, NEW q \in Requests, A!Onboarding(q)
  PROVE  Goes(q) /\ Fills(q) /\ UNCHANGED regime
<1> USE DEF A!tables
<1>1. ASSUME NEW w \in Wallets, A!Apply(q, w)
      PROVE  Goes(q) /\ Fills(q) /\ UNCHANGED regime
  <2>1. "apply_merchant" \in A!Applying /\ (role[w] # "none") \in BOOLEAN
    BY DEF A!Applying
  <2> QED BY <1>1, <2>1 DEF A!Apply, Goes, Fills
<1>2. ASSUME NEW i \in DOMAIN apps, NEW v \in {"approve", "reject"}, A!Review(q, i, v)
      PROVE  Goes(q) /\ Fills(q) /\ UNCHANGED regime
  <2>1. /\ v \in A!Reviewing /\ apps[i].wallet \in Wallets /\ apps[i].linked \in BOOLEAN
    BY AppsTyped DEF A!Reviewing, Applications
  <2> QED BY <1>2, <2>1 DEF A!Review, Goes, Fills
<1>3. ASSUME \/ A!ApplyChecksMerchant(q) \/ A!ApplyChecksPending(q) \/ A!FindTargetUser(q)
             \/ A!UpsertMerchant(q)
      PROVE  Goes(q) /\ Fills(q) /\ UNCHANGED regime
  BY <1>3 DEF A!ApplyChecksMerchant, A!ApplyChecksPending, A!FindTargetUser, A!UpsertMerchant,
              Goes, Fills, A!Applying, A!Reviewing
<1>4. ASSUME A!ApplyCreates(q)
      PROVE  Goes(q) /\ Fills(q) /\ UNCHANGED regime
  <2> DEFINE new == [wallet |-> req[q].wallet, linked |-> req[q].linked, status |-> "pending"]
  <2>1. new \in Applications
    BY <1>4, OnboardsTyped DEF A!ApplyCreates, Applications, Onboards
  <2>2. Len(apps) < MaxApplications /\ apps' = Append(apps, new)
    BY <1>4 DEF A!ApplyCreates
  <2> HIDE DEF new
  <2> QED BY <1>4, <2>1, <2>2 DEF A!ApplyCreates, Goes, Fills
<1>5. ASSUME A!Reject(q) \/ A!Approve(q)
      PROVE  Goes(q) /\ Fills(q) /\ UNCHANGED regime
  <2>1. \E i, s : apps' = [apps EXCEPT ![i].status = s]
    BY <1>5 DEF A!Reject, A!Approve
  <2>2. UNCHANGED <<prefs, regime>>
    BY <1>5 DEF A!Reject, A!Approve
  <2>3. Goes(q)
    BY <1>5 DEF A!Reject, A!Approve, Goes, A!Reviewing
  <2> QED BY <2>1, <2>2, <2>3 DEF Fills
<1>6. ASSUME A!MakeMerchant(q)
      PROVE  Goes(q) /\ Fills(q) /\ UNCHANGED regime
  BY <1>6 DEF A!MakeMerchant, Goes, Fills
<1> QED BY <1>1, <1>2, <1>3, <1>4, <1>5, <1>6 DEF A!Onboarding

LEMMA ProfileGoes ==
  ASSUME AccountTypes, NEW q \in Requests, A!Profile(q) \/ A!Abort(q)
  PROVE  Goes(q) /\ Fills(q) /\ UNCHANGED regime
<1> USE DEF A!tables
<1>1. ASSUME NEW w \in Wallets,
             \/ A!UpdateUserRole(q, w) \/ A!BecomeLp(q, w) \/ A!GetOrCreateProfile(q, w)
             \/ A!Register(q, w) \/ A!UpdateProfile(q, w)
      PROVE  Goes(q) /\ Fills(q) /\ UNCHANGED regime
  <2>1. \/ UNCHANGED req
        \/ \E pc \in A!Profiling : req' = [req EXCEPT ![q] = A!At(pc, w, 0, TRUE)]
    BY <1>1 DEF A!UpdateUserRole, A!BecomeLp, A!GetOrCreateProfile, A!Register,
                A!UpdateProfile, A!Profiling
  <2>2. UNCHANGED <<regime, prefs, apps>>
    BY <1>1 DEF A!UpdateUserRole, A!BecomeLp, A!GetOrCreateProfile, A!Register, A!UpdateProfile
  <2>3. Goes(q)
    BY <2>1 DEF Goes
  <2> QED BY <2>2, <2>3 DEF Fills
<1>2. ASSUME A!AssignRole(q) \/ A!MakeLp(q) \/ A!Abort(q)
      PROVE  Goes(q) /\ Fills(q) /\ UNCHANGED regime
  BY <1>2 DEF A!AssignRole, A!MakeLp, A!Abort, Goes, Fills
<1>3. ASSUME A!CreateUser(q)
      PROVE  Goes(q) /\ Fills(q) /\ UNCHANGED regime
  <2>1. /\ UNCHANGED <<regime, prefs, apps>> /\ req[q].pc # "done"
        /\ A!Ends(q) \/ \E pc \in A!Profiling : A!Continues(q, pc)
    BY <1>3 DEF A!CreateUser, A!AfterCreation, A!Profiling
  <2> QED BY <2>1 DEF Goes, Fills
<1>4. ASSUME A!CreateDefaultPreferences(q) \/ A!UpsertPreferences(q)
      PROVE  Goes(q) /\ Fills(q) /\ UNCHANGED regime
  BY <1>4 DEF A!CreateDefaultPreferences, A!UpsertPreferences, Goes, Fills
<1> QED BY <1>1, <1>2, <1>3, <1>4 DEF A!Profile

LEMMA AccountBoundsNext ==
  ASSUME BoundsConstants, AccountTypes, AccountBounds, [A!Next]_(A!vars)
  PROVE  AccountBounds'
<1>1. ASSUME NEW q \in Requests, Goes(q), Fills(q), UNCHANGED regime
      PROVE  AccountBounds'
  <2>1. prefs' \subseteq Wallets
    BY <1>1, OnboardsTyped DEF AccountBounds, Fills
  <2>2. Len(apps') <= MaxApplications
    <3>1. CASE Len(apps) < MaxApplications /\ \E a \in Applications : apps' = Append(apps, a)
      BY <3>1, AppsTyped DEF AccountTypes, BoundsConstants
    <3>2. CASE \E i, s : apps' = [apps EXCEPT ![i].status = s]
      BY <3>2 DEF AccountTypes, AccountBounds
    <3> QED BY <1>1, <3>1, <3>2 DEF Fills, AccountBounds
  <2>3. ASSUME NEW p \in Requests, req'[p].pc # "done"
        PROVE  req'[p].app <= MaxApplications
    <3>1. CASE UNCHANGED req
      BY <2>3, <3>1 DEF AccountBounds
    <3>2. CASE A!Ends(q)
      BY <2>3, <3>2, OnboardEnds DEF OthersWait, AccountBounds
    <3>3. ASSUME req[q].pc # "done",
                 NEW pc \in A!Applying \cup A!Reviewing \cup A!Profiling, A!Continues(q, pc)
          PROVE  req'[p].app <= MaxApplications
      BY <2>3, <3>3, OnboardContinues DEF OthersWait, AccountBounds
    <3>4. ASSUME NEW pc \in A!Applying \cup A!Reviewing \cup A!Profiling, NEW w \in Wallets,
                 NEW i \in {0} \cup DOMAIN apps, NEW linked \in BOOLEAN,
                 req' = [req EXCEPT ![q] = A!At(pc, w, i, linked)]
          PROVE  req'[p].app <= MaxApplications
      <4>1. i \in Nat /\ i <= MaxApplications
        BY AppsTyped DEF AccountBounds, BoundsConstants
      <4>2. /\ req'[q].app = i
            /\ p # q => req'[p] = req[p]
        BY <3>4, <4>1, OnboardStarts DEF OthersWait
      <4> QED BY <2>3, <4>1, <4>2 DEF AccountBounds
    <3> QED BY <1>1, <3>1, <3>2, <3>3, <3>4 DEF Goes
  <2> QED BY <1>1, <2>1, <2>2, <2>3 DEF AccountBounds
<1>2. ASSUME UNCHANGED <<regime, prefs, apps, req>>
      PROVE  AccountBounds'
  BY <1>2 DEF AccountBounds
<1>3. \/ \E q \in Requests : A!Onboarding(q) \/ A!Profile(q) \/ A!Abort(q)
      \/ UNCHANGED <<regime, prefs, apps, req>>
  BY DEF A!Next, A!Login, A!vars, A!tables
<1> QED BY <1>1, <1>2, <1>3, OnboardingGoes, ProfileGoes

LEMMA AccountsTyped ==
  ASSUME BoundsConstants, AccountTypes, AccountBounds
  PROVE  A!TypeOK
<1>1. ASSUME NEW q \in Requests, req[q] # A!Done
      PROVE  req[q] \in [pc : A!Applying \cup A!Reviewing \cup A!Profiling, wallet : Wallets,
                         app : 0 .. MaxApplications, linked : BOOLEAN]
  <2>1. req[q] \in Onboards /\ req[q].pc # "done"
    BY <1>1 DEF AccountTypes, Onboards, A!Applying, A!Reviewing, A!Profiling
  <2>2. req[q].app \in 0 .. MaxApplications
    BY <2>1 DEF AccountBounds, Onboards, BoundsConstants
  <2> QED BY <2>1, <2>2 DEF Onboards
<1> QED BY <1>1 DEF A!TypeOK, AccountTypes, AccountBounds, Applications

SessionBounds == regime \in Regimes["Sessions"] /\ blocked \in BOOLEAN
LEMMA SessionBoundsNext ==
  ASSUME SessionBounds, [S!Next]_(S!vars)
  PROVE  SessionBounds'
<1>1. UNCHANGED regime /\ (UNCHANGED blocked \/ blocked' = TRUE)
  BY DEF S!Next, S!vars, S!Login, S!Refresh, S!CreateSession, S!ReadUser, S!Rotate, S!Answer,
         S!Abort, S!RefreshIsRefused, S!Logout, S!CleanUp, S!Block, S!Tick
<1> QED BY <1>1 DEF SessionBounds

LEMMA SessionsTyped ==
  ASSUME SessionTypes, SessionBounds
  PROVE  S!TypeOK
  BY DEF S!TypeOK, SessionTypes, SessionBounds, SessionRows, Refreshes

LEMMA SignInRegimes ==
  ASSUME [N!Next]_(N!vars)
  PROVE  UNCHANGED regime
  BY DEF N!Next, N!vars, N!GenerateNonce, N!FindNonce, N!Check, N!MarkUsed, N!IssueTokens,
         N!Abort, N!Tick

LEMMA SignInsTyped ==
  ASSUME SignInTypes, regime \in Regimes["SignIn"]
  PROVE  N!TypeOK
<1>1. \A n \in N!Nonces : nonces[n] = N!Free \/ nonces[n] \in Rows
  BY DEF SignInTypes
<1> QED BY <1>1 DEF N!TypeOK, SignInTypes, Rows, Verifications, SignIns

RunBounds ==
  /\ regime \in Regimes["Reminders"] /\ day \in 0 .. MaxDay /\ active \subseteq Loans
  /\ runs \in 0 .. MaxRuns /\ lasting \subseteq Loans /\ whole \in BOOLEAN
LEMMA RunBoundsNext ==
  ASSUME BoundsConstants, RunTypes, RunBounds, [R!Next]_(R!vars)
  PROVE  RunBounds'
<1>1. ASSUME NEW w \in Workers, R!Start(w)
      PROVE  RunBounds'
  BY <1>1 DEF R!Start, RunBounds, BoundsConstants
<1>2. ASSUME NEW w \in Workers,
             \/ R!FetchActiveLoans(w) \/ R!CheckCandidate(w) \/ R!CreateNotification(w)
             \/ R!Abort(w)
      PROVE  RunBounds'
  BY <1>2 DEF R!FetchActiveLoans, R!CheckCandidate, R!CreateNotification, R!Abort, RunBounds
<1>3. ASSUME NEW w \in Workers, R!Finish(w)
      PROVE  RunBounds'
  <2>1. job[w].today \in BOOLEAN /\ whole \in BOOLEAN /\ whole' = (whole \/ job[w].today)
    BY <1>3, IdleHasNoCall DEF R!Finish, Runs, RunBounds
  <2>2. whole' \in BOOLEAN
    BY <2>1, Zenon
  <2> QED BY <1>3, <2>2 DEF R!Finish, RunBounds
<1>4. ASSUME NEW l \in Loans, R!StatusChanges(l)
      PROVE  RunBounds'
  BY <1>4 DEF R!StatusChanges, RunBounds
<1>5. CASE R!Midnight
  <2>1. /\ day < MaxDay /\ day' = day + 1 /\ runs' = 0 /\ lasting' = active /\ whole' = FALSE
        /\ UNCHANGED <<regime, active>>
    BY <1>5 DEF R!Midnight
  <2>2. day' \in 0 .. MaxDay /\ runs' \in 0 .. MaxRuns
    BY <2>1 DEF RunBounds, BoundsConstants
  <2>3. lasting' \subseteq Loans /\ whole' \in BOOLEAN
    BY <2>1 DEF RunBounds
  <2> QED BY <2>1, <2>2, <2>3 DEF RunBounds
<1>6. CASE UNCHANGED R!vars
  BY <1>6 DEF R!vars, RunBounds
<1> QED BY <1>1, <1>2, <1>3, <1>4, <1>5, <1>6 DEF R!Next

LEMMA RemindersTyped ==
  ASSUME RunTypes, RunBounds
  PROVE  R!TypeOK
  BY DEF R!TypeOK, RunTypes, RunBounds, Runs

MoneyBounds ==
  /\ regime \in Regimes["LoanTerms"] /\ score \in Ratings
  /\ \A a \in asked : a.amount > 0
LEMMA MoneyBoundsNext ==
  ASSUME LoanTermsConstants, MoneyTypes, MoneyBounds, [T!Next]_(T!vars)
  PROVE  MoneyBounds'
<1>1. CASE T!Repay
  <2>1. PICK x \in T!Chosen : asked' = asked \cup {[amount |-> x, newBalance |-> loan.balance - x]}
    BY <1>1 DEF T!Repay
  <2>2. x > 0
    BY <2>1 DEF T!Chosen, LoanTermsConstants, MoneyTypes
  <2> QED BY <1>1, <2>1, <2>2 DEF T!Repay, MoneyBounds
<1>2. ASSUME NEW a \in asked, T!Apply(a)
      PROVE  MoneyBounds'
  BY <1>2 DEF T!Apply, MoneyBounds
<1>3. CASE T!Activate \/ T!ListLoans \/ UNCHANGED T!vars
  BY <1>3 DEF T!Activate, T!ListLoans, T!vars, MoneyBounds
<1>4. ASSUME NEW amount \in Amounts, NEW term \in Terms, NEW start \in Starts,
             T!Create(amount, term, start)
      PROVE  MoneyBounds'
  BY <1>4 DEF T!Create, MoneyBounds
<1> QED BY <1>1, <1>2, <1>3, <1>4 DEF T!Next

LEMMA MoneyTyped ==
  ASSUME MoneyInvariant, MoneyBounds
  PROVE  T!TypeOK
<1>1. ASSUME loan # T!NoLoan
      PROVE  /\ loan.status \in {"pending", "active", "completed"}
             /\ loan.amount \in Amounts /\ loan.term \in Terms /\ loan.start \in Starts
             /\ loan.guarantee \in Nat /\ loan.short \in BOOLEAN
             /\ loan.total \in Nat /\ loan.balance \in 0 .. loan.total
             /\ loan.balance % T!CENT = 0
  <2>1. loan \in LoanRows /\ loan.balance <= loan.total
    BY <1>1 DEF MoneyInvariant, MoneyTypes, TermsFit
  <2> QED BY <2>1 DEF LoanRows, Cents, T!CENT
<1>2. \A a \in asked : a.newBalance >= 0
  BY DEF MoneyInvariant, MoneyTypes, Repayments
<1> QED BY <1>1, <1>2 DEF T!TypeOK, MoneyInvariant, MoneyTypes, MoneyBounds

(* What a request has read and calculated of the pool are numbers.         *)
Readings == {"own", "stats", "total", "available", "shares", "fee"} \cup Calculations
Numbers == {"total", "available", "shares", "own", "calcTotal", "calcShares"}
PieceMarks == {"stats", "calc"}
Gaps == {"stats", "own", "fee"}
Measured(r) ==
  /\ r.todo \subseteq Readings
  /\ \A f \in Numbers : r[f] \in Nat
  /\ r.feeBps \in {0, FeeBps} /\ r.amount \in Int
  /\ r.pieces \subseteq PieceMarks /\ r.missed \subseteq Gaps
QuoteBounds ==
  /\ regime \in Regimes["Liquidity"] /\ moves \in 0 .. MaxMoves
  /\ req # Q!Nothing => Measured(req)
  /\ \A k \in Q!Cached : cache[k] # Q!Nothing => Measured(cache[k]) /\ cache[k].kind = k

LEMMA CalculatedTyped ==
  ASSUME NEW x \in Nat, NEW total \in Nat, NEW all \in Nat
  PROVE  Q!worth(x, total, all) \in Nat /\ Q!mint(x, total, all) \in Nat
<1>1. ASSUME NEW a \in Nat, NEW b \in Nat \ {0}
      PROVE  a \div b \in Nat
  BY Quotient
<1>2. x * total \in Nat /\ x * all \in Nat
  OBVIOUS
<1> QED BY <1>1, <1>2 DEF Q!worth, Q!mint

(* A request under way that reads more.                                    *)
LEMMA ReadMeasures ==
  ASSUME QuoteInvariant, QuoteBounds, req.pc = "reading",
         NEW r, DOMAIN r = Fields, Measured(r), NEW name, Q!Reads(name, r)
  PROVE  QuoteBounds'
<1>1. /\ UNCHANGED <<regime, moves, cache>> /\ req' = [r EXCEPT !.todo = @ \ {name}]
  BY DEF Q!Reads
<1>2. /\ req'.todo = r.todo \ {name} /\ req'.feeBps = r.feeBps
      /\ req'.amount = r.amount
      /\ req'.pieces = r.pieces /\ req'.missed = r.missed
      /\ \A f \in Numbers : req'[f] = r[f]
  BY <1>1 DEF Fields, Numbers, PieceMarks, Gaps
<1>3. Measured(req')
  BY <1>2 DEF Measured
<1> QED BY <1>1, <1>3 DEF QuoteBounds

LEMMA ReadingMeasured ==
  ASSUME QuoteInvariant, QuoteBounds, req.pc \in {"reading", "building"}, Quoted \subseteq Nat
  PROVE  /\ DOMAIN req = Fields /\ Measured(req) /\ req # Q!Nothing
         /\ req.kind \in Q!Kinds /\ req.x \in Nat
         /\ pool.total \in Nat /\ pool.shares \in Nat
         /\ pool.available \in Nat /\ pool.own \in Nat
<1>1. Facts(req) /\ Sound(pool)
  BY InFlight
<1>2. req # Q!Nothing
  BY DEF Q!Nothing
<1> QED BY <1>1, <1>2 DEF Facts, Framed, Sound, PoolStates, QuoteBounds

LEMMA AmountsMeasured ==
  ASSUME QuoteInvariant, QuoteBounds, req.pc = "reading", Quoted \subseteq Nat,
         NEW total \in Nat, NEW shares \in Nat
  PROVE  Q!Calculated(total, shares) \in Int
<1>1. req.x \in Nat /\ req.own \in Nat
  BY ReadingMeasured DEF Measured, Numbers
<1>2. Q!Asked \in Nat
  BY <1>1 DEF Q!Asked
<1>3. Q!mint(req.x, total, shares) \in Nat /\ Q!worth(Q!Asked, total, shares) \in Nat
  BY <1>1, <1>2, CalculatedTyped
<1>4. Q!Calculated(total, shares) \in {Q!mint(req.x, total, shares), Q!worth(Q!Asked, total, shares)}
  BY DEF Q!Calculated
<1> QED BY <1>3, <1>4

LEMMA StillMeasured ==
  ASSUME NEW r, Measured(r), NEW s, s.todo \subseteq Readings,
         \A f \in Numbers : s[f] = r[f] \/ s[f] \in Nat,
         s.feeBps = r.feeBps \/ s.feeBps \in {0, FeeBps},
         s.amount = r.amount \/ s.amount \in Int,
         s.pieces \subseteq PieceMarks, s.missed \subseteq Gaps
  PROVE  Measured(s)
  BY DEF Measured

LEMMA PollMeasures ==
  ASSUME QuoteInvariant, QuoteBounds, Quoted \subseteq Nat,
         Q!ReadStats \/ Q!ReadPart \/ Q!ReadFee \/ Q!ShareReadFails
  PROVE  QuoteBounds'
<1>1. req.pc = "reading"
  BY DEF Q!ReadStats, Q!ReadPart, Q!ReadFee, Q!ShareReadFails, Q!Reads
<1>2. /\ DOMAIN req = Fields /\ Measured(req) /\ req.todo \subseteq Readings
      /\ req.pieces \subseteq PieceMarks /\ req.missed \subseteq Gaps
      /\ pool.total \in Nat /\ pool.shares \in Nat
      /\ pool.available \in Nat /\ pool.own \in Nat
  BY <1>1, ReadingMeasured DEF Measured
<1>3. CASE Q!ReadStats
  <2>1. PICK r : /\ Q!Reads("stats", r)
                 /\ \/ r = [req EXCEPT !.total = pool.total, !.shares = pool.shares,
                                       !.available = pool.available, !.todo = @ \cup {"fee"}]
                    \/ r = [req EXCEPT !.pieces = @ \cup {"stats"},
                              !.todo = @ \cup {"total", "available", "shares", "fee"}]
    BY <1>3 DEF Q!ReadStats
  <2>2. /\ DOMAIN r = Fields /\ r.todo \subseteq Readings
        /\ \A f \in Numbers : r[f] = req[f] \/ r[f] \in Nat
        /\ r.feeBps = req.feeBps /\ r.amount = req.amount
        /\ r.pieces \subseteq PieceMarks /\ r.missed \subseteq Gaps
    <3>1. CASE r = [req EXCEPT !.total = pool.total, !.shares = pool.shares,
                               !.available = pool.available, !.todo = @ \cup {"fee"}]
      BY <1>2, <3>1 DEF Fields, Numbers, Readings
    <3>2. CASE r = [req EXCEPT !.pieces = @ \cup {"stats"},
                      !.todo = @ \cup {"total", "available", "shares", "fee"}]
      BY <1>2, <3>2 DEF Fields, Numbers, Readings, PieceMarks
    <3> QED BY <2>1, <3>1, <3>2
  <2> QED BY <1>1, <1>2, <2>1, <2>2, StillMeasured, ReadMeasures
<1>4. CASE Q!ReadPart
  <2>1. PICK name, r : /\ Q!Reads(name, r)
                       /\ \/ r = [req EXCEPT !.total = pool.total]
                          \/ r = [req EXCEPT !.available = pool.available]
                          \/ r = [req EXCEPT !.shares = pool.shares]
                          \/ r = [req EXCEPT !.own = pool.own]
    BY <1>4 DEF Q!ReadPart
  <2>2. /\ DOMAIN r = Fields /\ r.todo \subseteq Readings
        /\ \A f \in Numbers : r[f] = req[f] \/ r[f] \in Nat
        /\ r.feeBps = req.feeBps /\ r.amount = req.amount
        /\ r.pieces \subseteq PieceMarks /\ r.missed \subseteq Gaps
    BY <1>2, <2>1 DEF Fields, Numbers, PieceMarks, Gaps
  <2> QED BY <1>1, <1>2, <2>1, <2>2, StillMeasured, ReadMeasures
<1>5. CASE Q!ReadFee \/ Q!ShareReadFails
  <2>1. PICK name, r : /\ Q!Reads(name, r)
                       /\ \/ r = [req EXCEPT !.feeBps = FeeBps]
                          \/ r = [req EXCEPT !.feeBps = 0, !.missed = @ \cup {"fee"}]
                          \/ r = [req EXCEPT !.own = 0, !.missed = @ \cup {"own"}]
    BY <1>5 DEF Q!ReadFee, Q!ShareReadFails
  <2>2. /\ DOMAIN r = Fields /\ r.todo \subseteq Readings
        /\ \A f \in Numbers : r[f] = req[f] \/ r[f] \in Nat
        /\ r.feeBps = req.feeBps \/ r.feeBps \in {0, FeeBps}
        /\ r.amount = req.amount
        /\ r.pieces \subseteq PieceMarks /\ r.missed \subseteq Gaps
    <3>1. CASE r = [req EXCEPT !.feeBps = FeeBps]
      BY <1>2, <3>1 DEF Fields, Numbers, PieceMarks, Gaps
    <3>2. CASE r = [req EXCEPT !.feeBps = 0, !.missed = @ \cup {"fee"}]
      BY <1>2, <3>2 DEF Fields, Numbers, PieceMarks, Gaps
    <3>3. CASE r = [req EXCEPT !.own = 0, !.missed = @ \cup {"own"}]
      BY <1>2, <3>3 DEF Fields, Numbers, PieceMarks, Gaps
    <3> QED BY <2>1, <3>1, <3>2, <3>3
  <2> QED BY <1>1, <1>2, <2>1, <2>2, StillMeasured, ReadMeasures
<1> QED BY <1>3, <1>4, <1>5

LEMMA PreviewMeasures ==
  ASSUME QuoteInvariant, QuoteBounds, Quoted \subseteq Nat, Q!Preview \/ Q!PreviewFallback
  PROVE  QuoteBounds'
<1>1. req.pc = "reading"
  BY DEF Q!Preview, Q!PreviewFallback, Q!Reads
<1>2. /\ DOMAIN req = Fields /\ Measured(req) /\ req.todo \subseteq Readings
      /\ req.pieces \subseteq PieceMarks /\ req.missed \subseteq Gaps
      /\ req.calcTotal \in Nat /\ req.calcShares \in Nat /\ req.amount \in Int
      /\ pool.total \in Nat /\ pool.shares \in Nat
  BY <1>1, ReadingMeasured DEF Measured, Numbers
<1>3. PICK name, r :
        /\ Q!Reads(name, r)
        /\ \/ r = [req EXCEPT !.amount = Q!Calculated(pool.total, pool.shares)]
           \/ r = [req EXCEPT !.todo = @ \cup {"calc_stats"}]
           \/ r = [req EXCEPT !.pieces = @ \cup {"calc"},
                             !.todo = @ \cup {"calc_total", "calc_shares"}]
           \/ r = Q!PartRead(pool.total, req.calcShares, "calc_shares")
           \/ r = Q!PartRead(req.calcTotal, pool.shares, "calc_total")
  BY Zenon DEF Q!Preview, Q!PreviewFallback, Q!Fallback
<1>4. ASSUME NEW total \in Nat, NEW shares \in Nat, NEW other,
             r = Q!PartRead(total, shares, other)
      PROVE  QuoteBounds'
  <2>1. PICK amount \in Int : amount = IF other \in req.todo THEN req.amount
                                       ELSE Q!Calculated(total, shares)
    BY <1>1, <1>2, AmountsMeasured
  <2>2. r = [req EXCEPT !.calcTotal = total, !.calcShares = shares, !.amount = amount]
    BY <1>4, <2>1 DEF Q!PartRead, Q!Fallback
  <2>3. /\ DOMAIN r = Fields /\ r.todo \subseteq Readings
        /\ \A f \in Numbers : r[f] = req[f] \/ r[f] \in Nat
        /\ r.feeBps = req.feeBps /\ r.amount \in Int
        /\ r.pieces \subseteq PieceMarks /\ r.missed \subseteq Gaps
    BY <1>2, <2>2 DEF Fields, Numbers, PieceMarks, Gaps
  <2> QED BY <1>1, <1>2, <1>3, <2>3, StillMeasured, ReadMeasures
<1>5. CASE r = [req EXCEPT !.amount = Q!Calculated(pool.total, pool.shares)]
  <2>1. PICK amount \in Int : amount = Q!Calculated(pool.total, pool.shares)
    BY <1>1, <1>2, AmountsMeasured
  <2>2. r = [req EXCEPT !.amount = amount]
    BY <1>5, <2>1
  <2>3. /\ DOMAIN r = Fields /\ r.todo \subseteq Readings
        /\ \A f \in Numbers : r[f] = req[f]
        /\ r.feeBps = req.feeBps /\ r.amount \in Int
        /\ r.pieces \subseteq PieceMarks /\ r.missed \subseteq Gaps
    BY <1>2, <2>2 DEF Fields, Numbers, PieceMarks, Gaps
  <2> QED BY <1>1, <1>2, <1>3, <2>3, StillMeasured, ReadMeasures
<1>6. CASE \/ r = [req EXCEPT !.todo = @ \cup {"calc_stats"}]
           \/ r = [req EXCEPT !.pieces = @ \cup {"calc"},
                             !.todo = @ \cup {"calc_total", "calc_shares"}]
  <2>1. /\ DOMAIN r = Fields /\ r.todo \subseteq Readings
        /\ \A f \in Numbers : r[f] = req[f]
        /\ r.feeBps = req.feeBps /\ r.amount = req.amount
        /\ r.pieces \subseteq PieceMarks /\ r.missed \subseteq Gaps
    <3>1. CASE r = [req EXCEPT !.todo = @ \cup {"calc_stats"}]
      BY <1>2, <3>1 DEF Fields, Numbers, Readings, Calculations
    <3>2. CASE r = [req EXCEPT !.pieces = @ \cup {"calc"},
                               !.todo = @ \cup {"calc_total", "calc_shares"}]
      BY <1>2, <3>2 DEF Fields, Numbers, Readings, Calculations, CalcParts, PieceMarks
    <3> QED BY <1>6, <3>1, <3>2
  <2> QED BY <1>1, <1>2, <1>3, <2>1, StillMeasured, ReadMeasures
<1> QED BY <1>2, <1>3, <1>4, <1>5, <1>6

(* An answer goes to who asked, and to the cache under its kind.           *)
LEMMA GivenMeasures ==
  ASSUME QuoteInvariant, QuoteBounds, NEW r, Measured(r), r.kind \in Q!Cached,
         Q!Give(r), UNCHANGED <<regime, moves>>
  PROVE  QuoteBounds'
<1>1. req' = r /\ DOMAIN cache = Q!Cached
      /\ cache' = IF "again" \in regime THEN [cache EXCEPT ![r.kind] = r] ELSE cache
  BY DEF Q!Give, QuoteInvariant
<1>2. \A k \in Q!Cached : cache'[k] = cache[k] \/ (cache'[k] = r /\ k = r.kind)
  BY <1>1
<1> QED BY <1>1, <1>2 DEF QuoteBounds

LEMMA AnswerMeasures ==
  ASSUME QuoteInvariant, QuoteBounds, Quoted \subseteq Nat,
         Q!Calculate \/ Q!Answer \/ Q!Build \/ Q!CallFails
  PROVE  QuoteBounds'
<1>1. req.pc \in {"reading", "building"} /\ UNCHANGED <<regime, moves>>
  BY DEF Q!Calculate, Q!Answer, Q!Build, Q!CallFails, Q!AllRead
<1>2. /\ DOMAIN req = Fields /\ Measured(req) /\ req.todo \subseteq Readings
      /\ req.pieces \subseteq PieceMarks /\ req.missed \subseteq Gaps
      /\ req.kind \in Q!Kinds
  BY <1>1, ReadingMeasured DEF Measured
<1>3. \/ UNCHANGED cache /\ req' = Q!Nothing
      \/ UNCHANGED cache /\ req' = [req EXCEPT !.todo = {"calc"}]
      \/ UNCHANGED cache /\ \E pc : req' = [req EXCEPT !.pc = pc]
      \/ req.kind = "overview" /\ Q!Give([req EXCEPT !.pc = "answered"])
      \/ /\ req.kind = "overview"
         /\ Q!Give([req EXCEPT !.pc = "answered", !.total = 0,
                             !.missed = @ \cup {"stats"}])
      \/ /\ req.kind = "summary"
         /\ Q!Give([req EXCEPT !.pc = "answered",
                               !.amount = IF req.own = 0 THEN 0 ELSE @])
  BY DEF Q!Calculate, Q!Answer, Q!Build, Q!CallFails, Q!Refused
<1>4. ASSUME UNCHANGED cache,
             \/ req' = [req EXCEPT !.todo = {"calc"}]
             \/ \E pc : req' = [req EXCEPT !.pc = pc]
      PROVE  QuoteBounds'
  <2>1. PICK r : r = req' /\ (r = [req EXCEPT !.todo = {"calc"}] \/ \E pc : r = [req EXCEPT !.pc = pc])
    BY <1>4
  <2>2. /\ r.todo \subseteq Readings /\ \A f \in Numbers : r[f] = req[f]
        /\ r.feeBps = req.feeBps /\ r.amount = req.amount
        /\ r.pieces \subseteq PieceMarks /\ r.missed \subseteq Gaps
    BY <1>2, <2>1 DEF Fields, Numbers, Readings, Calculations, PieceMarks, Gaps
  <2>3. Measured(r)
    BY <1>2, <2>2, StillMeasured
  <2> QED BY <1>1, <1>4, <2>1, <2>3 DEF QuoteBounds
<1>5. ASSUME NEW r, Q!Give(r),
             \/ req.kind = "overview" /\ r = [req EXCEPT !.pc = "answered"]
             \/ /\ req.kind = "overview"
                /\ r = [req EXCEPT !.pc = "answered", !.total = 0,
                             !.missed = @ \cup {"stats"}]
             \/ /\ req.kind = "summary"
                /\ r = [req EXCEPT !.pc = "answered",
                                   !.amount = IF req.own = 0 THEN 0 ELSE @]
      PROVE  QuoteBounds'
  <2>1. /\ r.todo \subseteq Readings /\ \A f \in Numbers : r[f] = req[f] \/ r[f] \in Nat
        /\ r.feeBps = req.feeBps
        /\ r.amount = req.amount \/ r.amount = 0
        /\ r.pieces \subseteq PieceMarks /\ r.missed \subseteq Gaps /\ r.kind = req.kind
    <3>1. CASE r = [req EXCEPT !.pc = "answered"]
      BY <1>2, <3>1 DEF Fields, Numbers, PieceMarks, Gaps
    <3>2. CASE r = [req EXCEPT !.pc = "answered", !.total = 0,
                             !.missed = @ \cup {"stats"}]
      BY <1>2, <3>2 DEF Fields, Numbers, PieceMarks, Gaps
    <3>3. CASE r = [req EXCEPT !.pc = "answered", !.amount = IF req.own = 0 THEN 0 ELSE @]
      <4>1. /\ r.todo = req.todo /\ r.feeBps = req.feeBps
            /\ r.pieces \subseteq PieceMarks /\ r.missed \subseteq Gaps /\ r.kind = req.kind
            /\ \A f \in Numbers : r[f] = req[f]
        BY <1>2, <3>3 DEF Fields, Numbers, PieceMarks, Gaps
      <4>2. r.amount = req.amount \/ r.amount = 0
        BY <1>2, <3>3 DEF Fields
      <4> QED BY <1>2, <4>1, <4>2
    <3> QED BY <1>5, <3>1, <3>2, <3>3
  <2>2. Measured(r)
    <3>1. r.amount = req.amount \/ r.amount \in Int
      BY <2>1
    <3> QED BY <1>2, <2>1, <3>1, StillMeasured
  <2>3. r.kind \in Q!Cached
    BY <1>5, <2>1 DEF Q!Cached
  <2> QED BY <1>1, <1>5, <2>2, <2>3, GivenMeasures
<1>6. CASE UNCHANGED cache /\ req' = Q!Nothing
  BY <1>1, <1>6 DEF QuoteBounds
<1> QED BY <1>3, <1>4, <1>5, <1>6

LEMMA AskMeasures ==
  ASSUME QuoteInvariant, QuoteBounds, NEW kind \in Q!Kinds, NEW x \in Quoted, Q!Ask(kind, x)
  PROVE  QuoteBounds'
<1>1. UNCHANGED <<regime, moves, cache>>
  BY DEF Q!Ask
<1>2. CASE kind \in Q!Cached /\ cache[kind] # Q!Nothing
  BY <1>1, <1>2 DEF Q!Ask, QuoteBounds
<1>3. CASE ~(kind \in Q!Cached /\ cache[kind] # Q!Nothing)
  <2>1. PICK r : /\ r = req'
                 /\ r = [pc |-> "reading", kind |-> kind, x |-> x,
                         todo |-> Q!FirstReads(kind), total |-> 0, available |-> 0,
                         shares |-> 0, own |-> 0, feeBps |-> 0, amount |-> -1,
                         calcTotal |-> 0, calcShares |-> 0, pieces |-> {},
                         missed |-> {}, during |-> {pool}]
    BY <1>3 DEF Q!Ask
  <2>2. /\ r.todo = Q!FirstReads(kind) /\ \A f \in Numbers : r[f] \in Nat
        /\ r.feeBps = 0 /\ r.amount \in Int
        /\ r.pieces = {} /\ r.missed = {}
    BY <2>1 DEF Numbers
  <2>3. Q!FirstReads(kind) \subseteq Readings
    BY DEF Q!FirstReads, Q!Kinds, Readings, Calculations
  <2>4. Measured(r)
    BY <2>2, <2>3 DEF Measured, PieceMarks, Gaps
  <2> QED BY <1>1, <2>1, <2>4 DEF QuoteBounds
<1> QED BY <1>2, <1>3

LEMMA QuoteBoundsNext ==
  ASSUME BoundsConstants, QuoteInvariant, QuoteBounds, [Q!Next]_(Q!vars), Quoted \subseteq Nat
  PROVE  QuoteBounds'
<1>1. ASSUME Q!PoolMoves
      PROVE  QuoteBounds'
  <2>1. /\ moves < MaxMoves /\ moves' = moves + 1 /\ UNCHANGED <<regime, cache>>
        /\ req' = IF req.pc \in {"reading", "building"}
                  THEN [req EXCEPT !.during = @ \cup {pool'}] ELSE req
    BY <1>1 DEF Q!PoolMoves
  <2>2. moves' \in 0 .. MaxMoves
    BY <2>1 DEF QuoteBounds, BoundsConstants
  <2>3. req' # Q!Nothing => Measured(req')
    <3>1. CASE req.pc \in {"reading", "building"}
      <4>1. DOMAIN req = Fields /\ Measured(req)
        BY <3>1, ReadingMeasured
      <4>2. /\ req'.todo = req.todo /\ \A f \in Numbers : req'[f] = req[f]
            /\ req'.feeBps = req.feeBps /\ req'.amount = req.amount
            /\ req'.pieces = req.pieces /\ req'.missed = req.missed
        BY <2>1, <3>1, <4>1 DEF Fields, Numbers, PieceMarks, Gaps
      <4> QED BY <4>1, <4>2 DEF Measured
    <3> QED BY <2>1, <3>1 DEF QuoteBounds
  <2> QED BY <2>1, <2>2, <2>3 DEF QuoteBounds
<1>2. ASSUME Q!RefuseWithdrawal \/ Q!Leave
      PROVE  QuoteBounds'
  BY <1>2 DEF Q!RefuseWithdrawal, Q!Leave, Q!Refused, QuoteBounds
<1>3. ASSUME NEW k \in Q!Cached, Q!Expire(k)
      PROVE  QuoteBounds'
  BY <1>3 DEF Q!Expire, QuoteBounds, QuoteInvariant
<1>4. CASE UNCHANGED Q!vars
  BY <1>4 DEF Q!vars, QuoteBounds
<1>5. ASSUME NEW kind \in Q!Kinds, NEW x \in Quoted, Q!Ask(kind, x)
      PROVE  QuoteBounds'
  BY <1>5, AskMeasures
<1> QED BY <1>1, <1>2, <1>3, <1>4, <1>5, PollMeasures, PreviewMeasures, AnswerMeasures
        DEF Q!Next

LEMMA QuotesTyped ==
  ASSUME QuoteInvariant, QuoteBounds
  PROVE  Q!TypeOK
<1>1. pool.available \in 0 .. pool.total /\ pool.own \in 0 .. pool.shares
  BY DEF QuoteInvariant, Sound, PoolStates
<1>2. req = Q!Nothing \/ (/\ req.pc \in {"reading", "building", "answered"}
                          /\ req.kind \in Q!Kinds
                          /\ pool \in req.during \/ req.pc = "answered")
  BY DEF QuoteInvariant, Facts, Framed
<1>3. req # Q!Nothing =>
        /\ req.todo \subseteq {"own", "stats", "total", "available", "shares", "fee",
                               "calc", "calc_stats", "calc_total", "calc_shares"}
        /\ req.feeBps \in {0, FeeBps} /\ req.amount \in Int
        /\ req.pieces \subseteq {"stats", "calc"} /\ req.missed \subseteq {"stats", "own", "fee"}
  BY DEF QuoteBounds, Measured, Readings, Calculations, CalcParts, PieceMarks, Gaps
<1>4. req.pc \in {"none", "reading", "building", "answered"}
  BY <1>2 DEF Q!Nothing
<1> QED BY <1>1, <1>2, <1>3, <1>4 DEF Q!TypeOK, QuoteBounds

LEMMA StatsTyped ==
  ASSUME StatsInvariant
  PROVE  M!TypeOK
<1>1. \A l \in Sales : rows[l] = M!Absent \/ rows[l] \in [merchant : Merchants, status : M!Statuses]
  BY DEF StatsInvariant, StatsTypes, Tables
<1>2. pager # M!Nobody => PagerTypes
  BY DEF StatsInvariant, PagerInvariant
<1>3. folio # M!Nobody => folio.counted \in Nat /\ folio.shown \in Nat
  BY DEF StatsInvariant, FolioInvariant
<1>4. regime \in Regimes["MerchantStats"] /\ open \subseteq Merchants
  BY DEF StatsInvariant, StatsTypes
<1> QED BY <1>1, <1>2, <1>3, <1>4, MerchantsAreCounted DEF M!TypeOK, PagerTypes

(* The invariant of every service, with what it leaves out.                *)
TypesInvariant ==
  /\ service = "Accounts" => AccountInvariant /\ AccountBounds
  /\ service = "Sessions" => SessionInvariant /\ SessionBounds
  /\ service = "SignIn" => SignInInvariant /\ regime \in Regimes["SignIn"]
  /\ service = "LoanRequests" => KeyInvariant
  /\ service = "LoanTerms" => MoneyInvariant /\ MoneyBounds
  /\ service = "MerchantStats" => StatsInvariant
  /\ service = "Liquidity" => QuoteInvariant /\ QuoteBounds
  /\ service = "Reminders" => RunInvariant /\ RunBounds

LEMMA TypesInvariantInit ==
  ASSUME Init
  PROVE  TypesInvariant
<1>1. A!Init => AccountInvariant /\ AccountBounds
  BY AccountInvariantInit, BoundsTyped DEF A!Init, A!Done, AccountBounds, BoundsConstants
<1>2. S!Init => SessionInvariant /\ SessionBounds
  BY SessionInvariantInit DEF S!Init, SessionBounds
<1>3. N!Init => SignInInvariant /\ regime \in Regimes["SignIn"]
  BY SignInInvariantInit DEF N!Init
<1>4. T!Init => MoneyInvariant /\ MoneyBounds
  BY MoneyInvariantInit DEF T!Init, MoneyBounds
<1>5. Q!Init => QuoteInvariant /\ QuoteBounds
  <2>1. \A p \in Pools : Sound(p)
    BY ConstantsAssumption DEF ConstantsAssumption, LiquidityConstants, Sound, PoolStates
  <2> QED BY <2>1, QuoteInvariantInit, BoundsTyped DEF Q!Init, QuoteBounds, BoundsConstants
<1>6. R!Init => RunInvariant /\ RunBounds
  <2>1. 0 \in 0 .. MaxDay /\ 0 \in 0 .. MaxRuns
    BY BoundsTyped DEF BoundsConstants
  <2>2. R!Init => RunBounds
    BY <2>1 DEF R!Init, RunBounds
  <2> QED BY <2>2, RunInvariantInit
<1> QED
  BY <1>1, <1>2, <1>3, <1>4, <1>5, <1>6, KeyInvariantInit, StatsInvariantInit
  DEF Init, TypesInvariant

LEMMA TypesInvariantNext ==
  ASSUME TypesInvariant, [Next]_vars
  PROVE  TypesInvariant'
<1>1. service' = service
  BY Exercised
<1>2. CASE service = "Accounts"
  <2>1. AccountTypes
    BY <1>2 DEF TypesInvariant, AccountInvariant
  <2> QED BY <1>1, <1>2, <2>1, BoundsTyped, AccountsExercised, AccountInvariantNext,
             AccountBoundsNext DEF TypesInvariant
<1>3. CASE service = "Sessions"
  BY <1>1, <1>3, ConstantsTyped, Exercised, SessionInvariantNext, SessionBoundsNext
  DEF TypesInvariant
<1>4. CASE service = "SignIn"
  BY <1>1, <1>4, ConstantsTyped, Exercised, SignInInvariantNext, SignInRegimes
  DEF TypesInvariant
<1>5. CASE service = "LoanRequests"
  BY <1>1, <1>5, ConstantsTyped, Exercised, KeyInvariantNext DEF TypesInvariant
<1>6. CASE service = "LoanTerms"
  <2>1. [T!Next]_(T!vars)
    BY <1>6 DEF Next, vars, loanTerms, T!vars
  <2>2. MoneyTypes /\ score \in Ratings
    BY <1>6 DEF TypesInvariant, MoneyInvariant, MoneyBounds
  <2> QED BY <1>1, <1>6, <2>1, <2>2, BoundsTyped, MoneyInvariantNext, MoneyBoundsNext
          DEF TypesInvariant
<1>7. CASE service = "MerchantStats"
  <2>1. [M!Next]_(M!vars)
    BY <1>7 DEF Next, vars, merchantStats, M!vars
  <2> QED BY <1>1, <1>7, <2>1, StatsInvariantNext DEF TypesInvariant
<1>8. CASE service = "Liquidity"
  <2>1. [Q!Next]_(Q!vars)
    BY <1>8 DEF Next, vars, liquidity, Q!vars
  <2>2. Quoted \subseteq Nat
    BY ConstantsAssumption DEF ConstantsAssumption, LiquidityConstants
  <2> QED BY <1>1, <1>8, <2>1, <2>2, BoundsTyped, QuoteInvariantNext, QuoteBoundsNext
          DEF TypesInvariant
<1>9. CASE service = "Reminders"
  <2>1. RunTypes
    BY <1>9 DEF TypesInvariant, RunInvariant
  <2> QED BY <1>1, <1>9, <2>1, BoundsTyped, Exercised, RunInvariantNext, RunBoundsNext
          DEF TypesInvariant
<1> QED BY <1>1, <1>2, <1>3, <1>4, <1>5, <1>6, <1>7, <1>8, <1>9 DEF TypesInvariant

LEMMA TypesKept ==
  ASSUME TypesInvariant
  PROVE  TypeOK
<1>1. service = "Accounts" => A!TypeOK
  BY BoundsTyped, AccountsTyped DEF TypesInvariant, AccountInvariant
<1>2. service = "Sessions" => S!TypeOK
  BY SessionsTyped DEF TypesInvariant, SessionInvariant
<1>3. service = "SignIn" => N!TypeOK
  BY SignInsTyped DEF TypesInvariant, SignInInvariant
<1>4. service = "LoanRequests" => L!TypeOK
  BY DEF TypesInvariant, KeyInvariant
<1>5. service = "LoanTerms" => T!TypeOK
  BY MoneyTyped DEF TypesInvariant
<1>6. service = "MerchantStats" => M!TypeOK
  BY StatsTyped DEF TypesInvariant
<1>7. service = "Liquidity" => Q!TypeOK
  BY QuotesTyped DEF TypesInvariant
<1>8. service = "Reminders" => R!TypeOK
  BY RemindersTyped DEF TypesInvariant, RunInvariant
<1> QED BY <1>1, <1>2, <1>3, <1>4, <1>5, <1>6, <1>7, <1>8 DEF TypeOK

(* The variables of each service keep to their types: calls are at a point *)
(* of their code and hold what such a call can have read, rows are of the  *)
(* shape of their table, statuses of their column, dates and counts within *)
(* their bounds, and what a pool's reader has read, calculated or left in a*)
(* cache are numbers, for any values of the constants.                     *)
THEOREM TypeCorrect == Spec => []TypeOK
<1>1. Init => TypesInvariant
  BY TypesInvariantInit
<1>2. TypesInvariant /\ [Next]_vars => TypesInvariant'
  BY TypesInvariantNext
<1>3. TypesInvariant => TypeOK
  BY TypesKept
<1> QED BY <1>1, <1>2, <1>3, PTL DEF Spec

=============================================================================
