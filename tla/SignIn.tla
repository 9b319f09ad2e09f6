-------------------------------- MODULE SignIn --------------------------------
(***************************************************************************)
(* Signing in with a wallet: POST /auth/nonce stores a nonce, and POST     *)
(* /auth/verify looks it up, checks its age and the signature, marks it as *)
(* used in a call of its own whose result nobody looks at, and issues      *)
(* tokens (see Sessions for these).                                        *)
(***************************************************************************)
EXTENDS Naturals, FiniteSets

CONSTANTS
  Wallets,   \* wallets that sign in
  Requests,  \* verifications in flight
  Lifetime,  \* NONCE_EXPIRATION_SECONDS, in ticks
  MaxNonces, \* bound: rows of nonces
  MaxTime,   \* bound: ticks
  MaxSignIns,\* bound: sign-ins
  Regimes    \* sets of circumstances, one of which a behaviour has

(* "overlap": a nonce is sent again while it is being verified; "slow": the*)
(* clock ticks during a verification; "fail": calls fail.                  *)
Circumstances == {"overlap", "slow", "fail"}

VARIABLES
  regime,  \* what may happen in this behaviour; it never changes
  now,     \* ticks
  nonces,  \* the rows of nonces: wallet, expires_at and whether used_at is set
  verify,  \* [Requests -> ...]: what a verification is about to do
  signIns  \* history: the sign-ins, with the wallet, the nonce and the tick
           \*   at which its age was checked

vars == <<regime, now, nonces, verify, signIns>>

Nonces == 1 .. MaxNonces
Free == [wallet |-> "none", expires |-> 0, used |-> FALSE]
Done == [pc |-> "done"]

TypeOK ==
  /\ regime \in Regimes
  /\ now \in 1 .. MaxTime
  /\ \A n \in Nonces : nonces[n] = Free
       \/ nonces[n] \in [wallet : Wallets, expires : 1 .. MaxTime + Lifetime,
                         used : BOOLEAN]
  /\ verify \in [Requests -> {Done}
       \cup [pc : {"check", "mark", "issue"}, wallet : Wallets, nonce : Nonces,
             signed : BOOLEAN, at : 0 .. MaxTime]]
  /\ signIns \in SUBSET [no : 1 .. MaxSignIns, wallet : Wallets, nonce : Nonces,
                         at : 1 .. MaxTime]

Init ==
  /\ regime \in Regimes
  /\ now = 1
  /\ nonces = [n \in Nonces |-> Free]
  /\ verify = [q \in Requests |-> Done]
  /\ signIns = {}

InFlight(n) == \E q \in Requests : verify[q] # Done /\ verify[q].nonce = n

-----------------------------------------------------------------------------
(* generateNonce; whether the answer arrives makes no difference here.     *)
GenerateNonce(w) ==
  /\ \E n \in Nonces :
       /\ nonces[n] = Free
       /\ \A m \in 1 .. n - 1 : nonces[m] # Free
       /\ nonces' = [nonces EXCEPT ![n] =
            [wallet |-> w, expires |-> now + Lifetime, used |-> FALSE]]
  /\ UNCHANGED <<regime, now, verify, signIns>>

(* verifySignature. The row must be the wallet's own and unused ...        *)
Findable(n, w) == nonces[n] # Free /\ nonces[n].wallet = w /\ ~nonces[n].used

FindNonce(q, w, n, signed) ==
  /\ verify[q] = Done
  /\ "overlap" \in regime \/ ~InFlight(n)
  /\ Findable(n, w)
  /\ verify' = [verify EXCEPT ![q] = [pc |-> "check", wallet |-> w, nonce |-> n,
                                      signed |-> signed, at |-> 0]]
  /\ UNCHANGED <<regime, now, nonces, signIns>>

(* ... not older than its expiry, and signed by the wallet.                *)
Check(q) ==
  /\ verify[q].pc = "check"
  /\ verify' = [verify EXCEPT ![q] =
       IF nonces[verify[q].nonce].expires < now \/ ~verify[q].signed THEN Done
       ELSE [@ EXCEPT !.pc = "mark", !.at = now]]
  /\ UNCHANGED <<regime, now, nonces, signIns>>

(* It is then marked, whoever marked it before; that may fail unseen.      *)
BugNotMarked(row) == row
Marked(row) == [row EXCEPT !.used = TRUE]

MarkUsed(q) ==
  /\ verify[q].pc = "mark"
  /\ \/ nonces' = [nonces EXCEPT ![verify[q].nonce] = Marked(@)]
     \/ "fail" \in regime /\ UNCHANGED nonces
  /\ verify' = [verify EXCEPT ![q].pc = "issue"]
  /\ UNCHANGED <<regime, now, signIns>>

(* generateTokens.                                                         *)
IssueTokens(q) ==
  /\ verify[q].pc = "issue"
  /\ Cardinality(signIns) < MaxSignIns
  /\ signIns' = signIns \cup {[no |-> Cardinality(signIns) + 1,
       wallet |-> verify[q].wallet, nonce |-> verify[q].nonce, at |-> verify[q].at]}
  /\ verify' = [verify EXCEPT ![q] = Done]
  /\ UNCHANGED <<regime, now, nonces>>

(* A call fails, the user is blocked or the process dies.                  *)
Abort(q) ==
  /\ "fail" \in regime
  /\ verify[q] # Done
  /\ verify' = [verify EXCEPT ![q] = Done]
  /\ UNCHANGED <<regime, now, nonces, signIns>>

Tick ==
  /\ now < MaxTime
  /\ "slow" \in regime \/ \A q \in Requests : verify[q] = Done
  /\ now' = now + 1
  /\ UNCHANGED <<regime, nonces, verify, signIns>>

Next ==
  \/ \E w \in Wallets : GenerateNonce(w)
  \/ \E q \in Requests, w \in Wallets, n \in Nonces, signed \in BOOLEAN :
       FindNonce(q, w, n, signed)
  \/ \E q \in Requests : Check(q) \/ MarkUsed(q) \/ IssueTokens(q) \/ Abort(q)
  \/ Tick

Spec == Init /\ [][Next]_vars

-----------------------------------------------------------------------------
(* A nonce signs in the wallet it was issued to, and no later than it      *)
(* expires; and it does so once, however often and however slowly it is    *)
(* sent, as long as its verifications do not overlap and marking it works. *)
(* If they overlap it still signs in no more often than requests can have  *)
(* found it unused.                                                        *)
NonceSignsInOnce ==
  /\ \A s \in signIns :
       s.wallet = nonces[s.nonce].wallet /\ s.at <= nonces[s.nonce].expires
  /\ \A n \in Nonces :
       LET times == Cardinality({s \in signIns : s.nonce = n}) IN
       /\ regime \cap {"overlap", "fail"} = {} => times <= 1
       /\ "fail" \notin regime => times <= Cardinality(Requests)
=============================================================================
