------------------------------ MODULE Sessions ------------------------------
(***************************************************************************)
(* The refresh tokens of one wallet (AuthService, SessionsRepository):     *)
(* login, refresh with rotation, logout and the clean-up of expired rows.  *)
(*                                                                         *)
(* A token holds the wallet and the second it was signed in, and nothing   *)
(* that is random: it is that second, here, and two tokens of one second   *)
(* are the same token.  A login is a row of sessions, whose                *)
(* refresh_token_hash is unique.  revoked_at is never set: the only code   *)
(* that sets it, revokeFamily, runs when it is set already.                *)
(***************************************************************************)
EXTENDS Naturals

CONSTANTS
  Devices,   \* devices the wallet is used from
  Requests,  \* requests in flight
  Lifetime,  \* seconds a refresh token is valid, 7 days in the code
  MaxTime,   \* bound: seconds
  MaxLogins, \* bound: rows of sessions
  Regimes    \* sets of circumstances, one of which a behaviour has

(* "tabs": a device has several requests in flight; "lost": an answer does *)
(* not arrive; "fail": a call fails or the process dies; "block": the user *)
(* is blocked.                                                             *)
Circumstances == {"tabs", "lost", "fail", "block"}

None == 0
Logins == 1 .. MaxLogins
Seconds == 1 .. MaxTime

VARIABLES
  regime,  \* what may happen in this behaviour; it never changes
  now,     \* the current second
  blocked, \* users.status = 'blocked'
  session, \* [Logins -> ...]: its refresh_token_hash and expires_at, or None
  logins,  \* rows inserted so far
  holds,   \* [Devices -> ...]: the refresh token a device has, or None
  req      \* [Requests -> ...]: what a request is about to do

vars == <<regime, now, blocked, session, logins, holds, req>>

NoRow == [hash |-> None, expires |-> None]
Done == [pc |-> "done"]

TypeOK ==
  /\ regime \in Regimes
  /\ now \in Seconds
  /\ blocked \in BOOLEAN
  /\ session \in [Logins ->
       {NoRow} \cup [hash : Seconds, expires : 1 .. MaxTime + Lifetime]]
  /\ logins \in 0 .. MaxLogins
  /\ holds \in [Devices -> Seconds \cup {None}]
  /\ req \in [Requests -> {Done}
       \cup [pc : {"create", "user", "rotate", "answer"}, device : Devices,
             row : Logins \cup {None}, token : Seconds]]

Init ==
  /\ regime \in Regimes
  /\ now = 1
  /\ blocked = FALSE
  /\ session = [i \in Logins |-> NoRow]
  /\ logins = 0
  /\ holds = [d \in Devices |-> None]
  /\ req = [q \in Requests |-> Done]

Rows(token) == {i \in Logins : session[i].hash = token}
BugRefreshedTwice(token) == [hash |-> token, expires |-> token + 2 * Lifetime]
Row(token) == [hash |-> token, expires |-> token + Lifetime]
InFlight(d) == \E q \in Requests : req[q].pc # "done" /\ req[q].device = d
MaySend(d) == "tabs" \in regime \/ ~InFlight(d)
Ends(q) == req' = [req EXCEPT ![q] = Done]

-----------------------------------------------------------------------------
(* generateTokens: the user is upserted and its status read, the tokens are*)
(* signed, and the session is inserted; the index refuses a token twice.   *)
Login(q, d) ==
  /\ req[q].pc = "done"
  /\ MaySend(d)
  /\ holds[d] = None
  /\ ~blocked
  /\ req' = [req EXCEPT ![q] =
       [pc |-> "create", device |-> d, row |-> None, token |-> now]]
  /\ UNCHANGED <<regime, now, blocked, session, logins, holds>>

BugNoUniqueIndex(token) == TRUE
Unused(token) == Rows(token) = {}

CreateSession(q) ==
  /\ req[q].pc = "create"
  /\ logins < MaxLogins
  /\ \/ /\ Unused(req[q].token)
        /\ logins' = logins + 1
        /\ session' = [session EXCEPT ![logins + 1] = Row(req[q].token)]
        /\ req' = [req EXCEPT ![q].pc = "answer"]
     \/ /\ ~Unused(req[q].token)
        /\ Ends(q)
        /\ UNCHANGED <<session, logins>>
  /\ UNCHANGED <<regime, now, blocked, holds>>

(* refreshTokens: the session is found by the hash of a valid token ...    *)
Refresh(q, d) ==
  /\ req[q].pc = "done"
  /\ MaySend(d)
  /\ holds[d] # None
  /\ now < holds[d] + Lifetime
  /\ \E i \in Rows(holds[d]) : req' = [req EXCEPT ![q] =
       [pc |-> "user", device |-> d, row |-> i, token |-> holds[d]]]
  /\ UNCHANGED <<regime, now, blocked, session, logins, holds>>

(* ... or not: the client gives up a token that is expired or unknown.     *)
RefreshIsRefused(d) ==
  /\ MaySend(d)
  /\ holds[d] # None
  /\ now >= holds[d] + Lifetime \/ Rows(holds[d]) = {}
  /\ holds' = [holds EXCEPT ![d] = None]
  /\ UNCHANGED <<regime, now, blocked, session, logins, req>>

(* The user is read, and the new tokens are signed.                        *)
ReadUser(q) ==
  /\ req[q].pc = "user"
  /\ IF blocked THEN Ends(q)
     ELSE req' = [req EXCEPT ![q] = [@ EXCEPT !.pc = "rotate", !.token = now]]
  /\ UNCHANGED <<regime, now, blocked, session, logins, holds>>

(* update: the row found before takes the new hash, if it is still there   *)
(* and no other row has that hash.                                         *)
Rotatable(i, token) ==
  session[i] # NoRow /\ Rows(token) \subseteq {i}

Rotate(q) ==
  LET i == req[q].row IN
  /\ req[q].pc = "rotate"
  /\ \/ /\ Rotatable(i, req[q].token)
        /\ session' = [session EXCEPT ![i] = Row(req[q].token)]
        /\ req' = [req EXCEPT ![q].pc = "answer"]
     \/ /\ ~Rotatable(i, req[q].token)
        /\ Ends(q)
        /\ UNCHANGED session
  /\ UNCHANGED <<regime, now, blocked, logins, holds>>

(* The device takes the token of the answer, unless the answer is lost.    *)
Answer(q) ==
  /\ req[q].pc = "answer"
  /\ \/ holds' = [holds EXCEPT ![req[q].device] = req[q].token]
     \/ "lost" \in regime /\ UNCHANGED holds
  /\ Ends(q)
  /\ UNCHANGED <<regime, now, blocked, session, logins>>

(* logout deletes by hash, for an expired token as well.                   *)
Without(rows) ==
  [i \in Logins |-> IF i \in rows THEN NoRow ELSE session[i]]

Logout(d) ==
  /\ MaySend(d)
  /\ holds[d] # None
  /\ session' = Without(Rows(holds[d]))
  /\ holds' = [holds EXCEPT ![d] = None]
  /\ UNCHANGED <<regime, now, blocked, logins, req>>

(* cleanup_expired_sessions, once a day or whenever it is called.          *)
CleanUp ==
  /\ session' = Without({i \in Logins : session[i].expires < now})
  /\ session' # session
  /\ UNCHANGED <<regime, now, blocked, logins, holds, req>>

(* A call fails, or the process dies, before the session is written.       *)
Abort(q) ==
  /\ "fail" \in regime
  /\ req[q].pc \in {"create", "user", "rotate"}
  /\ Ends(q)
  /\ UNCHANGED <<regime, now, blocked, session, logins, holds>>

(* By hand: no code of the repository blocks a user.                       *)
Block ==
  /\ "block" \in regime
  /\ ~blocked
  /\ blocked' = TRUE
  /\ UNCHANGED <<regime, now, session, logins, holds, req>>

Tick ==
  /\ now < MaxTime
  /\ now' = now + 1
  /\ UNCHANGED <<regime, blocked, session, logins, holds, req>>

Next ==
  \/ \E q \in Requests, d \in Devices : Login(q, d) \/ Refresh(q, d)
  \/ \E q \in Requests :
       CreateSession(q) \/ ReadUser(q) \/ Rotate(q) \/ Answer(q) \/ Abort(q)
  \/ \E d \in Devices : RefreshIsRefused(d) \/ Logout(d)
  \/ CleanUp
  \/ Block
  \/ Tick

Spec == Init /\ [][Next]_vars

-----------------------------------------------------------------------------
(* A device that sends one request at a time and gets every answer holds a *)
(* token of the session table until the token expires, whatever the other  *)
(* devices of the wallet do in the same second and whatever fails: it is   *)
(* never sent back to its wallet in between.                               *)
HolderIsNotLockedOut ==
  regime \cap {"tabs", "lost"} = {} =>
    \A d \in Devices :
      holds[d] # None /\ ~InFlight(d) /\ now < holds[d] + Lifetime
      => Rows(holds[d]) # {}
=============================================================================
