------------------------------ MODULE Accounts ------------------------------
(***************************************************************************)
(* Users, their roles and the onboarding of merchants: requests of         *)
(* UsersService, MerchantsService.apply, AdminService and AuthService, each*)
(* a sequence of calls to the tables users, user_preferences, merchants    *)
(* and merchant_applications, none of them in a transaction.               *)
(*                                                                         *)
(* A wallet with a valid token may have no users row: the code creates one *)
(* where it needs one, and so does the model.                              *)
(***************************************************************************)
EXTENDS Naturals, Sequences

CONSTANTS
  Wallets,         \* Stellar wallets
  Requests,        \* requests in flight
  MaxApplications, \* bound: rows of merchant_applications
  Regimes          \* sets of circumstances, one of which a behaviour has

(* "applies", "reviews": applications of a wallet, or reviews of its       *)
(* applications, overlap; "fail": a call fails or a process dies; "assign":*)
(* administrators assign roles.                                            *)
Circumstances == {"applies", "reviews", "fail", "assign"}

Roles == {"borrower", "merchant", "lp_provider", "admin"}

VARIABLES
  regime,   \* what may happen in this behaviour; it never changes
  role,     \* [Wallets -> ...]: users.role, or "none" without a row
  prefs,    \* wallets with a row of user_preferences
  merchant, \* [Wallets -> ...]: merchants.is_active, or "none"
  apps,     \* merchant_applications in the order of their creation
  req       \* [Requests -> ...]: what a request is about to do

tables == <<role, prefs, merchant, apps>>
vars == <<regime, tables, req>>

Done == [pc |-> "done"]
At(pc, w, i, linked) == [pc |-> pc, wallet |-> w, app |-> i, linked |-> linked]

Applying == {"apply_merchant", "apply_pending", "apply_create"}
Reviewing ==
  {"approve", "reject", "review_merchant", "review_user", "review_role"}
Profiling == {"me_create", "me_prefs", "update_prefs", "register_create",
              "lp_create", "lp_role", "assign"}

TypeOK ==
  /\ regime \in Regimes
  /\ role \in [Wallets -> Roles \cup {"none"}]
  /\ prefs \subseteq Wallets
  /\ merchant \in [Wallets -> {"none", "inactive", "active"}]
  /\ apps \in Seq([wallet : Wallets, linked : BOOLEAN,
                   status : {"pending", "approved", "rejected"}])
  /\ Len(apps) <= MaxApplications
  /\ req \in [Requests ->
       {Done} \cup [pc : Applying \cup Reviewing \cup Profiling,
                    wallet : Wallets, app : 0 .. MaxApplications,
                    linked : BOOLEAN]]

Init ==
  /\ regime \in Regimes
  /\ role \in [Wallets -> {"none", "borrower", "admin"}]
  /\ prefs = {}
  /\ merchant \in [Wallets -> {"none", "inactive"}]
  /\ apps = <<>>
  /\ req = [q \in Requests |-> Done]

Pending(w) ==
  {i \in DOMAIN apps : apps[i].wallet = w /\ apps[i].status = "pending"}
InFlight(w, pcs) ==
  \E q \in Requests : req[q].pc \in pcs /\ req[q].wallet = w

Continues(q, pc) == req' = [req EXCEPT ![q].pc = pc]
Ends(q) == req' = [req EXCEPT ![q] = Done]

-----------------------------------------------------------------------------
(* MerchantsService.apply: three checks, each a call, then the insertion.  *)

Apply(q, w) ==
  /\ req[q].pc = "done"
  /\ "applies" \in regime \/ ~InFlight(w, Applying)
  /\ role[w] # "merchant"
  /\ req' = [req EXCEPT ![q] = At("apply_merchant", w, 0, role[w] # "none")]
  /\ UNCHANGED <<regime, tables>>

ApplyChecksMerchant(q) ==
  /\ req[q].pc = "apply_merchant"
  /\ IF merchant[req[q].wallet] = "active"
     THEN Ends(q)
     ELSE Continues(q, "apply_pending")
  /\ UNCHANGED <<regime, tables>>

(* findPendingByWallet: one row is a conflict, more than one an error.     *)
BugNoConflict(w) == TRUE
MayApply(w) == Pending(w) = {}

ApplyChecksPending(q) ==
  /\ req[q].pc = "apply_pending"
  /\ IF MayApply(req[q].wallet)
     THEN Continues(q, "apply_create")
     ELSE Ends(q)
  /\ UNCHANGED <<regime, tables>>

ApplyCreates(q) ==
  /\ req[q].pc = "apply_create"
  /\ Len(apps) < MaxApplications
  /\ apps' = Append(apps, [wallet |-> req[q].wallet, linked |-> req[q].linked,
                           status |-> "pending"])
  /\ Ends(q)
  /\ UNCHANGED <<regime, role, prefs, merchant>>

-----------------------------------------------------------------------------
(* AdminService.approveMerchant: the application is read and checked, then *)
(* written, then the merchant, then the role of its user.                  *)

BugDecidedToo(status) == status # "rejected"
Reviewable(status) == status = "pending"

Review(q, i, verdict) ==
  /\ req[q].pc = "done"
  /\ i \in DOMAIN apps
  /\ "reviews" \in regime \/ ~InFlight(apps[i].wallet, Reviewing)
  /\ Reviewable(apps[i].status)
  /\ req' = [req EXCEPT ![q] =
       At(verdict, apps[i].wallet, i, apps[i].linked)]
  /\ UNCHANGED <<regime, tables>>

Reject(q) ==
  /\ req[q].pc = "reject"
  /\ apps' = [apps EXCEPT ![req[q].app].status = "rejected"]
  /\ Ends(q)
  /\ UNCHANGED <<regime, role, prefs, merchant>>

Approve(q) ==
  /\ req[q].pc = "approve"
  /\ apps' = [apps EXCEPT ![req[q].app].status = "approved"]
  /\ Continues(q, "review_merchant")
  /\ UNCHANGED <<regime, role, prefs, merchant>>

UpsertMerchant(q) ==
  /\ req[q].pc = "review_merchant"
  /\ merchant' = [merchant EXCEPT ![req[q].wallet] = "active"]
  /\ Continues(q, "review_user")
  /\ UNCHANGED <<regime, role, prefs, apps>>

(* By user_id or by wallet, the target is the user of that wallet.         *)
FindTargetUser(q) ==
  /\ req[q].pc = "review_user"
  /\ IF role[req[q].wallet] = "none" THEN Ends(q) ELSE Continues(q, "review_role")
  /\ UNCHANGED <<regime, tables>>

MakeMerchant(q) ==
  /\ req[q].pc = "review_role"
  /\ role' = [role EXCEPT ![req[q].wallet] = "merchant"]
  /\ Ends(q)
  /\ UNCHANGED <<regime, prefs, merchant, apps>>

-----------------------------------------------------------------------------
(* The users table.                                                        *)

(* updateUserRole: the user is looked up, then written by id.              *)
UpdateUserRole(q, w) ==
  /\ "assign" \in regime
  /\ req[q].pc = "done"
  /\ role[w] # "none"
  /\ req' = [req EXCEPT ![q] = At("assign", w, 0, TRUE)]
  /\ UNCHANGED <<regime, tables>>

AssignRole(q) ==
  /\ req[q].pc = "assign"
  /\ \E r \in Roles : role' = [role EXCEPT ![req[q].wallet] = r]
  /\ Ends(q)
  /\ UNCHANGED <<regime, prefs, merchant, apps>>

(* becomeLp: everyone but lp_providers and administrators becomes one.     *)
BecomeLp(q, w) ==
  /\ req[q].pc = "done"
  /\ role[w] \notin {"lp_provider", "admin"}
  /\ req' = [req EXCEPT ![q] =
       At(IF role[w] = "none" THEN "lp_create" ELSE "lp_role", w, 0, TRUE)]
  /\ UNCHANGED <<regime, tables>>

MakeLp(q) ==
  /\ req[q].pc = "lp_role"
  /\ role' = [role EXCEPT ![req[q].wallet] = "lp_provider"]
  /\ Ends(q)
  /\ UNCHANGED <<regime, prefs, merchant, apps>>

(* getOrCreateProfile, and register, whose look-ups find no user.          *)
GetOrCreateProfile(q, w) ==
  /\ req[q].pc = "done"
  /\ w \notin prefs
  /\ req' = [req EXCEPT ![q] =
       At(IF role[w] = "none" THEN "me_create" ELSE "me_prefs", w, 0, TRUE)]
  /\ UNCHANGED <<regime, tables>>

Register(q, w) ==
  /\ req[q].pc = "done"
  /\ role[w] = "none"
  /\ req' = [req EXCEPT ![q] = At("register_create", w, 0, TRUE)]
  /\ UNCHANGED <<regime, tables>>

(* The insertion of a user is refused if another request was faster.       *)
AfterCreation == [me_create |-> "me_prefs", lp_create |-> "lp_role",
                  register_create |-> "done"]

CreateUser(q) ==
  LET w == req[q].wallet IN
  /\ req[q].pc \in DOMAIN AfterCreation
  /\ \/ /\ role[w] = "none"
        /\ role' = [role EXCEPT ![w] = "borrower"]
        /\ IF AfterCreation[req[q].pc] = "done"
           THEN Ends(q) ELSE Continues(q, AfterCreation[req[q].pc])
     \/ /\ role[w] # "none"
        /\ Ends(q)
        /\ UNCHANGED role
  /\ UNCHANGED <<regime, prefs, merchant, apps>>

(* createDefaultPreferences, refused if the row is there.                  *)
CreateDefaultPreferences(q) ==
  /\ req[q].pc = "me_prefs"
  /\ prefs' = prefs \cup {req[q].wallet}
  /\ Ends(q)
  /\ UNCHANGED <<regime, role, merchant, apps>>

(* A login or a profile update upserts the user and leaves its role alone. *)
BugResetsRole(r) == "borrower"
Upserted(r) == IF r = "none" THEN "borrower" ELSE r

Login(w) ==
  /\ Upserted(role[w]) # role[w]
  /\ role' = [role EXCEPT ![w] = Upserted(@)]
  /\ UNCHANGED <<regime, prefs, merchant, apps, req>>

UpdateProfile(q, w) ==
  /\ req[q].pc = "done"
  /\ role' = [role EXCEPT ![w] = Upserted(@)]
  /\ \/ req' = [req EXCEPT ![q] = At("update_prefs", w, 0, TRUE)]
     \/ UNCHANGED req
  /\ UNCHANGED <<regime, prefs, merchant, apps>>

UpsertPreferences(q) ==
  /\ req[q].pc = "update_prefs"
  /\ prefs' = prefs \cup {req[q].wallet}
  /\ Ends(q)
  /\ UNCHANGED <<regime, role, merchant, apps>>

(* A call fails, or the process dies: what was written stays.              *)
Abort(q) ==
  /\ "fail" \in regime
  /\ req[q].pc # "done"
  /\ Ends(q)
  /\ UNCHANGED <<regime, tables>>

-----------------------------------------------------------------------------
Onboarding(q) ==
  \/ \E w \in Wallets : Apply(q, w)
  \/ ApplyChecksMerchant(q)
  \/ ApplyChecksPending(q)
  \/ ApplyCreates(q)
  \/ \E i \in DOMAIN apps, v \in {"approve", "reject"} : Review(q, i, v)
  \/ Reject(q)
  \/ Approve(q)
  \/ UpsertMerchant(q)
  \/ FindTargetUser(q)
  \/ MakeMerchant(q)

Profile(q) ==
  \/ \E w \in Wallets : \/ UpdateUserRole(q, w)
                        \/ BecomeLp(q, w)
                        \/ GetOrCreateProfile(q, w)
                        \/ Register(q, w)
                        \/ UpdateProfile(q, w)
  \/ AssignRole(q)
  \/ MakeLp(q)
  \/ CreateUser(q)
  \/ CreateDefaultPreferences(q)
  \/ UpsertPreferences(q)

Next ==
  \/ \E q \in Requests : Onboarding(q) \/ Profile(q) \/ Abort(q)
  \/ \E w \in Wallets : Login(w)

Spec == Init /\ [][Next]_vars

-----------------------------------------------------------------------------
(* As long as reviews do not overlap and nothing fails, a merchant is      *)
(* active exactly when one of its applications was approved, whatever else *)
(* its user does meanwhile; a user who applied and was approved never falls*)
(* back to borrower, unless an administrator says so; and a wallet whose   *)
(* applications do not overlap has at most one that is pending.            *)
MerchantsMatchApprovals ==
  \A w \in Wallets :
    LET approved ==
          {i \in DOMAIN apps : apps[i].wallet = w /\ apps[i].status = "approved"}
    IN /\ regime \cap {"reviews", "fail"} = {} /\ ~InFlight(w, Reviewing) =>
            /\ merchant[w] = "active" <=> approved # {}
            /\ "assign" \notin regime /\ (\E i \in approved : apps[i].linked)
               => role[w] \in {"merchant", "lp_provider"}
       /\ "applies" \notin regime =>
            \A i, j \in Pending(w) : i = j
=============================================================================
