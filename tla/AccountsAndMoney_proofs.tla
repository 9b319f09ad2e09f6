----------------------- MODULE AccountsAndMoney_proofs -----------------------
(***************************************************************************)
(* Of the accounts: a merchant is active exactly when one of its           *)
(* applications was approved (MerchantsMatchApprovals), whatever the       *)
(* requests of users, applicants and administrators interleave; this needs *)
(* no assumption on the constants.                                         *)
(*                                                                         *)
(* Of the terms of a loan: the instalments left are what is owed           *)
(* (InstalmentsLeftAreOwed), for every amount, term and date of a loan that*)
(* the code accepts (LoanTermsConstants).                                  *)
(*                                                                         *)
(* Of the liquidity pool: every figure of an answer is the pool's in a     *)
(* state it was in meanwhile, or 0 where it could not be read              *)
(* (QuotesComeFromThePool), however many calls it takes and whatever moves *)
(* the pool between them, for any amounts and any pool (LiquidityConstants)*)
(***************************************************************************)
EXTENDS Services, FiniteSetTheorems, Induction

Applications == [wallet : Wallets, linked : BOOLEAN,
                 status : {"pending", "approved", "rejected"}]
Onboards == [pc : A!Applying \cup A!Reviewing \cup A!Profiling, wallet : Wallets,
             app : Nat, linked : BOOLEAN]
AccountTypes ==
  /\ role \in [Wallets -> A!Roles \cup {"none"}]
  /\ merchant \in [Wallets -> {"none", "inactive", "active"}]
  /\ apps \in Seq(Applications)
  /\ req \in [Requests -> {A!Done} \cup Onboards]

Applies(q) == req[q].pc \in A!Applying
Reviews(q) == req[q].pc \in A!Reviewing
Decides(q) == req[q].pc \in {"approve", "reject"}
Follows(q) == req[q].pc \in {"review_merchant", "review_user", "review_role"}
Of(i, w, status) == i \in DOMAIN apps /\ apps[i].wallet = w /\ apps[i].status = status

(* A linked application is of a wallet with a user; a review is of an      *)
(* application of its wallet; and roles are assigned where they may be.    *)
Bookkept ==
  /\ \A i \in DOMAIN apps : apps[i].linked => role[apps[i].wallet] # "none"
  /\ \A q \in Requests : Applies(q) /\ req[q].linked => role[req[q].wallet] # "none"
  /\ \A q \in Requests : Reviews(q) => /\ req[q].app \in DOMAIN apps
                                       /\ apps[req[q].app].wallet = req[q].wallet
  /\ \A q \in Requests : req[q].pc = "assign" => "assign" \in regime

(* One review of a wallet at a time, which is not cut short: it decides on *)
(* a pending application, and until it is through it owes an approved one  *)
(* its active merchant, and a linked one its role.                         *)
Reviewed == regime \cap {"reviews", "fail"} = {}
ReviewsApart == \A p, q \in Requests :
  Reviews(p) /\ Reviews(q) /\ req[p].wallet = req[q].wallet => p = q
StatusIsReviewed == \A q \in Requests :
  /\ Decides(q) => apps[req[q].app].status = "pending"
  /\ Follows(q) => apps[req[q].app].status = "approved"
ActiveIsApproved == \A w \in Wallets : merchant[w] = "active" => \E i : Of(i, w, "approved")
ApprovedIsActive == \A w \in Wallets, i \in DOMAIN apps : Of(i, w, "approved") =>
  \/ merchant[w] = "active"
  \/ \E q \in Requests : req[q].pc = "review_merchant" /\ req[q].wallet = w
ApprovedHasRole == \A w \in Wallets, i \in DOMAIN apps :
  Of(i, w, "approved") /\ apps[i].linked =>
    \/ role[w] \in {"merchant", "lp_provider"}
    \/ \E q \in Requests : Follows(q) /\ req[q].wallet = w
ReviewInvariant ==
  /\ ReviewsApart /\ StatusIsReviewed /\ ActiveIsApproved /\ ApprovedIsActive
  /\ "assign" \notin regime => ApprovedHasRole

(* One application of a wallet at a time: none is created on another.      *)
AppliesApart == \A p, q \in Requests :
  Applies(p) /\ Applies(q) /\ req[p].wallet = req[q].wallet => p = q
OnePending == \A w \in Wallets, i, j \in DOMAIN apps :
  Of(i, w, "pending") /\ Of(j, w, "pending") => i = j
NoneBefore == \A q \in Requests, i \in DOMAIN apps :
  req[q].pc = "apply_create" => ~Of(i, req[q].wallet, "pending")
ApplyInvariant == AppliesApart /\ OnePending /\ NoneBefore

AccountInvariant ==
  /\ AccountTypes /\ Bookkept
  /\ Reviewed => ReviewInvariant
  /\ "applies" \notin regime => ApplyInvariant

LEMMA AccountsExercised ==
  ASSUME [Next]_vars
  PROVE  service' = service /\ (service = "Accounts" => [A!Next]_(A!vars))
  BY DEF Next, vars, accounts, A!vars, A!tables

LEMMA OnboardsTyped ==
  ASSUME AccountTypes, NEW q \in Requests
  PROVE  /\ req[q].pc # "done" <=> req[q] \in Onboards
         /\ req[q].pc # "done" => req[q].wallet \in Wallets
         /\ Applies(q) \/ Reviews(q) => req[q].pc # "done"
         /\ Reviews(q) <=> Decides(q) \/ Follows(q)
  BY DEF AccountTypes, Onboards, A!Done, Applies, Reviews, Decides, Follows,
         A!Applying, A!Reviewing, A!Profiling

LEMMA AppsTyped ==
  ASSUME AccountTypes
  PROVE  /\ DOMAIN apps = 1 .. Len(apps) /\ Len(apps) \in Nat
         /\ \A i \in DOMAIN apps : apps[i] \in Applications /\ apps[i].wallet \in Wallets
<1>1. DOMAIN apps = 1 .. Len(apps) /\ Len(apps) \in Nat /\ \A i \in DOMAIN apps : apps[i] \in Applications
  BY DEF AccountTypes
<1>2. \A a \in Applications : a.wallet \in Wallets
  BY DEF Applications
<1> QED BY <1>1, <1>2

(* A request goes on to its next call, or ends, or begins.                 *)
OthersWait(q) == \A p \in Requests : p # q => req'[p] = req[p]

LEMMA OnboardContinues ==
  ASSUME AccountTypes, NEW q \in Requests, req[q].pc # "done",
         NEW pc \in A!Applying \cup A!Reviewing \cup A!Profiling, A!Continues(q, pc)
  PROVE  /\ req' \in [Requests -> {A!Done} \cup Onboards] /\ OthersWait(q)
         /\ req'[q].pc = pc /\ req'[q].wallet = req[q].wallet /\ req'[q].app = req[q].app
         /\ req'[q].linked = req[q].linked
<1>1. req[q] \in Onboards
  BY OnboardsTyped
<1>2. ASSUME NEW x \in Onboards
      PROVE  /\ [x EXCEPT !.pc = pc] \in Onboards
             /\ [x EXCEPT !.pc = pc].pc = pc /\ [x EXCEPT !.pc = pc].wallet = x.wallet
             /\ [x EXCEPT !.pc = pc].app = x.app /\ [x EXCEPT !.pc = pc].linked = x.linked
  BY DEF Onboards
<1> DEFINE r == [req[q] EXCEPT !.pc = pc]
<1>3. /\ r \in Onboards /\ r.pc = pc /\ r.wallet = req[q].wallet /\ r.app = req[q].app
      /\ r.linked = req[q].linked
  BY <1>1, <1>2
<1>4. req' = [req EXCEPT ![q] = r]
  BY DEF A!Continues
<1> HIDE DEF r
<1> QED BY <1>3, <1>4 DEF AccountTypes, OthersWait

LEMMA OnboardEnds ==
  ASSUME AccountTypes, NEW q \in Requests, A!Ends(q)
  PROVE  /\ req' \in [Requests -> {A!Done} \cup Onboards] /\ OthersWait(q)
         /\ req'[q].pc = "done" /\ ~Applies(q)' /\ ~Reviews(q)'
  BY DEF AccountTypes, OthersWait, A!Ends, A!Done, Applies, Reviews, A!Applying, A!Reviewing

LEMMA OnboardStarts ==
  ASSUME AccountTypes, NEW q \in Requests, NEW w \in Wallets, NEW i \in Nat,
         NEW linked \in BOOLEAN, NEW pc \in A!Applying \cup A!Reviewing \cup A!Profiling,
         req' = [req EXCEPT ![q] = A!At(pc, w, i, linked)]
  PROVE  /\ req' \in [Requests -> {A!Done} \cup Onboards] /\ OthersWait(q)
         /\ req'[q].pc = pc /\ req'[q].wallet = w /\ req'[q].app = i /\ req'[q].linked = linked
<1> DEFINE r == A!At(pc, w, i, linked)
<1>1. r \in Onboards /\ r.pc = pc /\ r.wallet = w /\ r.app = i /\ r.linked = linked
  BY DEF A!At, Onboards
<1> HIDE DEF r
<1> QED BY <1>1 DEF AccountTypes, OthersWait, r

(* What other requests do to the users leaves a reviewed one its role.     *)
RolesKept == \A w \in Wallets :
  /\ role[w] # "none" => role'[w] # "none"
  /\ role[w] \in {"merchant", "lp_provider"} /\ "assign" \notin regime
       => role'[w] \in {"merchant", "lp_provider"}

LEMMA ReviewsKept ==
  ASSUME AccountTypes, AccountTypes', ReviewInvariant, Bookkept, UNCHANGED <<regime, merchant>>,
         RolesKept, DOMAIN apps \subseteq DOMAIN apps',
         \A i \in DOMAIN apps : apps'[i] = apps[i],
         \A i \in DOMAIN apps' : i \in DOMAIN apps \/ apps'[i].status = "pending",
         \A p \in Requests : req'[p] = req[p] \/ (~Reviews(p) /\ ~Reviews(p)')
  PROVE  ReviewInvariant'
<1>1. \A p \in Requests :
        /\ Reviews(p)' <=> Reviews(p) /\ req'[p] = req[p]
        /\ Decides(p)' => Decides(p) /\ req'[p] = req[p]
        /\ Follows(p)' <=> Follows(p) /\ req'[p] = req[p]
        /\ Follows(p) => req'[p] = req[p]
        /\ req[p].pc = "review_merchant" => req'[p] = req[p]
  BY DEF Reviews, Decides, Follows, A!Reviewing
<1>2. \A i, w : Of(i, w, "approved")' <=> Of(i, w, "approved")
  BY DEF Of
<1>3. ReviewsApart'
  BY <1>1 DEF ReviewInvariant, ReviewsApart
<1>4. StatusIsReviewed'
  <2>1. \A p \in Requests : Decides(p) \/ Follows(p) => req[p].app \in DOMAIN apps
    BY OnboardsTyped DEF Bookkept
  <2> QED BY <1>1, <2>1 DEF ReviewInvariant, StatusIsReviewed
<1>5. ActiveIsApproved'
  BY <1>2 DEF ReviewInvariant, ActiveIsApproved
<1>6. ApprovedIsActive'
  <2>1. SUFFICES ASSUME NEW w \in Wallets, NEW i \in DOMAIN apps', Of(i, w, "approved")'
                 PROVE  \/ merchant'[w] = "active"
                        \/ \E q \in Requests : req'[q].pc = "review_merchant" /\ req'[q].wallet = w
    BY DEF ApprovedIsActive
  <2>2. i \in DOMAIN apps /\ Of(i, w, "approved")
    BY <1>2, <2>1 DEF Of
  <2> QED BY <1>1, <2>2 DEF ReviewInvariant, ApprovedIsActive
<1>7. ASSUME "assign" \notin regime PROVE ApprovedHasRole'
  <2>1. SUFFICES ASSUME NEW w \in Wallets, NEW i \in DOMAIN apps', Of(i, w, "approved")',
                        apps'[i].linked
                 PROVE  \/ role'[w] \in {"merchant", "lp_provider"}
                        \/ \E q \in Requests : Follows(q)' /\ req'[q].wallet = w
    BY DEF ApprovedHasRole
  <2>2. i \in DOMAIN apps /\ Of(i, w, "approved") /\ apps[i].linked
    BY <1>2, <2>1 DEF Of
  <2>3. CASE role[w] \in {"merchant", "lp_provider"}
    BY <1>7, <2>3 DEF RolesKept
  <2>4. CASE \E q \in Requests : Follows(q) /\ req[q].wallet = w
    BY <1>1, <2>4
  <2> QED BY <1>7, <2>2, <2>3, <2>4 DEF ReviewInvariant, ApprovedHasRole
<1> QED BY <1>3, <1>4, <1>5, <1>6, <1>7 DEF ReviewInvariant

LEMMA AppliesKept ==
  ASSUME AccountTypes, AccountTypes', ApplyInvariant,
         DOMAIN apps' \subseteq DOMAIN apps,
         \A i \in DOMAIN apps' : /\ apps'[i].wallet = apps[i].wallet
                                 /\ apps'[i].status = "pending" => apps[i].status = "pending",
         \A p \in Requests : Applies(p)' =>
            /\ Applies(p) /\ req'[p].wallet = req[p].wallet
            /\ req'[p].pc = "apply_create" =>
                 \/ req[p].pc = "apply_create"
                 \/ \A i \in DOMAIN apps : ~Of(i, req[p].wallet, "pending")
  PROVE  ApplyInvariant'
<1>1. \A w : \A i \in DOMAIN apps' : Of(i, w, "pending")' => i \in DOMAIN apps /\ Of(i, w, "pending")
  BY DEF Of
<1>2. AppliesApart'
  BY DEF ApplyInvariant, AppliesApart
<1>3. OnePending'
  BY <1>1 DEF ApplyInvariant, OnePending
<1>4. NoneBefore'
  <2>1. SUFFICES ASSUME NEW p \in Requests, NEW i \in DOMAIN apps', req'[p].pc = "apply_create",
                        Of(i, req[p].wallet, "pending")', req'[p].wallet = req[p].wallet
                 PROVE  FALSE
    BY DEF NoneBefore, Applies, A!Applying
  <2>2. Applies(p)'
    BY <2>1 DEF Applies, A!Applying
  <2>3. i \in DOMAIN apps /\ Of(i, req[p].wallet, "pending")
    BY <2>1 DEF Of
  <2> QED BY <2>1, <2>2, <2>3 DEF ApplyInvariant, NoneBefore
<1> QED BY <1>2, <1>3, <1>4 DEF ApplyInvariant

LEMMA AccountTypesNext ==
  ASSUME AccountTypes, Bookkept, [A!Next]_(A!vars)
  PROVE  AccountTypes'
<1> USE DEF A!tables
<1>1. ASSUME NEW q \in Requests, A!Onboarding(q)
      PROVE  AccountTypes'
  <2>1. ASSUME NEW w \in Wallets, A!Apply(q, w)
        PROVE  AccountTypes'
    <3>1. /\ req' = [req EXCEPT ![q] = A!At("apply_merchant", w, 0, role[w] # "none")]
          /\ UNCHANGED <<role, merchant, apps>>
      BY <2>1 DEF A!Apply
    <3>2. "apply_merchant" \in A!Applying \cup A!Reviewing \cup A!Profiling /\ 0 \in Nat
          /\ (role[w] # "none") \in BOOLEAN
      BY DEF A!Applying
    <3> QED BY <3>1, <3>2, OnboardStarts DEF AccountTypes
  <2>2. ASSUME NEW i \in DOMAIN apps, NEW v \in {"approve", "reject"}, A!Review(q, i, v)
        PROVE  AccountTypes'
    <3>1. /\ req' = [req EXCEPT ![q] = A!At(v, apps[i].wallet, i, apps[i].linked)]
          /\ UNCHANGED <<role, merchant, apps>>
      BY <2>2 DEF A!Review
    <3>2. /\ v \in A!Applying \cup A!Reviewing \cup A!Profiling
          /\ i \in Nat /\ apps[i].wallet \in Wallets /\ apps[i].linked \in BOOLEAN
      BY AppsTyped DEF A!Reviewing, Applications
    <3> QED BY <3>1, <3>2, OnboardStarts DEF AccountTypes
  <2>3. ASSUME A!ApplyChecksMerchant(q) \/ A!ApplyChecksPending(q) \/ A!FindTargetUser(q)
        PROVE  AccountTypes'
    <3>1. /\ UNCHANGED <<role, merchant, apps>> /\ req[q].pc # "done"
          /\ \/ A!Ends(q)
             \/ \E pc \in A!Applying \cup A!Reviewing \cup A!Profiling : A!Continues(q, pc)
      BY <2>3 DEF A!ApplyChecksMerchant, A!ApplyChecksPending, A!FindTargetUser,
                  A!Applying, A!Reviewing
    <3> QED BY <3>1, OnboardContinues, OnboardEnds DEF AccountTypes
  <2>4. ASSUME A!ApplyCreates(q) PROVE AccountTypes'
    <3> DEFINE new == [wallet |-> req[q].wallet, linked |-> req[q].linked, status |-> "pending"]
    <3>1. apps' = Append(apps, new) /\ A!Ends(q) /\ UNCHANGED <<role, merchant>>
          /\ req[q].pc = "apply_create"
      BY <2>4 DEF A!ApplyCreates
    <3>2. new \in Applications
      BY <3>1, OnboardsTyped DEF Applications, Onboards
    <3> HIDE DEF new
    <3>3. apps' \in Seq(Applications)
      BY <3>1, <3>2 DEF AccountTypes
    <3> QED BY <3>1, <3>3, OnboardEnds DEF AccountTypes
  <2>5. ASSUME NEW s \in {"approved", "rejected"}, Reviews(q),
               apps' = [apps EXCEPT ![req[q].app].status = s]
        PROVE  apps' \in Seq(Applications)
    <3>1. req[q].app \in 1 .. Len(apps)
      BY <2>5, AppsTyped DEF Bookkept
    <3>2. [apps[req[q].app] EXCEPT !.status = s] \in Applications
      <4>1. ASSUME NEW x \in Applications PROVE [x EXCEPT !.status = s] \in Applications
        BY DEF Applications
      <4> QED BY <3>1, <4>1, AppsTyped
    <3> QED BY <2>5, <3>1, <3>2 DEF AccountTypes
  <2>6. ASSUME A!Reject(q) PROVE AccountTypes'
    <3>1. Reviews(q) /\ A!Ends(q) /\ UNCHANGED <<role, merchant>>
          /\ apps' = [apps EXCEPT ![req[q].app].status = "rejected"]
      BY <2>6 DEF A!Reject, Reviews, A!Reviewing
    <3>2. apps' \in Seq(Applications)
      BY <2>5, <3>1
    <3> QED BY <3>1, <3>2, OnboardEnds DEF AccountTypes
  <2>7. ASSUME A!Approve(q) PROVE AccountTypes'
    <3>1. Reviews(q) /\ A!Continues(q, "review_merchant") /\ UNCHANGED <<role, merchant>>
          /\ apps' = [apps EXCEPT ![req[q].app].status = "approved"]
          /\ req[q].pc # "done"
      BY <2>7 DEF A!Approve, Reviews, A!Reviewing
    <3>2. apps' \in Seq(Applications)
      BY <2>5, <3>1
    <3>3. "review_merchant" \in A!Applying \cup A!Reviewing \cup A!Profiling
      BY DEF A!Reviewing
    <3> QED BY <3>1, <3>2, <3>3, OnboardContinues DEF AccountTypes
  <2>8. ASSUME A!UpsertMerchant(q) PROVE AccountTypes'
    <3>1. /\ A!Continues(q, "review_user") /\ UNCHANGED <<role, apps>> /\ req[q].pc # "done"
          /\ merchant' = [merchant EXCEPT ![req[q].wallet] = "active"]
      BY <2>8 DEF A!UpsertMerchant
    <3>2. "review_user" \in A!Applying \cup A!Reviewing \cup A!Profiling
      BY DEF A!Reviewing
    <3>3. merchant' \in [Wallets -> {"none", "inactive", "active"}]
      BY <3>1 DEF AccountTypes
    <3> QED BY <3>1, <3>2, <3>3, OnboardContinues DEF AccountTypes
  <2>9. ASSUME A!MakeMerchant(q) PROVE AccountTypes'
    <3>1. /\ A!Ends(q) /\ UNCHANGED <<merchant, apps>>
          /\ role' = [role EXCEPT ![req[q].wallet] = "merchant"]
      BY <2>9 DEF A!MakeMerchant
    <3>2. role' \in [Wallets -> A!Roles \cup {"none"}]
      BY <3>1 DEF AccountTypes, A!Roles
    <3> QED BY <3>1, <3>2, OnboardEnds DEF AccountTypes
  <2> QED
    BY <1>1, <2>1, <2>2, <2>3, <2>4, <2>6, <2>7, <2>8, <2>9 DEF A!Onboarding
<1>2. ASSUME NEW q \in Requests, A!Profile(q)
      PROVE  AccountTypes'
  <2>1. ASSUME NEW w \in Wallets,
               \/ A!UpdateUserRole(q, w) \/ A!BecomeLp(q, w) \/ A!GetOrCreateProfile(q, w)
               \/ A!Register(q, w)
        PROVE  AccountTypes'
    <3>1. PICK pc \in A!Profiling : req' = [req EXCEPT ![q] = A!At(pc, w, 0, TRUE)]
      BY <2>1 DEF A!UpdateUserRole, A!BecomeLp, A!GetOrCreateProfile, A!Register, A!Profiling
    <3>2. UNCHANGED <<role, merchant, apps>>
      BY <2>1 DEF A!UpdateUserRole, A!BecomeLp, A!GetOrCreateProfile, A!Register
    <3> QED BY <3>1, <3>2, OnboardStarts DEF AccountTypes
  <2>2. ASSUME NEW w \in Wallets, A!UpdateProfile(q, w)
        PROVE  AccountTypes'
    <3>1. /\ UNCHANGED <<merchant, apps>> /\ role' = [role EXCEPT ![w] = A!Upserted(role[w])]
          /\ \/ req' = [req EXCEPT ![q] = A!At("update_prefs", w, 0, TRUE)]
             \/ UNCHANGED req
      BY <2>2 DEF A!UpdateProfile
    <3>2. A!Upserted(role[w]) \in A!Roles \cup {"none"}
      BY DEF AccountTypes, A!Upserted, A!Roles
    <3>3. role' \in [Wallets -> A!Roles \cup {"none"}]
      BY <3>1, <3>2 DEF AccountTypes
    <3>4. "update_prefs" \in A!Applying \cup A!Reviewing \cup A!Profiling
      BY DEF A!Profiling
    <3>5. req' \in [Requests -> {A!Done} \cup Onboards]
      BY <3>1, <3>4, OnboardStarts DEF AccountTypes
    <3> QED BY <3>1, <3>3, <3>5 DEF AccountTypes
  <2>3. ASSUME A!AssignRole(q) \/ A!MakeLp(q)
        PROVE  AccountTypes'
    <3>1. PICK r \in A!Roles : role' = [role EXCEPT ![req[q].wallet] = r]
      BY <2>3 DEF A!AssignRole, A!MakeLp, A!Roles
    <3>2. A!Ends(q) /\ UNCHANGED <<merchant, apps>>
      BY <2>3 DEF A!AssignRole, A!MakeLp
    <3>3. role' \in [Wallets -> A!Roles \cup {"none"}]
      BY <3>1 DEF AccountTypes
    <3> QED BY <3>2, <3>3, OnboardEnds DEF AccountTypes
  <2>4. ASSUME A!CreateUser(q)
        PROVE  AccountTypes'
    <3>1. /\ UNCHANGED <<merchant, apps>> /\ req[q].pc # "done"
          /\ \/ role' = [role EXCEPT ![req[q].wallet] = "borrower"]
             \/ UNCHANGED role
          /\ \/ A!Ends(q)
             \/ \E pc \in A!Profiling : A!Continues(q, pc)
      BY <2>4 DEF A!CreateUser, A!AfterCreation, A!Profiling
    <3>2. role' \in [Wallets -> A!Roles \cup {"none"}]
      BY <3>1 DEF AccountTypes, A!Roles
    <3>3. req' \in [Requests -> {A!Done} \cup Onboards]
      BY <3>1, OnboardEnds, OnboardContinues
    <3> QED BY <3>1, <3>2, <3>3 DEF AccountTypes
  <2>5. ASSUME A!CreateDefaultPreferences(q) \/ A!UpsertPreferences(q)
        PROVE  AccountTypes'
    BY <2>5, OnboardEnds DEF A!CreateDefaultPreferences, A!UpsertPreferences, AccountTypes
  <2> QED BY <1>2, <2>1, <2>2, <2>3, <2>4, <2>5 DEF A!Profile
<1>3. ASSUME NEW q \in Requests, A!Abort(q)
      PROVE  AccountTypes'
  BY <1>3, OnboardEnds DEF A!Abort, AccountTypes
<1>4. ASSUME NEW w \in Wallets, A!Login(w)
      PROVE  AccountTypes'
  <2>1. A!Upserted(role[w]) \in A!Roles \cup {"none"}
    BY DEF AccountTypes, A!Upserted, A!Roles
  <2> QED BY <1>4, <2>1 DEF A!Login, AccountTypes
<1>5. CASE UNCHANGED A!vars
  BY <1>5 DEF A!vars, AccountTypes
<1> QED BY <1>1, <1>2, <1>3, <1>4, <1>5 DEF A!Next

LEMMA BooksKept ==
  ASSUME AccountTypes, AccountTypes', Bookkept, UNCHANGED regime,
         \A w \in Wallets : role[w] # "none" => role'[w] # "none",
         DOMAIN apps' = DOMAIN apps,
         \A i \in DOMAIN apps : /\ apps'[i].wallet = apps[i].wallet
                                /\ apps'[i].linked = apps[i].linked,
         \A p \in Requests :
           /\ Applies(p)' => /\ Applies(p) /\ req'[p].wallet = req[p].wallet
                             /\ req'[p].linked = req[p].linked
           /\ Reviews(p)' => /\ Reviews(p) /\ req'[p].wallet = req[p].wallet
                             /\ req'[p].app = req[p].app
           /\ req'[p].pc = "assign" => req[p].pc = "assign" \/ "assign" \in regime
  PROVE  Bookkept'
<1>1. \A i \in DOMAIN apps : apps[i].wallet \in Wallets
  BY AppsTyped
<1>2. \A p \in Requests : Applies(p) \/ Reviews(p) => req[p].wallet \in Wallets
  BY OnboardsTyped
<1>3. \A i \in DOMAIN apps' : apps'[i].linked => role'[apps'[i].wallet] # "none"
  BY <1>1 DEF Bookkept
<1>4. \A q \in Requests : Applies(q)' /\ req'[q].linked => role'[req'[q].wallet] # "none"
  BY <1>2 DEF Bookkept
<1>5. \A q \in Requests : Reviews(q)' => /\ req'[q].app \in DOMAIN apps'
                                         /\ apps'[req'[q].app].wallet = req'[q].wallet
  BY DEF Bookkept
<1>6. \A q \in Requests : req'[q].pc = "assign" => "assign" \in regime'
  BY DEF Bookkept
<1> QED BY <1>3, <1>4, <1>5, <1>6 DEF Bookkept

(* What a user does with its profile is none of the onboarding's business. *)
LEMMA ProfileKeepsAll ==
  ASSUME AccountInvariant, AccountTypes', UNCHANGED <<regime, merchant, apps>>, RolesKept,
         \A p \in Requests :
           \/ req'[p] = req[p]
           \/ /\ ~Applies(p) /\ ~Applies(p)' /\ ~Reviews(p) /\ ~Reviews(p)'
              /\ req'[p].pc = "assign" => "assign" \in regime
  PROVE  AccountInvariant'
<1>1. AccountTypes /\ Bookkept
  BY DEF AccountInvariant
<1>2. \A p \in Requests :
        /\ Applies(p)' => Applies(p) /\ req'[p] = req[p]
        /\ Reviews(p)' => Reviews(p) /\ req'[p] = req[p]
        /\ req'[p].pc = "assign" => req[p].pc = "assign" \/ "assign" \in regime
  BY DEF Applies, Reviews
<1>3. Bookkept'
  BY <1>1, <1>2, BooksKept DEF RolesKept
<1>4. Reviewed => ReviewInvariant'
  BY <1>1, ReviewsKept DEF AccountInvariant
<1>5. "applies" \notin regime => ApplyInvariant'
  <2>1. \A p \in Requests : Applies(p)' =>
            /\ Applies(p) /\ req'[p].wallet = req[p].wallet
            /\ req'[p].pc = "apply_create" => req[p].pc = "apply_create"
    BY <1>2
  <2> QED BY <1>1, <2>1, AppliesKept DEF AccountInvariant
<1> QED BY <1>3, <1>4, <1>5 DEF AccountInvariant, Reviewed

LEMMA ApplyKeepsAll ==
  ASSUME AccountInvariant, AccountTypes', NEW q \in Requests,
         \/ \E w \in Wallets : A!Apply(q, w)
         \/ A!ApplyChecksMerchant(q) \/ A!ApplyChecksPending(q) \/ A!ApplyCreates(q)
  PROVE  AccountInvariant'
<1> USE DEF A!tables
<1>1. AccountTypes /\ Bookkept
  BY DEF AccountInvariant
<1>2. UNCHANGED <<regime, role, merchant>> /\ RolesKept
  BY DEF A!Apply, A!ApplyChecksMerchant, A!ApplyChecksPending, A!ApplyCreates, RolesKept
<1>3. ASSUME NEW w \in Wallets, A!Apply(q, w) PROVE AccountInvariant'
  <2>1. /\ apps' = apps /\ req[q].pc = "done"
        /\ "applies" \in regime \/ ~A!InFlight(w, A!Applying)
        /\ OthersWait(q) /\ req'[q].pc = "apply_merchant" /\ req'[q].wallet = w
        /\ req'[q].linked = (role[w] # "none")
    <3>1. req' = [req EXCEPT ![q] = A!At("apply_merchant", w, 0, role[w] # "none")]
      BY <1>3 DEF A!Apply
    <3>2. PICK linked \in BOOLEAN : linked = (role[w] # "none")
      OBVIOUS
    <3>3. "apply_merchant" \in A!Applying \cup A!Reviewing \cup A!Profiling
      BY DEF A!Applying
    <3>4. req' = [req EXCEPT ![q] = A!At("apply_merchant", w, 0, linked)]
      BY <3>1, <3>2
    <3>5. /\ OthersWait(q) /\ req'[q].pc = "apply_merchant" /\ req'[q].wallet = w
          /\ req'[q].linked = linked
      BY <1>1, <3>3, <3>4, OnboardStarts
    <3> QED BY <1>3, <3>2, <3>5 DEF A!Apply
  <2>2. /\ ~Reviews(q) /\ ~Reviews(q)' /\ ~Applies(q)
        /\ \A p \in Requests : p # q => req'[p] = req[p]
    BY <2>1 DEF Reviews, Applies, A!Reviewing, A!Applying, OthersWait
  <2>3. Bookkept'
    <3>1. \A p \in Requests : Applies(p)' /\ req'[p].linked => role[req'[p].wallet] # "none"
      BY <1>1, <2>1, <2>2 DEF Bookkept, Applies
    <3>2. \A p \in Requests : Reviews(p)' => Reviews(p) /\ req'[p] = req[p]
      BY <2>2 DEF Reviews
    <3>3. \A p \in Requests : req'[p].pc = "assign" => req[p].pc = "assign"
      BY <2>1, <2>2
    <3> QED BY <1>1, <1>2, <2>1, <3>1, <3>2, <3>3 DEF Bookkept
  <2>4. Reviewed => ReviewInvariant'
    BY <1>1, <1>2, <2>1, <2>2, ReviewsKept DEF AccountInvariant
  <2>5. ASSUME "applies" \notin regime PROVE ApplyInvariant'
    <3>1. ApplyInvariant /\ \A p \in Requests : Applies(p) => req[p].wallet # w
      BY <2>1, <2>5 DEF A!InFlight, Applies, AccountInvariant
    <3>2. AppliesApart'
      <4>1. SUFFICES ASSUME NEW p \in Requests, NEW r \in Requests, Applies(p)', Applies(r)',
                            req'[p].wallet = req'[r].wallet, p # r
                     PROVE  FALSE
        BY DEF AppliesApart
      <4>2. CASE p # q /\ r # q
        BY <2>2, <3>1, <4>1, <4>2 DEF ApplyInvariant, AppliesApart, Applies
      <4>3. CASE p = q \/ r = q
        BY <2>1, <2>2, <3>1, <4>1, <4>3 DEF Applies
      <4> QED BY <4>2, <4>3
    <3>3. OnePending' /\ NoneBefore'
      BY <2>1, <2>2, <3>1 DEF ApplyInvariant, OnePending, NoneBefore, Of
    <3> QED BY <3>2, <3>3 DEF ApplyInvariant
  <2> QED BY <1>2, <2>3, <2>4, <2>5 DEF AccountInvariant, Reviewed
<1>4. ASSUME A!ApplyChecksMerchant(q) \/ A!ApplyChecksPending(q)
      PROVE  AccountInvariant'
  <2>1. apps' = apps /\ Applies(q) /\ ~Reviews(q) /\ req[q].pc # "done"
    BY <1>4 DEF A!ApplyChecksMerchant, A!ApplyChecksPending, Applies, Reviews,
                A!Applying, A!Reviewing
  <2>2. \/ A!Ends(q)
        \/ req[q].pc = "apply_merchant" /\ A!Continues(q, "apply_pending")
        \/ A!Continues(q, "apply_create") /\ A!Pending(req[q].wallet) = {}
    BY <1>4 DEF A!ApplyChecksMerchant, A!ApplyChecksPending, A!MayApply
  <2>3. /\ \A p \in Requests : p # q => req'[p] = req[p]
        /\ \/ req'[q].pc = "done"
           \/ /\ req'[q].wallet = req[q].wallet /\ req'[q].linked = req[q].linked
              /\ \/ req'[q].pc = "apply_pending"
                 \/ req'[q].pc = "apply_create" /\ A!Pending(req[q].wallet) = {}
    <3>1. "apply_pending" \in A!Applying \cup A!Reviewing \cup A!Profiling
          /\ "apply_create" \in A!Applying \cup A!Reviewing \cup A!Profiling
      BY DEF A!Applying
    <3> QED BY <1>1, <2>1, <2>2, <3>1, OnboardContinues, OnboardEnds DEF OthersWait
  <2>4. ~Reviews(q)' /\ req'[q].pc # "assign"
    BY <2>3 DEF Reviews, A!Reviewing
  <2>5. \A p \in Requests :
           /\ Applies(p)' => /\ Applies(p) /\ req'[p].wallet = req[p].wallet
                             /\ req'[p].linked = req[p].linked
                             /\ req'[p].pc = "apply_create" =>
                                  \/ req[p].pc = "apply_create"
                                  \/ \A i \in DOMAIN apps : ~Of(i, req[p].wallet, "pending")
           /\ Reviews(p)' => Reviews(p) /\ req'[p] = req[p]
           /\ req'[p].pc = "assign" => req[p].pc = "assign"
    BY <2>1, <2>3, <2>4 DEF Applies, Reviews, A!Applying, A!Pending, Of
  <2>6. Bookkept'
    BY <1>1, <1>2, <2>1, <2>5, BooksKept
  <2>7. Reviewed => ReviewInvariant'
    BY <1>1, <1>2, <2>1, <2>3, <2>4, ReviewsKept DEF AccountInvariant
  <2>8. "applies" \notin regime => ApplyInvariant'
    BY <1>1, <2>1, <2>5, AppliesKept DEF AccountInvariant
  <2> QED BY <1>2, <2>6, <2>7, <2>8 DEF AccountInvariant, Reviewed
<1>5. ASSUME A!ApplyCreates(q)
      PROVE  AccountInvariant'
  <2> DEFINE new == [wallet |-> req[q].wallet, linked |-> req[q].linked, status |-> "pending"]
             last == Len(apps) + 1
  <2>1. /\ apps' = Append(apps, new) /\ req[q].pc = "apply_create"
        /\ req'[q].pc = "done" /\ \A p \in Requests : p # q => req'[p] = req[p]
    BY <1>1, <1>5, OnboardEnds DEF A!ApplyCreates, OthersWait
  <2>2. /\ DOMAIN apps' = DOMAIN apps \cup {last} /\ last \notin DOMAIN apps
        /\ apps'[last] = new /\ \A i \in DOMAIN apps : apps'[i] = apps[i]
    BY <1>1, <2>1 DEF AccountTypes
  <2>3. new.wallet = req[q].wallet /\ new.linked = req[q].linked /\ new.status = "pending"
    OBVIOUS
  <2> HIDE DEF new, last
  <2>4. /\ Applies(q) /\ ~Reviews(q) /\ ~Applies(q)' /\ ~Reviews(q)'
    BY <2>1 DEF Applies, Reviews, A!Applying, A!Reviewing
  <2>5. Bookkept'
    <3>1. \A i \in DOMAIN apps' : apps'[i].linked => role'[apps'[i].wallet] # "none"
      BY <1>1, <1>2, <2>2, <2>3, <2>4 DEF Bookkept
    <3>2. \A p \in Requests : /\ Applies(p)' => Applies(p) /\ req'[p] = req[p]
                              /\ Reviews(p)' => Reviews(p) /\ req'[p] = req[p]
                              /\ req'[p].pc = "assign" => req[p].pc = "assign"
      BY <2>1, <2>4 DEF Applies, Reviews
    <3>3. \A p \in Requests : Reviews(p)' => /\ req'[p].app \in DOMAIN apps'
                                             /\ apps'[req'[p].app].wallet = req'[p].wallet
      BY <1>1, <2>2, <3>2 DEF Bookkept
    <3> QED BY <1>1, <1>2, <3>1, <3>2, <3>3 DEF Bookkept
  <2>6. Reviewed => ReviewInvariant'
    <3>1. \A p \in Requests : req'[p] = req[p] \/ (~Reviews(p) /\ ~Reviews(p)')
      BY <2>1, <2>4
    <3>2. \A i \in DOMAIN apps' : i \in DOMAIN apps \/ apps'[i].status = "pending"
      BY <2>2, <2>3
    <3> QED BY <1>1, <1>2, <2>2, <3>1, <3>2, ReviewsKept DEF AccountInvariant
  <2>7. ASSUME "applies" \notin regime PROVE ApplyInvariant'
    <3>1. ApplyInvariant /\ \A i \in DOMAIN apps : ~Of(i, req[q].wallet, "pending")
      BY <2>1, <2>7 DEF AccountInvariant, ApplyInvariant, NoneBefore
    <3>2. \A p \in Requests : Applies(p)' => p # q /\ Applies(p) /\ req'[p] = req[p]
      BY <2>1, <2>4 DEF Applies
    <3>3. \A w : \A i \in DOMAIN apps' :
            Of(i, w, "pending")' => \/ i \in DOMAIN apps /\ Of(i, w, "pending")
                                    \/ i = last /\ w = req[q].wallet
      BY <2>2, <2>3 DEF Of
    <3>4. AppliesApart'
      BY <3>1, <3>2 DEF ApplyInvariant, AppliesApart
    <3>5. OnePending'
      <4>1. SUFFICES ASSUME NEW w \in Wallets, NEW i \in DOMAIN apps', NEW j \in DOMAIN apps',
                            Of(i, w, "pending")', Of(j, w, "pending")', i # j
                     PROVE  FALSE
        BY DEF OnePending
      <4> QED BY <3>1, <3>3, <4>1 DEF ApplyInvariant, OnePending
    <3>6. NoneBefore'
      <4>1. SUFFICES ASSUME NEW p \in Requests, NEW i \in DOMAIN apps',
                            req'[p].pc = "apply_create", Of(i, req[p].wallet, "pending")',
                            p # q, req'[p] = req[p], Applies(p)
                     PROVE  FALSE
        BY <2>1, <3>2 DEF NoneBefore, Applies, A!Applying
      <4>2. Of(i, req[p].wallet, "pending") \/ req[p].wallet = req[q].wallet
        BY <3>3, <4>1
      <4> QED BY <2>2, <2>4, <3>1, <4>1, <4>2 DEF ApplyInvariant, NoneBefore, AppliesApart, Of
    <3> QED BY <3>4, <3>5, <3>6 DEF ApplyInvariant
  <2> QED BY <1>2, <2>5, <2>6, <2>7 DEF AccountInvariant, Reviewed
<1> QED BY <1>3, <1>4, <1>5

(* A decision writes the status of its application and nothing else.       *)
LEMMA StatusWritten ==
  ASSUME AccountTypes, Bookkept, NEW q \in Requests, Reviews(q),
         NEW s \in {"approved", "rejected"}, apps' = [apps EXCEPT ![req[q].app].status = s]
  PROVE  /\ DOMAIN apps' = DOMAIN apps
         /\ \A i \in DOMAIN apps :
              /\ apps'[i].wallet = apps[i].wallet /\ apps'[i].linked = apps[i].linked
              /\ i = req[q].app => apps'[i].status = s
              /\ i # req[q].app => apps'[i].status = apps[i].status
<1>1. ASSUME NEW x \in Applications
      PROVE  /\ [x EXCEPT !.status = s].wallet = x.wallet
             /\ [x EXCEPT !.status = s].linked = x.linked /\ [x EXCEPT !.status = s].status = s
  BY DEF Applications
<1> DEFINE new == [apps[req[q].app] EXCEPT !.status = s]
<1>2. req[q].app \in DOMAIN apps /\ apps' = [apps EXCEPT ![req[q].app] = new]
  BY DEF Bookkept
<1>3. apps[req[q].app] \in Applications
  BY <1>2, AppsTyped
<1>4. /\ new.wallet = apps[req[q].app].wallet /\ new.linked = apps[req[q].app].linked
      /\ new.status = s
  BY <1>1, <1>3
<1> HIDE DEF new
<1> QED BY <1>2, <1>4 DEF AccountTypes

LEMMA ReviewStartsKeepsAll ==
  ASSUME AccountInvariant, AccountTypes', NEW q \in Requests,
         NEW i \in DOMAIN apps, NEW v \in {"approve", "reject"}, A!Review(q, i, v)
  PROVE  AccountInvariant'
<1> USE DEF A!tables
<1>1. AccountTypes /\ Bookkept
  BY DEF AccountInvariant
<1>2. /\ UNCHANGED <<regime, role, merchant, apps>> /\ req[q].pc = "done"
      /\ "reviews" \in regime \/ ~A!InFlight(apps[i].wallet, A!Reviewing)
  BY DEF A!Review
<1>a. apps[i].status = "pending"
  BY DEF A!Review, A!Reviewable
<1>3. /\ \A p \in Requests : p # q => req'[p] = req[p]
      /\ req'[q].pc = v /\ req'[q].wallet = apps[i].wallet /\ req'[q].app = i
  <2>1. /\ v \in A!Applying \cup A!Reviewing \cup A!Profiling
        /\ i \in Nat /\ apps[i].wallet \in Wallets /\ apps[i].linked \in BOOLEAN
    BY <1>1, AppsTyped DEF A!Reviewing, Applications
  <2>2. req' = [req EXCEPT ![q] = A!At(v, apps[i].wallet, i, apps[i].linked)]
    BY DEF A!Review
  <2>3. PICK w \in Wallets, linked \in BOOLEAN : w = apps[i].wallet /\ linked = apps[i].linked
    BY <2>1
  <2>4. req' = [req EXCEPT ![q] = A!At(v, w, i, linked)]
    BY <2>2, <2>3
  <2>5. OthersWait(q) /\ req'[q].pc = v /\ req'[q].wallet = w /\ req'[q].app = i
    BY <1>1, <2>1, <2>4, OnboardStarts
  <2> QED BY <2>3, <2>5 DEF OthersWait
<1>4. ~Applies(q) /\ ~Applies(q)' /\ ~Reviews(q) /\ ~Follows(q)' /\ ~Follows(q)
      /\ req'[q].pc # "review_merchant" /\ req'[q].pc # "apply_create"
  BY <1>2, <1>3 DEF Applies, Reviews, A!Applying, A!Reviewing, Follows
<1>5. \A p \in Requests : p # q =>
        /\ Applies(p)' <=> Applies(p)
        /\ Reviews(p)' <=> Reviews(p)
        /\ Decides(p)' <=> Decides(p)
        /\ Follows(p)' <=> Follows(p)
  BY <1>3 DEF Applies, Reviews, Decides, Follows
<1>6. Bookkept'
  <2>1. \A p \in Requests : Applies(p)' => Applies(p) /\ req'[p] = req[p]
    BY <1>3, <1>4, <1>5
  <2>2. \A p \in Requests : Reviews(p)' => /\ req'[p].app \in DOMAIN apps
                                           /\ apps[req'[p].app].wallet = req'[p].wallet
    BY <1>1, <1>3, <1>5 DEF Bookkept
  <2>3. \A p \in Requests : req'[p].pc = "assign" => req[p].pc = "assign"
    BY <1>3
  <2> QED BY <1>1, <1>2, <2>1, <2>2, <2>3 DEF Bookkept
<1>7. ASSUME Reviewed PROVE ReviewInvariant'
  <2>1. ReviewInvariant /\ \A p \in Requests : Reviews(p) => req[p].wallet # apps[i].wallet
    BY <1>2, <1>7 DEF AccountInvariant, Reviewed, A!InFlight, Reviews
  <2>2. ReviewsApart'
    <3>1. SUFFICES ASSUME NEW p \in Requests, NEW r \in Requests, Reviews(p)', Reviews(r)',
                          req'[p].wallet = req'[r].wallet, p # r
                   PROVE  FALSE
      BY DEF ReviewsApart
    <3>2. CASE p # q /\ r # q
      BY <1>3, <1>5, <2>1, <3>1, <3>2 DEF ReviewInvariant, ReviewsApart
    <3>3. CASE p = q \/ r = q
      BY <1>3, <1>5, <2>1, <3>1, <3>3
    <3> QED BY <3>2, <3>3
  <2>3. StatusIsReviewed'
    BY <1>2, <1>a, <1>3, <1>4, <1>5, <2>1 DEF ReviewInvariant, StatusIsReviewed
  <2>4. ActiveIsApproved'
    BY <1>2, <2>1 DEF ReviewInvariant, ActiveIsApproved, Of
  <2>5. ApprovedIsActive'
    <3>1. \A p \in Requests : req[p].pc = "review_merchant" => req'[p] = req[p]
      BY <1>2, <1>3
    <3> QED BY <1>2, <2>1, <3>1 DEF ReviewInvariant, ApprovedIsActive, Of
  <2>6. ASSUME "assign" \notin regime PROVE ApprovedHasRole'
    <3>1. \A p \in Requests : Follows(p) => Follows(p)' /\ req'[p] = req[p]
      BY <1>3, <1>4, <1>5
    <3> QED BY <1>2, <2>1, <2>6, <3>1 DEF ReviewInvariant, ApprovedHasRole, Of
  <2> QED BY <1>2, <2>2, <2>3, <2>4, <2>5, <2>6 DEF ReviewInvariant
<1>8. "applies" \notin regime => ApplyInvariant'
  <2>1. \A p \in Requests : Applies(p)' => Applies(p) /\ req'[p] = req[p]
    BY <1>3, <1>4, <1>5
  <2> QED BY <1>1, <1>2, <2>1, AppliesKept DEF AccountInvariant
<1> QED BY <1>2, <1>6, <1>7, <1>8 DEF AccountInvariant, Reviewed

(* A step of a review, seen from the requests and the applications.        *)
LEMMA ReviewStepKeepsBooks ==
  ASSUME AccountInvariant, AccountTypes', NEW q \in Requests, Reviews(q), UNCHANGED regime,
         \A w \in Wallets : role[w] # "none" => role'[w] # "none",
         DOMAIN apps' = DOMAIN apps,
         \A i \in DOMAIN apps :
           /\ apps'[i].wallet = apps[i].wallet /\ apps'[i].linked = apps[i].linked
           /\ apps'[i].status = "pending" => apps[i].status = "pending",
         \A p \in Requests : p # q => req'[p] = req[p],
         ~Applies(q)', req'[q].pc # "assign",
         Reviews(q)' => req'[q].wallet = req[q].wallet /\ req'[q].app = req[q].app
  PROVE  Bookkept' /\ ("applies" \notin regime => ApplyInvariant')
<1>1. AccountTypes /\ Bookkept
  BY DEF AccountInvariant
<1>2. \A p \in Requests :
        /\ Applies(p)' => Applies(p) /\ req'[p] = req[p]
        /\ Reviews(p)' => /\ Reviews(p) /\ req'[p].wallet = req[p].wallet
                          /\ req'[p].app = req[p].app
        /\ req'[p].pc = "assign" => req[p].pc = "assign"
  BY DEF Applies, Reviews
<1>3. Bookkept'
  BY <1>1, <1>2, BooksKept
<1>4. "applies" \notin regime => ApplyInvariant'
  BY <1>1, <1>2, AppliesKept DEF AccountInvariant
<1> QED BY <1>3, <1>4

LEMMA ReviewEnds ==
  ASSUME AccountTypes, NEW q \in Requests, Reviews(q), A!Ends(q)
  PROVE  /\ \A p \in Requests : p # q => req'[p] = req[p]
         /\ req'[q].pc = "done" /\ ~Applies(q)' /\ ~Reviews(q)' /\ ~Decides(q)' /\ ~Follows(q)'
<1>1. OthersWait(q) /\ req'[q].pc = "done" /\ ~Applies(q)' /\ ~Reviews(q)'
  BY OnboardEnds
<1> QED BY <1>1 DEF OthersWait, Decides, Follows

LEMMA ReviewContinues ==
  ASSUME AccountTypes, NEW q \in Requests, Reviews(q),
         NEW pc \in {"review_merchant", "review_user", "review_role"}, A!Continues(q, pc)
  PROVE  /\ \A p \in Requests : p # q => req'[p] = req[p]
         /\ req'[q].pc = pc /\ req'[q].wallet = req[q].wallet /\ req'[q].app = req[q].app
         /\ ~Applies(q)' /\ Reviews(q)' /\ ~Decides(q)' /\ Follows(q)'
<1>1. pc \in A!Applying \cup A!Reviewing \cup A!Profiling /\ pc \in A!Reviewing /\ pc \notin A!Applying
  BY DEF A!Reviewing, A!Applying
<1>2. req[q].pc # "done"
  BY OnboardsTyped
<1>3. OthersWait(q) /\ req'[q].pc = pc /\ req'[q].wallet = req[q].wallet /\ req'[q].app = req[q].app
  BY <1>1, <1>2, OnboardContinues
<1> QED BY <1>1, <1>3 DEF OthersWait, Applies, Reviews, Decides, Follows

LEMMA RejectKeepsAll ==
  ASSUME AccountInvariant, AccountTypes', NEW q \in Requests, A!Reject(q)
  PROVE  AccountInvariant'
<1>1. AccountTypes /\ Bookkept /\ Reviews(q) /\ Decides(q)
  BY DEF AccountInvariant, A!Reject, Reviews, Decides, A!Reviewing
<1>2. /\ UNCHANGED <<regime, role, merchant>> /\ A!Ends(q)
      /\ apps' = [apps EXCEPT ![req[q].app].status = "rejected"]
  BY DEF A!Reject
<1>3. /\ \A p \in Requests : p # q => req'[p] = req[p]
      /\ req'[q].pc = "done" /\ ~Applies(q)' /\ ~Reviews(q)' /\ ~Decides(q)' /\ ~Follows(q)'
  BY <1>1, <1>2, ReviewEnds
<1>4. /\ DOMAIN apps' = DOMAIN apps
      /\ \A i \in DOMAIN apps :
           /\ apps'[i].wallet = apps[i].wallet /\ apps'[i].linked = apps[i].linked
           /\ i = req[q].app => apps'[i].status = "rejected"
           /\ i # req[q].app => apps'[i].status = apps[i].status
  BY <1>1, <1>2, StatusWritten
<1>5. Bookkept' /\ ("applies" \notin regime => ApplyInvariant')
  BY <1>1, <1>2, <1>3, <1>4, ReviewStepKeepsBooks
<1>6. ASSUME Reviewed PROVE ReviewInvariant'
  <2>1. ReviewInvariant /\ apps[req[q].app].status = "pending"
    BY <1>1, <1>6 DEF AccountInvariant, ReviewInvariant, StatusIsReviewed
  <2>2. \A p \in Requests :
          /\ Reviews(p)' => Reviews(p) /\ p # q
          /\ Decides(p)' => Decides(p) /\ p # q
          /\ Follows(p)' <=> Follows(p)
          /\ Follows(p) => p # q
    BY <1>1, <1>3 DEF Reviews, Decides, Follows
  <2>3. \A i, w : Of(i, w, "approved")' <=> Of(i, w, "approved")
    BY <1>4, <2>1 DEF Of
  <2>4. ReviewsApart'
    BY <1>3, <2>1, <2>2 DEF ReviewInvariant, ReviewsApart
  <2>5. StatusIsReviewed'
    <3>1. SUFFICES ASSUME NEW p \in Requests, p # q, req'[p] = req[p], Reviews(p)
                   PROVE  apps'[req[p].app].status = apps[req[p].app].status
      BY <1>1, <1>3, <2>1, <2>2, OnboardsTyped DEF ReviewInvariant, StatusIsReviewed
    <3>2. req[p].app \in DOMAIN apps /\ req[p].app # req[q].app
      BY <1>1, <2>1, <3>1 DEF Bookkept, ReviewInvariant, ReviewsApart
    <3> QED BY <1>4, <3>2
  <2>6. ActiveIsApproved'
    BY <1>2, <2>1, <2>3 DEF ReviewInvariant, ActiveIsApproved
  <2>7. ApprovedIsActive'
    <3>1. \A p \in Requests : req[p].pc = "review_merchant" => req'[p] = req[p]
      BY <1>1, <1>3 DEF Decides
    <3> QED BY <1>2, <1>4, <2>1, <2>3, <3>1 DEF ReviewInvariant, ApprovedIsActive
  <2>8. ASSUME "assign" \notin regime PROVE ApprovedHasRole'
    <3>1. \A p \in Requests : Follows(p) => Follows(p)' /\ req'[p] = req[p]
      BY <1>3, <2>2
    <3> QED BY <1>2, <1>4, <2>1, <2>3, <2>8, <3>1 DEF ReviewInvariant, ApprovedHasRole
  <2> QED BY <1>2, <2>4, <2>5, <2>6, <2>7, <2>8 DEF ReviewInvariant
<1> QED BY <1>2, <1>5, <1>6 DEF AccountInvariant, Reviewed

LEMMA ApproveKeepsAll ==
  ASSUME AccountInvariant, AccountTypes', NEW q \in Requests, A!Approve(q)
  PROVE  AccountInvariant'
<1>1. AccountTypes /\ Bookkept /\ Reviews(q) /\ Decides(q) /\ ~Follows(q)
  BY DEF AccountInvariant, A!Approve, Reviews, Decides, A!Reviewing, Follows
<1>2. /\ UNCHANGED <<regime, role, merchant>> /\ A!Continues(q, "review_merchant")
      /\ apps' = [apps EXCEPT ![req[q].app].status = "approved"]
  BY DEF A!Approve
<1>3. /\ \A p \in Requests : p # q => req'[p] = req[p]
      /\ req'[q].pc = "review_merchant" /\ req'[q].wallet = req[q].wallet
      /\ req'[q].app = req[q].app
      /\ ~Applies(q)' /\ Reviews(q)' /\ ~Decides(q)' /\ Follows(q)'
  BY <1>1, <1>2, ReviewContinues
<1>4. /\ DOMAIN apps' = DOMAIN apps
      /\ \A i \in DOMAIN apps :
           /\ apps'[i].wallet = apps[i].wallet /\ apps'[i].linked = apps[i].linked
           /\ i = req[q].app => apps'[i].status = "approved"
           /\ i # req[q].app => apps'[i].status = apps[i].status
  BY <1>1, <1>2, StatusWritten
<1>5. Bookkept' /\ ("applies" \notin regime => ApplyInvariant')
  BY <1>1, <1>2, <1>3, <1>4, ReviewStepKeepsBooks
<1>6. ASSUME Reviewed PROVE ReviewInvariant'
  <2>1. ReviewInvariant /\ req[q].app \in DOMAIN apps
        /\ apps[req[q].app].wallet = req[q].wallet
    BY <1>1, <1>6 DEF AccountInvariant, Bookkept
  <2>2. \A p \in Requests :
          /\ Reviews(p)' <=> Reviews(p)
          /\ Decides(p)' => Decides(p) /\ p # q
          /\ Follows(p)' /\ p # q => Follows(p)
          /\ Follows(p) => Follows(p)' /\ p # q
    BY <1>1, <1>3 DEF Reviews, Decides, Follows
  <2>3. \A i, w : /\ Of(i, w, "approved") => Of(i, w, "approved")'
                  /\ Of(i, w, "approved")' /\ i # req[q].app => Of(i, w, "approved")
                  /\ Of(i, w, "approved")' /\ i = req[q].app => w = req[q].wallet
    BY <1>4, <2>1 DEF Of
  <2>4. ReviewsApart'
    BY <1>3, <2>1, <2>2 DEF ReviewInvariant, ReviewsApart
  <2>5. StatusIsReviewed'
    <3>1. ASSUME NEW p \in Requests, p # q, Reviews(p)
          PROVE  apps'[req[p].app].status = apps[req[p].app].status
      <4>1. req[p].app \in DOMAIN apps /\ req[p].app # req[q].app
        BY <1>1, <2>1, <3>1 DEF Bookkept, ReviewInvariant, ReviewsApart
      <4> QED BY <1>4, <4>1
    <3>2. apps'[req'[q].app].status = "approved"
      BY <1>3, <1>4, <2>1
    <3> QED BY <1>1, <1>3, <2>1, <2>2, <3>1, <3>2, OnboardsTyped DEF ReviewInvariant, StatusIsReviewed
  <2>6. ActiveIsApproved'
    BY <1>2, <2>1, <2>3 DEF ReviewInvariant, ActiveIsApproved
  <2>7. ApprovedIsActive'
    <3>1. \A p \in Requests : req[p].pc = "review_merchant" => req'[p] = req[p]
      BY <1>1, <1>3 DEF Decides
    <3>2. SUFFICES ASSUME NEW w \in Wallets, NEW i \in DOMAIN apps, Of(i, w, "approved")'
                   PROVE  \/ merchant[w] = "active"
                          \/ \E p \in Requests : req'[p].pc = "review_merchant" /\ req'[p].wallet = w
      BY <1>2, <1>4 DEF ApprovedIsActive
    <3>3. CASE i = req[q].app
      BY <1>3, <2>3, <3>2, <3>3
    <3>4. CASE i # req[q].app
      BY <2>1, <2>3, <3>1, <3>2, <3>4 DEF ReviewInvariant, ApprovedIsActive
    <3> QED BY <3>3, <3>4
  <2>8. ASSUME "assign" \notin regime PROVE ApprovedHasRole'
    <3>1. \A p \in Requests : Follows(p) => Follows(p)' /\ req'[p] = req[p]
      BY <1>3, <2>2
    <3>2. SUFFICES ASSUME NEW w \in Wallets, NEW i \in DOMAIN apps, Of(i, w, "approved")',
                          apps[i].linked
                   PROVE  \/ role[w] \in {"merchant", "lp_provider"}
                          \/ \E p \in Requests : Follows(p)' /\ req'[p].wallet = w
      BY <1>2, <1>4 DEF ApprovedHasRole
    <3>3. CASE i = req[q].app
      BY <1>3, <2>3, <3>2, <3>3
    <3>4. CASE i # req[q].app
      BY <2>1, <2>3, <2>8, <3>1, <3>2, <3>4 DEF ReviewInvariant, ApprovedHasRole
    <3> QED BY <3>3, <3>4
  <2> QED BY <1>2, <2>4, <2>5, <2>6, <2>7, <2>8 DEF ReviewInvariant
<1> QED BY <1>2, <1>5, <1>6 DEF AccountInvariant, Reviewed

(* What follows an approval leaves the applications as they are; it goes on*)
(* to what is left of it, or ends and has done its part.                   *)
LEMMA FollowUpKeepsAll ==
  ASSUME AccountInvariant, AccountTypes', NEW q \in Requests, Follows(q),
         UNCHANGED <<regime, apps>>,
         \A w \in Wallets : /\ role[w] # "none" => role'[w] # "none"
                            /\ role[w] \in {"merchant", "lp_provider"}
                                 => role'[w] \in {"merchant", "lp_provider"}
                            /\ merchant[w] = "active" => merchant'[w] = "active"
                            /\ w # req[q].wallet /\ merchant'[w] = "active" => merchant[w] = "active",
         req[q].pc = "review_merchant" => merchant'[req[q].wallet] = "active",
         \/ A!Ends(q) /\ (role[req[q].wallet] = "none" \/ role'[req[q].wallet] = "merchant")
         \/ \E pc \in {"review_user", "review_role"} : A!Continues(q, pc)
  PROVE  AccountInvariant'
<1>1. AccountTypes /\ Bookkept /\ Reviews(q) /\ ~Decides(q) /\ req[q].wallet \in Wallets
  <2>1. AccountTypes /\ Bookkept /\ Reviews(q) /\ ~Decides(q)
    BY OnboardsTyped DEF AccountInvariant, Follows, Decides
  <2> QED BY <2>1, OnboardsTyped
<1>2. /\ \A p \in Requests : p # q => req'[p] = req[p]
      /\ ~Applies(q)' /\ ~Decides(q)' /\ req'[q].pc # "review_merchant"
      /\ req'[q].pc \in {"done", "review_user", "review_role"}
      /\ \/ /\ ~Reviews(q)' /\ ~Follows(q)'
            /\ role[req[q].wallet] = "none" \/ role'[req[q].wallet] = "merchant"
         \/ /\ Reviews(q)' /\ Follows(q)'
            /\ req'[q].wallet = req[q].wallet /\ req'[q].app = req[q].app
  <2>1. CASE A!Ends(q) /\ (role[req[q].wallet] = "none" \/ role'[req[q].wallet] = "merchant")
    BY <1>1, <2>1, ReviewEnds
  <2>2. CASE \E pc \in {"review_user", "review_role"} : A!Continues(q, pc)
    <3>1. PICK pc \in {"review_user", "review_role"} : A!Continues(q, pc)
      BY <2>2
    <3>2. pc \in {"review_merchant", "review_user", "review_role"}
      OBVIOUS
    <3> QED BY <1>1, <3>1, <3>2, ReviewContinues
  <2> QED BY <2>1, <2>2
<1>3. Bookkept' /\ ("applies" \notin regime => ApplyInvariant')
  <2>1. req'[q].pc # "assign"
    BY <1>2
  <2> QED BY <1>1, <1>2, <2>1, ReviewStepKeepsBooks
<1>4. ASSUME Reviewed PROVE ReviewInvariant'
  <2>1. ReviewInvariant
    BY <1>4 DEF AccountInvariant
  <2>2. \A p \in Requests :
          /\ Reviews(p)' => Reviews(p) /\ req'[p].wallet = req[p].wallet
          /\ Decides(p)' => Decides(p) /\ req'[p] = req[p]
          /\ Follows(p)' => Follows(p) /\ req'[p].app = req[p].app
    BY <1>1, <1>2 DEF Reviews, Decides, Follows
  <2>3. \A i, w : Of(i, w, "approved")' <=> Of(i, w, "approved")
    BY DEF Of
  <2>4. Of(req[q].app, req[q].wallet, "approved")
    BY <1>1, <2>1 DEF Bookkept, ReviewInvariant, StatusIsReviewed, Of
  <2>5. ReviewsApart'
    BY <2>1, <2>2 DEF ReviewInvariant, ReviewsApart
  <2>6. StatusIsReviewed'
    BY <2>1, <2>2 DEF ReviewInvariant, StatusIsReviewed
  <2>7. ActiveIsApproved'
    BY <2>1, <2>3, <2>4 DEF ReviewInvariant, ActiveIsApproved
  <2>8. ApprovedIsActive'
    <3>1. SUFFICES ASSUME NEW w \in Wallets, NEW i \in DOMAIN apps, Of(i, w, "approved")
                   PROVE  \/ merchant'[w] = "active"
                          \/ \E p \in Requests : req'[p].pc = "review_merchant" /\ req'[p].wallet = w
      BY <2>3 DEF ApprovedIsActive
    <3>2. CASE merchant[w] = "active"
      BY <3>2
    <3>3. ASSUME NEW p \in Requests, req[p].pc = "review_merchant", req[p].wallet = w
          PROVE  merchant'[w] = "active" \/ (req'[p].pc = "review_merchant" /\ req'[p].wallet = w)
      BY <1>2, <3>3
    <3> QED BY <2>1, <3>1, <3>2, <3>3 DEF ReviewInvariant, ApprovedIsActive
  <2>9. ASSUME "assign" \notin regime PROVE ApprovedHasRole'
    <3>1. SUFFICES ASSUME NEW w \in Wallets, NEW i \in DOMAIN apps, Of(i, w, "approved"),
                          apps[i].linked
                   PROVE  \/ role'[w] \in {"merchant", "lp_provider"}
                          \/ \E p \in Requests : Follows(p)' /\ req'[p].wallet = w
      BY <2>3 DEF ApprovedHasRole
    <3>2. role[w] # "none"
      BY <1>1, <3>1 DEF Bookkept, Of
    <3>3. CASE role[w] \in {"merchant", "lp_provider"}
      BY <3>3
    <3>4. ASSUME NEW p \in Requests, Follows(p), req[p].wallet = w
          PROVE  role'[w] \in {"merchant", "lp_provider"} \/ (Follows(p)' /\ req'[p].wallet = w)
      <4>1. CASE p = q
        BY <1>2, <3>2, <3>4, <4>1
      <4>2. CASE p # q
        BY <1>2, <3>4, <4>2 DEF Follows
      <4> QED BY <4>1, <4>2
    <3> QED BY <2>1, <2>9, <3>1, <3>3, <3>4 DEF ReviewInvariant, ApprovedHasRole
  <2> QED BY <2>5, <2>6, <2>7, <2>8, <2>9 DEF ReviewInvariant
<1> QED BY <1>3, <1>4 DEF AccountInvariant, Reviewed

LEMMA ReviewKeepsAll ==
  ASSUME AccountInvariant, AccountTypes', NEW q \in Requests,
         \/ \E i \in DOMAIN apps, v \in {"approve", "reject"} : A!Review(q, i, v)
         \/ A!Reject(q) \/ A!Approve(q) \/ A!UpsertMerchant(q) \/ A!FindTargetUser(q) \/ A!MakeMerchant(q)
  PROVE  AccountInvariant'
<1> USE DEF A!tables
<1>1. AccountTypes
  BY DEF AccountInvariant
<1>2. ASSUME A!UpsertMerchant(q) PROVE AccountInvariant'
  <2>1. /\ Follows(q) /\ UNCHANGED <<regime, apps, role>> /\ A!Continues(q, "review_user")
        /\ merchant' = [merchant EXCEPT ![req[q].wallet] = "active"]
    BY <1>2 DEF A!UpsertMerchant, Follows
  <2>2. req[q].wallet \in Wallets
    BY <1>1, <2>1, OnboardsTyped
  <2>3. merchant'[req[q].wallet] = "active"
        /\ \A w \in Wallets : w # req[q].wallet => merchant'[w] = merchant[w]
    BY <1>1, <2>1, <2>2 DEF AccountTypes
  <2> QED BY <2>1, <2>2, <2>3, FollowUpKeepsAll
<1>3. ASSUME A!FindTargetUser(q) PROVE AccountInvariant'
  <2>1. /\ Follows(q) /\ UNCHANGED <<regime, apps, role, merchant>> /\ req[q].pc = "review_user"
        /\ \/ A!Ends(q) /\ role[req[q].wallet] = "none"
           \/ A!Continues(q, "review_role")
    BY <1>3 DEF A!FindTargetUser, Follows
  <2> QED BY <2>1, FollowUpKeepsAll
<1>4. ASSUME A!MakeMerchant(q) PROVE AccountInvariant'
  <2>1. /\ Follows(q) /\ UNCHANGED <<regime, apps, merchant>> /\ A!Ends(q)
        /\ role' = [role EXCEPT ![req[q].wallet] = "merchant"] /\ req[q].pc = "review_role"
    BY <1>4 DEF A!MakeMerchant, Follows
  <2>2. req[q].wallet \in Wallets
    BY <1>1, <2>1, OnboardsTyped
  <2>3. role'[req[q].wallet] = "merchant"
        /\ \A w \in Wallets : w # req[q].wallet => role'[w] = role[w]
    BY <1>1, <2>1, <2>2 DEF AccountTypes
  <2> QED BY <2>1, <2>2, <2>3, FollowUpKeepsAll
<1> QED BY <1>2, <1>3, <1>4, ReviewStartsKeepsAll, RejectKeepsAll, ApproveKeepsAll

(* A request of a user is neither an application nor a review.             *)
LEMMA ProfilesApart ==
  ASSUME NEW q \in Requests, req[q].pc \in A!Profiling \cup {"done"}
  PROVE  ~Applies(q) /\ ~Reviews(q)
  BY DEF A!Profiling, A!Applying, A!Reviewing, Applies, Reviews

LEMMA ProfilesApartNext ==
  ASSUME NEW q \in Requests, req'[q].pc \in A!Profiling \cup {"done"}
  PROVE  ~Applies(q)' /\ ~Reviews(q)'
  BY DEF A!Profiling, A!Applying, A!Reviewing, Applies, Reviews

LEMMA ProfileActionKeepsAll ==
  ASSUME AccountInvariant, AccountTypes', NEW q \in Requests, A!Profile(q)
  PROVE  AccountInvariant'
<1> USE DEF A!tables
<1>1. AccountTypes /\ Bookkept
  BY DEF AccountInvariant
<1>2. ASSUME UNCHANGED <<regime, merchant, apps>>, RolesKept,
             req[q].pc \in A!Profiling \cup {"done"}, req'[q].pc \in A!Profiling \cup {"done"},
             req'[q].pc = "assign" => "assign" \in regime,
             \A p \in Requests : p # q => req'[p] = req[p]
      PROVE  AccountInvariant'
  <2>1. \A p \in Requests :
           \/ req'[p] = req[p]
           \/ /\ ~Applies(p) /\ ~Applies(p)' /\ ~Reviews(p) /\ ~Reviews(p)'
              /\ req'[p].pc = "assign" => "assign" \in regime
    BY <1>2, ProfilesApart, ProfilesApartNext
  <2> QED BY <1>2, <2>1, ProfileKeepsAll
<1>3. ASSUME A!Ends(q)
      PROVE  req'[q].pc = "done" /\ \A p \in Requests : p # q => req'[p] = req[p]
  BY <1>1, <1>3, OnboardEnds DEF OthersWait
<1>4. ASSUME NEW w \in Wallets, NEW pc \in A!Profiling, req' = [req EXCEPT ![q] = A!At(pc, w, 0, TRUE)]
      PROVE  req'[q].pc = pc /\ \A p \in Requests : p # q => req'[p] = req[p]
  BY <1>1, <1>4, OnboardStarts DEF OthersWait
<1>5. ASSUME NEW w \in Wallets,
             A!UpdateUserRole(q, w) \/ A!BecomeLp(q, w) \/ A!GetOrCreateProfile(q, w) \/ A!Register(q, w)
      PROVE  AccountInvariant'
  <2>1. PICK pc \in A!Profiling : /\ req' = [req EXCEPT ![q] = A!At(pc, w, 0, TRUE)]
                                  /\ pc = "assign" => "assign" \in regime
    BY <1>5 DEF A!UpdateUserRole, A!BecomeLp, A!GetOrCreateProfile, A!Register, A!Profiling
  <2>2. UNCHANGED <<regime, role, merchant, apps>> /\ req[q].pc = "done"
    BY <1>5 DEF A!UpdateUserRole, A!BecomeLp, A!GetOrCreateProfile, A!Register
  <2>3. RolesKept
    BY <2>2 DEF RolesKept
  <2> QED BY <1>2, <1>4, <2>1, <2>2, <2>3
<1>6. ASSUME NEW w \in Wallets, A!UpdateProfile(q, w)
      PROVE  AccountInvariant'
  <2>1. /\ UNCHANGED <<regime, merchant, apps>> /\ role' = [role EXCEPT ![w] = A!Upserted(role[w])]
        /\ req[q].pc = "done"
        /\ \/ req' = [req EXCEPT ![q] = A!At("update_prefs", w, 0, TRUE)]
           \/ UNCHANGED req
    BY <1>6 DEF A!UpdateProfile
  <2>2. RolesKept
    BY <1>1, <2>1 DEF RolesKept, A!Upserted, AccountTypes
  <2>3. "update_prefs" \in A!Profiling
    BY DEF A!Profiling
  <2>4. /\ req'[q].pc \in A!Profiling \cup {"done"} /\ req'[q].pc # "assign"
        /\ \A p \in Requests : p # q => req'[p] = req[p]
    BY <1>4, <2>1, <2>3
  <2> QED BY <1>2, <2>1, <2>2, <2>4
<1>7. ASSUME A!AssignRole(q) \/ A!MakeLp(q)
      PROVE  AccountInvariant'
  <2>1. PICK r \in A!Roles : /\ role' = [role EXCEPT ![req[q].wallet] = r]
                             /\ req[q].pc = "assign" \/ r = "lp_provider"
    BY <1>7 DEF A!AssignRole, A!MakeLp, A!Roles
  <2>2. A!Ends(q) /\ UNCHANGED <<regime, merchant, apps>> /\ req[q].pc \in A!Profiling
    BY <1>7 DEF A!AssignRole, A!MakeLp, A!Profiling
  <2>3. RolesKept
    BY <1>1, <2>1 DEF RolesKept, Bookkept, AccountTypes, A!Roles
  <2> QED BY <1>2, <1>3, <2>2, <2>3
<1>8. ASSUME A!CreateUser(q)
      PROVE  AccountInvariant'
  <2>1. /\ UNCHANGED <<regime, merchant, apps>> /\ req[q].pc \in A!Profiling
        /\ \/ role[req[q].wallet] = "none" /\ role' = [role EXCEPT ![req[q].wallet] = "borrower"]
           \/ UNCHANGED role
        /\ A!Ends(q) \/ A!Continues(q, "me_prefs") \/ A!Continues(q, "lp_role")
    BY <1>8 DEF A!CreateUser, A!AfterCreation, A!Profiling
  <2>2. RolesKept
    BY <1>1, <2>1 DEF RolesKept, AccountTypes
  <2>3. ASSUME NEW pc \in {"me_prefs", "lp_role"}, A!Continues(q, pc)
        PROVE  req'[q].pc = pc /\ pc \in A!Profiling /\ \A p \in Requests : p # q => req'[p] = req[p]
    <3>1. pc \in A!Profiling /\ req[q].pc # "done"
      BY <2>1 DEF A!Profiling
    <3> QED BY <1>1, <2>3, <3>1, OnboardContinues DEF OthersWait
  <2>4. /\ req'[q].pc \in A!Profiling \cup {"done"} /\ req'[q].pc # "assign"
        /\ \A p \in Requests : p # q => req'[p] = req[p]
    BY <1>3, <2>1, <2>3
  <2> QED BY <1>2, <2>1, <2>2, <2>4
<1>9. ASSUME A!CreateDefaultPreferences(q) \/ A!UpsertPreferences(q)
      PROVE  AccountInvariant'
  <2>1. A!Ends(q) /\ UNCHANGED <<regime, role, merchant, apps>> /\ req[q].pc \in A!Profiling
    BY <1>9 DEF A!CreateDefaultPreferences, A!UpsertPreferences, A!Profiling
  <2>2. RolesKept
    BY <2>1 DEF RolesKept
  <2> QED BY <1>2, <1>3, <2>1, <2>2
<1> QED BY <1>5, <1>6, <1>7, <1>8, <1>9 DEF A!Profile

(* A failure ends a request where it is; only a review is then owed.       *)
LEMMA AbortKeepsAll ==
  ASSUME AccountInvariant, AccountTypes', NEW q \in Requests, A!Abort(q)
  PROVE  AccountInvariant'
<1> USE DEF A!tables
<1>1. AccountTypes /\ Bookkept
  BY DEF AccountInvariant
<1>2. /\ UNCHANGED <<regime, role, merchant, apps>> /\ "fail" \in regime /\ A!Ends(q)
  BY DEF A!Abort
<1>3. /\ \A p \in Requests : p # q => req'[p] = req[p]
      /\ req'[q].pc = "done" /\ ~Applies(q)' /\ ~Reviews(q)'
  BY <1>1, <1>2, OnboardEnds DEF OthersWait
<1>4. \A p \in Requests :
        /\ Applies(p)' => Applies(p) /\ req'[p] = req[p]
        /\ Reviews(p)' => Reviews(p) /\ req'[p] = req[p]
        /\ req'[p].pc = "assign" => req[p].pc = "assign"
  BY <1>3 DEF Applies, Reviews
<1>5. Bookkept'
  BY <1>1, <1>2, <1>4, BooksKept
<1>6. "applies" \notin regime => ApplyInvariant'
  BY <1>1, <1>2, <1>4, AppliesKept DEF AccountInvariant
<1>7. ~Reviewed'
  BY <1>2 DEF Reviewed
<1> QED BY <1>2, <1>5, <1>6, <1>7 DEF AccountInvariant

LEMMA AccountInvariantNext ==
  ASSUME AccountInvariant, [A!Next]_(A!vars)
  PROVE  AccountInvariant'
<1>1. AccountTypes'
  BY AccountTypesNext DEF AccountInvariant
<1>2. ASSUME NEW q \in Requests, A!Onboarding(q)
      PROVE  AccountInvariant'
  BY <1>1, <1>2, ApplyKeepsAll, ReviewKeepsAll DEF A!Onboarding
<1>3. ASSUME NEW q \in Requests, A!Profile(q) \/ A!Abort(q)
      PROVE  AccountInvariant'
  BY <1>1, <1>3, ProfileActionKeepsAll, AbortKeepsAll
<1>4. ASSUME NEW w \in Wallets, A!Login(w)
      PROVE  AccountInvariant'
  <2>1. /\ UNCHANGED <<regime, merchant, apps, req>>
        /\ role' = [role EXCEPT ![w] = A!Upserted(role[w])]
    BY <1>4 DEF A!Login
  <2>2. RolesKept
    BY <2>1 DEF RolesKept, A!Upserted, AccountTypes, AccountInvariant
  <2> QED BY <1>1, <2>1, <2>2, ProfileKeepsAll
<1>5. CASE UNCHANGED A!vars
  <2>1. UNCHANGED <<regime, role, merchant, apps, req>>
    BY <1>5 DEF A!vars, A!tables
  <2>2. RolesKept
    BY <2>1 DEF RolesKept
  <2> QED BY <1>1, <2>1, <2>2, ProfileKeepsAll
<1> QED BY <1>2, <1>3, <1>4, <1>5 DEF A!Next

-----------------------------------------------------------------------------
LEMMA AccountInvariantInit == A!Init => AccountInvariant
<1> SUFFICES ASSUME A!Init PROVE AccountInvariant
  OBVIOUS
<1>1. AccountTypes
  BY DEF A!Init, AccountTypes, A!Roles
<1>2. /\ DOMAIN apps = {} /\ \A w \in Wallets : merchant[w] # "active"
      /\ \A q \in Requests : req[q].pc = "done"
  BY DEF A!Init, A!Done
<1>3. \A q \in Requests : ~Applies(q) /\ ~Reviews(q) /\ ~Decides(q) /\ ~Follows(q)
  BY <1>2 DEF Applies, Reviews, Decides, Follows, A!Applying, A!Reviewing
<1>4. Bookkept
  BY <1>2, <1>3 DEF Bookkept
<1>5. ReviewInvariant
  BY <1>2, <1>3 DEF ReviewInvariant, ReviewsApart, StatusIsReviewed, ActiveIsApproved,
                    ApprovedIsActive, ApprovedHasRole
<1>6. ApplyInvariant
  BY <1>2, <1>3 DEF ApplyInvariant, AppliesApart, OnePending, NoneBefore
<1> QED BY <1>1, <1>4, <1>5, <1>6 DEF AccountInvariant

(* As long as reviews do not overlap and nothing fails, a merchant is      *)
(* active exactly when an application of its wallet was approved, a linked *)
(* one has made its user a merchant or liquidity provider unless roles are *)
(* assigned, and a wallet that applies once at a time has one pending      *)
(* application: however approveMerchant, apply and the writers of users    *)
(* interleave, for any wallets and any number of requests.                 *)
THEOREM ApprovalsMakeMerchants == Spec => []MerchantsMatchApprovals
<1> DEFINE Inv == service = "Accounts" => AccountInvariant
<1>1. AccountInvariant => A!MerchantsMatchApprovals
  <2> SUFFICES ASSUME AccountInvariant PROVE A!MerchantsMatchApprovals
    OBVIOUS
  <2> SUFFICES ASSUME NEW w \in Wallets
      PROVE LET approved ==
              {i \in DOMAIN apps : apps[i].wallet = w /\ apps[i].status = "approved"}
            IN /\ regime \cap {"reviews", "fail"} = {} /\ ~A!InFlight(w, A!Reviewing) =>
                    /\ merchant[w] = "active" <=> approved # {}
                    /\ "assign" \notin regime /\ (\E i \in approved : apps[i].linked)
                       => role[w] \in {"merchant", "lp_provider"}
               /\ "applies" \notin regime =>
                    \A i, j \in A!Pending(w) : i = j
    BY DEF A!MerchantsMatchApprovals
  <2>1. ASSUME Reviewed, ~A!InFlight(w, A!Reviewing)
        PROVE  \A q \in Requests : req[q].wallet = w => ~Follows(q) /\ req[q].pc # "review_merchant"
    BY <2>1 DEF A!InFlight, Follows, A!Reviewing
  <2>2. ASSUME Reviewed, ~A!InFlight(w, A!Reviewing)
        PROVE  merchant[w] = "active" <=> (\E i \in DOMAIN apps : Of(i, w, "approved"))
    BY <2>1, <2>2 DEF AccountInvariant, ReviewInvariant, ActiveIsApproved, ApprovedIsActive, Of
  <2>3. ASSUME Reviewed, ~A!InFlight(w, A!Reviewing), "assign" \notin regime,
               NEW i \in DOMAIN apps, Of(i, w, "approved"), apps[i].linked
        PROVE  role[w] \in {"merchant", "lp_provider"}
    BY <2>1, <2>3 DEF AccountInvariant, ReviewInvariant, ApprovedHasRole
  <2>4. ASSUME "applies" \notin regime, NEW i \in A!Pending(w), NEW j \in A!Pending(w)
        PROVE  i = j
    BY <2>4 DEF AccountInvariant, ApplyInvariant, OnePending, A!Pending, Of
  <2> QED BY <2>2, <2>3, <2>4 DEF Reviewed, Of
<1>2. Init => Inv
  BY AccountInvariantInit DEF Init
<1>3. Inv /\ [Next]_vars => Inv'
  BY AccountsExercised, AccountInvariantNext
<1>4. Inv => MerchantsMatchApprovals
  BY <1>1 DEF MerchantsMatchApprovals
<1> QED BY <1>2, <1>3, <1>4, PTL DEF Spec

-----------------------------------------------------------------------------
(* LoanTerms. A row of loans is of whole cents, its instalments fit into   *)
(* the total, and nothing is rounded off what the borrower asked for.      *)
Cents == {n \in Nat : n % T!CENT = 0}
LoanRows == [status : {"pending", "active", "completed"}, amount : Amounts, term : Terms,
             start : Starts, guarantee : Nat, loanAmount : Nat, total : Cents,
             balance : Cents, short : BOOLEAN]
TermsFit(l) ==
  /\ l.balance <= l.total /\ T!CENT * l.term <= l.total
  /\ l.short => l.total % (l.term * T!CENT) = 0 /\ l.total > T!CENT * l.term
  /\ l.amount % T!CENT = 0 => l.guarantee + l.loanAmount = l.amount

(* Floors of instalments.                                                  *)
LEMMA FloorOfTotal ==
  ASSUME NEW total \in Cents, NEW term \in 1 .. 12, T!CENT * term <= total,
         NEW floor, floor = T!CENT * (total \div (term * T!CENT))
  PROVE  /\ floor \in Cents /\ T!CENT <= floor /\ floor * term <= total
         /\ total % (term * T!CENT) = 0 /\ total > T!CENT * term => 2 * T!CENT <= floor
<1> USE DEF Cents, T!CENT
<1>1. CASE term = 1  BY <1>1
<1>2. CASE term = 2  BY <1>2
<1>3. CASE term = 3  BY <1>3
<1>4. CASE term = 4  BY <1>4
<1>5. CASE term = 5  BY <1>5
<1>6. CASE term = 6  BY <1>6
<1>7. CASE term = 7  BY <1>7
<1>8. CASE term = 8  BY <1>8
<1>9. CASE term = 9  BY <1>9
<1>10. CASE term = 10  BY <1>10
<1>11. CASE term = 11  BY <1>11
<1>12. CASE term = 12  BY <1>12
<1> QED BY <1>1, <1>2, <1>3, <1>4, <1>5, <1>6, <1>7, <1>8, <1>9, <1>10, <1>11, <1>12

LEMMA WholeCents ==
  ASSUME NEW n \in Cents
  PROVE  T!roundCents(n, 1) = n /\ T!Rounded(n, 1) = {n}
  BY DEF Cents, T!CENT, T!roundCents, T!Rounded, T!IsTie

LEMMA ToTheCent ==
  ASSUME NEW n \in Nat \ {0}, NEW left \in T!Rounded(n, 1)
  PROVE  left \in Cents /\ 2 * left + T!CENT >= 2 * n /\ 2 * left <= 2 * n + T!CENT
  BY DEF Cents, T!CENT, T!roundCents, T!Rounded, T!IsTie

LEMMA AmountsOfTerms ==
  ASSUME LoanTermsConstants, NEW l \in LoanRows, TermsFit(l)
  PROVE  /\ l.term \in 1 .. 12 /\ T!monthlyPayment(l) \in Cents /\ T!CENT <= T!monthlyPayment(l)
         /\ T!amountOf(l, l.term) = l.total - (l.term - 1) * T!monthlyPayment(l)
         /\ \A i \in 1 .. l.term : T!amountOf(l, i) \in Cents /\ T!CENT <= T!amountOf(l, i)
         /\ \A i \in 1 .. l.term : i < l.term => T!amountOf(l, i) = T!monthlyPayment(l)
<1> DEFINE total == l.total
           term == l.term
           floor == T!CENT * (l.total \div (l.term * T!CENT))
           m == T!monthlyPayment(l)
           last == l.total - (l.term - 1) * m
<1>1. total \in Cents /\ term \in 1 .. 12 /\ T!CENT * term <= total
  BY DEF LoanRows, TermsFit, LoanTermsConstants
<1>2. /\ floor \in Cents /\ T!CENT <= floor /\ floor * term <= total
      /\ total % (term * T!CENT) = 0 /\ total > T!CENT * term => 2 * T!CENT <= floor
  BY <1>1, FloorOfTotal
<1>3. m = IF l.short THEN floor - T!CENT ELSE floor
  BY <1>2 DEF T!monthlyPayment, Cents, T!CENT
<1>4. l.short => 2 * T!CENT <= floor
  BY <1>2 DEF TermsFit
<1> HIDE DEF floor
<1>5. m \in Cents /\ T!CENT <= m /\ m <= floor
  BY <1>2, <1>3, <1>4 DEF Cents, T!CENT
<1> HIDE DEF total, term, m
<1>6. m * term <= floor * term
  BY <1>1, <1>2, <1>5 DEF Cents
<1>7. m * term = (term - 1) * m + m /\ (term - 1) * m \in Int /\ ((term - 1) * m) % T!CENT = 0
  <2>1. PICK k \in Nat : m = T!CENT * k
    <3>1. m = T!CENT * (m \div T!CENT) /\ m \div T!CENT \in Nat
      BY <1>5 DEF Cents, T!CENT
    <3> QED BY <3>1
  <2>2. (term - 1) * m = T!CENT * ((term - 1) * k) /\ (term - 1) * k \in Int
    BY <1>1, <2>1 DEF T!CENT
  <2> QED BY <1>1, <1>5, <2>2 DEF Cents, T!CENT
<1>8. last \in Cents /\ m <= last
  <2>1. PICK others \in Int : others = (term - 1) * m
    BY <1>7
  <2>2. others % T!CENT = 0 /\ last = total - others
    BY <1>7, <2>1 DEF total, term
  <2>3. m * term \in Int /\ floor * term \in Int /\ total \in Int /\ m \in Int
    BY <1>1, <1>2, <1>5 DEF Cents
  <2>4. m + others <= total
    <3> HIDE DEF last
    <3> QED BY <1>2, <1>6, <1>7, <2>1, <2>3
  <2> QED BY <1>1, <1>5, <2>2, <2>4 DEF Cents, T!CENT
<1>9. T!roundCents(last, 1) = last
  BY <1>8, WholeCents
<1>10. T!amountOf(l, l.term) = last
  BY <1>9 DEF T!amountOf, m
<1>11. \A i \in 1 .. l.term : T!amountOf(l, i) = IF i = l.term THEN last ELSE m
  BY <1>10 DEF T!amountOf, m
<1> HIDE DEF last
<1>12. T!CENT <= last
  BY <1>5, <1>8 DEF Cents, T!CENT
<1> QED BY <1>1, <1>5, <1>8, <1>10, <1>11, <1>12 DEF last, m, term

(* What is owed of a loan are the sums of its instalments from the last.   *)
FromTheLast(l) == [n \in 1 .. l.term |-> T!amountOf(l, l.term + 1 - n)]
SumOf(l) ==
  CHOOSE Sum : Sum = [n \in 0 .. l.term |->
    IF n = 0 THEN 0 ELSE Sum[n - 1] + T!amountOf(l, l.term + 1 - n)]

LEMMA SumOfIsSum ==
  ASSUME NEW l, l.term \in Nat
  PROVE  /\ IsSum(SumOf(l), FromTheLast(l), l.term)
         /\ \A i : T!InstalmentsFrom(l, i) = SumOf(l)[l.term + 1 - i]
<1> DEFINE D(h) == [n \in 0 .. l.term |->
             IF n = 0 THEN 0 ELSE h[n - 1] + T!amountOf(l, l.term + 1 - n)]
<1>1. PICK f : IsSum(f, FromTheLast(l), l.term)
  BY SumExists
<1>2. \A h : IsSum(h, FromTheLast(l), l.term) <=> h = D(h)
  <2>1. \A n \in 1 .. l.term : FromTheLast(l)[n] = T!amountOf(l, l.term + 1 - n)
    BY DEF FromTheLast
  <2> QED BY <2>1 DEF IsSum
<1>3. SumOf(l) = CHOOSE h : h = D(h)
  BY DEF SumOf
<1> HIDE DEF D
<1>4. IsSum(SumOf(l), FromTheLast(l), l.term)
  BY <1>1, <1>2, <1>3
<1>5. \A i : T!InstalmentsFrom(l, i) = SumOf(l)[l.term + 1 - i]
  BY DEF T!InstalmentsFrom, SumOf
<1> QED BY <1>4, <1>5

(* Of equal sums but for the first, the k-th is the first and k-1 others.  *)
LEMMA SumOfEquals ==
  ASSUME NEW n \in Nat \ {0}, NEW f, NEW g, IsSum(f, g, n), NEW a \in Int, NEW b \in Int,
         g[1] = a, \A j \in 2 .. n : g[j] = b
  PROVE  f[n] = a + (n - 1) * b
<1> DEFINE Hold == {k \in Nat : k + 1 <= n => f[k + 1] = a + k * b}
<1>1. 0 \in Hold
  BY SumSteps
<1>2. ASSUME NEW k \in Nat, k \in Hold
      PROVE  k + 1 \in Hold
  <2>1. (k + 1) * b = k * b + b /\ k * b \in Int
    OBVIOUS
  <2>2. k + 2 <= n => f[k + 2] = f[k + 1] + b
    BY SumSteps
  <2> QED BY <1>2, <2>1, <2>2
<1> HIDE DEF Hold
<1>3. n - 1 \in Hold
  BY <1>1, <1>2, InductionOnNat
<1> QED BY <1>3 DEF Hold

LEMMA InstalmentsAddUp ==
  ASSUME LoanTermsConstants, NEW l \in LoanRows, TermsFit(l)
  PROVE  /\ T!InstalmentsFrom(l, l.term + 1) = 0
         /\ T!InstalmentsFrom(l, 1) = l.total
         /\ \A i \in 1 .. l.term :
              /\ T!InstalmentsFrom(l, i) = T!amountOf(l, i) + T!InstalmentsFrom(l, i + 1)
              /\ T!InstalmentsFrom(l, i + 1) \in Nat
<1> DEFINE f == SumOf(l)
           g == FromTheLast(l)
           term == l.term
           m == T!monthlyPayment(l)
<1>1. /\ term \in 1 .. 12 /\ m \in Int /\ l.total \in Int
      /\ \A i \in 1 .. term : T!amountOf(l, i) \in Nat
      /\ T!amountOf(l, term) = l.total - (term - 1) * m
      /\ \A i \in 1 .. term : i < term => T!amountOf(l, i) = m
  BY AmountsOfTerms DEF LoanRows, Cents
<1>2. \A n \in 1 .. term : g[n] = T!amountOf(l, term + 1 - n)
  BY DEF FromTheLast
<1> HIDE DEF term, g, f, m
<1>3. IsSum(f, g, term) /\ \A i : T!InstalmentsFrom(l, i) = f[term + 1 - i]
  <2>1. l.term \in Nat
    BY <1>1 DEF term
  <2> QED BY <2>1, SumOfIsSum DEF f, g, term
<1>4. f[0] = 0 /\ \A n \in 1 .. term : f[n] = f[n - 1] + g[n]
  BY <1>1, <1>3, SumSteps
<1>5. ASSUME NEW n \in 0 .. term PROVE f[n] \in Nat
  <2> DEFINE Hold == {k \in Nat : k <= term => f[k] \in Nat}
  <2>1. 0 \in Hold
    BY <1>4
  <2>2. ASSUME NEW k \in Nat, k \in Hold PROVE k + 1 \in Hold
    <3>1. k + 1 <= term => g[k + 1] \in Nat
      BY <1>1, <1>2
    <3> QED BY <1>1, <1>4, <2>2, <3>1
  <2> HIDE DEF Hold
  <2>3. n \in Hold
    BY <1>1, <2>1, <2>2, InductionOnNat
  <2> QED BY <2>3 DEF Hold
<1>6. f[term] = l.total
  <2>1. g[1] = l.total - (term - 1) * m /\ \A n \in 2 .. term : g[n] = m
    BY <1>1, <1>2
  <2>2. g[1] \in Int
    BY <1>1, <1>2
  <2>3. f[term] = g[1] + (term - 1) * m
    <3>1. term \in Nat \ {0} /\ term \in 1 .. term
      BY <1>1
    <3>2. PICK a \in Int : a = g[1]
      BY <2>2
    <3>3. m \in Int /\ IsSum(f, g, term) /\ g[1] = a /\ \A n \in 2 .. term : g[n] = m
      BY <1>1, <1>3, <2>1, <3>2
    <3>4. f[term] = a + (term - 1) * m
      BY <3>1, <3>2, <3>3, SumOfEquals
    <3> QED BY <3>2, <3>4
  <2>4. (term - 1) * m \in Int
    BY <1>1
  <2> QED BY <1>1, <2>1, <2>3, <2>4
<1>7. ASSUME NEW i \in 1 .. term
      PROVE  /\ f[term + 1 - i] = T!amountOf(l, i) + f[term + 1 - (i + 1)]
             /\ f[term + 1 - (i + 1)] \in Nat
  <2>1. /\ term + 1 - i \in 1 .. term /\ term + 1 - (i + 1) = (term + 1 - i) - 1
        /\ term + 1 - (term + 1 - i) = i /\ term + 1 - (i + 1) \in 0 .. term
    BY <1>1
  <2>2. g[term + 1 - i] = T!amountOf(l, i)
    BY <1>2, <2>1
  <2>3. f[term + 1 - i] = f[(term + 1 - i) - 1] + g[term + 1 - i]
    BY <1>4, <2>1
  <2> QED BY <1>1, <1>5, <2>1, <2>2, <2>3
<1>8. term + 1 - (term + 1) = 0 /\ term + 1 - 1 = term
  BY <1>1
<1> QED BY <1>3, <1>4, <1>6, <1>7, <1>8 DEF term

LEMMA InstalmentsSame ==
  ASSUME NEW l, NEW k, l.term \in Nat, k.term = l.term, k.total = l.total, k.short = l.short
  PROVE  /\ \A i : T!amountOf(k, i) = T!amountOf(l, i)
         /\ \A i \in 1 .. l.term + 1 : T!InstalmentsFrom(k, i) = T!InstalmentsFrom(l, i)
<1>1. \A i : T!amountOf(k, i) = T!amountOf(l, i)
  BY DEF T!amountOf, T!monthlyPayment
<1>2. FromTheLast(k) = FromTheLast(l)
  BY <1>1 DEF FromTheLast
<1>3. SumOf(k) = SumOf(l)
  BY <1>1 DEF SumOf
<1> QED BY <1>1, <1>3, SumOfIsSum

-----------------------------------------------------------------------------
(* The calendar.                                                           *)
Length(m) == T!MonthLength[((m - 1) % 12) + 1]

LEMMA MonthsHaveDays == \A m \in 1 .. 24 : Length(m) \in 28 .. 31
<1>1. \A k \in 1 .. 12 : T!MonthLength[k] \in 28 .. 31
  BY DEF T!MonthLength
<1>2. \A m \in 1 .. 24 : ((m - 1) % 12) + 1 \in 1 .. 12
  OBVIOUS
<1> QED BY <1>1, <1>2 DEF Length

LEMMA FirstOfMonths ==
  /\ \A m \in 0 .. 24 : T!FirstOf[m] \in Nat
  /\ \A m \in 1 .. 24 : T!FirstOf[m] = T!FirstOf[m - 1] + Length(m)
<1> DEFINE g == [m \in 1 .. 24 |-> Length(m)]
           D(h) == [m \in 0 .. 24 |-> IF m = 0 THEN 1 ELSE h[m - 1] + Length(m)]
<1>1. PICK f : IsSum(f, g, 24)
  BY SumExists
<1>2. f[0] = 0 /\ \A m \in 1 .. 24 : f[m] = f[m - 1] + Length(m)
  BY <1>1, SumSteps
<1>3. \A m \in 0 .. 24 : f[m] \in Nat
  <2> DEFINE Hold == {k \in Nat : k <= 24 => f[k] \in Nat}
  <2>1. 0 \in Hold
    BY <1>2
  <2>2. ASSUME NEW k \in Nat, k \in Hold PROVE k + 1 \in Hold
    BY <1>2, <2>2, MonthsHaveDays
  <2> HIDE DEF Hold
  <2>3. Nat \subseteq Hold
    BY <2>1, <2>2, InductionOnNat
  <2> QED BY <2>3 DEF Hold
<1> DEFINE h == [m \in 0 .. 24 |-> 1 + f[m]]
<1>4. h = D(h)
  <2>1. ASSUME NEW m \in 0 .. 24
        PROVE  h[m] = IF m = 0 THEN 1 ELSE h[m - 1] + Length(m)
    <3>1. CASE m = 0
      BY <1>2, <3>1
    <3>2. CASE m # 0
      <4>1. f[m] = f[m - 1] + Length(m) /\ f[m - 1] \in Nat /\ Length(m) \in Nat
        BY <1>2, <1>3, <3>2, MonthsHaveDays
      <4>2. h[m] = 1 + f[m] /\ h[m - 1] = 1 + f[m - 1]
        BY <3>2
      <4> QED BY <3>2, <4>1, <4>2
    <3> QED BY <3>1, <3>2
  <2> QED BY <2>1
<1> HIDE DEF h
<1>5. T!FirstOf = CHOOSE e : e = D(e)
  BY DEF T!FirstOf, Length
<1> HIDE DEF D
<1>6. T!FirstOf = D(T!FirstOf)
  BY <1>4, <1>5
<1> USE DEF D
<1>7. \A m \in 0 .. 24 : T!FirstOf[m] = IF m = 0 THEN 1 ELSE T!FirstOf[m - 1] + Length(m)
  BY <1>6
<1>8. \A m \in 0 .. 24 : T!FirstOf[m] \in Nat
  <2> DEFINE Hold == {k \in Nat : k <= 24 => T!FirstOf[k] \in Nat}
  <2>1. 0 \in Hold
    BY <1>7
  <2>2. ASSUME NEW k \in Nat, k \in Hold PROVE k + 1 \in Hold
    BY <1>7, <2>2, MonthsHaveDays
  <2> HIDE DEF Hold
  <2>3. Nat \subseteq Hold
    BY <2>1, <2>2, InductionOnNat
  <2> QED BY <2>3 DEF Hold
<1> QED BY <1>7, <1>8

LEMMA DatesAreApart ==
  ASSUME LoanTermsConstants, NEW l \in LoanRows
  PROVE  /\ T!dueDate(l, 1) > T!FirstOf[l.start.month] + l.start.day
         /\ \A i \in 2 .. l.term : T!dueDate(l, i) - T!dueDate(l, i - 1) \in 28 .. 31
<1> DEFINE month == l.start.month
           date == l.start.day
<1>1. month \in 0 .. 11 /\ date \in 1 .. 31 /\ l.term \in 1 .. 12
  BY DEF LoanRows, LoanTermsConstants
<1>2. \A i : T!dueDate(l, i) = T!FirstOf[month + i] + date - 1
  BY DEF T!dueDate
<1> HIDE DEF month, date
<1>3. T!FirstOf[month + 1] = T!FirstOf[month] + Length(month + 1)
  BY <1>1, FirstOfMonths
<1>4. T!FirstOf[month] \in Nat /\ Length(month + 1) \in 28 .. 31
  BY <1>1, FirstOfMonths, MonthsHaveDays
<1>5. ASSUME NEW i \in 2 .. l.term
      PROVE  T!dueDate(l, i) - T!dueDate(l, i - 1) \in 28 .. 31
  <2>1. month + i \in 1 .. 24 /\ month + (i - 1) = (month + i) - 1
    BY <1>1
  <2>2. T!FirstOf[month + i] = T!FirstOf[month + (i - 1)] + Length(month + i)
    BY <2>1, FirstOfMonths
  <2>3. T!FirstOf[month + (i - 1)] \in Nat /\ Length(month + i) \in 28 .. 31
    BY <1>1, <2>1, FirstOfMonths, MonthsHaveDays
  <2> QED BY <1>1, <1>2, <2>2, <2>3
<1> QED BY <1>1, <1>2, <1>3, <1>4, <1>5 DEF month, date

-----------------------------------------------------------------------------
(* A repayment that was asked for is the next one, and what is left of the *)
(* loan is what the instalments not yet paid add up to.                    *)
Repayments == [amount : Nat, newBalance : Nat]
MoneyTypes ==
  /\ loan \in LoanRows \cup {T!NoLoan} /\ paid \in Nat /\ listed \in Nat
  /\ asked \subseteq Repayments /\ applied \in [count : Nat, sum : Nat, asPreviewed : BOOLEAN]

Unpaid ==
  /\ paid = 0 /\ listed = 0 /\ asked = {}
  /\ applied = [count |-> 0, sum |-> 0, asPreviewed |-> TRUE]
NotYetActive == loan = T!NoLoan \/ loan.status = "pending" => Unpaid
Owing == T!nextPayment(loan, paid)
ByInstalments ==
  /\ "recorded" \in regime => /\ paid \in 0 .. loan.term
                             /\ loan.balance = T!InstalmentsFrom(loan, paid + 1)
  /\ "recorded" \notin regime =>
       /\ paid = 0
       /\ loan.balance = loan.total - T!Min2(loan.total, applied.count * T!amountOf(loan, 1))
OneByOne ==
  /\ ByInstalments
  /\ loan.status = "completed" <=> loan.balance = 0
  /\ listed \in {0, Owing}
  /\ \A a \in asked : a.amount = Owing /\ a.newBalance = loan.balance - Owing
  /\ listed # 0 => asked = {}
  /\ listed # 0 \/ asked # {} => loan.status = "active"
  /\ applied.sum = loan.total - loan.balance /\ applied.asPreviewed
NotOverpaid == 2 * (loan.total - loan.balance - applied.sum) <= T!CENT * applied.count

MoneyInvariant ==
  /\ MoneyTypes /\ NotYetActive
  /\ loan # T!NoLoan => /\ TermsFit(loan) /\ NotOverpaid
                        /\ T!InOrder => OneByOne

LEMMA LoansExist ==
  /\ \A l \in LoanRows : l # T!NoLoan
  /\ T!NoLoan.status = "none"
  BY DEF LoanRows, T!NoLoan

(* What the list shows of a loan that is not paid off is the amount of the *)
(* instalment that is due, or all that is left.                            *)
LEMMA NextPaymentIsDue ==
  ASSUME LoanTermsConstants, loan \in LoanRows, TermsFit(loan), paid \in Nat,
         applied.count \in Nat, ByInstalments, loan.balance > 0
  PROVE  /\ Owing \in Cents /\ Owing \in 1 .. loan.balance
         /\ "recorded" \in regime =>
              /\ paid + 1 \in 0 .. loan.term
              /\ loan.balance - Owing = T!InstalmentsFrom(loan, paid + 2)
         /\ "recorded" \notin regime =>
              loan.balance - Owing =
                loan.total - T!Min2(loan.total, (applied.count + 1) * T!amountOf(loan, 1))
<1>1. /\ loan.term \in 1 .. 12 /\ loan.balance \in Cents /\ loan.total \in Cents
      /\ \A i \in 1 .. loan.term : T!amountOf(loan, i) \in Cents /\ T!CENT <= T!amountOf(loan, i)
  BY AmountsOfTerms DEF LoanRows
<1>2. ASSUME NEW i \in 1 .. loan.term,
             Owing = T!roundCents(IF T!amountOf(loan, i) < loan.balance
                                  THEN T!amountOf(loan, i) ELSE loan.balance, 1)
      PROVE  /\ Owing \in Cents /\ Owing \in 1 .. loan.balance
             /\ Owing = IF T!amountOf(loan, i) < loan.balance
                        THEN T!amountOf(loan, i) ELSE loan.balance
  <2> DEFINE x == IF T!amountOf(loan, i) < loan.balance THEN T!amountOf(loan, i) ELSE loan.balance
  <2>1. x \in Cents
    BY <1>1
  <2>2. Owing = x
    BY <1>2, <2>1, WholeCents
  <2>3. x > 0 /\ x <= loan.balance
    BY <1>1 DEF Cents, T!CENT
  <2> QED BY <1>1, <2>1, <2>2, <2>3 DEF Cents
<1>3. CASE "recorded" \in regime
  <2>1. paid \in 0 .. loan.term /\ loan.balance = T!InstalmentsFrom(loan, paid + 1)
    BY <1>3 DEF ByInstalments
  <2>2. paid < loan.term
    BY <1>1, <2>1, InstalmentsAddUp
  <2> DEFINE i == paid + 1
  <2>3. i \in 1 .. loan.term /\ i + 1 = paid + 2
    BY <1>1, <2>1, <2>2
  <2>4. Owing = T!roundCents(IF T!amountOf(loan, i) < loan.balance
                             THEN T!amountOf(loan, i) ELSE loan.balance, 1)
    BY <2>2 DEF Owing, T!nextPayment
  <2>5. /\ loan.balance = T!amountOf(loan, i) + T!InstalmentsFrom(loan, i + 1)
        /\ T!InstalmentsFrom(loan, i + 1) \in Nat
    BY <2>1, <2>3, InstalmentsAddUp
  <2> HIDE DEF i
  <2>6. /\ Owing \in Cents /\ Owing \in 1 .. loan.balance
        /\ Owing = IF T!amountOf(loan, i) < loan.balance THEN T!amountOf(loan, i) ELSE loan.balance
    BY <1>2, <2>3, <2>4
  <2>7. T!amountOf(loan, i) \in Nat /\ loan.balance \in Nat
    BY <1>1, <2>3 DEF Cents
  <2>8. loan.balance - Owing = T!InstalmentsFrom(loan, i + 1)
    BY <2>5, <2>6, <2>7
  <2> QED BY <1>3, <2>2, <2>1, <2>3, <2>6, <2>8, <1>1
<1>4. CASE "recorded" \notin regime
  <2> DEFINE a == T!amountOf(loan, 1)
             c == applied.count
  <2>1. paid = 0 /\ loan.balance = loan.total - T!Min2(loan.total, c * a)
    BY <1>4 DEF ByInstalments
  <2>2. Owing = T!roundCents(IF a < loan.balance THEN a ELSE loan.balance, 1)
    BY <1>1, <2>1 DEF Owing, T!nextPayment
  <2>3. /\ Owing \in Cents /\ Owing \in 1 .. loan.balance
        /\ Owing = IF a < loan.balance THEN a ELSE loan.balance
    BY <1>1, <1>2, <2>2
  <2>4. a \in Nat /\ c \in Nat /\ loan.balance \in Nat /\ loan.total \in Nat
    BY <1>1 DEF Cents
  <2> HIDE DEF a, c
  <2>5. (c + 1) * a = c * a + a /\ c * a \in Nat
    BY <2>4
  <2>6. loan.balance - Owing = loan.total - T!Min2(loan.total, (c + 1) * a)
    BY <2>1, <2>3, <2>4, <2>5 DEF T!Min2
  <2> QED BY <1>4, <2>3, <2>6 DEF a, c
<1> QED BY <1>3, <1>4

(* A new loan.                                                             *)
LEMMA RatesAreNumbers ==
  ASSUME NEW s \in 0 .. 100
  PROVE  T!mapToReputation(s).rate \in Nat
<1>1. \E t \in T!Tiers : t.from <= s /\ \A u \in T!Tiers : u.from <= s => u.from <= t.from
  <2>1. CASE s >= 90
    BY <2>1 DEF T!Tiers
  <2>2. CASE s < 90 /\ s >= 75
    BY <2>2 DEF T!Tiers
  <2>3. CASE s < 75 /\ s >= 60
    BY <2>3 DEF T!Tiers
  <2>4. CASE s < 60
    BY <2>4 DEF T!Tiers
  <2> QED BY <2>1, <2>2, <2>3, <2>4
<1>2. T!mapToReputation(s) \in T!Tiers
  BY <1>1 DEF T!mapToReputation
<1> QED BY <1>2 DEF T!Tiers

LEMMA ChargedInCents ==
  ASSUME NEW n \in Nat, NEW charged \in T!Rounded(n, 120)
  PROVE  charged \in Cents
  BY DEF Cents, T!CENT, T!Rounded, T!roundCents, T!IsTie

LEMMA SplitsInCents ==
  ASSUME NEW a \in Nat, a >= 1000
  PROVE  /\ T!roundCents(4 * a, 5) \in Cents /\ T!roundCents(4 * a, 5) >= 800
         /\ T!roundCents(a, 5) \in Nat
         /\ a % T!CENT = 0 => T!roundCents(a, 5) + T!roundCents(4 * a, 5) = a
  BY DEF Cents, T!CENT, T!roundCents

LEMMA NewLoans ==
  ASSUME LoanTermsConstants, score \in Ratings, NEW amount \in Amounts, NEW term \in Terms,
         NEW start \in Starts, T!Create(amount, term, start)
  PROVE  /\ loan' \in LoanRows /\ TermsFit(loan')
         /\ loan'.balance = loan'.total /\ loan'.status = "pending"
<1> DEFINE rep == T!mapToReputation(score)
           loanAmount == T!roundCents(4 * amount, 5)
           interest == (loanAmount \div T!CENT) * rep.rate * term
<1>1. PICK charged \in T!Rounded(interest, 120) :
        \E short \in T!FallsShort(loanAmount + charged, term) :
           loan' = [status |-> "pending", amount |-> amount, term |-> term,
                    start |-> start, guarantee |-> T!roundCents(amount, 5),
                    loanAmount |-> loanAmount,
                    total |-> loanAmount + charged,
                    balance |-> loanAmount + charged, short |-> short]
  BY DEF T!Create
<1> DEFINE total == loanAmount + charged
<1>2. PICK short \in T!FallsShort(total, term) :
           loan' = [status |-> "pending", amount |-> amount, term |-> term,
                    start |-> start, guarantee |-> T!roundCents(amount, 5),
                    loanAmount |-> loanAmount, total |-> total,
                    balance |-> total, short |-> short]
  BY <1>1
<1>3. /\ amount \in Nat /\ amount >= 1000 /\ term \in 1 .. 12 /\ score \in 0 .. 100
  BY DEF LoanTermsConstants
<1>4. rep.rate \in Nat
  BY <1>3, RatesAreNumbers
<1>5. /\ loanAmount \in Cents /\ loanAmount >= 800 /\ T!roundCents(amount, 5) \in Nat
      /\ amount % T!CENT = 0 => T!roundCents(amount, 5) + loanAmount = amount
  BY <1>3, SplitsInCents
<1> HIDE DEF rep, loanAmount
<1>6. loanAmount \div T!CENT \in Nat
  BY <1>5 DEF Cents, T!CENT
<1>7. interest \in Nat
  BY <1>3, <1>4, <1>6
<1> HIDE DEF interest
<1>8. charged \in Cents
  BY <1>1, <1>7, ChargedInCents
<1>9. total \in Cents /\ T!CENT * term <= total
  BY <1>3, <1>5, <1>8 DEF Cents, T!CENT
<1> HIDE DEF total
<1>10. /\ short \in BOOLEAN
       /\ short => total % (term * T!CENT) = 0 /\ total > T!CENT * term
  <2>1. CASE total % (term * T!CENT) = 0 /\ total > T!CENT * term
    BY <1>2, <2>1 DEF T!FallsShort
  <2>2. CASE ~(total % (term * T!CENT) = 0 /\ total > T!CENT * term)
    BY <1>2, <2>2 DEF T!FallsShort
  <2> QED BY <2>1, <2>2
<1>11. loan' \in LoanRows
  <2>1. loanAmount \in Nat
    BY <1>5 DEF Cents
  <2>2. [status |-> "pending", amount |-> amount, term |-> term,
         start |-> start, guarantee |-> T!roundCents(amount, 5),
         loanAmount |-> loanAmount, total |-> total,
         balance |-> total, short |-> short] \in LoanRows
    BY <1>5, <1>9, <1>10, <2>1 DEF LoanRows
  <2> QED BY <1>2, <2>2
<1>12. total <= total
  BY <1>9 DEF Cents
<1> QED BY <1>2, <1>5, <1>9, <1>10, <1>11, <1>12 DEF TermsFit

LEMMA NextPaymentSame ==
  ASSUME NEW l, NEW k, NEW n, k.term = l.term, k.total = l.total, k.short = l.short,
         k.balance = l.balance, l.term \in Nat
  PROVE  T!nextPayment(k, n) = T!nextPayment(l, n)
<1>1. \A i : T!amountOf(k, i) = T!amountOf(l, i)
  BY InstalmentsSame
<1> QED BY <1>1 DEF T!nextPayment

LEMMA NextPaymentTyped ==
  ASSUME LoanTermsConstants, loan \in LoanRows, TermsFit(loan), paid \in Nat
  PROVE  Owing \in Cents
<1> DEFINE i == (IF paid < loan.term THEN paid ELSE loan.term - 1) + 1
           x == IF T!amountOf(loan, i) < loan.balance THEN T!amountOf(loan, i) ELSE loan.balance
<1>1. /\ loan.term \in 1 .. 12 /\ loan.balance \in Cents
      /\ \A j \in 1 .. loan.term : T!amountOf(loan, j) \in Cents
  BY AmountsOfTerms DEF LoanRows
<1>2. i \in 1 .. loan.term
  BY <1>1
<1>3. Owing = T!roundCents(x, 1)
  BY DEF Owing, T!nextPayment
<1> HIDE DEF i
<1>4. x \in Cents
  BY <1>1, <1>2
<1> QED BY <1>3, <1>4, WholeCents

(* A row keeps its terms when its status and its balance change.           *)
Changed(l, left, status) == [l EXCEPT !.balance = left, !.status = status]

LEMMA RowChanges ==
  ASSUME NEW l \in LoanRows, TermsFit(l), NEW left \in Cents, left <= l.total,
         NEW status \in {"pending", "active", "completed"},
         NEW k, k = Changed(l, left, status)
  PROVE  /\ k \in LoanRows /\ TermsFit(k) /\ k.balance = left /\ k.status = status
         /\ k.total = l.total /\ k.term = l.term /\ k.short = l.short
<1>1. k \in LoanRows
  BY DEF LoanRows, Changed
<1> QED BY <1>1 DEF LoanRows, TermsFit, Changed

LEMMA CreateKeepsMoney ==
  ASSUME LoanTermsConstants, MoneyInvariant, score \in Ratings,
         NEW amount \in Amounts, NEW term \in Terms, NEW start \in Starts,
         T!Create(amount, term, start)
  PROVE  MoneyInvariant'
<1>1. loan = T!NoLoan /\ Unpaid /\ UNCHANGED <<regime, paid, listed, asked, applied>>
  BY DEF T!Create, MoneyInvariant, NotYetActive
<1>2. /\ loan' \in LoanRows /\ TermsFit(loan')
      /\ loan'.balance = loan'.total /\ loan'.status = "pending"
  BY NewLoans
<1>3. PICK l \in LoanRows : l = loan'
  BY <1>2
<1>4. l.total \in Nat /\ l.total > 0 /\ l.term \in 1 .. 12 /\ T!amountOf(l, 1) \in Nat
  <2>1. l.term \in 1 .. 12 /\ \A i \in 1 .. l.term : T!amountOf(l, i) \in Cents
    BY <1>2, <1>3, AmountsOfTerms
  <2>2. l.total \in Nat /\ T!CENT * l.term <= l.total
    BY <1>2, <1>3 DEF LoanRows, Cents, TermsFit
  <2> QED BY <2>1, <2>2 DEF Cents, T!CENT
<1>5. Unpaid'
  BY <1>1 DEF Unpaid
<1>6. MoneyTypes' /\ NotYetActive'
  BY <1>2, <1>5 DEF MoneyTypes, NotYetActive, Unpaid
<1>7. NotOverpaid'
  BY <1>2, <1>3, <1>4, <1>5 DEF NotOverpaid, Unpaid, T!CENT
<1>8. ByInstalments'
  <2>1. T!InstalmentsFrom(l, 1) = l.total
    BY <1>2, <1>3, InstalmentsAddUp
  <2>2. 0 * T!amountOf(l, 1) = 0 /\ T!Min2(l.total, 0) = 0 /\ l.total - 0 = l.total
    BY <1>4 DEF T!Min2
  <2>3. paid' + 1 = 1 /\ paid' = 0 /\ applied'.count = 0 /\ 0 \in 0 .. l.term
    BY <1>4, <1>5 DEF Unpaid
  <2> QED BY <1>2, <1>3, <2>1, <2>2, <2>3 DEF ByInstalments
<1>9. OneByOne'
  BY <1>2, <1>3, <1>4, <1>5, <1>8 DEF OneByOne, Unpaid
<1> QED BY <1>2, <1>6, <1>7, <1>9 DEF MoneyInvariant

LEMMA ActivateKeepsMoney ==
  ASSUME LoanTermsConstants, MoneyInvariant, T!Activate
  PROVE  MoneyInvariant'
<1>1. /\ loan \in LoanRows /\ loan # T!NoLoan /\ Unpaid /\ TermsFit(loan) /\ NotOverpaid
      /\ T!InOrder => OneByOne
  BY LoansExist DEF T!Activate, MoneyInvariant, MoneyTypes, NotYetActive
<1>2. PICK l \in LoanRows : l = loan
  BY <1>1
<1>3. loan' = [l EXCEPT !.balance = l.balance, !.status = "active"]
  BY <1>2 DEF T!Activate, LoanRows
<1>4. l.balance \in Cents /\ l.balance <= l.total /\ l.term \in Nat /\ TermsFit(l)
  BY <1>1, <1>2, AmountsOfTerms DEF LoanRows, TermsFit
<1>5. /\ loan' \in LoanRows /\ TermsFit(loan') /\ loan'.balance = l.balance
      /\ loan'.status = "active" /\ loan'.total = l.total /\ loan'.term = l.term
      /\ loan'.short = l.short
  <2>1. PICK k : k = loan'
    OBVIOUS
  <2>2. k = Changed(l, l.balance, "active")
    BY <1>3, <2>1 DEF Changed
  <2> QED BY <1>4, <2>1, <2>2, RowChanges
<1>6. UNCHANGED <<regime, score, paid, listed, asked, applied>> /\ loan.status = "pending"
  BY DEF T!Activate
<1>7. Unpaid'
  BY <1>1, <1>6 DEF Unpaid
<1>8. MoneyTypes' /\ NotYetActive'
  BY <1>5, <1>7 DEF MoneyTypes, NotYetActive, Unpaid
<1>9. NotOverpaid'
  BY <1>1, <1>2, <1>5, <1>6 DEF NotOverpaid
<1>10. ASSUME T!InOrder' PROVE OneByOne'
  <2>1. OneByOne
    BY <1>1, <1>6, <1>10 DEF T!InOrder
  <2>2. /\ \A i : T!amountOf(loan', i) = T!amountOf(l, i)
        /\ \A i \in 1 .. l.term + 1 : T!InstalmentsFrom(loan', i) = T!InstalmentsFrom(l, i)
    BY <1>4, <1>5, InstalmentsSame
  <2>3. paid + 1 \in 1 .. l.term + 1
    BY <1>1, <1>4 DEF Unpaid
  <2>4. ByInstalments'
    BY <1>2, <1>5, <1>6, <2>1, <2>2, <2>3 DEF OneByOne, ByInstalments
  <2> QED BY <1>2, <1>5, <1>6, <1>7, <2>1, <2>4 DEF OneByOne, Unpaid
<1> QED BY <1>5, <1>8, <1>9, <1>10 DEF MoneyInvariant

LEMMA ListKeepsMoney ==
  ASSUME LoanTermsConstants, MoneyInvariant, T!ListLoans
  PROVE  MoneyInvariant'
<1>1. /\ loan \in LoanRows /\ loan # T!NoLoan /\ TermsFit(loan) /\ NotOverpaid /\ MoneyTypes
      /\ T!InOrder => OneByOne
  BY LoansExist DEF T!ListLoans, MoneyInvariant, MoneyTypes
<1>2. /\ UNCHANGED <<regime, score, loan, paid, asked, applied>>
      /\ loan.status = "active" /\ listed' = Owing
      /\ asked = {} \/ "overlap" \in regime
  BY DEF T!ListLoans, Owing, T!Settled
<1>3. Owing \in Nat
  BY <1>1, NextPaymentTyped DEF Cents, MoneyTypes
<1>4. Owing' = Owing
  BY <1>2 DEF Owing
<1>5. MoneyTypes' /\ NotYetActive' /\ TermsFit(loan)' /\ NotOverpaid'
  BY <1>1, <1>2, <1>3 DEF MoneyTypes, NotYetActive, NotOverpaid, TermsFit
<1>6. ASSUME T!InOrder' PROVE OneByOne'
  <2>1. OneByOne /\ asked = {}
    BY <1>1, <1>2, <1>6 DEF T!InOrder
  <2>2. ByInstalments'
    BY <1>2, <2>1 DEF OneByOne, ByInstalments
  <2> QED BY <1>2, <1>4, <2>1, <2>2 DEF OneByOne
<1> QED BY <1>1, <1>2, <1>5, <1>6 DEF MoneyInvariant

LEMMA RepayKeepsMoney ==
  ASSUME LoanTermsConstants, MoneyInvariant, T!Repay
  PROVE  MoneyInvariant'
<1>1. /\ loan \in LoanRows /\ loan # T!NoLoan /\ TermsFit(loan) /\ NotOverpaid /\ MoneyTypes
      /\ T!InOrder => OneByOne
  BY LoansExist DEF T!Repay, MoneyInvariant, MoneyTypes
<1>2. PICK amount \in T!Chosen :
        /\ amount <= loan.balance
        /\ asked' = asked \cup {[amount |-> amount, newBalance |-> loan.balance - amount]}
  BY DEF T!Repay
<1>3. /\ UNCHANGED <<regime, score, loan, paid, applied>> /\ listed' = 0
      /\ loan.status = "active"
  BY DEF T!Repay
<1>4. amount \in Nat /\ ("free" \notin regime => amount = listed /\ listed # 0)
  BY <1>1, <1>2 DEF T!Chosen, MoneyTypes, LoanTermsConstants
<1>5. loan.balance - amount \in Nat
  BY <1>1, <1>2, <1>4 DEF LoanRows, Cents
<1>6. MoneyTypes'
  <2>1. [amount |-> amount, newBalance |-> loan.balance - amount] \in Repayments
    BY <1>4, <1>5 DEF Repayments
  <2> QED BY <1>1, <1>2, <1>3, <2>1 DEF MoneyTypes
<1>7. NotYetActive' /\ TermsFit(loan)' /\ NotOverpaid'
  BY <1>1, <1>3 DEF NotYetActive, NotOverpaid, TermsFit
<1>8. ASSUME T!InOrder' PROVE OneByOne'
  <2>1. OneByOne /\ "free" \notin regime
    BY <1>1, <1>3, <1>8 DEF T!InOrder
  <2>2. amount = Owing /\ asked = {}
    BY <1>4, <2>1 DEF OneByOne
  <2>3. ByInstalments' /\ Owing' = Owing
    BY <1>3, <2>1 DEF OneByOne, ByInstalments, Owing
  <2>4. \A a \in asked' : a.amount = Owing /\ a.newBalance = loan.balance - Owing
    BY <1>2, <2>2
  <2> QED BY <1>3, <2>1, <2>3, <2>4 DEF OneByOne
<1> QED BY <1>1, <1>3, <1>6, <1>7, <1>8 DEF MoneyInvariant

LEMMA PaysDown ==
  ASSUME NEW b \in Cents, NEW amount \in Nat, NEW left \in Cents, amount < b,
         2 * left + T!CENT >= 2 * (b - amount), 2 * left <= 2 * (b - amount) + T!CENT
  PROVE  left <= b /\ 2 * (b - left - amount) <= T!CENT
  BY DEF Cents, T!CENT

LEMMA RoundingsAdd ==
  ASSUME NEW total \in Nat, NEW b \in Nat, NEW left \in Nat, NEW amount \in Nat,
         NEW sum \in Nat, NEW count \in Nat,
         2 * (total - b - sum) <= T!CENT * count, 2 * (b - left - amount) <= T!CENT
  PROVE  2 * (total - left - (sum + amount)) <= T!CENT * (count + 1)
  BY DEF T!CENT

LEMMA ApplyKeepsMoney ==
  ASSUME LoanTermsConstants, MoneyInvariant, NEW a \in asked, T!Apply(a)
  PROVE  MoneyInvariant'
<1>1. /\ loan \in LoanRows /\ loan # T!NoLoan /\ loan.status # "pending"
      /\ TermsFit(loan) /\ NotOverpaid /\ MoneyTypes
      /\ T!InOrder => OneByOne
  BY DEF MoneyInvariant, MoneyTypes, NotYetActive, Unpaid
<1>2. PICK left \in IF loan.balance > a.amount
                    THEN T!Rounded(loan.balance - a.amount, 1) ELSE {0} :
       /\ loan' = [loan EXCEPT !.balance = left,
                               !.status = IF left = 0 THEN "completed" ELSE @]
       /\ applied' = [count |-> applied.count + 1, sum |-> applied.sum + a.amount,
                      asPreviewed |-> applied.asPreviewed /\ left = a.newBalance]
  BY DEF T!Apply
<1>3. /\ paid' = paid + (IF "recorded" \in regime THEN 1 ELSE 0) /\ asked' = asked \ {a}
      /\ UNCHANGED <<regime, score, listed>>
  BY DEF T!Apply
<1>4. PICK l \in LoanRows : l = loan
  BY <1>1
<1>5. PICK amount \in Nat : amount = a.amount
  BY <1>1 DEF MoneyTypes, Repayments
<1>6. /\ l.balance \in Cents /\ l.total \in Cents /\ l.balance <= l.total
      /\ l.term \in 1 .. 12 /\ TermsFit(l) /\ l.status \in {"active", "completed"}
      /\ applied.count \in Nat /\ applied.sum \in Nat /\ applied.asPreviewed \in BOOLEAN
  BY <1>1, <1>4, AmountsOfTerms DEF LoanRows, TermsFit, MoneyTypes
<1>7. /\ left \in Cents /\ left <= l.balance
      /\ 2 * (l.balance - left - amount) <= T!CENT
  <2>1. CASE l.balance > amount
    <3>1. l.balance - amount \in Nat \ {0} /\ left \in T!Rounded(l.balance - amount, 1)
      BY <1>2, <1>4, <1>5, <1>6, <2>1 DEF Cents
    <3>2. /\ left \in Cents /\ 2 * left + T!CENT >= 2 * (l.balance - amount)
          /\ 2 * left <= 2 * (l.balance - amount) + T!CENT
      BY <3>1, ToTheCent
    <3> QED BY <1>6, <2>1, <3>2, PaysDown
  <2>2. CASE ~(l.balance > amount)
    <3>1. left = 0
      BY <1>2, <1>4, <1>5, <2>2
    <3> QED BY <1>6, <2>2, <3>1 DEF Cents, T!CENT
  <2> QED BY <2>1, <2>2
<1> DEFINE status == IF left = 0 THEN "completed" ELSE l.status
<1>8. loan' = [l EXCEPT !.balance = left, !.status = status]
  BY <1>2, <1>4 DEF LoanRows
<1>9. /\ status \in {"active", "completed"}
      /\ status \in {"pending", "active", "completed"} /\ left <= l.total
  BY <1>6, <1>7 DEF Cents
<1>10. PICK k : k = loan' /\ k = Changed(l, left, status)
  BY <1>8 DEF Changed
<1> HIDE DEF status
<1>11. /\ loan' \in LoanRows /\ TermsFit(loan') /\ loan'.balance = left
       /\ loan'.status = status /\ loan'.total = l.total /\ loan'.term = l.term
       /\ loan'.short = l.short
  BY <1>6, <1>7, <1>9, <1>10, RowChanges
<1>12. /\ applied'.count = applied.count + 1 /\ applied'.sum = applied.sum + amount
       /\ applied'.asPreviewed <=> applied.asPreviewed /\ left = a.newBalance
  BY <1>2, <1>5
<1>13. MoneyTypes'
  <2>1. applied' \in [count : Nat, sum : Nat, asPreviewed : BOOLEAN]
    BY <1>2, <1>5, <1>6
  <2>2. paid' \in Nat
    BY <1>1, <1>3 DEF MoneyTypes
  <2> QED BY <1>1, <1>3, <1>11, <2>1, <2>2 DEF MoneyTypes
<1>14. loan' # T!NoLoan /\ NotYetActive'
  BY <1>9, <1>11, LoansExist DEF NotYetActive
<1>15. NotOverpaid'
  <2>1. 2 * (l.total - l.balance - applied.sum) <= T!CENT * applied.count
    BY <1>1, <1>4 DEF NotOverpaid
  <2>2. l.total \in Nat /\ l.balance \in Nat /\ left \in Nat
    BY <1>6, <1>7 DEF Cents
  <2>3. 2 * (l.total - left - (applied.sum + amount)) <= T!CENT * (applied.count + 1)
    BY <1>6, <1>7, <2>1, <2>2, RoundingsAdd
  <2> QED BY <1>11, <1>12, <2>3 DEF NotOverpaid
<1>16. ASSUME T!InOrder' PROVE OneByOne'
  <2>1. OneByOne /\ ByInstalments
    <3>1. T!InOrder
      BY <1>3, <1>16 DEF T!InOrder
    <3> QED BY <1>1, <3>1 DEF OneByOne
  <2>2. /\ amount = Owing /\ a.newBalance = l.balance - Owing
        /\ asked' = {} /\ listed = 0 /\ l.status = "active"
    <3>1. ASSUME NEW b \in asked
          PROVE  b = [amount |-> Owing, newBalance |-> loan.balance - Owing]
      <4>1. b \in Repayments /\ b.amount = Owing /\ b.newBalance = loan.balance - Owing
        BY <1>1, <2>1 DEF MoneyTypes, OneByOne
      <4>2. \A c \in Repayments : c = [amount |-> c.amount, newBalance |-> c.newBalance]
        BY DEF Repayments
      <4> QED BY <4>1, <4>2
    <3> QED BY <1>3, <1>4, <1>5, <2>1, <3>1 DEF OneByOne
  <2>3. l.balance > 0
    BY <1>4, <1>6, <2>1, <2>2 DEF OneByOne, Cents
  <2>4. /\ Owing \in Cents /\ Owing \in 1 .. l.balance
        /\ "recorded" \in regime =>
             /\ paid + 1 \in 0 .. l.term
             /\ l.balance - Owing = T!InstalmentsFrom(l, paid + 2)
        /\ "recorded" \notin regime =>
             l.balance - Owing =
               l.total - T!Min2(l.total, (applied.count + 1) * T!amountOf(l, 1))
    <3>1. loan.balance > 0 /\ paid \in Nat /\ applied.count \in Nat
      BY <1>1, <1>4, <1>6, <2>3 DEF MoneyTypes
    <3> QED BY <1>1, <1>4, <2>1, <3>1, NextPaymentIsDue
  <2>5. left = l.balance - Owing
    <3>1. CASE l.balance > amount
      <4>1. l.balance - amount \in Cents
        BY <1>6, <2>2, <2>4, <3>1 DEF Cents, T!CENT
      <4> QED BY <1>2, <1>4, <1>5, <2>2, <3>1, <4>1, WholeCents
    <3>2. CASE ~(l.balance > amount)
      <4>1. left = 0
        BY <1>2, <1>4, <1>5, <3>2
      <4> QED BY <1>6, <2>2, <2>4, <3>2, <4>1 DEF Cents
    <3> QED BY <3>1, <3>2
  <2>6. /\ \A i : T!amountOf(loan', i) = T!amountOf(l, i)
        /\ \A i \in 1 .. l.term + 1 : T!InstalmentsFrom(loan', i) = T!InstalmentsFrom(l, i)
    BY <1>6, <1>11, InstalmentsSame
  <2>7. ByInstalments'
    <3>1. CASE "recorded" \in regime
      <4>1. paid' = paid + 1 /\ paid' + 1 = paid + 2 /\ paid' \in 0 .. l.term
            /\ paid' + 1 \in 1 .. l.term + 1
        <5>1. paid \in Nat /\ paid + 1 \in 0 .. l.term /\ paid' = paid + 1 /\ l.term \in Nat
          BY <1>1, <1>3, <1>6, <2>4, <3>1 DEF MoneyTypes
        <5> QED BY <5>1
      <4>2. loan'.balance = T!InstalmentsFrom(loan', paid' + 1)
        BY <1>11, <2>4, <2>5, <2>6, <3>1, <4>1
      <4> QED BY <1>3, <1>11, <3>1, <4>1, <4>2 DEF ByInstalments
    <3>2. CASE "recorded" \notin regime
      <4>1. paid = 0 /\ paid' = 0
        BY <1>3, <2>1, <3>2 DEF ByInstalments
      <4>2. loan'.balance = loan'.total - T!Min2(loan'.total, applied'.count * T!amountOf(loan', 1))
        BY <1>11, <1>12, <2>4, <2>5, <2>6, <3>2
      <4> QED BY <1>3, <3>2, <4>1, <4>2 DEF ByInstalments
    <3> QED BY <3>1, <3>2
  <2>8. applied'.sum = loan'.total - loan'.balance /\ applied'.asPreviewed
    <3>1. applied.sum = l.total - l.balance /\ applied.asPreviewed
      BY <1>4, <2>1 DEF OneByOne
    <3>2. l.total \in Int /\ l.balance \in Int /\ left \in Int /\ Owing \in Int
      BY <1>6, <1>7, <2>4 DEF Cents
    <3> QED BY <1>11, <1>12, <2>2, <2>5, <3>1, <3>2
  <2>9. loan'.status = "completed" <=> loan'.balance = 0
    BY <1>11, <2>2 DEF status
  <2> QED BY <1>3, <2>2, <2>7, <2>8, <2>9 DEF OneByOne
<1> QED BY <1>11, <1>13, <1>14, <1>15, <1>16 DEF MoneyInvariant

LEMMA MoneyInvariantNext ==
  ASSUME LoanTermsConstants, MoneyInvariant, score \in Ratings, [T!Next]_(T!vars)
  PROVE  MoneyInvariant' /\ score' \in Ratings
<1>1. score' = score
  BY DEF T!Next, T!vars, T!Create, T!Activate, T!ListLoans, T!Repay, T!Apply
<1>2. CASE UNCHANGED T!vars
  <2>1. /\ MoneyTypes' /\ NotYetActive' /\ TermsFit(loan)' = TermsFit(loan)
        /\ NotOverpaid' = NotOverpaid /\ T!InOrder' = T!InOrder
    BY <1>2 DEF T!vars, MoneyInvariant, MoneyTypes, NotYetActive, Unpaid, NotOverpaid, T!InOrder
  <2>2. OneByOne' = OneByOne
    BY <1>2 DEF T!vars, OneByOne, ByInstalments, Owing
  <2> QED BY <1>1, <1>2, <2>1, <2>2 DEF T!vars, MoneyInvariant
<1> QED BY <1>1, <1>2, CreateKeepsMoney, ActivateKeepsMoney, ListKeepsMoney, RepayKeepsMoney,
           ApplyKeepsMoney DEF T!Next

LEMMA MoneyIsOwed ==
  ASSUME LoanTermsConstants, MoneyInvariant
  PROVE  T!InstalmentsLeftAreOwed
<1> SUFFICES ASSUME loan # T!NoLoan PROVE T!InstalmentsLeftAreOwed
  BY DEF T!InstalmentsLeftAreOwed
<1>1. /\ loan \in LoanRows /\ TermsFit(loan) /\ NotOverpaid /\ MoneyTypes
      /\ T!InOrder => OneByOne
  BY DEF MoneyInvariant, MoneyTypes
<1>2. T!TermsAreWhole
  BY <1>1, DatesAreApart DEF T!TermsAreWhole, TermsFit
<1>3. ASSUME T!InOrder, loan.status = "active"
      PROVE  loan.balance > 0 /\ T!nextPayment(loan, paid) \in 1 .. loan.balance
  <2>1. OneByOne /\ ByInstalments /\ loan.balance > 0
    BY <1>1, <1>3 DEF OneByOne, LoanRows, Cents
  <2> QED BY <1>1, <2>1, NextPaymentIsDue DEF Owing, MoneyTypes
<1> QED BY <1>1, <1>2, <1>3 DEF T!InstalmentsLeftAreOwed, NotOverpaid, OneByOne, ByInstalments

LEMMA MoneyInvariantInit == T!Init => MoneyInvariant
  BY DEF T!Init, MoneyInvariant, MoneyTypes, NotYetActive, Unpaid

-----------------------------------------------------------------------------
(* Whoever pays what the list of loans shows, one repayment after the      *)
(* other, owes exactly the instalments still to come when the repayments   *)
(* are recorded, and as many first instalments less than the total when    *)
(* they are not; the next payment is never more than is left; the terms    *)
(* split the purchase without a rest, a month apart; and no balance falls  *)
(* by more than was paid, but for half a cent each time. For any amounts,  *)
(* scores, terms up to a year, dates and payments, and wherever floats fall*)
(* short: see calculateLoanTerms, generateSchedule and buildNextPayment.   *)
THEOREM InstalmentsAreOwed == Spec => []InstalmentsLeftAreOwed
<1> DEFINE Inv == service = "LoanTerms" => MoneyInvariant /\ score \in Ratings
<1>1. LoanTermsConstants
  BY ConstantsAssumption DEF ConstantsAssumption
<1>2. Init => Inv
  <2>1. T!Init => score \in Ratings
    BY DEF T!Init
  <2> QED BY <2>1, MoneyInvariantInit DEF Init
<1>3. Inv /\ [Next]_vars => Inv'
  <2>1. [Next]_vars => /\ service' = service
                       /\ service = "LoanTerms" => [T!Next]_(T!vars)
    BY DEF Next, vars, loanTerms, T!vars
  <2> QED BY <1>1, <2>1, MoneyInvariantNext
<1>4. Inv => InstalmentsLeftAreOwed
  BY <1>1, MoneyIsOwed DEF InstalmentsLeftAreOwed
<1> QED BY <1>2, <1>3, <1>4, PTL DEF Spec

-----------------------------------------------------------------------------
(* Liquidity. The figures of a pool, as long as nobody owns nothing of     *)
(* something.                                                              *)
PoolStates == [total : Nat, available : Nat, shares : Nat, own : Nat]
Sound(p) ==
  /\ p \in PoolStates
  /\ p.available <= p.total /\ p.own <= p.shares
  /\ p.shares = 0 => p.total = 0

(* Quotients.                                                              *)
LEMMA Quotient ==
  ASSUME NEW a \in Nat, NEW b \in Nat \ {0}, NEW q, q = a \div b
  PROVE  q \in Nat /\ b * q <= a /\ a < b * q + b
  OBVIOUS

LEMMA QuotientAtMost ==
  ASSUME NEW a \in Nat, NEW b \in Nat \ {0}, NEW c \in Nat, a <= b * c
  PROVE  a \div b <= c
<1> DEFINE q == a \div b
<1>1. q \in Nat /\ b * q <= a
  BY Quotient
<1> HIDE DEF q
<1>2. ASSUME c < q PROVE FALSE
  <2>1. b * (c + 1) <= b * q
    BY <1>1, <1>2
  <2>2. b * (c + 1) = b * c + b
    OBVIOUS
  <2> QED BY <1>1, <2>1, <2>2
<1> QED BY <1>1, <1>2 DEF q

LEMMA QuotientAtLeast ==
  ASSUME NEW a \in Nat, NEW b \in Nat \ {0}, NEW c \in Nat, b * c <= a
  PROVE  c <= a \div b
<1> DEFINE q == a \div b
<1>1. q \in Nat /\ a < b * q + b
  BY Quotient
<1> HIDE DEF q
<1>2. ASSUME q < c PROVE FALSE
  <2>1. b * (q + 1) <= b * c
    BY <1>1, <1>2
  <2>2. b * (q + 1) = b * q + b
    BY <1>1
  <2> QED BY <1>1, <2>1, <2>2
<1> QED BY <1>1, <1>2 DEF q

LEMMA WorthTyped ==
  ASSUME NEW s \in Nat, NEW total \in Nat, NEW all \in Nat
  PROVE  Q!worth(s, total, all) \in Nat
<1>1. CASE all = 0
  BY <1>1 DEF Q!worth
<1>2. CASE all # 0
  <2>1. s * total \in Nat
    OBVIOUS
  <2> QED BY <1>2, <2>1, Quotient DEF Q!worth
<1> QED BY <1>1, <1>2

LEMMA MintTyped ==
  ASSUME NEW x \in Nat, NEW total \in Nat, NEW all \in Nat
  PROVE  Q!mint(x, total, all) \in Nat
<1>1. CASE all = 0 \/ total = 0
  BY <1>1 DEF Q!mint
<1>2. CASE ~(all = 0 \/ total = 0)
  <2>1. x * all \in Nat
    OBVIOUS
  <2> QED BY <1>2, <2>1, Quotient DEF Q!mint
<1> QED BY <1>1, <1>2

LEMMA PoolTyped ==
  ASSUME NEW p, Sound(p), NEW x \in Nat
  PROVE  Q!paidFor(x, p) \in Nat /\ Q!mintedFor(x, p) \in Nat
  BY WorthTyped, MintTyped DEF Sound, PoolStates, Q!paidFor, Q!mintedFor

With(p, t, a, s, o) ==
  [p EXCEPT !.total = t, !.available = a, !.shares = s, !.own = o]

LEMMA PoolChanged ==
  ASSUME NEW p \in PoolStates, NEW t \in Nat, NEW a \in Nat, NEW s \in Nat,
         NEW o \in Nat, NEW q, q = With(p, t, a, s, o)
  PROVE  q \in PoolStates
  BY DEF PoolStates, With

LEMMA DepositsLand ==
  ASSUME NEW p, Sound(p), NEW x \in Nat
  PROVE  /\ Sound(Q!Deposited(p, x)) /\ Q!Deposited(p, x) \in PoolStates
         /\ Q!Deposited(p, x).total = p.total + x
         /\ Q!Deposited(p, x).shares = p.shares + Q!mintedFor(x, p)
         /\ Q!Deposited(p, x).own = p.own
<1>1. Q!mintedFor(x, p) \in Nat
  BY PoolTyped
<1>2. /\ p \in PoolStates
      /\ p.total \in Nat /\ p.available \in Nat /\ p.shares \in Nat /\ p.own \in Nat
      /\ p.available <= p.total /\ p.own <= p.shares
      /\ p.shares = 0 => p.total = 0
  BY DEF Sound, PoolStates
<1>3. /\ Q!Deposited(p, x).total = p.total + x
      /\ Q!Deposited(p, x).available = p.available + x
      /\ Q!Deposited(p, x).shares = p.shares + Q!mintedFor(x, p)
      /\ Q!Deposited(p, x).own = p.own
  BY <1>2 DEF Q!Deposited, PoolStates
<1>4. Q!Deposited(p, x) \in PoolStates
  <2>1. PICK t, a, s, o, q :
          /\ t = p.total + x /\ a = p.available + x /\ s = p.shares + Q!mintedFor(x, p)
          /\ o = p.own /\ q = Q!Deposited(p, x)
    OBVIOUS
  <2>2. t \in Nat /\ a \in Nat /\ s \in Nat /\ o \in Nat
    BY <1>1, <1>2, <2>1
  <2>3. q = With(p, t, a, s, o)
    BY <1>2, <2>1 DEF Q!Deposited, With, PoolStates
  <2> QED BY <1>2, <2>1, <2>2, <2>3, PoolChanged
<1>5. p.shares = 0 => Q!mintedFor(x, p) = x
  BY DEF Q!mintedFor, Q!mint
<1> QED BY <1>1, <1>2, <1>3, <1>4, <1>5 DEF Sound

(* A deposit buys no more than was paid and costs the others nothing.      *)
LEMMA DepositIsFair ==
  ASSUME NEW p, Sound(p), NEW x \in Nat
  PROVE  /\ Q!paidFor(Q!mintedFor(x, p), Q!Deposited(p, x)) <= x
         /\ p.shares > 0 /\ p.total > 0 => Q!paidFor(p.shares, Q!Deposited(p, x)) >= p.total
<1> DEFINE m == Q!mintedFor(x, p)
           t == p.total
           s == p.shares
<1>1. m \in Nat /\ t \in Nat /\ s \in Nat /\ (s = 0 => t = 0)
  BY PoolTyped DEF Sound, PoolStates
<1>2. \A y : Q!paidFor(y, Q!Deposited(p, x)) = Q!worth(y, t + x, s + m)
  BY DepositsLand DEF Q!paidFor
<1>3. m = IF s = 0 \/ t = 0 THEN x ELSE (x * s) \div t
  BY DEF Q!mintedFor, Q!mint
<1> HIDE DEF m, t, s
<1>4. CASE s + m = 0
  BY <1>1, <1>2, <1>4 DEF Q!worth, m, s, t
<1>5. CASE s + m # 0
  <2>1. s # 0 => m * t <= x * s /\ x * s \in Nat /\ m * t \in Nat
    <3>1. CASE s = 0 \/ t = 0
      BY <1>1, <3>1
    <3>2. CASE ~(s = 0 \/ t = 0)
      <4>1. x * s \in Nat
        BY <1>1
      <4>2. t * m <= x * s
        BY <1>1, <1>3, <3>2, <4>1, Quotient
      <4> QED BY <1>1, <4>1, <4>2
    <3> QED BY <3>1, <3>2
  <2>2. m * (t + x) <= (s + m) * x
    <3>1. m * (t + x) = m * t + m * x /\ (s + m) * x = x * s + m * x
      BY <1>1
    <3>2. CASE s = 0
      BY <1>1, <1>3, <3>1, <3>2
    <3> QED BY <1>1, <2>1, <3>1, <3>2
  <2>3. Q!worth(m, t + x, s + m) <= x
    BY <1>1, <1>5, <2>2, QuotientAtMost DEF Q!worth
  <2>4. ASSUME s > 0
        PROVE  Q!worth(s, t + x, s + m) >= t
    <3>1. (s + m) * t <= s * (t + x)
      <4>1. (s + m) * t = s * t + m * t /\ s * (t + x) = s * t + x * s
        BY <1>1
      <4> QED BY <1>1, <2>1, <2>4, <4>1
    <3>2. s * (t + x) \in Nat
      BY <1>1
    <3> QED BY <1>1, <1>5, <3>1, <3>2, QuotientAtLeast DEF Q!worth
  <2> QED BY <1>2, <2>3, <2>4 DEF m, s, t
<1> QED BY <1>4, <1>5

(* Whatever moves the pool leaves its figures sound.                       *)
LEMMA MovesAreSound ==
  ASSUME NEW p, Sound(p), NEW x \in Nat, NEW r \in Q!Moved(p, x)
  PROVE  Sound(r)
<1>1. /\ p \in PoolStates
      /\ p.total \in Nat /\ p.available \in Nat /\ p.shares \in Nat /\ p.own \in Nat
      /\ p.available <= p.total /\ p.own <= p.shares
      /\ p.shares = 0 => p.total = 0
  BY DEF Sound, PoolStates
<1>2. Q!paidFor(x, p) \in Nat /\ Q!mintedFor(x, p) \in Nat
  BY PoolTyped
<1>3. ASSUME NEW s, NEW t, NEW a, NEW n, NEW o, s \in PoolStates,
             t \in Nat, a \in Nat, n \in Nat, o \in Nat,
             r = With(s, t, a, n, o), a <= t, o <= n, n = 0 => t = 0
      PROVE  Sound(r)
  <2>1. r \in PoolStates
    BY <1>3, PoolChanged
  <2>2. r.total = t /\ r.available = a /\ r.shares = n /\ r.own = o
    BY <1>3 DEF With, PoolStates
  <2> QED BY <1>3, <2>1, <2>2 DEF Sound
<1>4. CASE r = Q!Deposited(p, x)
  BY <1>4, DepositsLand
<1>5. CASE r = [Q!Deposited(p, x) EXCEPT !.own = @ + Q!mintedFor(x, p)]
  <2>1. PICK s : s = Q!Deposited(p, x)
    OBVIOUS
  <2>2. /\ s \in PoolStates /\ Sound(s) /\ s.shares = p.shares + Q!mintedFor(x, p)
        /\ s.own = p.own
    BY <2>1, DepositsLand
  <2>3. PICK t, a, n, o : /\ t = s.total /\ a = s.available /\ n = s.shares
                          /\ o = s.own + Q!mintedFor(x, p)
    OBVIOUS
  <2>4. /\ t \in Nat /\ a \in Nat /\ n \in Nat /\ o \in Nat
        /\ a <= t /\ o <= n /\ (n = 0 => t = 0)
    <3>1. s.total \in Nat /\ s.available \in Nat /\ s.shares \in Nat /\ s.own \in Nat
      BY <2>2 DEF PoolStates
    <3> QED BY <1>1, <1>2, <2>2, <2>3, <3>1 DEF Sound
  <2>5. r = With(s, t, a, n, o)
    BY <1>5, <2>1, <2>2, <2>3 DEF With, PoolStates
  <2> QED BY <1>3, <2>2, <2>4, <2>5
<1>6. CASE /\ p.shares - p.own > x /\ Q!paidFor(x, p) <= p.available
           /\ r = [p EXCEPT !.total = @ - Q!paidFor(x, p),
                            !.available = @ - Q!paidFor(x, p), !.shares = @ - x]
  <2>1. PICK t, a, n, o : /\ t = p.total - Q!paidFor(x, p) /\ a = p.available - Q!paidFor(x, p)
                          /\ n = p.shares - x /\ o = p.own
    OBVIOUS
  <2>2. /\ t \in Nat /\ a \in Nat /\ n \in Nat /\ o \in Nat
        /\ a <= t /\ o <= n /\ (n = 0 => t = 0)
    BY <1>1, <1>2, <1>6, <2>1
  <2>3. r = With(p, t, a, n, o)
    BY <1>1, <1>6, <2>1 DEF With, PoolStates
  <2> QED BY <1>1, <1>3, <2>2, <2>3
<1>7. CASE x <= p.available /\ r = [p EXCEPT !.available = @ - x]
  <2>1. PICK t, a, n, o : /\ t = p.total /\ a = p.available - x /\ n = p.shares /\ o = p.own
    OBVIOUS
  <2>2. /\ t \in Nat /\ a \in Nat /\ n \in Nat /\ o \in Nat
        /\ a <= t /\ o <= n /\ (n = 0 => t = 0)
    BY <1>1, <1>7, <2>1
  <2>3. r = With(p, t, a, n, o)
    BY <1>1, <1>7, <2>1 DEF With, PoolStates
  <2> QED BY <1>1, <1>3, <2>2, <2>3
<1>8. CASE p.available + x <= p.total /\ r = [p EXCEPT !.available = @ + x]
  <2>1. PICK t, a, n, o : /\ t = p.total /\ a = p.available + x /\ n = p.shares /\ o = p.own
    OBVIOUS
  <2>2. /\ t \in Nat /\ a \in Nat /\ n \in Nat /\ o \in Nat
        /\ a <= t /\ o <= n /\ (n = 0 => t = 0)
    BY <1>1, <1>8, <2>1
  <2>3. r = With(p, t, a, n, o)
    BY <1>1, <1>8, <2>1 DEF With, PoolStates
  <2> QED BY <1>1, <1>3, <2>2, <2>3
<1>9. CASE p.shares > 0 /\ r = [p EXCEPT !.total = @ + x, !.available = @ + x]
  <2>1. PICK t, a, n, o : /\ t = p.total + x /\ a = p.available + x /\ n = p.shares
                          /\ o = p.own
    OBVIOUS
  <2>2. /\ t \in Nat /\ a \in Nat /\ n \in Nat /\ o \in Nat
        /\ a <= t /\ o <= n /\ (n = 0 => t = 0)
    BY <1>1, <1>9, <2>1
  <2>3. r = With(p, t, a, n, o)
    BY <1>1, <1>9, <2>1 DEF With, PoolStates
  <2> QED BY <1>1, <1>3, <2>2, <2>3
<1> QED BY <1>4, <1>5, <1>6, <1>7, <1>8, <1>9 DEF Q!Moved

-----------------------------------------------------------------------------
(* What is known of a request by what it has read.                         *)
Fields == {"pc", "kind", "x", "todo", "total", "available", "shares", "own", "feeBps",
           "amount", "calcTotal", "calcShares", "pieces", "missed", "during"}
CalcParts == {"calc_total", "calc_shares"}
Calculations == {"calc", "calc_stats"} \cup CalcParts
StatParts == {"total", "available", "shares"}
PoolReads == {"stats", "fee"} \cup StatParts

Calc(r, total, shares) ==
  IF r.kind = "deposit" THEN Q!mint(r.x, total, shares)
  ELSE Q!worth(IF r.kind = "summary" THEN r.own ELSE r.x, total, shares)

Framed(r) ==
  /\ r.pc \in {"reading", "building", "answered"}
  /\ DOMAIN r = Fields /\ r.kind \in Q!Kinds /\ r.x \in Quoted
  /\ IsFiniteSet(r.during)
  /\ \A p \in r.during : Sound(p)
(* An amount is that of a pool it was calculated in, and the shares it is  *)
(* calculated for were read before.                                        *)
Calculates(r) ==
  \E p, q \in r.during :
    r.amount = Calc(r, p.total, q.shares) /\ ("calc" \in r.pieces \/ p = q)
Priced(r) ==
  /\ "own" \in r.todo => r.amount = -1 /\ r.todo \cap Calculations = {}
  /\ r.todo \cap CalcParts # {} => "calc" \in r.pieces
  /\ "calc_shares" \in r.todo /\ "calc_total" \notin r.todo =>
       \E p \in r.during : r.calcTotal = p.total
  /\ "calc_total" \in r.todo /\ "calc_shares" \notin r.todo =>
       \E p \in r.during : r.calcShares = p.shares
  /\ r.amount # -1 => Calculates(r)
(* So are the pool's own figures, all of one unless they are read apart.   *)
LookedAt(r) ==
  \E p \in r.during :
    r.total = p.total /\ r.shares = p.shares /\ r.available = p.available
PartsRead(r) ==
  /\ "total" \notin r.todo => \E p \in r.during : r.total = p.total
  /\ "shares" \notin r.todo => \E p \in r.during : r.shares = p.shares
  /\ "available" \notin r.todo => \E p \in r.during : r.available = p.available
Polled(r) ==
  "stats" \notin r.missed =>
    /\ r.todo \cap StatParts # {} => "stats" \in r.pieces
    /\ "stats" \notin r.todo =>
         PartsRead(r) /\ ("stats" \notin r.pieces => LookedAt(r))
(* The fee is the contract's, and the shares are the provider's; or 0.     *)
FeeRead(r) ==
  /\ "fee" \in r.todo => "stats" \notin r.todo
  /\ r.todo \cap {"stats", "fee"} # {} => "fee" \notin r.missed
  /\ r.todo \cap {"stats", "fee"} = {} =>
       r.feeBps = IF "fee" \in r.missed THEN 0 ELSE FeeBps
SharesRead(r) ==
  /\ "own" \in r.todo => "own" \notin r.missed
  /\ r.kind \in {"withdraw", "summary"} /\ "own" \notin r.todo =>
       IF "own" \in r.missed THEN r.own = 0 ELSE \E p \in r.during : r.own = p.own
Finished(r) ==
  /\ r.pc # "answered" => "stats" \notin r.missed
  /\ "stats" \in r.missed => r.kind = "overview" /\ r.total = 0
  /\ r.pc = "building" => r.kind \in {"deposit", "withdraw"}
  /\ r.pc # "reading" /\ "stats" \notin r.missed =>
       r.todo = {} /\ (r.kind # "overview" => r.amount # -1)
  /\ r.pc # "reading" /\ r.kind = "withdraw" =>
       r.x <= r.own /\ r.amount <= r.available
  /\ r.pc = "answered" /\ r.kind = "withdraw" =>
       \E p \in r.during : Q!Withdrawable(p, r.x)
Facts(r) ==
  Framed(r) /\ Priced(r) /\ Polled(r) /\ FeeRead(r) /\ SharesRead(r) /\ Finished(r)

QuoteInvariant ==
  /\ Sound(pool)
  /\ \/ req = Q!Nothing
     \/ Facts(req) /\ (req.pc # "answered" => pool \in req.during)
  /\ DOMAIN cache = Q!Cached
  /\ \A k \in Q!Cached :
       \/ cache[k] = Q!Nothing
       \/ Facts(cache[k]) /\ cache[k].pc = "answered"

Same(r, s, fields) == \A f \in fields : s[f] = r[f]

LEMMA InFlight ==
  ASSUME QuoteInvariant, req.pc \in {"reading", "building"}
  PROVE  Facts(req) /\ pool \in req.during /\ Sound(pool)
  BY DEF QuoteInvariant, Q!Nothing

(* A step that leaves the pool, its answers and the frame of a request.    *)
LEMMA AnswersKept ==
  ASSUME QuoteInvariant, UNCHANGED <<pool, cache>>,
         \/ req' = Q!Nothing
         \/ Facts(req') /\ (req'.pc # "answered" => pool \in req'.during)
  PROVE  QuoteInvariant'
  BY DEF QuoteInvariant

(* What a figure was read as stays true while the request meets more       *)
(* states of the pool, and each group of figures is read by itself.        *)
QuoteFields == {"kind", "x", "own", "amount", "calcTotal", "calcShares"}
LEMMA PricedKept ==
  ASSUME NEW r, NEW s, Priced(r), Same(r, s, QuoteFields),
         s.todo \cap Calculations = r.todo \cap Calculations,
         "own" \in s.todo => "own" \in r.todo,
         "calc" \in r.pieces <=> "calc" \in s.pieces, r.during \subseteq s.during
  PROVE  Priced(s)
<1>1. /\ s.kind = r.kind /\ s.x = r.x /\ s.own = r.own /\ s.amount = r.amount
      /\ s.calcTotal = r.calcTotal /\ s.calcShares = r.calcShares
  BY DEF Same, QuoteFields
<1>2. \A total, shares : Calc(s, total, shares) = Calc(r, total, shares)
  BY <1>1 DEF Calc
<1>3. Calculates(r) => Calculates(s)
  BY <1>1, <1>2 DEF Calculates
<1>4. /\ "calc_total" \in s.todo <=> "calc_total" \in r.todo
      /\ "calc_shares" \in s.todo <=> "calc_shares" \in r.todo
      /\ s.todo \cap CalcParts # {} => r.todo \cap CalcParts # {}
  BY DEF Calculations, CalcParts
<1> QED BY <1>1, <1>3, <1>4 DEF Priced

LEMMA PolledKept ==
  ASSUME NEW r, NEW s, Polled(r), Same(r, s, StatParts),
         s.todo \cap PoolReads = r.todo \cap PoolReads,
         "stats" \in r.pieces <=> "stats" \in s.pieces,
         "stats" \in r.missed => "stats" \in s.missed, r.during \subseteq s.during
  PROVE  Polled(s)
<1>1. s.total = r.total /\ s.shares = r.shares /\ s.available = r.available
  BY DEF Same, StatParts
<1>2. /\ "stats" \in s.todo <=> "stats" \in r.todo
      /\ "total" \in s.todo <=> "total" \in r.todo
      /\ "shares" \in s.todo <=> "shares" \in r.todo
      /\ "available" \in s.todo <=> "available" \in r.todo
      /\ s.todo \cap StatParts # {} => r.todo \cap StatParts # {}
  BY DEF PoolReads, StatParts
<1>3. /\ LookedAt(r) => LookedAt(s)
      /\ PartsRead(r) => PartsRead(s)
  BY <1>1, <1>2 DEF LookedAt, PartsRead
<1> QED BY <1>2, <1>3 DEF Polled

LEMMA FeeReadKept ==
  ASSUME NEW r, NEW s, FeeRead(r), s.feeBps = r.feeBps,
         s.todo \cap PoolReads = r.todo \cap PoolReads,
         "fee" \in r.missed <=> "fee" \in s.missed
  PROVE  FeeRead(s)
<1>1. s.todo \cap {"stats", "fee"} = r.todo \cap {"stats", "fee"}
  BY DEF PoolReads
<1> QED BY <1>1 DEF FeeRead

LEMMA SharesReadKept ==
  ASSUME NEW r, NEW s, SharesRead(r), s.kind = r.kind, s.own = r.own,
         "own" \in s.todo <=> "own" \in r.todo,
         "own" \in r.missed <=> "own" \in s.missed, r.during \subseteq s.during
  PROVE  SharesRead(s)
  BY DEF SharesRead

LEMMA ReadingIsNotFinished ==
  ASSUME NEW s, s.pc = "reading", "stats" \notin s.missed
  PROVE  Finished(s)
  BY DEF Finished

(* A read answers a call of the request under way.                         *)
LEMMA ReadFrame ==
  ASSUME QuoteInvariant, NEW name, NEW r, DOMAIN r = Fields, Q!Reads(name, r),
         Same(req, r, {"pc", "kind", "x", "during"}),
         "stats" \in r.missed => "stats" \in req.missed
  PROVE  /\ Facts(req) /\ pool \in req.during /\ DOMAIN req = Fields
         /\ name \in req.todo
         /\ DOMAIN req' = Fields /\ req'.todo = r.todo \ {name}
         /\ \A f \in Fields \ {"todo"} : req'[f] = r[f]
         /\ req'.kind = req.kind /\ req'.x = req.x /\ req'.during = req.during
         /\ Priced(req') /\ Polled(req') /\ FeeRead(req') /\ SharesRead(req') => QuoteInvariant'
<1>1. /\ req.pc = "reading" /\ name \in req.todo
      /\ UNCHANGED <<pool, cache>>
      /\ req' = [r EXCEPT !.todo = r.todo \ {name}]
  BY DEF Q!Reads
<1>2. Facts(req) /\ pool \in req.during /\ Framed(req) /\ "stats" \notin req.missed
  BY <1>1, InFlight DEF Facts, Finished
<1>3. /\ DOMAIN req' = Fields /\ req'.todo = r.todo \ {name}
      /\ \A f \in Fields \ {"todo"} : req'[f] = r[f]
  BY <1>1 DEF Fields
<1>4. /\ req'.pc = req.pc /\ req'.kind = req.kind /\ req'.x = req.x
      /\ req'.during = req.during /\ req'.missed = r.missed
  BY <1>3 DEF Same, Fields
<1>5. Framed(req')
  BY <1>2, <1>3, <1>4 DEF Framed
<1>6. Finished(req')
  BY <1>1, <1>2, <1>4, ReadingIsNotFinished
<1>7. Priced(req') /\ Polled(req') /\ FeeRead(req') /\ SharesRead(req') => QuoteInvariant'
  BY <1>1, <1>2, <1>4, <1>5, <1>6, AnswersKept DEF Facts
<1> QED BY <1>1, <1>2, <1>3, <1>4, <1>7 DEF Framed

LEMMA ReadingHasFields ==
  ASSUME QuoteInvariant, NEW name, NEW r, Q!Reads(name, r)
  PROVE  DOMAIN req = Fields
  BY InFlight DEF Q!Reads, Facts, Framed

(* A read of the pool, or of its fee.                                      *)
LEMMA PollStep ==
  ASSUME QuoteInvariant, NEW name \in PoolReads, NEW r, Q!Reads(name, r), DOMAIN r = Fields,
         Same(req, r, QuoteFields \cup {"pc", "during"}),
         r.todo \ PoolReads = req.todo \ PoolReads,
         "calc" \in req.pieces <=> "calc" \in r.pieces,
         r.missed \ {"fee"} = req.missed \ {"fee"}
  PROVE  /\ Facts(req) /\ pool \in req.during /\ name \in req.todo
         /\ DOMAIN req' = Fields /\ req'.todo = r.todo \ {name}
         /\ \A f \in Fields \ {"todo"} : req'[f] = r[f]
         /\ req'.during = req.during
         /\ Polled(req') /\ FeeRead(req') => QuoteInvariant'
<1>1. /\ Same(req, r, {"pc", "kind", "x", "during"})
      /\ "stats" \in r.missed => "stats" \in req.missed
  BY DEF Same, QuoteFields
<1>2. /\ Facts(req) /\ pool \in req.during /\ name \in req.todo
      /\ DOMAIN req' = Fields /\ req'.todo = r.todo \ {name}
      /\ \A f \in Fields \ {"todo"} : req'[f] = r[f]
      /\ req'.kind = req.kind /\ req'.during = req.during
      /\ Priced(req') /\ Polled(req') /\ FeeRead(req') /\ SharesRead(req') => QuoteInvariant'
  BY <1>1, ReadFrame
<1>3. Same(req, req', QuoteFields) /\ req'.pieces = r.pieces /\ req'.missed = r.missed
  BY <1>2 DEF Same, QuoteFields, Fields
<1>4. /\ req'.todo \cap Calculations = req.todo \cap Calculations
      /\ "own" \in req'.todo <=> "own" \in req.todo
  BY <1>2 DEF Calculations, CalcParts, PoolReads, StatParts
<1>5. Priced(req')
  BY <1>2, <1>3, <1>4, PricedKept DEF Facts
<1>6. req'.own = req.own
  BY <1>3 DEF Same, QuoteFields
<1>7. SharesRead(req')
  BY <1>2, <1>3, <1>4, <1>6, SharesReadKept DEF Facts
<1> QED BY <1>2, <1>5, <1>7

LEMMA StatsKeepQuotes ==
  ASSUME QuoteInvariant, Q!ReadStats
  PROVE  QuoteInvariant'
<1> DEFINE Once == [req EXCEPT !.total = pool.total, !.shares = pool.shares,
                               !.available = pool.available, !.todo = @ \cup {"fee"}]
           Apart == [req EXCEPT !.pieces = @ \cup {"stats"},
                                !.todo = @ \cup {"total", "available", "shares", "fee"}]
<1>1. DOMAIN req = Fields /\ (Q!Reads("stats", Once) \/ Q!Reads("stats", Apart))
  BY ReadingHasFields DEF Q!ReadStats
<1>2. /\ DOMAIN Once = Fields /\ Once.todo = req.todo \cup {"fee"}
      /\ Once.total = pool.total /\ Once.shares = pool.shares /\ Once.available = pool.available
      /\ Once.pieces = req.pieces /\ Once.missed = req.missed
      /\ Same(req, Once, QuoteFields \cup {"pc", "during"})
  BY <1>1 DEF Fields, Same, QuoteFields
<1>3. /\ DOMAIN Apart = Fields /\ Apart.pieces = req.pieces \cup {"stats"}
      /\ Apart.todo = req.todo \cup {"total", "available", "shares", "fee"}
      /\ Apart.missed = req.missed
      /\ Same(req, Apart, QuoteFields \cup {"pc", "during"})
  BY <1>1 DEF Fields, Same, QuoteFields
<1> HIDE DEF Once, Apart
<1>4. "stats" \in PoolReads
  BY DEF PoolReads
<1>5. CASE Q!Reads("stats", Once)
  <2>1. Once.todo \ PoolReads = req.todo \ PoolReads
    BY <1>2 DEF PoolReads
  <2>2. /\ Facts(req) /\ pool \in req.during /\ "stats" \in req.todo
        /\ req'.todo = Once.todo \ {"stats"}
        /\ \A f \in Fields \ {"todo"} : req'[f] = Once[f]
        /\ req'.during = req.during
        /\ Polled(req') /\ FeeRead(req') => QuoteInvariant'
    BY <1>2, <1>4, <1>5, <2>1, PollStep
  <2>3. /\ req'.total = pool.total /\ req'.shares = pool.shares
        /\ req'.available = pool.available
        /\ req'.pieces = req.pieces /\ req'.missed = req.missed
    BY <1>2, <2>2 DEF Fields
  <2>4. LookedAt(req') /\ PartsRead(req')
    BY <2>2, <2>3 DEF LookedAt, PartsRead
  <2>5. req'.todo \cap StatParts = req.todo \cap StatParts
    BY <1>2, <2>2 DEF StatParts
  <2>6. Polled(req')
    BY <2>2, <2>3, <2>4, <2>5 DEF Facts, Polled
  <2>7. FeeRead(req')
    BY <1>2, <2>2, <2>3 DEF Facts, FeeRead
  <2> QED BY <2>2, <2>6, <2>7
<1>6. CASE Q!Reads("stats", Apart)
  <2>1. /\ Apart.todo \ PoolReads = req.todo \ PoolReads
        /\ "calc" \in req.pieces <=> "calc" \in Apart.pieces
    BY <1>3 DEF PoolReads, StatParts
  <2>2. /\ Facts(req) /\ "stats" \in req.todo
        /\ req'.todo = Apart.todo \ {"stats"}
        /\ \A f \in Fields \ {"todo"} : req'[f] = Apart[f]
        /\ Polled(req') /\ FeeRead(req') => QuoteInvariant'
    BY <1>3, <1>4, <1>6, <2>1, PollStep
  <2>3. req'.pieces = req.pieces \cup {"stats"} /\ req'.missed = req.missed
    BY <1>3, <2>2 DEF Fields
  <2>4. "total" \in req'.todo /\ "shares" \in req'.todo /\ "available" \in req'.todo
        /\ "fee" \in req'.todo
    BY <1>3, <2>2
  <2>5. Polled(req')
    BY <2>3, <2>4 DEF Polled, PartsRead
  <2>6. FeeRead(req')
    BY <2>2, <2>3, <2>4 DEF Facts, FeeRead
  <2> QED BY <2>2, <2>5, <2>6
<1> QED BY <1>1, <1>5, <1>6

(* The provider's shares are read before anything is calculated from them. *)
LEMMA OwnKeepsQuotes ==
  ASSUME QuoteInvariant, NEW r, Q!Reads("own", r), DOMAIN r = Fields, r.todo = req.todo,
         Same(req, r, Fields \ {"own", "missed"}),
         \/ r.own = pool.own /\ r.missed = req.missed
         \/ r.own = 0 /\ r.missed = req.missed \cup {"own"}
  PROVE  QuoteInvariant'
<1>1. Same(req, r, {"pc", "kind", "x", "during"}) /\ ("stats" \in r.missed => "stats" \in req.missed)
  BY DEF Fields, Same
<1>2. /\ Facts(req) /\ pool \in req.during
      /\ req'.todo = r.todo \ {"own"} /\ "own" \in req.todo
      /\ \A f \in Fields \ {"todo"} : req'[f] = r[f]
      /\ req'.kind = req.kind /\ req'.during = req.during
      /\ Priced(req') /\ Polled(req') /\ FeeRead(req') /\ SharesRead(req') => QuoteInvariant'
  BY <1>1, ReadFrame
<1>3. /\ req'.amount = req.amount /\ req'.own = r.own /\ req'.missed = r.missed
      /\ req'.feeBps = req.feeBps /\ req'.pieces = req.pieces
      /\ Same(req, req', StatParts)
  BY <1>2 DEF Fields, Same, StatParts
<1>4. /\ req'.todo \cap Calculations = {} /\ req'.amount = -1 /\ "own" \notin req'.todo
  BY <1>2, <1>3 DEF Facts, Priced
<1>5. Priced(req')
  BY <1>4 DEF Priced, Calculations, CalcParts
<1>6. req'.todo \cap PoolReads = req.todo \cap PoolReads
  BY <1>2 DEF PoolReads, StatParts
<1>7. Polled(req')
  BY <1>2, <1>3, <1>6, PolledKept DEF Facts
<1>8. FeeRead(req')
  BY <1>2, <1>3, <1>6, FeeReadKept DEF Facts
<1>9. SharesRead(req')
  BY <1>2, <1>3, <1>4 DEF Facts, SharesRead
<1> QED BY <1>2, <1>5, <1>7, <1>8, <1>9

LEMMA OwnReadsKeepQuotes ==
  ASSUME QuoteInvariant,
         Q!Reads("own", [req EXCEPT !.own = pool.own]) \/ Q!ShareReadFails
  PROVE  QuoteInvariant'
<1> DEFINE Read == [req EXCEPT !.own = pool.own]
           Unread == [req EXCEPT !.own = 0, !.missed = @ \cup {"own"}]
<1>1. DOMAIN req = Fields /\ (Q!Reads("own", Read) \/ Q!Reads("own", Unread))
  BY ReadingHasFields DEF Q!ShareReadFails
<1>2. /\ DOMAIN Read = Fields /\ Read.todo = req.todo
      /\ Read.own = pool.own /\ Read.missed = req.missed
      /\ Same(req, Read, Fields \ {"own", "missed"})
  BY <1>1 DEF Fields, Same
<1>3. /\ DOMAIN Unread = Fields /\ Unread.todo = req.todo
      /\ Unread.own = 0 /\ Unread.missed = req.missed \cup {"own"}
      /\ Same(req, Unread, Fields \ {"own", "missed"})
  BY <1>1 DEF Fields, Same
<1> HIDE DEF Read, Unread
<1> QED BY <1>1, <1>2, <1>3, OwnKeepsQuotes

LEMMA FeeKeepsQuotes ==
  ASSUME QuoteInvariant, Q!ReadFee
  PROVE  QuoteInvariant'
<1> DEFINE Read == [req EXCEPT !.feeBps = FeeBps]
           Unread == [req EXCEPT !.feeBps = 0, !.missed = @ \cup {"fee"}]
<1>1. DOMAIN req = Fields /\ (Q!Reads("fee", Read) \/ Q!Reads("fee", Unread))
  BY ReadingHasFields DEF Q!ReadFee
<1>2. /\ DOMAIN Read = Fields /\ Read.feeBps = FeeBps /\ Read.missed = req.missed
      /\ Read.todo = req.todo /\ Read.pieces = req.pieces
      /\ Same(req, Read, QuoteFields \cup {"pc", "during"}) /\ Same(req, Read, StatParts)
  BY <1>1 DEF Fields, Same, QuoteFields, StatParts
<1>3. /\ DOMAIN Unread = Fields /\ Unread.feeBps = 0 /\ Unread.missed = req.missed \cup {"fee"}
      /\ Unread.todo = req.todo /\ Unread.pieces = req.pieces
      /\ Same(req, Unread, QuoteFields \cup {"pc", "during"}) /\ Same(req, Unread, StatParts)
  BY <1>1 DEF Fields, Same, QuoteFields, StatParts
<1> HIDE DEF Read, Unread
<1>4. ASSUME NEW r, Q!Reads("fee", r), DOMAIN r = Fields, r.todo = req.todo,
             r.pieces = req.pieces,
             Same(req, r, QuoteFields \cup {"pc", "during"}), Same(req, r, StatParts),
             \/ r.feeBps = FeeBps /\ r.missed = req.missed
             \/ r.feeBps = 0 /\ r.missed = req.missed \cup {"fee"}
      PROVE  QuoteInvariant'
  <2>1. "fee" \in PoolReads /\ r.missed \ {"fee"} = req.missed \ {"fee"}
    BY <1>4 DEF PoolReads
  <2>2. /\ Facts(req) /\ req'.todo = r.todo \ {"fee"} /\ "fee" \in req.todo
        /\ \A f \in Fields \ {"todo"} : req'[f] = r[f]
        /\ req'.during = req.during
        /\ Polled(req') /\ FeeRead(req') => QuoteInvariant'
    BY <1>4, <2>1, PollStep
  <2>3. /\ req'.feeBps = r.feeBps /\ req'.missed = r.missed /\ req'.pieces = req.pieces
        /\ req'.total = req.total /\ req'.shares = req.shares
        /\ req'.available = req.available
    BY <1>4, <2>2 DEF Fields, Same, StatParts
  <2>4. /\ "stats" \in req'.todo <=> "stats" \in req.todo
        /\ "total" \in req'.todo <=> "total" \in req.todo
        /\ "shares" \in req'.todo <=> "shares" \in req.todo
        /\ "available" \in req'.todo <=> "available" \in req.todo
        /\ req'.todo \cap StatParts = req.todo \cap StatParts
        /\ "stats" \in req'.missed <=> "stats" \in req.missed
    BY <1>4, <2>2, <2>3 DEF StatParts
  <2>5. /\ LookedAt(req) => LookedAt(req')
        /\ PartsRead(req) => PartsRead(req')
    BY <2>2, <2>3, <2>4 DEF LookedAt, PartsRead
  <2>6. Polled(req')
    BY <2>2, <2>3, <2>4, <2>5 DEF Facts, Polled
  <2>7. /\ "fee" \notin req.missed /\ "fee" \notin req'.todo /\ "stats" \notin req'.todo
    BY <1>4, <2>2 DEF Facts, FeeRead
  <2>8. FeeRead(req')
    BY <1>4, <2>3, <2>7 DEF FeeRead
  <2> QED BY <2>2, <2>6, <2>8
<1> QED BY <1>1, <1>2, <1>3, <1>4

LEMMA PartKeepsQuotes ==
  ASSUME QuoteInvariant, Q!ReadPart
  PROVE  QuoteInvariant'
<1> DEFINE Total == [req EXCEPT !.total = pool.total]
           Available == [req EXCEPT !.available = pool.available]
           Shares == [req EXCEPT !.shares = pool.shares]
<1>1. /\ DOMAIN req = Fields
      /\ \/ Q!Reads("total", Total) \/ Q!Reads("available", Available)
         \/ Q!Reads("shares", Shares) \/ Q!Reads("own", [req EXCEPT !.own = pool.own])
  BY ReadingHasFields DEF Q!ReadPart
<1>2. /\ DOMAIN Total = Fields /\ Total.total = pool.total
      /\ Same(req, Total, Fields \ {"total"})
  BY <1>1 DEF Fields, Same
<1>3. /\ DOMAIN Available = Fields /\ Available.available = pool.available
      /\ Same(req, Available, Fields \ {"available"})
  BY <1>1 DEF Fields, Same
<1>4. /\ DOMAIN Shares = Fields /\ Shares.shares = pool.shares
      /\ Same(req, Shares, Fields \ {"shares"})
  BY <1>1 DEF Fields, Same
<1> HIDE DEF Total, Available, Shares
<1>5. ASSUME NEW name \in StatParts, NEW r, Q!Reads(name, r), DOMAIN r = Fields,
             Same(req, r, Fields \ {name}), r[name] = pool[name]
      PROVE  QuoteInvariant'
  <2>1. /\ name \in PoolReads /\ name \notin QuoteFields \cup {"pc", "during"}
        /\ name \notin {"stats", "fee", "pieces", "missed", "todo", "feeBps"}
    BY DEF PoolReads, StatParts, QuoteFields
  <2>2. Same(req, r, QuoteFields \cup {"pc", "during"})
    BY <1>5, <2>1 DEF Same, Fields, QuoteFields
  <2>3. r.todo = req.todo /\ r.pieces = req.pieces /\ r.missed = req.missed
        /\ r.feeBps = req.feeBps
    BY <1>5, <2>1 DEF Same, Fields
  <2>4. /\ Facts(req) /\ pool \in req.during /\ name \in req.todo
        /\ req'.todo = r.todo \ {name}
        /\ \A f \in Fields \ {"todo"} : req'[f] = r[f]
        /\ req'.during = req.during
        /\ Polled(req') /\ FeeRead(req') => QuoteInvariant'
    BY <1>5, <2>1, <2>2, <2>3, PollStep
  <2>5. /\ req'.pieces = req.pieces /\ req'.missed = req.missed /\ req'.feeBps = req.feeBps
        /\ req'[name] = pool[name] /\ \A f \in StatParts \ {name} : req'[f] = req[f]
    BY <1>5, <2>1, <2>3, <2>4 DEF Fields, Same, StatParts
  <2>6. /\ "stats" \in req'.todo <=> "stats" \in req.todo
        /\ req'.todo \cap {"stats", "fee"} = req.todo \cap {"stats", "fee"}
        /\ \A f \in StatParts \ {name} : f \in req'.todo <=> f \in req.todo
        /\ req'.todo \cap StatParts # {} => req.todo \cap StatParts # {}
    BY <2>1, <2>3, <2>4
  <2>7. FeeRead(req')
    BY <2>4, <2>5, <2>6 DEF Facts, FeeRead
  <2>8. PartsRead(req) => PartsRead(req')
    <3>1. CASE name = "total"
      BY <2>4, <2>5, <2>6, <3>1 DEF PartsRead, StatParts
    <3>2. CASE name = "shares"
      BY <2>4, <2>5, <2>6, <3>2 DEF PartsRead, StatParts
    <3>3. CASE name = "available"
      BY <2>4, <2>5, <2>6, <3>3 DEF PartsRead, StatParts
    <3> QED BY <3>1, <3>2, <3>3 DEF StatParts
  <2>9. "stats" \notin req.missed => "stats" \in req.pieces
    BY <1>5, <2>4 DEF Facts, Polled
  <2>10. Polled(req')
    BY <2>4, <2>5, <2>6, <2>8, <2>9 DEF Facts, Polled
  <2> QED BY <2>4, <2>7, <2>10
<1>6. CASE Q!Reads("total", Total)
  BY <1>2, <1>5, <1>6 DEF StatParts
<1>7. CASE Q!Reads("available", Available)
  BY <1>3, <1>5, <1>7 DEF StatParts
<1>8. CASE Q!Reads("shares", Shares)
  BY <1>4, <1>5, <1>8 DEF StatParts
<1> QED BY <1>1, <1>6, <1>7, <1>8, OwnReadsKeepQuotes

(* A call of a calculation, whose shares were read before.                 *)
PollFields == StatParts \cup {"feeBps", "missed"}
LEMMA QuoteStep ==
  ASSUME QuoteInvariant, NEW name \in Calculations, NEW r, Q!Reads(name, r), DOMAIN r = Fields,
         Same(req, r, PollFields \cup {"pc", "kind", "x", "own", "during"}),
         r.todo \ Calculations = req.todo \ Calculations,
         "stats" \in req.pieces <=> "stats" \in r.pieces
  PROVE  /\ Facts(req) /\ pool \in req.during /\ name \in req.todo /\ "own" \notin req'.todo
         /\ req'.todo = r.todo \ {name} /\ req'.during = req.during
         /\ req'.amount = r.amount /\ req'.pieces = r.pieces
         /\ req'.calcTotal = r.calcTotal /\ req'.calcShares = r.calcShares
         /\ \A total, shares : Calc(req', total, shares) = Calc(req, total, shares)
         /\ \A total, shares : Q!Calculated(total, shares) = Calc(req, total, shares)
         /\ Priced(req') => QuoteInvariant'
<1>1. /\ Same(req, r, {"pc", "kind", "x", "during"})
      /\ "stats" \in r.missed => "stats" \in req.missed
  BY DEF Same, PollFields
<1>2. /\ Facts(req) /\ pool \in req.during /\ name \in req.todo
      /\ req'.todo = r.todo \ {name}
      /\ \A f \in Fields \ {"todo"} : req'[f] = r[f]
      /\ req'.kind = req.kind /\ req'.x = req.x /\ req'.during = req.during
      /\ Priced(req') /\ Polled(req') /\ FeeRead(req') /\ SharesRead(req') => QuoteInvariant'
  BY <1>1, ReadFrame
<1>3. /\ Same(req, req', StatParts) /\ req'.pieces = r.pieces /\ req'.amount = r.amount
      /\ req'.calcTotal = r.calcTotal /\ req'.calcShares = r.calcShares
      /\ req'.missed = req.missed /\ req'.feeBps = req.feeBps /\ req'.own = req.own
  BY <1>2 DEF Same, PollFields, StatParts, Fields
<1>4. /\ req'.todo \cap PoolReads = req.todo \cap PoolReads
      /\ "own" \in req'.todo <=> "own" \in req.todo
  BY <1>2 DEF PoolReads, StatParts, Calculations, CalcParts
<1>5. Polled(req')
  BY <1>2, <1>3, <1>4, PolledKept DEF Facts
<1>6. FeeRead(req')
  BY <1>2, <1>3, <1>4, FeeReadKept DEF Facts
<1>7. SharesRead(req')
  BY <1>2, <1>3, <1>4, SharesReadKept DEF Facts
<1>8. "own" \notin req'.todo
  BY <1>2, <1>4 DEF Facts, Priced
<1>9. \A total, shares : Calc(req', total, shares) = Calc(req, total, shares)
  BY <1>2, <1>3 DEF Calc
<1>10. \A total, shares : Q!Calculated(total, shares) = Calc(req, total, shares)
  BY DEF Q!Calculated, Q!Asked, Calc
<1> QED BY <1>2, <1>3, <1>5, <1>6, <1>7, <1>8, <1>9, <1>10

(* A calculation from one look at the pool.                                *)
LEMMA CalculatedAtOnce ==
  ASSUME QuoteInvariant, NEW name \in {"calc", "calc_stats"},
         Q!Reads(name, [req EXCEPT !.amount = Q!Calculated(pool.total, pool.shares)])
  PROVE  QuoteInvariant'
<1> DEFINE r == [req EXCEPT !.amount = Q!Calculated(pool.total, pool.shares)]
<1>1. DOMAIN req = Fields /\ Q!Reads(name, r)
  BY ReadingHasFields
<1>2. /\ DOMAIN r = Fields /\ r.amount = Q!Calculated(pool.total, pool.shares)
      /\ r.todo = req.todo /\ r.pieces = req.pieces
      /\ r.calcTotal = req.calcTotal /\ r.calcShares = req.calcShares
      /\ Same(req, r, PollFields \cup {"pc", "kind", "x", "own", "during"})
  BY <1>1 DEF Fields, Same, PollFields, StatParts
<1> HIDE DEF r
<1>3. name \in Calculations /\ name \notin CalcParts
  BY DEF Calculations, CalcParts
<1>4. /\ Facts(req) /\ pool \in req.during /\ "own" \notin req'.todo
      /\ req'.todo = r.todo \ {name} /\ req'.during = req.during
      /\ req'.amount = r.amount /\ req'.pieces = r.pieces
      /\ req'.calcTotal = r.calcTotal /\ req'.calcShares = r.calcShares
      /\ \A total, shares : Calc(req', total, shares) = Calc(req, total, shares)
      /\ r.amount = Calc(req, pool.total, pool.shares)
      /\ Priced(req') => QuoteInvariant'
  BY <1>1, <1>2, <1>3, QuoteStep
<1>5. /\ "calc_total" \in req'.todo <=> "calc_total" \in req.todo
      /\ "calc_shares" \in req'.todo <=> "calc_shares" \in req.todo
      /\ req'.todo \cap CalcParts = req.todo \cap CalcParts
  BY <1>2, <1>3, <1>4 DEF CalcParts
<1>6. Calculates(req')
  BY <1>4 DEF Calculates
<1>7. Priced(req')
  BY <1>2, <1>4, <1>5, <1>6 DEF Facts, Priced
<1> QED BY <1>4, <1>7

(* A call that fails, so that the calculation goes on with others.         *)
LEMMA CalculationGoesOn ==
  ASSUME QuoteInvariant, NEW name \in Calculations, NEW r, Q!Reads(name, r), DOMAIN r = Fields,
         Same(req, r, PollFields \cup {"pc", "kind", "x", "own", "during"}),
         r.amount = req.amount, r.calcTotal = req.calcTotal, r.calcShares = req.calcShares,
         \/ /\ name = "calc" /\ r.todo = req.todo \cup {"calc_stats"}
            /\ r.pieces = req.pieces
         \/ /\ name = "calc_stats" /\ r.todo = req.todo \cup CalcParts
            /\ r.pieces = req.pieces \cup {"calc"}
  PROVE  QuoteInvariant'
<1>1. /\ r.todo \ Calculations = req.todo \ Calculations
      /\ "stats" \in req.pieces <=> "stats" \in r.pieces
  BY DEF Calculations
<1>2. /\ Facts(req) /\ pool \in req.during /\ "own" \notin req'.todo
      /\ req'.todo = r.todo \ {name} /\ req'.during = req.during
      /\ req'.amount = r.amount /\ req'.pieces = r.pieces
      /\ req'.calcTotal = r.calcTotal /\ req'.calcShares = r.calcShares
      /\ \A total, shares : Calc(req', total, shares) = Calc(req, total, shares)
      /\ Priced(req') => QuoteInvariant'
  BY <1>1, QuoteStep
<1>3. Priced(req) /\ (req'.amount # -1 => Calculates(req'))
  BY <1>2 DEF Facts, Priced, Calculates
<1>4. CASE name = "calc" /\ r.todo = req.todo \cup {"calc_stats"} /\ r.pieces = req.pieces
  <2>1. /\ "calc_total" \in req'.todo <=> "calc_total" \in req.todo
        /\ "calc_shares" \in req'.todo <=> "calc_shares" \in req.todo
        /\ req'.todo \cap CalcParts = req.todo \cap CalcParts
    BY <1>2, <1>4 DEF CalcParts
  <2>2. Priced(req')
    BY <1>2, <1>3, <1>4, <2>1 DEF Priced
  <2> QED BY <1>2, <2>2
<1>5. CASE /\ name = "calc_stats" /\ r.todo = req.todo \cup CalcParts
           /\ r.pieces = req.pieces \cup {"calc"}
  <2>1. "calc_total" \in req'.todo /\ "calc_shares" \in req'.todo
    BY <1>2, <1>5 DEF CalcParts
  <2>2. Priced(req')
    BY <1>2, <1>3, <1>5, <2>1 DEF Priced
  <2> QED BY <1>2, <2>2
<1> QED BY <1>4, <1>5

LEMMA PreviewKeepsQuotes ==
  ASSUME QuoteInvariant, Q!Preview
  PROVE  QuoteInvariant'
<1> DEFINE r == [req EXCEPT !.todo = @ \cup {"calc_stats"}]
<1>1. /\ DOMAIN req = Fields
      /\ \/ Q!Reads("calc", [req EXCEPT !.amount = Q!Calculated(pool.total, pool.shares)])
         \/ Q!Reads("calc", r)
  BY ReadingHasFields DEF Q!Preview
<1>2. /\ DOMAIN r = Fields /\ r.todo = req.todo \cup {"calc_stats"}
      /\ r.pieces = req.pieces /\ r.amount = req.amount
      /\ r.calcTotal = req.calcTotal /\ r.calcShares = req.calcShares
      /\ Same(req, r, PollFields \cup {"pc", "kind", "x", "own", "during"})
  BY <1>1 DEF Fields, Same, PollFields, StatParts
<1> HIDE DEF r
<1>3. "calc" \in Calculations
  BY DEF Calculations
<1>4. CASE Q!Reads("calc", r)
  BY <1>2, <1>3, <1>4, CalculationGoesOn
<1> QED BY <1>1, <1>4, CalculatedAtOnce

(* The total and the shares are read apart; the second of them completes   *)
(* the calculation.                                                        *)
LEMMA PartReadKeepsQuotes ==
  ASSUME QuoteInvariant, NEW total, NEW shares, NEW name \in CalcParts, NEW other \in CalcParts,
         name # other, Q!Reads(name, Q!PartRead(total, shares, other)),
         name = "calc_total" => total = pool.total /\ shares = req.calcShares,
         name = "calc_shares" => total = req.calcTotal /\ shares = pool.shares
  PROVE  QuoteInvariant'
<1> DEFINE r == Q!PartRead(total, shares, other)
           quote == IF other \in req.todo THEN req.amount ELSE Q!Calculated(total, shares)
<1>1. DOMAIN req = Fields /\ Q!Reads(name, r)
  BY ReadingHasFields
<1>2. /\ DOMAIN r = Fields /\ r.todo = req.todo /\ r.amount = quote
      /\ r.pieces = req.pieces /\ r.calcTotal = total /\ r.calcShares = shares
      /\ Same(req, r, PollFields \cup {"pc", "kind", "x", "own", "during"})
  BY <1>1 DEF Fields, Same, PollFields, StatParts, Q!PartRead, Q!Fallback
<1> HIDE DEF r, quote
<1>3. name \in Calculations
  BY DEF Calculations
<1>4. /\ Facts(req) /\ pool \in req.during /\ "own" \notin req'.todo /\ name \in req.todo
      /\ req'.todo = r.todo \ {name} /\ req'.during = req.during
      /\ req'.amount = r.amount /\ req'.pieces = r.pieces
      /\ req'.calcTotal = r.calcTotal /\ req'.calcShares = r.calcShares
      /\ \A t, s : Calc(req', t, s) = Calc(req, t, s)
      /\ Q!Calculated(total, shares) = Calc(req, total, shares)
      /\ Priced(req') => QuoteInvariant'
  BY <1>1, <1>2, <1>3, QuoteStep
<1>5. "calc" \in req'.pieces /\ Priced(req)
  BY <1>2, <1>4 DEF Facts, Priced
<1>6. /\ name = "calc_total" \/ other \notin req.todo => \E p \in req.during : total = p.total
      /\ name = "calc_shares" \/ other \notin req.todo => \E p \in req.during : shares = p.shares
  <2>1. CASE name = "calc_total"
    BY <1>4, <1>5, <2>1 DEF CalcParts, Priced
  <2>2. CASE name = "calc_shares"
    BY <1>4, <1>5, <2>2 DEF CalcParts, Priced
  <2> QED BY <2>1, <2>2 DEF CalcParts
<1>7. req'.amount # -1 => Calculates(req')
  <2>1. CASE other \in req.todo
    BY <1>2, <1>4, <1>5, <2>1 DEF Priced, Calculates, quote
  <2>2. CASE other \notin req.todo
    <3>1. PICK p \in req.during, q \in req.during : total = p.total /\ shares = q.shares
      BY <1>6, <2>2
    <3>2. req'.amount = Calc(req', p.total, q.shares)
      BY <1>2, <1>4, <2>2, <3>1 DEF quote
    <3> QED BY <1>4, <1>5, <3>2 DEF Calculates
  <2> QED BY <2>1, <2>2
<1>8. /\ "calc_shares" \in req'.todo /\ "calc_total" \notin req'.todo
           => \E p \in req'.during : req'.calcTotal = p.total
      /\ "calc_total" \in req'.todo /\ "calc_shares" \notin req'.todo
           => \E p \in req'.during : req'.calcShares = p.shares
  BY <1>2, <1>4, <1>6 DEF CalcParts
<1>9. Priced(req')
  BY <1>4, <1>5, <1>7, <1>8 DEF Priced
<1> QED BY <1>4, <1>9

LEMMA FallbackKeepsQuotes ==
  ASSUME QuoteInvariant, Q!PreviewFallback
  PROVE  QuoteInvariant'
<1> DEFINE r == [req EXCEPT !.pieces = @ \cup {"calc"},
                            !.todo = @ \cup {"calc_total", "calc_shares"}]
<1>1. \/ Q!Reads("calc_stats", [req EXCEPT !.amount = Q!Calculated(pool.total, pool.shares)])
      \/ Q!Reads("calc_stats", r)
      \/ Q!Reads("calc_total", Q!PartRead(pool.total, req.calcShares, "calc_shares"))
      \/ Q!Reads("calc_shares", Q!PartRead(req.calcTotal, pool.shares, "calc_total"))
  BY DEF Q!PreviewFallback, Q!Fallback
<1>2. CASE Q!Reads("calc_stats", r)
  <2>1. DOMAIN req = Fields
    BY <1>2, ReadingHasFields
  <2>2. /\ DOMAIN r = Fields /\ r.todo = req.todo \cup CalcParts
        /\ r.pieces = req.pieces \cup {"calc"} /\ r.amount = req.amount
        /\ r.calcTotal = req.calcTotal /\ r.calcShares = req.calcShares
        /\ Same(req, r, PollFields \cup {"pc", "kind", "x", "own", "during"})
    BY <2>1 DEF Fields, Same, PollFields, StatParts, CalcParts
  <2> HIDE DEF r
  <2>3. "calc_stats" \in Calculations
    BY DEF Calculations
  <2> QED BY <1>2, <2>2, <2>3, CalculationGoesOn
<1>3. CASE Q!Reads("calc_total", Q!PartRead(pool.total, req.calcShares, "calc_shares"))
  BY <1>3, PartReadKeepsQuotes DEF CalcParts
<1>4. CASE Q!Reads("calc_shares", Q!PartRead(req.calcTotal, pool.shares, "calc_total"))
  BY <1>4, PartReadKeepsQuotes DEF CalcParts
<1> HIDE DEF r
<1> QED BY <1>1, <1>2, <1>3, <1>4, CalculatedAtOnce

-----------------------------------------------------------------------------
LEMMA MovesKeepQuotes ==
  ASSUME QuoteInvariant, Q!PoolMoves, Quoted \subseteq Nat
  PROVE  QuoteInvariant'
<1>1. PICK x \in Quoted : pool' \in Q!Moved(pool, x)
  BY DEF Q!PoolMoves
<1>2. Sound(pool')
  BY <1>1, MovesAreSound DEF QuoteInvariant
<1>3. UNCHANGED cache
  BY DEF Q!PoolMoves
<1>4. CASE req.pc \in {"reading", "building"}
  <2>1. Facts(req) /\ pool \in req.during /\ DOMAIN req = Fields
    BY <1>4, InFlight DEF Facts, Framed
  <2>2. /\ DOMAIN req' = Fields /\ req'.during = req.during \cup {pool'}
        /\ \A f \in Fields \ {"during"} : req'[f] = req[f]
    <3>1. req' = [req EXCEPT !.during = @ \cup {pool'}]
      BY <1>4 DEF Q!PoolMoves
    <3> QED BY <2>1, <3>1 DEF Fields
  <2>3. /\ req'.pc = req.pc /\ req'.kind = req.kind /\ req'.x = req.x /\ req'.todo = req.todo
        /\ req'.own = req.own /\ req'.feeBps = req.feeBps /\ req'.total = req.total
        /\ req'.amount = req.amount /\ req'.available = req.available
        /\ req'.missed = req.missed /\ req'.pieces = req.pieces
        /\ Same(req, req', QuoteFields) /\ Same(req, req', StatParts)
    BY <2>2 DEF Fields, Same, QuoteFields, StatParts
  <2>4. Framed(req')
    <3>1. IsFiniteSet(req'.during)
      BY <2>1, <2>2, FS_AddElement DEF Facts, Framed
    <3> QED BY <1>2, <2>1, <2>2, <2>3, <3>1 DEF Facts, Framed
  <2>5. Priced(req')
    BY <2>1, <2>2, <2>3, PricedKept DEF Facts
  <2>6. Polled(req')
    BY <2>1, <2>2, <2>3, PolledKept DEF Facts
  <2>7. FeeRead(req')
    BY <2>1, <2>3, FeeReadKept DEF Facts
  <2>8. SharesRead(req')
    BY <2>1, <2>2, <2>3, SharesReadKept DEF Facts
  <2>9. Finished(req')
    BY <2>1, <2>2, <2>3 DEF Facts, Finished
  <2> QED BY <1>2, <1>3, <2>2, <2>4, <2>5, <2>6, <2>7, <2>8, <2>9 DEF QuoteInvariant, Facts
<1>5. CASE req.pc \notin {"reading", "building"}
  <2>1. req' = req
    BY <1>5 DEF Q!PoolMoves
  <2>2. req = Q!Nothing \/ (Facts(req) /\ req.pc = "answered")
    BY <1>5 DEF QuoteInvariant, Facts, Framed
  <2> QED BY <1>2, <1>3, <2>1, <2>2 DEF QuoteInvariant
<1> QED BY <1>4, <1>5

LEMMA AskKeepsQuotes ==
  ASSUME QuoteInvariant, NEW kind \in Q!Kinds, NEW x \in Quoted, Q!Ask(kind, x)
  PROVE  QuoteInvariant'
<1>1. UNCHANGED <<pool, cache>>
  BY DEF Q!Ask
<1>2. CASE kind \in Q!Cached /\ cache[kind] # Q!Nothing
  <2>1. Facts(cache[kind]) /\ cache[kind].pc = "answered" /\ req' = cache[kind]
    BY <1>2 DEF Q!Ask, QuoteInvariant
  <2> QED BY <1>1, <2>1, AnswersKept
<1>3. CASE ~(kind \in Q!Cached /\ cache[kind] # Q!Nothing)
  <2>1. PICK r : r = req'
    OBVIOUS
  <2>2. r = [pc |-> "reading", kind |-> kind, x |-> x,
             todo |-> Q!FirstReads(kind), total |-> 0, available |-> 0,
             shares |-> 0, own |-> 0, feeBps |-> 0, amount |-> -1,
             calcTotal |-> 0, calcShares |-> 0, pieces |-> {},
             missed |-> {}, during |-> {pool}]
    BY <1>3, <2>1 DEF Q!Ask
  <2>3. /\ DOMAIN r = Fields /\ r.pc = "reading" /\ r.kind = kind /\ r.x = x
        /\ r.todo = Q!FirstReads(kind) /\ r.amount = -1 /\ r.during = {pool}
        /\ r.missed = {}
    BY <2>2 DEF Fields
  <2>4. IsFiniteSet({pool})
    BY FS_Singleton
  <2>5. Framed(r)
    BY <2>3, <2>4 DEF Framed, QuoteInvariant
  <2>6. /\ "stats" \in r.todo /\ "fee" \notin r.todo /\ r.todo \cap StatParts = {}
        /\ r.todo \cap CalcParts = {}
        /\ "calc_total" \notin r.todo /\ "calc_shares" \notin r.todo
        /\ "own" \in r.todo => r.todo \cap Calculations = {}
        /\ kind \in {"withdraw", "summary"} => "own" \in r.todo
    BY <2>3 DEF Q!FirstReads, Q!Kinds, CalcParts, Calculations, StatParts
  <2>7. Priced(r)
    BY <2>3, <2>6 DEF Priced
  <2>8. Polled(r) /\ FeeRead(r) /\ SharesRead(r) /\ Finished(r)
    BY <2>3, <2>6 DEF Polled, FeeRead, SharesRead, Finished
  <2> QED BY <1>1, <2>1, <2>3, <2>5, <2>7, <2>8, AnswersKept DEF Facts
<1> QED BY <1>2, <1>3

LEMMA CalculateKeepsQuotes ==
  ASSUME QuoteInvariant, Q!Calculate
  PROVE  QuoteInvariant'
<1>1. /\ req.pc = "reading" /\ req.todo = {} /\ req.amount = -1
      /\ UNCHANGED <<pool, cache>> /\ req' = [req EXCEPT !.todo = {"calc"}]
  BY DEF Q!Calculate, Q!AllRead, Q!Previewed
<1>2. Facts(req) /\ pool \in req.during /\ DOMAIN req = Fields
  BY <1>1, InFlight DEF Facts, Framed
<1>3. /\ DOMAIN req' = Fields /\ req'.todo = {"calc"}
      /\ \A f \in Fields \ {"todo"} : req'[f] = req[f]
  BY <1>1, <1>2 DEF Fields
<1>4. /\ req'.pc = req.pc /\ req'.kind = req.kind /\ req'.x = req.x /\ req'.own = req.own
      /\ req'.amount = -1 /\ req'.during = req.during /\ req'.pieces = req.pieces
      /\ req'.missed = req.missed /\ req'.feeBps = req.feeBps
      /\ Same(req, req', StatParts)
  BY <1>1, <1>3 DEF Fields, Same, StatParts
<1>5. Framed(req')
  BY <1>2, <1>3, <1>4 DEF Facts, Framed
<1>6. Priced(req')
  BY <1>3, <1>4 DEF Priced, CalcParts
<1>7. req'.todo \cap PoolReads = req.todo \cap PoolReads
  BY <1>1, <1>3 DEF PoolReads, StatParts
<1>8. Polled(req') /\ FeeRead(req') /\ SharesRead(req')
  BY <1>1, <1>2, <1>3, <1>4, <1>7, PolledKept, FeeReadKept, SharesReadKept DEF Facts
<1>9. Finished(req')
  BY <1>1, <1>2, <1>4, ReadingIsNotFinished DEF Facts, Finished
<1> QED BY <1>1, <1>2, <1>4, <1>5, <1>6, <1>8, <1>9, AnswersKept DEF Facts

(* An answer goes to who asked, and to the cache.                          *)
LEMMA GivenKeepsQuotes ==
  ASSUME QuoteInvariant, NEW answer, Facts(answer), answer.pc = "answered",
         answer.kind \in Q!Cached, Q!Give(answer), UNCHANGED pool
  PROVE  QuoteInvariant'
<1>1. req' = answer
  BY DEF Q!Give
<1>2. DOMAIN cache' = Q!Cached /\ \A k \in Q!Cached : cache'[k] \in {cache[k], answer}
  BY DEF Q!Give, QuoteInvariant
<1> QED BY <1>1, <1>2 DEF QuoteInvariant

LEMMA NothingIsWorthNothing ==
  ASSUME NEW r, r.kind = "summary", r.own = 0, NEW p, Sound(p)
  PROVE  Calc(r, p.total, p.shares) = 0
<1>1. p.total \in Nat /\ p.shares \in Nat
  BY DEF Sound, PoolStates
<1>2. Q!worth(0, p.total, p.shares) = 0
  BY <1>1 DEF Q!worth
<1> QED BY <1>2 DEF Calc

(* A request that has read all it wanted, with its pool's figures.         *)
LEMMA AllIsRead ==
  ASSUME NEW r, Facts(r), r.todo = {}, "stats" \notin r.missed
  PROVE  /\ r.available \in Nat
         /\ r.kind = "withdraw" => r.own \in Nat
         /\ r.kind = "withdraw" /\ r.amount # -1 /\ Quoted \subseteq Nat => r.amount \in Nat
<1>1. PICK p \in r.during : r.available = p.available
  BY DEF Facts, Polled, PartsRead
<1>2. r.available \in Nat
  BY <1>1 DEF Facts, Framed, Sound, PoolStates
<1>3. ASSUME r.kind = "withdraw"
      PROVE  r.own \in Nat
  BY <1>3 DEF Facts, SharesRead, Framed, Sound, PoolStates
<1>4. ASSUME r.kind = "withdraw", r.amount # -1, Quoted \subseteq Nat
      PROVE  r.amount \in Nat
  <2>1. PICK q \in r.during, s \in r.during : r.amount = Calc(r, q.total, s.shares)
    BY <1>4 DEF Facts, Priced, Calculates
  <2>2. q.total \in Nat /\ s.shares \in Nat /\ r.x \in Nat
    BY <1>4 DEF Facts, Framed, Sound, PoolStates
  <2>3. r.amount = Q!worth(r.x, q.total, s.shares)
    BY <1>4, <2>1 DEF Calc
  <2> QED BY <2>2, <2>3, WorthTyped
<1> QED BY <1>2, <1>3, <1>4

(* What is only marked as further on says what it said.                    *)
LEMMA MarkedFurther ==
  ASSUME NEW r, NEW s, Facts(r), DOMAIN s = Fields,
         s.pc \in {"building", "answered"}, Same(r, s, Fields \ {"pc"}), Finished(s)
  PROVE  Facts(s)
<1>1. /\ s.kind = r.kind /\ s.x = r.x /\ s.todo = r.todo /\ s.own = r.own
      /\ s.during = r.during /\ s.pieces = r.pieces /\ s.missed = r.missed
      /\ s.feeBps = r.feeBps
      /\ Same(r, s, StatParts) /\ Same(r, s, QuoteFields)
  BY DEF Same, Fields, StatParts, QuoteFields
<1>2. Framed(s)
  BY <1>1 DEF Facts, Framed
<1>3. Priced(s)
  BY <1>1, PricedKept DEF Facts
<1>4. Polled(s) /\ FeeRead(s) /\ SharesRead(s)
  BY <1>1, PolledKept, FeeReadKept, SharesReadKept DEF Facts
<1> QED BY <1>2, <1>3, <1>4 DEF Facts

LEMMA AnswerKeepsQuotes ==
  ASSUME QuoteInvariant, Q!Answer, Quoted \subseteq Nat
  PROVE  QuoteInvariant'
<1>1. req.pc = "reading" /\ req.todo = {} /\ UNCHANGED pool
  BY DEF Q!Answer, Q!AllRead
<1>2. /\ Facts(req) /\ pool \in req.during /\ DOMAIN req = Fields
      /\ Framed(req) /\ "stats" \notin req.missed
  BY <1>1, InFlight DEF Facts, Framed, Finished
<1>3. CASE /\ req.kind \in {"deposit", "withdraw"} /\ Q!Previewed /\ ~Q!TooMuch
           /\ req' = [req EXCEPT !.pc = "building"] /\ UNCHANGED cache
  <2>1. /\ DOMAIN req' = Fields /\ req'.pc = "building"
        /\ Same(req, req', Fields \ {"pc"})
    BY <1>2, <1>3 DEF Fields, Same
  <2>2. /\ req'.kind = req.kind /\ req'.x = req.x /\ req'.todo = {}
        /\ req'.during = req.during /\ req'.amount = req.amount /\ req'.own = req.own
        /\ req'.available = req.available /\ req'.missed = req.missed
    BY <1>1, <2>1 DEF Fields, Same
  <2>3. req.amount # -1
    BY <1>3 DEF Q!Previewed
  <2>4. ASSUME req.kind = "withdraw"
        PROVE  req.x <= req.own /\ req.amount <= req.available
    <3>1. /\ req.available \in Nat /\ req.own \in Nat /\ req.amount \in Nat /\ req.x \in Nat
      BY <1>1, <1>2, <2>3, <2>4, AllIsRead DEF Framed
    <3>2. ~(req.x > req.own) /\ ~(req.amount > req.available)
      BY <1>3, <2>4 DEF Q!TooMuch
    <3> QED BY <3>1, <3>2
  <2>5. Finished(req')
    BY <1>2, <1>3, <2>1, <2>2, <2>3, <2>4 DEF Finished
  <2>6. Facts(req')
    BY <1>2, <2>1, <2>5, MarkedFurther
  <2> QED BY <1>1, <1>2, <1>3, <2>2, <2>6, AnswersKept
<1>4. CASE req.kind = "overview" /\ Q!Give([req EXCEPT !.pc = "answered"])
  <2>1. PICK r : r = [req EXCEPT !.pc = "answered"] /\ Q!Give(r)
    BY <1>4
  <2>2. /\ DOMAIN r = Fields /\ r.pc = "answered" /\ r.kind = "overview"
        /\ r.todo = {} /\ r.missed = req.missed
        /\ Same(req, r, Fields \ {"pc"})
    BY <1>1, <1>2, <1>4, <2>1 DEF Fields, Same
  <2>3. Finished(r)
    BY <1>2, <2>2 DEF Finished
  <2>4. Facts(r)
    BY <1>2, <2>2, <2>3, MarkedFurther
  <2> QED BY <1>1, <2>1, <2>2, <2>4, GivenKeepsQuotes DEF Q!Cached
<1>5. CASE /\ req.kind = "summary" /\ (Q!Previewed \/ req.own = 0)
           /\ Q!Give([req EXCEPT !.pc = "answered",
                                 !.amount = IF req.own = 0 THEN 0 ELSE @])
  <2>1. PICK r : /\ r = [req EXCEPT !.pc = "answered",
                                    !.amount = IF req.own = 0 THEN 0 ELSE @]
                 /\ Q!Give(r)
    BY <1>5
  <2>2. /\ DOMAIN r = Fields /\ r.pc = "answered" /\ r.kind = "summary" /\ r.own = req.own
        /\ r.amount = IF req.own = 0 THEN 0 ELSE req.amount
        /\ r.x = req.x /\ r.todo = {} /\ r.missed = req.missed /\ r.during = req.during
        /\ r.pieces = req.pieces /\ r.feeBps = req.feeBps
        /\ Same(req, r, StatParts) /\ Same(req, r, QuoteFields \ {"amount"})
    BY <1>1, <1>2, <1>5, <2>1 DEF Fields, Same, StatParts, QuoteFields
  <2>3. req.own = 0 \/ req.amount # -1
    BY <1>5 DEF Q!Previewed
  <2>4. Framed(r)
    BY <1>2, <1>5, <2>2 DEF Framed
  <2>5. Priced(r)
    <3>1. CASE req.own = 0
      <4>1. Calc(r, pool.total, pool.shares) = 0
        BY <1>2, <2>2, <3>1, NothingIsWorthNothing DEF Framed
      <4>2. Calculates(r)
        BY <1>2, <2>2, <3>1, <4>1 DEF Calculates
      <4> QED BY <2>2, <4>2 DEF Priced
    <3>2. CASE req.own # 0
      <4>1. Same(req, r, QuoteFields)
        BY <2>2, <3>2 DEF Same, QuoteFields
      <4> QED BY <1>1, <1>2, <2>2, <4>1, PricedKept DEF Facts
    <3> QED BY <3>1, <3>2
  <2>6. Polled(r) /\ FeeRead(r) /\ SharesRead(r)
    BY <1>1, <1>2, <1>5, <2>2, PolledKept, FeeReadKept, SharesReadKept DEF Facts
  <2>7. Finished(r)
    BY <1>2, <2>2, <2>3 DEF Finished
  <2> QED BY <1>1, <2>1, <2>2, <2>4, <2>5, <2>6, <2>7, GivenKeepsQuotes DEF Facts, Q!Cached
<1> QED BY <1>3, <1>4, <1>5 DEF Q!Answer

(* The contract is asked to simulate what it is to be sent.                *)
LEMMA BuildKeepsQuotes ==
  ASSUME QuoteInvariant, Q!Build
  PROVE  QuoteInvariant'
<1>1. req.pc = "building" /\ UNCHANGED <<pool, cache>>
  BY DEF Q!Build, Q!Refused
<1>2. /\ Facts(req) /\ pool \in req.during /\ DOMAIN req = Fields /\ Finished(req)
  BY <1>1, InFlight DEF Facts, Framed
<1>3. CASE req' = Q!Nothing
  BY <1>1, <1>3, AnswersKept
<1>4. CASE /\ req' = [req EXCEPT !.pc = "answered"]
           /\ req.kind = "withdraw" => Q!Withdrawable(pool, req.x)
  <2>1. /\ DOMAIN req' = Fields /\ req'.pc = "answered"
        /\ Same(req, req', Fields \ {"pc"})
    BY <1>2, <1>4 DEF Fields, Same
  <2>2. /\ req'.kind = req.kind /\ req'.x = req.x /\ req'.todo = req.todo
        /\ req'.during = req.during /\ req'.amount = req.amount /\ req'.own = req.own
        /\ req'.available = req.available /\ req'.missed = req.missed
    BY <2>1 DEF Fields, Same
  <2>3. Finished(req')
    BY <1>1, <1>2, <1>4, <2>1, <2>2 DEF Finished
  <2>4. Facts(req')
    BY <1>2, <2>1, <2>3, MarkedFurther
  <2> QED BY <1>1, <2>1, <2>4, AnswersKept
<1> QED BY <1>3, <1>4 DEF Q!Build, Q!Refused

(* The overview of a pool that cannot be read shows none.                  *)
LEMMA FailuresKeepQuotes ==
  ASSUME QuoteInvariant, Q!CallFails
  PROVE  QuoteInvariant'
<1>1. req.pc \in {"reading", "building"} /\ UNCHANGED pool
  BY DEF Q!CallFails
<1>2. Facts(req) /\ DOMAIN req = Fields
  BY <1>1, InFlight DEF Facts, Framed
<1>3. CASE req' = Q!Nothing /\ UNCHANGED cache
  BY <1>1, <1>3, AnswersKept
<1>4. CASE /\ req.kind = "overview"
           /\ Q!Give([req EXCEPT !.pc = "answered", !.total = 0,
                                 !.missed = @ \cup {"stats"}])
  <2>1. PICK r : /\ r = [req EXCEPT !.pc = "answered", !.total = 0,
                                    !.missed = @ \cup {"stats"}]
                 /\ Q!Give(r)
    BY <1>4
  <2>2. /\ DOMAIN r = Fields /\ r.pc = "answered" /\ r.total = 0
        /\ r.missed = req.missed \cup {"stats"}
        /\ r.kind = "overview" /\ r.x = req.x /\ r.todo = req.todo /\ r.during = req.during
        /\ r.pieces = req.pieces /\ r.own = req.own /\ r.feeBps = req.feeBps
        /\ Same(req, r, QuoteFields)
    BY <1>2, <1>4, <2>1 DEF Fields, Same, QuoteFields
  <2>3. Framed(r)
    BY <1>2, <1>4, <2>2 DEF Facts, Framed
  <2>4. Priced(r)
    BY <1>2, <2>2, PricedKept DEF Facts
  <2>5. FeeRead(r) /\ SharesRead(r)
    BY <1>2, <1>4, <2>2, FeeReadKept, SharesReadKept DEF Facts
  <2>6. Polled(r) /\ Finished(r)
    BY <2>2 DEF Polled, Finished
  <2> QED BY <1>1, <2>1, <2>2, <2>3, <2>4, <2>5, <2>6, GivenKeepsQuotes DEF Facts, Q!Cached
<1> QED BY <1>3, <1>4 DEF Q!CallFails, Q!Refused

LEMMA QuoteInvariantNext ==
  ASSUME QuoteInvariant, [Q!Next]_(Q!vars), Quoted \subseteq Nat
  PROVE  QuoteInvariant'
<1>1. ASSUME Q!RefuseWithdrawal \/ Q!Leave
      PROVE  QuoteInvariant'
  BY <1>1, AnswersKept DEF Q!RefuseWithdrawal, Q!Leave, Q!Refused
<1>2. ASSUME NEW k \in Q!Cached, Q!Expire(k)
      PROVE  QuoteInvariant'
  <2>1. UNCHANGED <<pool, req>> /\ cache' = [cache EXCEPT ![k] = Q!Nothing]
    BY <1>2 DEF Q!Expire
  <2> QED BY <2>1 DEF QuoteInvariant
<1>3. CASE UNCHANGED Q!vars
  BY <1>3 DEF Q!vars, QuoteInvariant
<1>4. ASSUME Q!ShareReadFails
      PROVE  QuoteInvariant'
  BY <1>4, OwnReadsKeepQuotes
<1>5. ASSUME NEW kind \in Q!Kinds, NEW x \in Quoted, Q!Ask(kind, x)
      PROVE  QuoteInvariant'
  BY <1>5, AskKeepsQuotes
<1> QED BY <1>1, <1>2, <1>3, <1>4, <1>5, MovesKeepQuotes, StatsKeepQuotes, PartKeepsQuotes,
           FeeKeepsQuotes, PreviewKeepsQuotes, FallbackKeepsQuotes, CalculateKeepsQuotes,
           AnswerKeepsQuotes, BuildKeepsQuotes, FailuresKeepQuotes DEF Q!Next

LEMMA QuoteInvariantInit ==
  ASSUME Q!Init, \A p \in Pools : Sound(p)
  PROVE  QuoteInvariant
  BY DEF Q!Init, QuoteInvariant

LEMMA PoolsAreCounted == ASSUME NEW set PROVE Q!Cardinality(set) = Cardinality(set)
  BY DEF Q!Cardinality, Cardinality

(* A deposit calculated from one look at the pool is fair in that pool.    *)
LEMMA AmountsAreTheContracts ==
  ASSUME Framed(req), Calculates(req), Quoted \subseteq Nat
  PROVE  Q!AmountIsTheContracts
<1>1. PICK p \in req.during, q \in req.during :
        req.amount = Calc(req, p.total, q.shares) /\ ("calc" \in req.pieces \/ p = q)
  BY DEF Calculates
<1>2. req.amount = Q!Calculated(p.total, q.shares)
  BY <1>1 DEF Q!Calculated, Q!Asked, Calc
<1>3. ASSUME req.kind = "deposit", p = q
      PROVE  Q!Fair(p)
  <2>1. req.amount = Q!mintedFor(req.x, p)
    BY <1>1, <1>3 DEF Calc, Q!mintedFor
  <2>2. Sound(p) /\ req.x \in Nat
    BY DEF Framed
  <2> QED BY <2>1, <2>2, DepositIsFair DEF Q!Fair
<1> QED BY <1>1, <1>2, <1>3 DEF Q!AmountIsTheContracts

(* Where the pool was in one state only, all the figures are of that one.  *)
LEMMA RestingPools ==
  ASSUME Facts(req), req.todo = {}, "stats" \notin req.missed, req.amount # -1,
         req.kind = "withdraw", req.x <= req.own, req.amount <= req.available,
         \E p \in req.during : Q!Withdrawable(p, req.x),
         Q!Cardinality(req.during) = 1, NEW p \in req.during
  PROVE  Q!AtRest(p)
<1>1. req.during = {p}
  <2>1. PICK o : req.during = {o}
    BY FS_Singleton, PoolsAreCounted DEF Facts, Framed
  <2> QED BY <2>1
<1>2. req.amount = Q!paidFor(req.x, p)
  BY <1>1 DEF Facts, Priced, Calculates, Calc, Q!paidFor
<1>3. "fee" \notin req.missed => req.feeBps = FeeBps
  BY DEF Facts, FeeRead
<1>4. Q!Withdrawable(p, req.x)
  BY <1>1
<1> QED BY <1>2, <1>3, <1>4 DEF Q!AtRest, Q!Net, Q!Fee

LEMMA QuotesAreOfThePool ==
  ASSUME QuoteInvariant, Quoted \subseteq Nat
  PROVE  Q!QuotesComeFromThePool
<1> SUFFICES ASSUME req.pc = "answered"
    PROVE /\ Q!ShowsThePool
          /\ req.kind \in {"withdraw", "summary"} => Q!ShowsTheShares
          /\ req.kind # "overview" => Q!AmountIsTheContracts
          /\ req.kind = "withdraw" =>
               /\ req.x <= req.own /\ req.amount <= req.available
               /\ req.feeBps = IF "fee" \in req.missed THEN 0 ELSE FeeBps
               /\ \E p \in req.during : Q!Withdrawable(p, req.x)
               /\ Q!Cardinality(req.during) = 1 => \A p \in req.during : Q!AtRest(p)
  BY DEF Q!QuotesComeFromThePool
<1>1. Facts(req)
  BY DEF QuoteInvariant, Q!Nothing
<1>2. CASE "stats" \in req.missed
  BY <1>1, <1>2 DEF Facts, Finished, Q!ShowsThePool
<1>3. CASE "stats" \notin req.missed
  <2>1. req.todo = {} /\ (req.kind # "overview" => req.amount # -1)
    BY <1>1, <1>3 DEF Facts, Finished
  <2>2. Q!ShowsThePool
    <3>1. PartsRead(req) /\ ("stats" \notin req.pieces => LookedAt(req))
      BY <1>1, <1>3, <2>1 DEF Facts, Polled
    <3>2. CASE "stats" \notin req.pieces
      BY <1>3, <3>1, <3>2 DEF LookedAt, Q!ShowsThePool
    <3>3. CASE "stats" \in req.pieces
      BY <1>3, <2>1, <3>1, <3>3 DEF PartsRead, Q!ShowsThePool
    <3> QED BY <3>2, <3>3
  <2>3. req.kind \in {"withdraw", "summary"} => Q!ShowsTheShares
    BY <1>1, <2>1 DEF Facts, SharesRead, Q!ShowsTheShares
  <2>4. req.kind # "overview" => Q!AmountIsTheContracts
    BY <1>1, <2>1, AmountsAreTheContracts DEF Facts, Priced
  <2>5. ASSUME req.kind = "withdraw"
        PROVE  /\ req.x <= req.own /\ req.amount <= req.available
               /\ req.feeBps = IF "fee" \in req.missed THEN 0 ELSE FeeBps
               /\ \E p \in req.during : Q!Withdrawable(p, req.x)
    <3>1. /\ req.x <= req.own /\ req.amount <= req.available
          /\ \E p \in req.during : Q!Withdrawable(p, req.x)
      BY <1>1, <2>5 DEF Facts, Finished
    <3>2. req.feeBps = IF "fee" \in req.missed THEN 0 ELSE FeeBps
      BY <1>1, <2>1 DEF Facts, FeeRead
    <3> QED BY <3>1, <3>2
  <2>6. ASSUME req.kind = "withdraw", Q!Cardinality(req.during) = 1, NEW p \in req.during
        PROVE  Q!AtRest(p)
    BY <1>1, <1>3, <2>1, <2>5, <2>6, RestingPools
  <2> QED BY <2>2, <2>3, <2>4, <2>5, <2>6
<1> QED BY <1>2, <1>3

-----------------------------------------------------------------------------
(* Every answer of LiquidityService shows figures of the pool as it was    *)
(* while the answer was made, each group of one state unless it was read   *)
(* piece by piece, and 0 only otherwise, for what could not be read. No    *)
(* deposit is quoted shares that redeem to more than was paid or that cost *)
(* the other providers; a withdrawal is within what it shows and one the   *)
(* contract has let through, at what the contract pays if the pool was at  *)
(* rest. For any pool, amounts and fee, any number of changes of the pool, *)
(* and whatever calls fail or are missing. That the groups agree with one  *)
(* another when the pool moves is not so, and not claimed.                 *)
THEOREM QuotesAreHonest == Spec => []QuotesComeFromThePool
<1> DEFINE Inv == service = "Liquidity" => QuoteInvariant
<1>1. Quoted \subseteq Nat /\ \A p \in Pools : Sound(p)
  BY ConstantsAssumption DEF ConstantsAssumption, LiquidityConstants, Sound, PoolStates
<1>2. Init => Inv
  BY <1>1, QuoteInvariantInit DEF Init
<1>3. Inv /\ [Next]_vars => Inv'
  <2>1. [Next]_vars => /\ service' = service
                       /\ service = "Liquidity" => [Q!Next]_(Q!vars)
    BY DEF Next, vars, liquidity, Q!vars
  <2> QED BY <1>1, <2>1, QuoteInvariantNext
<1>4. Inv => QuotesComeFromThePool
  BY <1>1, QuotesAreOfThePool DEF QuotesComeFromThePool
<1> QED BY <1>2, <1>3, <1>4, PTL DEF Spec
=============================================================================
