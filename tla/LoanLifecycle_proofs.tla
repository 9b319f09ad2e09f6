------------------------ MODULE LoanLifecycle_proofs ------------------------
(***************************************************************************)
(* What the writers of loans.status owe each other, for any number of      *)
(* loans, administrators, workers and detectors and under every mishap.    *)
(***************************************************************************)
EXTENDS LoanLifecycle, TLAPS

LEMMA LoanOfType == LoanOf \in [Txs -> Loans]
  BY ConstantsAssumption
LEMMA CentsType == Amount \in [Txs -> Nat] /\ Total \in [Loans -> Nat]
  BY ConstantsAssumption
LEMMA KindType == Kind \in [Txs -> {"loan_create", "loan_repay"}]
  BY ConstantsAssumption
LEMMA BoundType == MaxOverrides \in Nat
  BY ConstantsAssumption
LEMMA NoLoanIsNone == NoLoan \notin Loans /\ NoLoan \notin Txs
  BY ConstantsAssumption

(* What an administrator may ask for: another status, never "pending".     *)
LEMMA MovesType ==
  ASSUME NEW s \in Statuses, NEW to \in VALID_LOAN_TRANSITIONS[s]
  PROVE  to \in Statuses /\ to # s /\ to # "pending"
  BY DEF VALID_LOAN_TRANSITIONS, Statuses

(* A balance that is reduced stays a natural number.                       *)
LEMMA RepaidType ==
  ASSUME NEW b \in Nat, NEW a \in Nat
  PROVE  Repaid(b, a) \in Nat
  BY DEF Repaid

-----------------------------------------------------------------------------
(* Types.                                                                  *)

RequestType ==
  [pc : {"idle", "apply", "audit"}, n : 0 .. MaxOverrides,
   loan : Loans \cup {NoLoan}, from : Statuses, to : Statuses]
FollowUpType ==
  [pc : {"idle", "write"}, tx : Txs \cup {NoLoan}, seen : Statuses, left : Nat]
RunType ==
  [pc : {"idle", "select", "mark", "chain"}, todo : SUBSET Loans,
   cur : Loans \cup {NoLoan}]

LoanTypes ==
  /\ status \in [Loans -> Statuses]
  /\ balance \in [Loans -> Nat]
  /\ overdue \subseteq Loans
  /\ paid \in [Loans -> Nat]
AdminTypes ==
  /\ admin \in [Admins -> RequestType]
  /\ begun \in 0 .. MaxOverrides
  /\ audits \subseteq [n : 1 .. MaxOverrides, loan : Loans,
                       from : Statuses, to : Statuses]
  /\ applied \subseteq [n : 1 .. MaxOverrides, loan : Loans, from : Statuses,
                        to : Statuses, was : Statuses]
  /\ overtaken \subseteq 1 .. MaxOverrides
FollowUpTypes ==
  /\ followUp \in [Txs -> {"none", "ready", "taken"}]
  /\ chk \in [Workers -> FollowUpType]
DetectorTypes ==
  /\ claimed \in BOOLEAN
  /\ det \in [Detectors -> RunType]

LEMMA TypesOK ==
  /\ TypeOK <=> LoanTypes /\ AdminTypes /\ FollowUpTypes /\ DetectorTypes
                /\ regime \in Regimes
  /\ TypeOK' <=> LoanTypes' /\ AdminTypes' /\ FollowUpTypes' /\ DetectorTypes'
                 /\ regime' \in Regimes
  BY DEF TypeOK, LoanTypes, AdminTypes, FollowUpTypes, DetectorTypes,
         RequestType, FollowUpType, RunType

(* A request that is under way has a loan, a valid target and a number; a  *)
(* follow-up a transaction.  The types rest on it: what is recorded and    *)
(* written comes from there.                                               *)
Requests ==
  \A a \in Admins : admin[a].pc # "idle" =>
    /\ admin[a].n \in 1 .. begun
    /\ admin[a].loan \in Loans
    /\ admin[a].to \in VALID_LOAN_TRANSITIONS[admin[a].from]
FollowUps == \A w \in Workers : chk[w].pc # "idle" => chk[w].tx \in Txs
TInv == TypeOK /\ Requests /\ FollowUps

LEMMA Untouched ==
  /\ LoanTypes /\ UNCHANGED <<status, balance, overdue, paid>> => LoanTypes'
  /\ AdminTypes /\ UNCHANGED <<admin, begun, audits, applied, overtaken>> => AdminTypes'
  /\ FollowUpTypes /\ UNCHANGED <<followUp, chk>> => FollowUpTypes'
  /\ DetectorTypes /\ UNCHANGED <<claimed, det>> => DetectorTypes'
  /\ Requests /\ UNCHANGED <<admin, begun>> => Requests'
  /\ FollowUps /\ UNCHANGED chk => FollowUps'
  BY DEF LoanTypes, AdminTypes, FollowUpTypes, DetectorTypes, Requests, FollowUps

LEMMA IdleTypes ==
  Idle \in RequestType /\ Rest \in FollowUpType /\ Asleep \in RunType
  BY BoundType DEF Idle, Rest, Asleep, RequestType, FollowUpType, RunType, Statuses

LEMMA SetStatusType ==
  ASSUME LoanTypes, AdminTypes, Requests,
         NEW l \in Loans, NEW to \in Statuses, NEW own, SetStatus(l, to, own)
  PROVE  /\ status' \in [Loans -> Statuses]
         /\ overtaken' \subseteq 1 .. MaxOverrides
<1>1. begun \in 0 .. MaxOverrides /\ \A a \in Admins : admin[a].pc = "apply" =>
        admin[a].n \in 1 .. begun
  BY DEF AdminTypes, Requests
<1>2. Waiting(l) \subseteq 1 .. MaxOverrides
  BY <1>1, BoundType DEF Waiting
<1> QED BY <1>2 DEF LoanTypes, AdminTypes, SetStatus

LEMMA InitType == Init => TInv
<1> SUFFICES ASSUME Init PROVE TInv
  OBVIOUS
<1>1. LoanTypes
  BY CentsType DEF Init, LoanTypes, Statuses
<1>2. AdminTypes
  BY IdleTypes, BoundType DEF Init, AdminTypes
<1>3. FollowUpTypes /\ DetectorTypes
  BY IdleTypes DEF Init, FollowUpTypes, DetectorTypes
<1>4. Requests /\ FollowUps
  BY DEF Init, Requests, FollowUps, Idle, Rest
<1> QED BY <1>1, <1>2, <1>3, <1>4, TypesOK DEF TInv, Init

LEMMA WorldType ==
  ASSUME TInv, World
  PROVE  TInv'
<1> USE TypesOK DEF TInv, loanVars, adminVars, detVars, history
<1>1. ASSUME NEW t \in Txs, Confirm(t)
      PROVE  TInv'
  <2>1. FollowUpTypes'
    BY <1>1 DEF Confirm, FollowUpTypes
  <2> QED BY <1>1, <2>1, Untouched DEF Confirm
<1>2. ASSUME NEW l \in Loans, FallOverdue(l)
      PROVE  TInv'
  <2>1. LoanTypes'
    BY <1>2 DEF FallOverdue, LoanTypes
  <2> QED BY <1>2, <2>1, Untouched DEF FallOverdue
<1>3. CASE NewDay
  <2>1. DetectorTypes'
    BY <1>3 DEF NewDay, DetectorTypes
  <2> QED BY <1>3, <2>1, Untouched DEF NewDay
<1> QED BY <1>1, <1>2, <1>3 DEF World

LEMMA OverrideType ==
  ASSUME TInv, NEW a \in Admins, Override(a)
  PROVE  TInv'
<1> USE TypesOK DEF TInv, loanVars, adminVars, detVars, history
<1>1. admin \in [Admins -> RequestType] /\ admin[a] \in RequestType
  BY DEF AdminTypes
<1>2. ASSUME NEW l \in Loans, NEW to \in Statuses, AdminRead(a, l, to)
      PROVE  TInv'
  <2> DEFINE r == [pc |-> "apply", n |-> begun + 1, loan |-> l,
                   from |-> status[l], to |-> to]
  <2>1. begun + 1 \in 1 .. MaxOverrides /\ begun' = begun + 1 /\ begun \in Nat
    BY <1>2, BoundType DEF AdminRead, AdminTypes
  <2>2. r \in RequestType /\ admin' = [admin EXCEPT ![a] = r]
    BY <1>2, <2>1 DEF AdminRead, LoanTypes, RequestType
  <2>3. AdminTypes'
    BY <1>1, <1>2, <2>1, <2>2 DEF AdminRead, AdminTypes
  <2>4. Requests'
    <3>1. /\ r.n \in 1 .. begun' /\ r.loan \in Loans
          /\ r.to \in VALID_LOAN_TRANSITIONS[r.from]
      BY <1>2, <2>1 DEF AdminRead, Targets
    <3>2. \A x : x \in 1 .. begun => x \in 1 .. begun'
      BY <2>1
    <3> QED BY <1>1, <2>2, <3>1, <3>2 DEF Requests
  <2> QED BY <1>2, <2>3, <2>4, Untouched DEF AdminRead
<1>3. ASSUME AdminApply(a)
      PROVE  TInv'
  <2>1. /\ admin[a].n \in 1 .. MaxOverrides /\ admin[a].loan \in Loans
        /\ admin[a].to \in Statuses /\ admin[a].from \in Statuses
    BY <1>1, <1>3 DEF AdminApply, Requests, AdminTypes, RequestType
  <2>2. LoanTypes'
    BY <1>3, <2>1, SetStatusType DEF AdminApply, LoanTypes
  <2>3. [admin[a] EXCEPT !.pc = "audit"] \in RequestType
    BY <1>1 DEF RequestType
  <2>4. AdminTypes'
    <3>1. admin' \in [Admins -> RequestType]
      BY <1>1, <1>3, <2>3 DEF AdminApply, AfterApply
    <3>2. status[admin[a].loan] \in Statuses
      BY <2>1 DEF LoanTypes
    <3>3. overtaken' \subseteq 1 .. MaxOverrides
      BY <1>3, <2>1, SetStatusType DEF AdminApply
    <3> QED BY <1>3, <2>1, <3>1, <3>2, <3>3 DEF AdminApply, AdminTypes
  <2>5. Requests'
    BY <1>1, <1>3 DEF AdminApply, AfterApply, Requests, RequestType
  <2> QED BY <1>3, <2>2, <2>4, <2>5, Untouched DEF AdminApply
<1>5. CASE AdminAudit(a)
  <2>1. [n |-> admin[a].n, loan |-> admin[a].loan, from |-> admin[a].from,
         to |-> admin[a].to]
        \in [n : 1 .. MaxOverrides, loan : Loans, from : Statuses, to : Statuses]
    BY <1>1, <1>5 DEF AdminAudit, Requests, AdminTypes, RequestType
  <2>2. AdminTypes'
    BY <1>1, <1>5, <2>1, IdleTypes DEF AdminAudit, AdminTypes
  <2>3. Requests'
    BY <1>1, <1>5 DEF AdminAudit, Requests, Idle
  <2> QED BY <1>5, <2>2, <2>3, Untouched DEF AdminAudit
<1>6. CASE AdminAborts(a)
  <2>1. AdminTypes'
    BY <1>1, <1>6, IdleTypes DEF AdminAborts, AdminTypes
  <2>2. Requests'
    BY <1>1, <1>6 DEF AdminAborts, Requests, Idle
  <2> QED BY <1>6, <2>1, <2>2, Untouched DEF AdminAborts
<1> QED BY <1>2, <1>3, <1>5, <1>6 DEF Override

(* What a worker holds once it has taken a follow-up.                      *)
Taken(t, s, n) ==
  [Rest EXCEPT !.pc = "write", !.tx = t, !.seen = s, !.left = n]

LEMMA TakenType ==
  ASSUME NEW t \in Txs, NEW s \in Statuses, NEW n \in Nat
  PROVE  /\ Taken(t, s, n) \in FollowUpType
         /\ Taken(t, s, n).pc = "write"
         /\ Taken(t, s, n).tx = t
         /\ Taken(t, s, n).seen = s
         /\ Taken(t, s, n).left = n
<1> DEFINE r1 == [Rest EXCEPT !.pc = "write"]
           r2 == [r1 EXCEPT !.tx = t]
           r3 == [r2 EXCEPT !.seen = s]
           r4 == [r3 EXCEPT !.left = n]
<1>1. r1 \in FollowUpType /\ r1.pc = "write"
  BY IdleTypes DEF FollowUpType
<1>2. r2 \in FollowUpType /\ r2.pc = "write" /\ r2.tx = t
  BY <1>1 DEF FollowUpType
<1>3. r3 \in FollowUpType /\ r3.pc = "write" /\ r3.tx = t /\ r3.seen = s
  BY <1>2 DEF FollowUpType
<1>4. r4 \in FollowUpType /\ r4.pc = "write" /\ r4.tx = t /\ r4.seen = s
      /\ r4.left = n
  BY <1>3 DEF FollowUpType
<1>5. Taken(t, s, n) = r4
  BY DEF Taken, Rest
<1> QED BY <1>4, <1>5

LEMMA CheckerType ==
  ASSUME TInv, NEW w \in Workers, FollowUp(w)
  PROVE  TInv'
<1> USE TypesOK DEF TInv, loanVars, adminVars, detVars, history
<1>1. chk \in [Workers -> FollowUpType] /\ chk[w] \in FollowUpType
  BY DEF FollowUpTypes
<1>2. chk[w].pc # "idle" => chk[w].tx \in Txs /\ LoanOf[chk[w].tx] \in Loans
  BY LoanOfType DEF FollowUps
<1>3. ASSUME NEW t \in Txs, TakeFollowUp(w, t)
      PROVE  TInv'
  <2> DEFINE l == LoanOf[t]
             r == Taken(t, status[l], Repaid(balance[l], Amount[t]))
  <2>1. Repaid(balance[l], Amount[t]) \in Nat /\ status[l] \in Statuses
    BY RepaidType, LoanOfType, CentsType DEF LoanTypes
  <2>2. r \in FollowUpType /\ r.tx = t
    BY <2>1, TakenType
  <2>3. chk' = chk \/ chk' = [chk EXCEPT ![w] = r]
    BY <1>3 DEF TakeFollowUp, Taken
  <2>4. FollowUps'
    BY <1>1, <2>2, <2>3 DEF FollowUps
  <2>5. FollowUpTypes'
    BY <1>1, <1>3, <2>2, <2>3 DEF TakeFollowUp, FollowUpTypes
  <2> QED BY <1>3, <2>4, <2>5, Untouched DEF TakeFollowUp
<1>4. CASE Activate(w)
  <2>1. LoanTypes' /\ AdminTypes'
    BY <1>2, <1>4, SetStatusType DEF Activate, LoanTypes, AdminTypes, Statuses
  <2>2. FollowUpTypes' /\ FollowUps'
    BY <1>1, <1>4, IdleTypes DEF Activate, FollowUpTypes, FollowUps, Rest
  <2> QED BY <1>4, <2>1, <2>2, Untouched DEF Activate
<1>5. CASE ApplyLoanRepayment(w)
  <2> DEFINE t == chk[w].tx
             l == LoanOf[t]
  <2>1. t \in Txs /\ l \in Loans /\ chk[w].left \in Nat /\ Amount[t] \in Nat
    BY <1>1, <1>2, <1>5, CentsType DEF ApplyLoanRepayment, FollowUpType
  <2>2. /\ status' \in [Loans -> Statuses]
        /\ overtaken' \subseteq 1 .. MaxOverrides
    BY <1>5, <2>1, SetStatusType DEF ApplyLoanRepayment, LoanTypes, Statuses
  <2>3. LoanTypes'
    <3>1. balance' \in [Loans -> Nat]
      BY <1>5, <2>1 DEF ApplyLoanRepayment, LoanTypes
    <3>2. paid' \in [Loans -> Nat]
      BY <1>5, <2>1 DEF ApplyLoanRepayment, LoanTypes
    <3> QED BY <1>5, <2>2, <3>1, <3>2 DEF ApplyLoanRepayment, LoanTypes
  <2>4. AdminTypes'
    BY <1>5, <2>2 DEF ApplyLoanRepayment, AdminTypes
  <2>5. FollowUpTypes' /\ FollowUps'
    BY <1>1, <1>5, IdleTypes DEF ApplyLoanRepayment, FollowUpTypes, FollowUps, Rest
  <2> QED BY <1>5, <2>3, <2>4, <2>5, Untouched DEF ApplyLoanRepayment
<1>8. CASE FollowUpFails(w)
  <2>1. FollowUpTypes' /\ FollowUps'
    BY <1>1, <1>8, IdleTypes DEF FollowUpFails, FollowUpTypes, FollowUps, Rest
  <2> QED BY <1>8, <2>1, Untouched DEF FollowUpFails
<1> QED BY <1>3, <1>4, <1>5, <1>8 DEF FollowUp

LEMMA DetectionType ==
  ASSUME TInv, NEW d \in Detectors, Detection(d)
  PROVE  TInv'
<1> USE TypesOK DEF TInv, loanVars, adminVars, detVars, history
<1>1. det \in [Detectors -> RunType] /\ det[d] \in RunType
  BY DEF DetectorTypes
<1>2. ASSUME NEW r \in RunType, det' = [det EXCEPT ![d] = r], claimed' \in BOOLEAN
      PROVE  DetectorTypes'
  BY <1>1, <1>2 DEF DetectorTypes
<1>3. ASSUME NEW to, NEW S \in SUBSET Loans, NEW l \in Loans \cup {NoLoan},
             to \in {"select", "mark", "chain"}
      PROVE  [pc |-> to, todo |-> S, cur |-> l] \in RunType
  BY <1>3 DEF RunType
<1>4. ASSUME UNCHANGED <<regime, balance, overdue, followUp, adminVars, chk, applied, paid>>,
             DetectorTypes', status' \in [Loans -> Statuses],
             overtaken' \subseteq 1 .. MaxOverrides
      PROVE  TInv'
  <2>1. LoanTypes' /\ AdminTypes'
    BY <1>4 DEF LoanTypes, AdminTypes
  <2> QED BY <1>4, <2>1, Untouched
<1>5. /\ status \in [Loans -> Statuses] /\ claimed \in BOOLEAN
      /\ overtaken \subseteq 1 .. MaxOverrides
  BY DEF LoanTypes, DetectorTypes, AdminTypes
<1>6. CASE ClaimRun(d)
  <2>1. [det[d] EXCEPT !.pc = "select"] \in RunType
    BY <1>1 DEF RunType
  <2>2. DetectorTypes'
    BY <1>1, <1>6, <2>1 DEF ClaimRun, DetectorTypes
  <2> QED BY <1>4, <1>5, <1>6, <2>2 DEF ClaimRun
<1>7. CASE SelectOverdue(d)
  <2>1. OverdueLoans \subseteq Loans
    BY DEF OverdueLoans, LoanTypes
  <2>2. [[det[d] EXCEPT !.pc = "mark"] EXCEPT !.todo = OverdueLoans] \in RunType
    BY <1>1, <2>1 DEF RunType
  <2>3. det' = [det EXCEPT ![d] =
                 [[det[d] EXCEPT !.pc = "mark"] EXCEPT !.todo = OverdueLoans]]
    BY <1>1, <1>7 DEF SelectOverdue, RunType
  <2>4. DetectorTypes'
    BY <1>2, <1>5, <1>7, <2>2, <2>3 DEF SelectOverdue
  <2> QED BY <1>4, <1>5, <1>7, <2>4 DEF SelectOverdue
<1>8. ASSUME NEW l \in Loans, MarkDefaulted(d, l)
      PROVE  TInv'
  <2> DEFINE r == [pc |-> "chain", todo |-> det[d].todo \ {l}, cur |-> l]
  <2>1. r \in RunType
    BY <1>1 DEF RunType
  <2>2. det' = [det EXCEPT ![d] = r]
    BY <1>1, <1>8 DEF MarkDefaulted, RunType
  <2>3. DetectorTypes'
    BY <1>2, <1>5, <1>8, <2>1, <2>2 DEF MarkDefaulted
  <2>4. /\ status' \in [Loans -> Statuses]
        /\ overtaken' \subseteq 1 .. MaxOverrides
    BY <1>8, SetStatusType DEF MarkDefaulted, LoanTypes, Statuses
  <2> QED BY <1>4, <1>8, <2>3, <2>4 DEF MarkDefaulted
<1>9. ASSUME NEW l \in Loans, MarkFails(d, l)
      PROVE  TInv'
  <2>1. [det[d] EXCEPT !.todo = @ \ {l}] \in RunType
    BY <1>1 DEF RunType
  <2>2. DetectorTypes'
    BY <1>1, <1>5, <1>9, <2>1 DEF MarkFails, DetectorTypes
  <2> QED BY <1>4, <1>5, <1>9, <2>2 DEF MarkFails
<1>10. CASE MarkDefaultOnChain(d)
  <2> DEFINE r == [[det[d] EXCEPT !.pc = "mark"] EXCEPT !.cur = NoLoan]
  <2>1. r \in RunType
    BY <1>1 DEF RunType
  <2>2. det' = [det EXCEPT ![d] = r]
    BY <1>1, <1>10 DEF MarkDefaultOnChain, RunType
  <2>3. DetectorTypes'
    BY <1>2, <1>5, <1>10, <2>1, <2>2 DEF MarkDefaultOnChain
  <2> QED BY <1>4, <1>5, <1>10, <2>3 DEF MarkDefaultOnChain
<1>11. CASE FinishRun(d) \/ RunAborts(d)
  <2>1. DetectorTypes'
    BY <1>2, <1>5, <1>11, IdleTypes DEF FinishRun, RunAborts
  <2> QED BY <1>4, <1>5, <1>11, <2>1 DEF FinishRun, RunAborts
<1> QED BY <1>6, <1>7, <1>8, <1>9, <1>10, <1>11 DEF Detection

LEMMA TypeNext == TInv /\ [Next]_vars => TInv'
<1> SUFFICES ASSUME TInv, [Next]_vars
             PROVE  TInv'
  OBVIOUS
<1>1. CASE UNCHANGED vars
  BY <1>1, Untouched, TypesOK DEF vars, TInv, loanVars, adminVars, detVars, history
<1> QED BY <1>1, WorldType, OverrideType, CheckerType, DetectionType DEF Next

(* Types: for any constants, every row, request, follow-up and run is one  *)
(* the code knows.                                                         *)
THEOREM TypeCorrect == Spec => []TypeOK
<1>1. TInv => TypeOK
  BY DEF TInv
<1> QED BY InitType, TypeNext, <1>1, PTL DEF Spec

-----------------------------------------------------------------------------
(* Who writes loans.status.                                                *)

LEMMA RegimeKept ==
  ASSUME [Next]_vars
  PROVE  UNCHANGED regime
BY DEF Next, vars, World, Override, FollowUp, Detection, Confirm, FallOverdue, NewDay,
   AdminRead, AdminApply, AdminAudit, AdminAborts, TakeFollowUp,
   Activate, ApplyLoanRepayment, FollowUpFails,
   ClaimRun, SelectOverdue, MarkDefaulted, MarkFails, MarkDefaultOnChain, FinishRun,
   RunAborts

LEMMA StatusWriters ==
  ASSUME [Next]_vars
  PROVE  \/ UNCHANGED <<status, balance>>
         \/ \E a \in Admins : AdminApply(a)
         \/ \E w \in Workers : Activate(w) \/ ApplyLoanRepayment(w)
         \/ \E d \in Detectors, l \in Loans : MarkDefaulted(d, l)
<1> USE DEF loanVars
<1>1. World => UNCHANGED <<status, balance>>
  BY DEF World, Confirm, FallOverdue, NewDay
<1>2. ASSUME NEW a \in Admins, Override(a)
      PROVE  AdminApply(a) \/ UNCHANGED <<status, balance>>
  BY <1>2 DEF Override, AdminRead, AdminAudit, AdminAborts
<1>3. ASSUME NEW w \in Workers, FollowUp(w)
      PROVE  Activate(w) \/ ApplyLoanRepayment(w) \/ UNCHANGED <<status, balance>>
  BY <1>3 DEF FollowUp, TakeFollowUp, FollowUpFails
<1>4. ASSUME NEW d \in Detectors, Detection(d)
      PROVE  \/ \E l \in Loans : MarkDefaulted(d, l)
             \/ UNCHANGED <<status, balance>>
  BY <1>4 DEF Detection, ClaimRun, SelectOverdue, MarkFails, MarkDefaultOnChain,
     FinishRun, RunAborts
<1>5. CASE UNCHANGED vars
  BY <1>5 DEF vars
<1> QED BY <1>1, <1>2, <1>3, <1>4, <1>5 DEF Next

(* What each of them does to the status of a loan.                         *)
LEMMA ActivateStep ==
  ASSUME TInv, NEW w \in Workers, Activate(w)
  PROVE  \E l \in Loans :
           \/ status' = status
           \/ status[l] = "pending" /\ status' = [status EXCEPT ![l] = "active"]
<1>1. LoanOf[chk[w].tx] \in Loans
  BY LoanOfType DEF Activate, TInv, FollowUps
<1>2. status \in [Loans -> Statuses]
  BY DEF TInv, TypeOK
<1> QED BY <1>1, <1>2 DEF Activate, SetStatus, StillPending

LEMMA RepaymentStep ==
  ASSUME TInv, NEW w \in Workers, ApplyLoanRepayment(w)
  PROVE  \E l \in Loans :
           \/ status' = status
           \/ status' = [status EXCEPT ![l] = "completed"] /\ Clears(w, l)
<1> DEFINE m == LoanOf[chk[w].tx]
<1>1. m \in Loans /\ Kind[chk[w].tx] = "loan_repay"
  BY LoanOfType DEF ApplyLoanRepayment, TInv, FollowUps
<1>2. status \in [Loans -> Statuses] /\ balance \in [Loans -> Nat]
  BY DEF TInv, TypeOK
<1>3. chk \in [Workers -> FollowUpType]
  BY TypesOK DEF TInv, FollowUpTypes
<1>4. chk[w].pc = "write" /\ chk'[w].pc = "idle"
  BY <1>3 DEF ApplyLoanRepayment, Rest
<1>5. CASE Completes(w)
  <2>1. status' = [status EXCEPT ![m] = "completed"]
    BY <1>5 DEF ApplyLoanRepayment, SetStatus
  <2>2. balance'[m] = 0
    BY <1>1, <1>2, <1>5 DEF ApplyLoanRepayment, Completes
  <2>3. status'[m] = "completed"
    BY <1>1, <1>2, <2>1
  <2> QED BY <1>1, <1>4, <1>5, <2>1, <2>2, <2>3 DEF Clears
<1>6. CASE ~Completes(w)
  BY <1>1, <1>2, <1>6 DEF ApplyLoanRepayment, SetStatus
<1> QED BY <1>5, <1>6

LEMMA MarkStep ==
  ASSUME TInv, NEW d \in Detectors, NEW l \in Loans, MarkDefaulted(d, l)
  PROVE  \/ status' = status
         \/ status[l] = "active" /\ status' = [status EXCEPT ![l] = "defaulted"]
<1>1. status \in [Loans -> Statuses]
  BY DEF TInv, TypeOK
<1> QED BY <1>1 DEF MarkDefaulted, SetStatus, StillActive

LEMMA ApplyStep ==
  ASSUME TInv, NEW a \in Admins, AdminApply(a)
  PROVE  /\ admin[a].loan \in Loans /\ admin[a].to \in Statuses
         /\ status' = [status EXCEPT ![admin[a].loan] = admin[a].to]
         /\ admin[a].pc = "apply" /\ admin'[a].pc = "audit"
         /\ SetStatus(admin[a].loan, admin[a].to, {admin[a].n})
<1>1. admin \in [Admins -> RequestType] /\ admin[a] \in RequestType
  BY TypesOK DEF TInv, AdminTypes
<1>2. admin[a].loan \in Loans /\ admin[a].to \in Statuses
  BY <1>1 DEF AdminApply, TInv, Requests, RequestType
<1> QED BY <1>1, <1>2 DEF AdminApply, SetStatus, AfterApply, RequestType

LEMMA WritersConditional ==
  ASSUME TInv, [Next]_vars, NEW l \in Loans, status'[l] # status[l]
  PROVE  \/ <<status[l], status'[l]>> \in
              {<<"pending", "active">>, <<"active", "defaulted">>}
         \/ \E w \in Workers : Clears(w, l)
         \/ \E a \in Admins : Overrides(a, l)
<1>1. status \in [Loans -> Statuses]
  BY DEF TInv, TypeOK
<1>2. ASSUME NEW a \in Admins, AdminApply(a)
      PROVE  Overrides(a, l)
  <2>1. /\ admin[a].loan \in Loans /\ admin[a].to \in Statuses
        /\ status' = [status EXCEPT ![admin[a].loan] = admin[a].to]
        /\ admin[a].pc = "apply" /\ admin'[a].pc = "audit"
    BY <1>2, ApplyStep
  <2>2. admin[a].loan = l
    BY <1>1, <2>1
  <2> QED BY <1>1, <2>1, <2>2 DEF Overrides
<1>3. ASSUME NEW w \in Workers, Activate(w)
      PROVE  <<status[l], status'[l]>> = <<"pending", "active">>
  BY <1>1, <1>3, ActivateStep
<1>4. ASSUME NEW w \in Workers, ApplyLoanRepayment(w)
      PROVE  Clears(w, l)
  <2>1. PICK m \in Loans :
          \/ status' = status
          \/ status' = [status EXCEPT ![m] = "completed"] /\ Clears(w, m)
    BY <1>4, RepaymentStep
  <2>2. m = l
    BY <1>1, <2>1
  <2> QED BY <2>1, <2>2
<1>5. ASSUME NEW d \in Detectors, NEW k \in Loans, MarkDefaulted(d, k)
      PROVE  <<status[l], status'[l]>> = <<"active", "defaulted">>
  BY <1>1, <1>5, MarkStep
<1> QED BY <1>2, <1>3, <1>4, <1>5, StatusWriters

(* The activation and the detector write conditionally, however long ago   *)
(* they read the loan; every other change of a status is that of a         *)
(* repayment which clears the balance or of an administrator (updateStatus *)
(* with its expected status, the detector's update, applyLoanRepayment,    *)
(* applyLoanOverride).                                                     *)
THEOREM WritesAreConditional == Spec => JobsNeverClobber
<1>1. TInv /\ [Next]_vars =>
        [\A l \in Loans : status'[l] # status[l] =>
           \/ <<status[l], status'[l]>> \in
                {<<"pending", "active">>, <<"active", "defaulted">>}
           \/ \E w \in Workers : Clears(w, l)
           \/ \E a \in Admins : Overrides(a, l)]_vars
  BY WritersConditional
<1> QED BY InitType, TypeNext, <1>1, PTL DEF Spec, JobsNeverClobber

-----------------------------------------------------------------------------
(* The loan's machine.                                                     *)

(* Without administrators nothing is cancelled and nothing overridden.     *)
Undirected ==
  "override" \notin regime =>
    /\ \A a \in Admins : admin[a].pc = "idle"
    /\ \A l \in Loans : status[l] # "cancelled"

MInv == TInv /\ Undirected

LEMMA MInvInit == Init => MInv
<1>1. Init => Undirected
  BY DEF Init, Undirected, Idle
<1> QED BY <1>1, InitType DEF MInv

LEMMA NobodyOverrides ==
  ASSUME MInv, [Next]_vars, "override" \notin regime
  PROVE  (\A a \in Admins : ~Override(a)) /\ UNCHANGED admin
<1>1. ASSUME NEW a \in Admins, Override(a)
      PROVE  FALSE
  BY <1>1 DEF MInv, Undirected, Override, AdminRead, AdminApply,
     AdminAudit, AdminAborts
<1>2. UNCHANGED admin
  BY <1>1 DEF Next, vars, adminVars, World, FollowUp, Detection, Confirm, FallOverdue,
     NewDay, TakeFollowUp, Activate, ApplyLoanRepayment,
     FollowUpFails, ClaimRun, SelectOverdue, MarkDefaulted, MarkFails,
     MarkDefaultOnChain, FinishRun, RunAborts
<1> QED BY <1>1, <1>2

LEMMA MInvNext == MInv /\ [Next]_vars => MInv'
<1> SUFFICES ASSUME MInv, [Next]_vars, "override" \notin regime
             PROVE  Undirected'
  BY TypeNext, RegimeKept DEF MInv, Undirected
<1>1. status \in [Loans -> Statuses] /\ TInv
  BY DEF MInv, TInv, TypeOK
<1>2. \A l \in Loans : status[l] # "cancelled"
  BY DEF MInv, Undirected
<1>3. \A a \in Admins : admin'[a].pc = "idle"
  BY NobodyOverrides DEF MInv, Undirected
<1>4. \A l \in Loans : status'[l] # "cancelled"
  <2>1. CASE UNCHANGED status
    BY <1>2, <2>1
  <2>2. ASSUME NEW a \in Admins, AdminApply(a)
        PROVE  FALSE
    BY <2>2, NobodyOverrides DEF Override
  <2>3. ASSUME NEW w \in Workers, Activate(w) \/ ApplyLoanRepayment(w)
        PROVE  \A l \in Loans : status'[l] # "cancelled"
    BY <1>1, <1>2, <2>3, ActivateStep, RepaymentStep
  <2>4. ASSUME NEW d \in Detectors, NEW k \in Loans, MarkDefaulted(d, k)
        PROVE  \A l \in Loans : status'[l] # "cancelled"
    BY <1>1, <1>2, <2>4, MarkStep
  <2> QED BY <2>1, <2>2, <2>3, <2>4, StatusWriters
<1> QED BY <1>3, <1>4 DEF Undirected

(* Where a job or a repayment takes a loan, the machine can go.            *)
LEMMA MachineMoves ==
  /\ "active" \in Machine!VALID_LOAN_TRANSITIONS["pending"]
  /\ "defaulted" \in Machine!VALID_LOAN_TRANSITIONS["active"]
  /\ \A s \in Statuses \ {"completed", "cancelled"} :
       "completed" \in Machine!VALID_LOAN_TRANSITIONS[s]
  BY DEF Machine!VALID_LOAN_TRANSITIONS, Machine!Statuses, Statuses

LEMMA MachineStep ==
  ASSUME MInv, [Next]_vars
  PROVE  [Machine!Next]_Unaided
<1>1. CASE "override" \in regime
  BY <1>1, RegimeKept DEF Unaided
<1>2. CASE "override" \notin regime
  <2>1. Unaided = status /\ Unaided' = status'
    BY <1>2, RegimeKept DEF Unaided
  <2>2. /\ status \in [Loans -> Statuses] /\ TInv
        /\ \A l \in Loans : status[l] # "cancelled"
    BY <1>2 DEF MInv, TInv, TypeOK, Undirected
  <2>3. ASSUME NEW l \in Loans, NEW to \in Statuses,
               status' = [status EXCEPT ![l] = to],
               to \in Machine!VALID_LOAN_TRANSITIONS[status[l]]
        PROVE  Machine!Next
    BY <2>1, <2>3 DEF Machine!Next, Machine!Move
  <2>4. ASSUME NEW a \in Admins, AdminApply(a)
        PROVE  FALSE
    BY <1>2, <2>4, NobodyOverrides DEF Override
  <2>5. ASSUME NEW w \in Workers, Activate(w)
        PROVE  [Machine!Next]_Unaided
    BY <2>1, <2>2, <2>3, <2>5, ActivateStep, MachineMoves DEF Statuses
  <2>6. ASSUME NEW w \in Workers, ApplyLoanRepayment(w)
        PROVE  [Machine!Next]_Unaided
    <3>1. PICK l \in Loans : status' = status
                             \/ status' = [status EXCEPT ![l] = "completed"]
      BY <2>2, <2>6, RepaymentStep
    <3>2. CASE status[l] = "completed"
      BY <2>1, <2>2, <3>1, <3>2
    <3>3. CASE status[l] # "completed"
      BY <2>1, <2>2, <2>3, <3>1, <3>3, MachineMoves DEF Statuses
    <3> QED BY <3>2, <3>3
  <2>7. ASSUME NEW d \in Detectors, NEW l \in Loans, MarkDefaulted(d, l)
        PROVE  [Machine!Next]_Unaided
    BY <2>1, <2>2, <2>3, <2>7, MarkStep, MachineMoves DEF Statuses
  <2> QED BY <2>1, <2>4, <2>5, <2>6, <2>7, StatusWriters
<1> QED BY <1>1, <1>2

(* While no administrator intervenes, the checker and the detector drive a *)
(* loan through the transitions of AdminService, in whatever order their   *)
(* calls come: every step is one of LoanMachine's or leaves it where it is.*)
THEOREM ImplementsMachine == Spec => FollowsMachine
<1>1. Init => Machine!Init
  BY DEF Init, Machine!Init, Unaided
<1>2. MInv /\ [Next]_vars => [Machine!Next]_Unaided
  BY MachineStep
<1> QED BY MInvInit, MInvNext, <1>1, <1>2, PTL DEF Spec, FollowsMachine, Machine!Spec

-----------------------------------------------------------------------------
(* The audit trail.                                                        *)

(* Numbers are handed out in order: requests under way have one each, and  *)
(* none that is in the audit trail already.                                *)
Numbered ==
  /\ \A y \in applied : y.n <= begun
  /\ \A x \in audits : x.n <= begun
  /\ \A a, b \in Admins :
       admin[a].pc # "idle" /\ admin[b].pc # "idle" /\ a # b
       => admin[a].n # admin[b].n
  /\ \A a \in Admins : admin[a].pc # "idle" => \A x \in audits : x.n # admin[a].n

(* A request that is past the update has written what it will record.      *)
Faithful(y) == y.was = y.from \/ y.n \in overtaken
Records(y, r) == y.n = r.n /\ y.loan = r.loan /\ y.from = r.from /\ y.to = r.to
Written ==
  \A a \in Admins : admin[a].pc = "audit" =>
    \E y \in applied : Records(y, admin[a]) /\ Faithful(y)

Trail ==
  /\ \A x \in audits :
       /\ x.to \in VALID_LOAN_TRANSITIONS[x.from]
       /\ \E y \in applied : Records(y, x) /\ Faithful(y)
  /\ \A x, z \in audits : z.n = x.n => z = x

OnItsWay(y) == \E a \in Admins : admin[a].n = y.n /\ admin[a].pc = "audit"
Complete ==
  regime \cap {"db", "crash"} = {} =>
    \A y \in applied : (\E x \in audits : x.n = y.n) \/ OnItsWay(y)

(* A request that has not written yet knows the loan's status, or was      *)
(* overtaken.                                                              *)
Noticed ==
  \A a \in Admins : admin[a].pc = "apply" =>
    status[admin[a].loan] = admin[a].from \/ admin[a].n \in overtaken

AInv == TInv /\ Numbered /\ Noticed /\ Written /\ Trail /\ Complete

LEMMA TrailIsAudited ==
  ASSUME Trail, Complete
  PROVE  AuditMatchesOverrides
  BY DEF Trail, Complete, Records, Faithful, OnItsWay, AuditMatchesOverrides

LEMMA AInvInit == Init => AInv
<1> SUFFICES ASSUME Init PROVE Numbered /\ Noticed /\ Written /\ Trail /\ Complete
  BY InitType DEF AInv
<1> QED BY DEF Init, Numbered, Noticed, Written, Trail, Complete, Idle

(* Only administrators' requests touch what this is about.                 *)
LEMMA AuditFrame ==
  ASSUME [Next]_vars
  PROVE  (\E a \in Admins : Override(a)) \/ UNCHANGED <<adminVars, applied>>
<1> USE DEF adminVars, history
<1>1. World => UNCHANGED <<adminVars, applied>>
  BY DEF World, Confirm, FallOverdue, NewDay
<1>2. ASSUME NEW w \in Workers, FollowUp(w)
      PROVE  UNCHANGED <<adminVars, applied>>
  BY <1>2 DEF FollowUp, TakeFollowUp, Activate,
     ApplyLoanRepayment, FollowUpFails
<1>3. ASSUME NEW d \in Detectors, Detection(d)
      PROVE  UNCHANGED <<adminVars, applied>>
  BY <1>3 DEF Detection, ClaimRun, SelectOverdue, MarkDefaulted, MarkFails,
     MarkDefaultOnChain, FinishRun, RunAborts
<1> QED BY <1>1, <1>2, <1>3 DEF Next, vars

(* An administrator's steps, by what they do to the request, the overrides *)
(* and the trail; other requests stay as they are.                         *)
Reads(a) ==
  /\ admin[a].pc = "idle" /\ admin'[a].pc = "apply"
  /\ admin'[a].n = begun + 1 /\ begun' = begun + 1
  /\ UNCHANGED <<audits, applied>>
Applies(a) ==
  /\ admin[a].pc = "apply" /\ admin'[a].pc = "audit"
  /\ Records(admin'[a], admin[a])
  /\ \E y : /\ applied' = applied \cup {y} /\ Records(y, admin[a])
            /\ y.was = status[admin[a].loan]
  /\ UNCHANGED <<begun, audits>>
Audits(a) ==
  /\ admin[a].pc = "audit" /\ admin'[a].pc = "idle"
  /\ \E x : audits' = audits \cup {x} /\ Records(x, admin[a])
  /\ UNCHANGED <<begun, applied>>
Aborts(a) ==
  /\ regime \cap {"db", "crash"} # {}
  /\ admin'[a].pc = "idle"
  /\ UNCHANGED <<begun, audits, applied>>

LEMMA OverrideSteps ==
  ASSUME TInv, NEW a \in Admins, Override(a)
  PROVE  /\ \A b \in Admins \ {a} : admin'[b] = admin[b]
         /\ Reads(a) \/ Applies(a) \/ Audits(a) \/ Aborts(a)
<1>1. admin \in [Admins -> RequestType] /\ admin[a] \in RequestType
  BY TypesOK DEF TInv, AdminTypes
<1>2. \A b \in Admins \ {a} : admin'[b] = admin[b]
  BY <1>1 DEF Override, AdminRead, AdminApply, AdminAudit, AdminAborts
<1>3. ASSUME NEW l \in Loans, NEW to \in Statuses, AdminRead(a, l, to)
      PROVE  Reads(a)
  BY <1>1, <1>3 DEF AdminRead, Reads, history
<1>4. CASE AdminApply(a)
  <2>1. Records(admin'[a], admin[a]) /\ admin'[a].pc = "audit"
    BY <1>1, <1>4 DEF AdminApply, AfterApply, Records, RequestType
  <2> DEFINE y == [n |-> admin[a].n, loan |-> admin[a].loan, from |-> admin[a].from,
                   to |-> admin[a].to, was |-> status[admin[a].loan]]
  <2>2. /\ applied' = applied \cup {y} /\ Records(y, admin[a])
        /\ y.was = status[admin[a].loan]
    BY <1>4 DEF AdminApply, Records
  <2>3. \E x : /\ applied' = applied \cup {x} /\ Records(x, admin[a])
               /\ x.was = status[admin[a].loan]
    BY <2>2
  <2> QED BY <1>4, <2>1, <2>3 DEF AdminApply, Applies, adminVars
<1>6. CASE AdminAudit(a)
  <2> DEFINE x == [n |-> admin[a].n, loan |-> admin[a].loan, from |-> admin[a].from,
                   to |-> admin[a].to]
  <2>1. audits' = audits \cup {x} /\ Records(x, admin[a])
    BY <1>6 DEF AdminAudit, Records
  <2>2. \E z : audits' = audits \cup {z} /\ Records(z, admin[a])
    BY <2>1
  <2> QED BY <1>1, <1>6, <2>2 DEF AdminAudit, Audits, Idle, history
<1>7. CASE AdminAborts(a)
  BY <1>1, <1>7 DEF AdminAborts, Aborts, Idle, history
<1> QED BY <1>2, <1>3, <1>4, <1>6, <1>7 DEF Override

(* Who is overtaken stays so.                                              *)
LEMMA OvertakenGrows ==
  ASSUME [Next]_vars
  PROVE  overtaken \subseteq overtaken'
<1> USE DEF history
<1>1. World => UNCHANGED overtaken
  BY DEF World, Confirm, FallOverdue, NewDay
<1>2. ASSUME NEW a \in Admins, Override(a)
      PROVE  overtaken \subseteq overtaken'
  BY <1>2 DEF Override, AdminRead, AdminApply, AdminAudit, AdminAborts, SetStatus
<1>3. ASSUME NEW w \in Workers, FollowUp(w)
      PROVE  overtaken \subseteq overtaken'
  BY <1>3 DEF FollowUp, TakeFollowUp, Activate, ApplyLoanRepayment, FollowUpFails, SetStatus
<1>4. ASSUME NEW d \in Detectors, Detection(d)
      PROVE  overtaken \subseteq overtaken'
  BY <1>4 DEF Detection, ClaimRun, SelectOverdue, MarkDefaulted, MarkFails,
     MarkDefaultOnChain, FinishRun, RunAborts, SetStatus
<1> QED BY <1>1, <1>2, <1>3, <1>4 DEF Next, vars

(* Every change of a status goes through SetStatus.                        *)
LEMMA ByOthers ==
  ASSUME TInv, [Next]_vars
  PROVE  \/ UNCHANGED status
         \/ \E a \in Admins : AdminApply(a)
         \/ \E l \in Loans, to \in Statuses : SetStatus(l, to, {})
<1>1. status \in [Loans -> Statuses]
  BY DEF TInv, TypeOK
<1>2. ASSUME NEW w \in Workers, Activate(w) \/ ApplyLoanRepayment(w)
      PROVE  \E l \in Loans, to \in Statuses : SetStatus(l, to, {})
  <2>1. LoanOf[chk[w].tx] \in Loans
    BY <1>2, LoanOfType DEF Activate, ApplyLoanRepayment, TInv, FollowUps
  <2> QED BY <1>1, <1>2, <2>1 DEF Activate, ApplyLoanRepayment, Statuses
<1>3. ASSUME NEW d \in Detectors, NEW l \in Loans, MarkDefaulted(d, l)
      PROVE  \E k \in Loans, to \in Statuses : SetStatus(k, to, {})
  BY <1>1, <1>3 DEF MarkDefaulted, Statuses
<1> QED BY <1>2, <1>3, StatusWriters

(* A request that waits sees a change of its loan, unless it makes it.     *)
LEMMA Overtakes ==
  ASSUME TInv, NEW b \in Admins, admin[b].pc = "apply",
         NEW l \in Loans, NEW to \in Statuses, NEW own, SetStatus(l, to, own),
         admin[b].n \notin own,
         status'[admin[b].loan] # status[admin[b].loan]
  PROVE  admin[b].n \in overtaken'
<1>1. status \in [Loans -> Statuses] /\ admin[b].loan \in Loans
  BY DEF TInv, TypeOK, Requests
<1>2. admin[b].loan = l /\ to # status[l]
  BY <1>1 DEF SetStatus
<1> QED BY <1>2 DEF SetStatus, Waiting

LEMMA NoticedNext ==
  ASSUME TInv, Numbered, Noticed, [Next]_vars
  PROVE  Noticed'
<1> SUFFICES ASSUME NEW b \in Admins, admin'[b].pc = "apply",
                    admin'[b].n \notin overtaken'
             PROVE  status'[admin'[b].loan] = admin'[b].from
  BY DEF Noticed
<1>1. CASE \E l \in Loans, to \in Statuses : AdminRead(b, l, to)
  <2>1. admin \in [Admins -> RequestType]
    BY TypesOK DEF TInv, AdminTypes
  <2> QED BY <1>1, <2>1 DEF AdminRead, loanVars
<1>2. CASE admin'[b] = admin[b]
  <2>1. admin[b].n \notin overtaken /\ status[admin[b].loan] = admin[b].from
    BY <1>2, OvertakenGrows DEF Noticed
  <2>2. ASSUME NEW a \in Admins, AdminApply(a)
        PROVE  status'[admin[b].loan] = status[admin[b].loan]
    <3>1. a # b /\ admin[a].pc = "apply"
      BY <1>2, <2>2, ApplyStep
    <3>2. admin[b].n # admin[a].n
      BY <1>2, <3>1 DEF Numbered
    <3>3. /\ admin[a].loan \in Loans /\ admin[a].to \in Statuses
          /\ SetStatus(admin[a].loan, admin[a].to, {admin[a].n})
      BY <2>2, ApplyStep
    <3> QED BY <1>2, <3>2, <3>3, Overtakes
  <2>3. ASSUME NEW l \in Loans, NEW to \in Statuses, SetStatus(l, to, {})
        PROVE  status'[admin[b].loan] = status[admin[b].loan]
    BY <1>2, <2>3, Overtakes
  <2> QED BY <1>2, <2>1, <2>2, <2>3, ByOthers
<1>3. \/ admin'[b] = admin[b]
      \/ \E l \in Loans, to \in Statuses : AdminRead(b, l, to)
  <2>1. CASE \E a \in Admins : Override(a)
    <3>1. PICK a \in Admins : Override(a)
      BY <2>1
    <3>2. CASE a = b
      <4>1. admin \in [Admins -> RequestType]
        BY TypesOK DEF TInv, AdminTypes
      <4> QED BY <3>1, <3>2, <4>1 DEF Override, AdminApply, AdminAudit, AdminAborts,
              AfterApply, Idle, RequestType
    <3>3. CASE a # b
      BY <3>1, <3>3, OverrideSteps
    <3> QED BY <3>2, <3>3
  <2>2. CASE UNCHANGED <<adminVars, applied>>
    BY <2>2 DEF adminVars
  <2> QED BY <2>1, <2>2, AuditFrame
<1> QED BY <1>1, <1>2, <1>3

LEMMA AInvOverride ==
  ASSUME AInv, TInv', Noticed', UNCHANGED regime, overtaken \subseteq overtaken',
         NEW a \in Admins, Override(a)
  PROVE  AInv'
<1> USE DEF AInv
<1>1. \A b \in Admins \ {a} : admin'[b] = admin[b]
  BY OverrideSteps
<1>2. /\ begun \in Nat
      /\ \A b \in Admins : admin[b].pc # "idle" => admin[b].n \in 1 .. begun
  BY DEF TInv, TypeOK, Requests
<1>3. /\ \A y \in applied : y.n \in Nat
      /\ \A x \in audits : x.n \in Nat
  BY DEF TInv, TypeOK
<1>4. \A y : Faithful(y) => Faithful(y)'
  BY DEF Faithful
<1>5. CASE Reads(a)
  <2>1. Numbered'
    BY <1>1, <1>2, <1>3, <1>5 DEF Numbered, Reads
  <2>2. Written'
    BY <1>1, <1>4, <1>5 DEF Written, Reads
  <2>3. Trail'
    BY <1>4, <1>5 DEF Trail, Reads
  <2>4. Complete'
    BY <1>1, <1>5 DEF Complete, OnItsWay, Reads
  <2> QED BY <2>1, <2>2, <2>3, <2>4
<1>6. CASE Applies(a)
  <2> PICK y : /\ applied' = applied \cup {y} /\ Records(y, admin[a])
               /\ y.was = status[admin[a].loan]
    BY <1>6 DEF Applies
  <2>1. Faithful(y)'
    BY <1>4, <1>6 DEF Faithful, Noticed, Applies, Records
  <2>2. Numbered'
    BY <1>1, <1>2, <1>6 DEF Numbered, Applies, Records
  <2>3. Written'
    BY <1>1, <1>4, <1>6, <2>1 DEF Written, Applies, Records
  <2>4. Trail'
    BY <1>4, <1>6 DEF Trail, Applies
  <2>5. Complete'
    BY <1>1, <1>6 DEF Complete, OnItsWay, Applies, Records
  <2> QED BY <2>2, <2>3, <2>4, <2>5
<1>7. CASE Audits(a)
  <2> PICK x : audits' = audits \cup {x} /\ Records(x, admin[a])
    BY <1>7 DEF Audits
  <2>1. Numbered'
    BY <1>1, <1>2, <1>7 DEF Numbered, Audits, Records
  <2>2. Written'
    BY <1>1, <1>4, <1>7 DEF Written, Audits
  <2>3. Trail'
    <3>1. x.to \in VALID_LOAN_TRANSITIONS[x.from]
      BY <1>7 DEF Audits, Records, TInv, Requests
    <3>2. \E y \in applied : Records(y, x) /\ Faithful(y)
      BY <1>7 DEF Audits, Written, Records
    <3>3. \A z \in audits : z.n # x.n
      BY <1>7 DEF Audits, Numbered, Records
    <3> QED BY <1>4, <1>7, <3>1, <3>2, <3>3 DEF Trail, Audits
  <2>4. Complete'
    BY <1>1, <1>7 DEF Complete, OnItsWay, Audits, Records
  <2> QED BY <2>1, <2>2, <2>3, <2>4
<1>8. CASE Aborts(a)
  <2>1. Numbered'
    BY <1>1, <1>8 DEF Numbered, Aborts
  <2>2. Written' /\ Trail' /\ Complete'
    BY <1>1, <1>4, <1>8 DEF Written, Trail, Complete, Aborts
  <2> QED BY <2>1, <2>2
<1> QED BY <1>5, <1>6, <1>7, <1>8, OverrideSteps

LEMMA AInvNext == AInv /\ [Next]_vars => AInv'
<1> SUFFICES ASSUME AInv, [Next]_vars
             PROVE  AInv'
  OBVIOUS
<1>1. TInv' /\ UNCHANGED regime
  BY TypeNext, RegimeKept DEF AInv
<1>2. overtaken \subseteq overtaken' /\ Noticed'
  BY OvertakenGrows, NoticedNext DEF AInv
<1>3. CASE UNCHANGED <<adminVars, applied>>
  <2>1. UNCHANGED <<admin, begun, audits, applied>>
    BY <1>3 DEF adminVars
  <2>2. Numbered'
    BY <2>1 DEF AInv, Numbered
  <2>3. Written' /\ Trail'
    BY <1>2, <2>1 DEF AInv, Written, Trail, Faithful
  <2>4. Complete'
    BY <1>1, <2>1 DEF AInv, Complete, OnItsWay
  <2> QED BY <1>1, <1>2, <2>2, <2>3, <2>4 DEF AInv
<1> QED BY <1>1, <1>2, <1>3, AInvOverride, AuditFrame

(* The audit trail holds exactly the overrides that were made, each once   *)
(* and each a valid one, with the status that it replaced unless the loan  *)
(* was changed between the request's read and its write; where no call     *)
(* fails none is missing (overrideLoan with applyLoanOverride and          *)
(* recordOverride).                                                        *)
THEOREM OverridesAreAudited == Spec => []AuditMatchesOverrides
<1>1. AInv => AuditMatchesOverrides
  BY TrailIsAudited DEF AInv
<1> QED BY AInvInit, AInvNext, <1>1, PTL DEF Spec

-----------------------------------------------------------------------------
(* What has ended.                                                         *)

(* From a status that the machine does not leave no override is allowed.   *)
LEMMA EndedKept ==
  ASSUME AInv, [Next]_vars, NEW l \in Loans,
         VALID_LOAN_TRANSITIONS[status[l]] = {}, status'[l] # status[l]
  PROVE  \/ status[l] = "cancelled" /\ \E w \in Workers : Clears(w, l)
         \/ \E a \in Admins : Overrides(a, l) /\ admin[a].n \in overtaken
<1>1. TInv /\ status[l] \in {"completed", "cancelled"}
  <2>1. TInv /\ status[l] \in Statuses
    BY DEF AInv, TInv, TypeOK
  <2>2. \A s \in {"pending", "active", "defaulted"} :
          "completed" \in VALID_LOAN_TRANSITIONS[s]
    BY DEF VALID_LOAN_TRANSITIONS, Statuses
  <2> QED BY <2>1, <2>2 DEF Statuses
<1>2. ASSUME NEW a \in Admins, Overrides(a, l)
      PROVE  admin[a].n \in overtaken
  <2>1. admin[a].to \in VALID_LOAN_TRANSITIONS[admin[a].from]
    BY <1>1, <1>2 DEF TInv, Requests, Overrides
  <2> QED BY <1>2, <2>1 DEF AInv, Noticed, Overrides
<1>3. ASSUME NEW w \in Workers, Clears(w, l)
      PROVE  status[l] = "cancelled"
  BY <1>1, <1>3 DEF Clears
<1> QED BY <1>1, <1>2, <1>3, WritersConditional

(* A completed or cancelled loan stays so, whatever jobs and administrators*)
(* have read before: but for an override that was validated before another *)
(* writer brought the loan there, and for a repayment of a cancelled loan  *)
(* (VALID_LOAN_TRANSITIONS, overrideLoan and the conditional updates).     *)
THEOREM EndedLoansStayEnded == Spec => EndedStaysEnded
<1>1. AInv /\ [Next]_vars =>
        [\A l \in Loans :
           VALID_LOAN_TRANSITIONS[status[l]] = {} /\ status'[l] # status[l] =>
             \/ status[l] = "cancelled" /\ \E w \in Workers : Clears(w, l)
             \/ \E a \in Admins : Overrides(a, l) /\ admin[a].n \in overtaken]_vars
  BY EndedKept
<1> QED BY AInvInit, AInvNext, <1>1, PTL DEF Spec, EndedStaysEnded
=============================================================================
