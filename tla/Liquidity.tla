------------------------------ MODULE Liquidity ------------------------------
(***************************************************************************)
(* What LiquidityService tells a provider: the quote of a deposit or of a  *)
(* withdrawal, the summary of an investment and the overview of the pool.  *)
(* All of it is read from the pool's contract by LiquidityContractClient,  *)
(* in several calls between which the pool may move, and by other means    *)
(* where a call fails. The pool itself is not of this code: its actions are*)
(* what the client takes it to do.                                         *)
(***************************************************************************)
EXTENDS Integers, FiniteSets

CONSTANTS
  Pools,    \* states the pool may be in at first
  Amounts,  \* amounts and shares, in the contract's units
  MinDeposit, \* MIN_DEPOSIT_AMOUNT
  FeeBps,   \* the contract's withdrawal fee
  MaxTotal, \* bound: the pool's liquidity
  MaxMoves, \* bound: changes of the pool
  Regimes   \* sets of circumstances, one of which a behaviour has

(* "old": the contract lacks get_pool_stats; "bare": it lacks the previews;*)
(* "fail": single calls fail; "again": somebody is back before a cached    *)
(* answer has expired, which is 60 milliseconds.                           *)
Circumstances == {"old", "bare", "fail", "again"}

SHARE_PRICE_BPS == 10000

VARIABLES
  regime, \* what may happen in this behaviour; it never changes
  pool,   \* [total, available, shares, own]: own are the provider's shares
  moves,  \* changes of the pool
  req,    \* the provider's request, and its answer
  cache   \* [Cached -> ...]: answers in the process's cache

vars == <<regime, pool, moves, req, cache>>

Nothing == [pc |-> "none"]
Kinds == {"deposit", "withdraw", "summary", "overview"}
Cached == {"summary", "overview"}

-----------------------------------------------------------------------------
(* The contract's arithmetic, and its answers.                             *)
worth(shares, total, all) == IF all = 0 THEN 0 ELSE (shares * total) \div all
mint(amount, total, all) ==
  IF all = 0 \/ total = 0 THEN amount ELSE (amount * all) \div total
paidFor(shares, p) == worth(shares, p.total, p.shares)
mintedFor(amount, p) == mint(amount, p.total, p.shares)

Deposited(p, x) == [p EXCEPT !.total = @ + x, !.available = @ + x,
                             !.shares = @ + mintedFor(x, p)]
Withdrawable(p, x) == x <= p.own /\ paidFor(x, p) <= p.available

(* Another provider's deposit or withdrawal, a loan or its repayment, a    *)
(* yield, and a deposit of the provider's own.                             *)
Moved(p, x) ==
  {Deposited(p, x),
   [Deposited(p, x) EXCEPT !.own = @ + mintedFor(x, p)]}
  \cup (IF p.shares - p.own > x /\ paidFor(x, p) <= p.available
        THEN {[p EXCEPT !.total = @ - paidFor(x, p),
                        !.available = @ - paidFor(x, p), !.shares = @ - x]} ELSE {})
  \cup (IF x <= p.available THEN {[p EXCEPT !.available = @ - x]} ELSE {})
  \cup (IF p.available + x <= p.total THEN {[p EXCEPT !.available = @ + x]} ELSE {})
  \cup (IF p.shares > 0
        THEN {[p EXCEPT !.total = @ + x, !.available = @ + x]} ELSE {})

TypeOK ==
  /\ regime \in Regimes
  /\ pool.available \in 0 .. pool.total /\ pool.own \in 0 .. pool.shares
  /\ moves \in 0 .. MaxMoves
  /\ req.pc \in {"none", "reading", "building", "answered"}
  /\ req # Nothing =>
       /\ req.kind \in Kinds
       /\ req.todo \subseteq {"own", "stats", "total", "available", "shares", "fee",
                              "calc", "calc_stats", "calc_total", "calc_shares"}
       /\ req.feeBps \in {0, FeeBps}
       /\ req.amount \in Int
       /\ req.pieces \subseteq {"stats", "calc"}
       /\ req.missed \subseteq {"stats", "own", "fee"}
       /\ pool \in req.during \/ req.pc = "answered"
  /\ \A k \in Cached : cache[k] = Nothing \/ cache[k].kind = k

Init ==
  /\ regime \in Regimes
  /\ pool \in Pools
  /\ moves = 0
  /\ req = Nothing
  /\ cache = [k \in Cached |-> Nothing]

PoolMoves ==
  /\ moves < MaxMoves
  /\ \E x \in Amounts : pool' \in {p \in Moved(pool, x) : p.total <= MaxTotal} \ {pool}
  /\ moves' = moves + 1
  /\ req' = IF req.pc \in {"reading", "building"}
            THEN [req EXCEPT !.during = @ \cup {pool'}] ELSE req
  /\ UNCHANGED <<regime, cache>>

-----------------------------------------------------------------------------
(* What each handler starts with, all at once; a withdrawal and a summary  *)
(* have the amount calculated afterwards. A hit in the cache is an answer. *)
(* A request remembers what the pool was while it lasted, what it read     *)
(* piece by piece, and what it could not read and shows as 0.              *)
FirstReads(kind) ==
  CASE kind = "deposit" -> {"stats", "calc"}
    [] kind \in {"withdraw", "summary"} -> {"own", "stats"}
    [] kind = "overview" -> {"stats"}

Ask(kind, x) ==
  /\ req = Nothing
  /\ kind = "deposit" => x >= MinDeposit
  /\ IF kind \in Cached /\ cache[kind] # Nothing THEN req' = cache[kind]
     ELSE req' = [pc |-> "reading", kind |-> kind, x |-> x,
                  todo |-> FirstReads(kind), total |-> 0, available |-> 0,
                  shares |-> 0, own |-> 0, feeBps |-> 0, amount |-> -1,
                  calcTotal |-> 0, calcShares |-> 0, pieces |-> {},
                  missed |-> {}, during |-> {pool}]
  /\ UNCHANGED <<regime, pool, moves, cache>>

(* The shares a calculation is about: for a summary, the provider's.       *)
Asked == IF req.kind = "summary" THEN req.own ELSE req.x

Calculated(total, shares) ==
  IF req.kind = "deposit" THEN mint(req.x, total, shares)
  ELSE worth(Asked, total, shares)

Reads(name, r) ==
  /\ req.pc = "reading"
  /\ name \in req.todo
  /\ req' = [r EXCEPT !.todo = @ \ {name}]
  /\ UNCHANGED <<regime, pool, moves, cache>>

(* getPoolStats in one call, and the fee in another; or three calls.       *)
ReadStats ==
  \/ /\ "old" \notin regime
     /\ Reads("stats", [req EXCEPT !.total = pool.total, !.shares = pool.shares,
                                   !.available = pool.available,
                                   !.todo = @ \cup {"fee"}])
  \/ /\ regime \cap {"old", "fail"} # {}
     /\ Reads("stats", [req EXCEPT !.pieces = @ \cup {"stats"},
                        !.todo = @ \cup {"total", "available", "shares", "fee"}])

ReadPart ==
  \/ Reads("total", [req EXCEPT !.total = pool.total])
  \/ Reads("available", [req EXCEPT !.available = pool.available])
  \/ Reads("shares", [req EXCEPT !.shares = pool.shares])
  \/ Reads("own", [req EXCEPT !.own = pool.own])

(* getWithdrawalFeeBps never fails: what cannot be read is 0.              *)
ReadFee ==
  \/ Reads("fee", [req EXCEPT !.feeBps = FeeBps])
  \/ "fail" \in regime /\ Reads("fee", [req EXCEPT !.feeBps = 0, !.missed = @ \cup {"fee"}])

(* An error of the contract is taken for a wallet without shares.          *)
ShareReadFails ==
  /\ "fail" \in regime
  /\ Reads("own", [req EXCEPT !.own = 0, !.missed = @ \cup {"own"}])

(* calculateDeposit and calculateWithdrawal: the contract's preview, or    *)
(* getPoolStats once more and the same arithmetic.                         *)
Preview ==
  \/ /\ "bare" \notin regime
     /\ Reads("calc", [req EXCEPT !.amount = Calculated(pool.total, pool.shares)])
  \/ /\ regime \cap {"bare", "fail"} # {}
     /\ Reads("calc", [req EXCEPT !.todo = @ \cup {"calc_stats"}])

BugSharePrice(total, shares) ==
  IF shares = 0 \/ req.kind = "deposit" THEN Calculated(total, shares)
  ELSE (Asked * ((total * SHARE_PRICE_BPS) \div shares)) \div SHARE_PRICE_BPS
Fallback(total, shares) == Calculated(total, shares)

PartRead(total, shares, other) ==
  [req EXCEPT !.calcTotal = total, !.calcShares = shares,
              !.amount = IF other \in req.todo THEN @ ELSE Fallback(total, shares)]

PreviewFallback ==
  \/ /\ "old" \notin regime
     /\ Reads("calc_stats", [req EXCEPT !.amount = Fallback(pool.total, pool.shares)])
  \/ /\ regime \cap {"old", "fail"} # {}
     /\ Reads("calc_stats", [req EXCEPT !.pieces = @ \cup {"calc"},
                             !.todo = @ \cup {"calc_total", "calc_shares"}])
  \/ Reads("calc_total", PartRead(pool.total, req.calcShares, "calc_shares"))
  \/ Reads("calc_shares", PartRead(req.calcTotal, pool.shares, "calc_total"))

-----------------------------------------------------------------------------
Fee(r) == (r.amount * r.feeBps) \div SHARE_PRICE_BPS
Net(r) == r.amount - Fee(r)

AllRead == req.pc = "reading" /\ req.todo = {}
Previewed == req.amount # -1
Refused == req' = Nothing /\ UNCHANGED cache

(* A withdrawal is refused without the shares, and once it is calculated   *)
(* without the liquidity.                                                  *)
TooMuch ==
  /\ req.kind = "withdraw"
  /\ req.own = 0 \/ req.x > req.own \/ (Previewed /\ req.amount > req.available)

RefuseWithdrawal ==
  /\ AllRead
  /\ TooMuch
  /\ Refused
  /\ UNCHANGED <<regime, pool, moves>>

(* A summary of no shares needs no calculation.                            *)
Calculate ==
  /\ AllRead
  /\ ~Previewed
  /\ \/ req.kind = "withdraw" /\ ~TooMuch
     \/ req.kind = "summary" /\ req.own > 0
  /\ req' = [req EXCEPT !.todo = {"calc"}]
  /\ UNCHANGED <<regime, pool, moves, cache>>

(* The cache keeps what it is given, for as long as makes a difference.    *)
Give(answer) ==
  /\ req' = answer
  /\ cache' = IF "again" \in regime
              THEN [cache EXCEPT ![answer.kind] = answer] ELSE cache

Answer ==
  /\ AllRead
  /\ \/ /\ req.kind \in {"deposit", "withdraw"} /\ Previewed /\ ~TooMuch
        /\ req' = [req EXCEPT !.pc = "building"]
        /\ UNCHANGED cache
     \/ /\ req.kind = "overview"
        /\ Give([req EXCEPT !.pc = "answered"])
     \/ /\ req.kind = "summary" /\ (Previewed \/ req.own = 0)
        /\ Give([req EXCEPT !.pc = "answered",
                           !.amount = IF req.own = 0 THEN 0 ELSE @])
  /\ UNCHANGED <<regime, pool, moves>>

(* buildDepositTx and buildWithdrawTx simulate what they build.            *)
Build ==
  /\ req.pc = "building"
  /\ IF req.kind = "withdraw" /\ ~Withdrawable(pool, req.x)
     THEN Refused
     ELSE req' = [req EXCEPT !.pc = "answered"] /\ UNCHANGED cache
  /\ UNCHANGED <<regime, pool, moves>>

(* A call fails for good. The overview then shows an empty pool.           *)
CallFails ==
  /\ "fail" \in regime
  /\ req.pc \in {"reading", "building"}
  /\ IF req.kind = "overview"
     THEN Give([req EXCEPT !.pc = "answered", !.total = 0,
                                !.missed = @ \cup {"stats"}])
     ELSE Refused
  /\ UNCHANGED <<regime, pool, moves>>

Leave ==
  /\ req.pc = "answered"
  /\ req' = Nothing
  /\ UNCHANGED <<regime, pool, moves, cache>>

Expire(k) ==
  /\ cache[k] # Nothing
  /\ cache' = [cache EXCEPT ![k] = Nothing]
  /\ UNCHANGED <<regime, pool, moves, req>>

Next ==
  \/ PoolMoves
  \/ \E kind \in Kinds, x \in Amounts : Ask(kind, x)
  \/ ReadStats \/ ReadPart \/ ReadFee \/ ShareReadFails
  \/ Preview \/ PreviewFallback
  \/ RefuseWithdrawal \/ Calculate \/ Answer \/ Build \/ CallFails
  \/ Leave
  \/ \E k \in Cached : Expire(k)

Spec == Init /\ [][Next]_vars

-----------------------------------------------------------------------------
(* The pool as an answer shows it, the provider's shares, and the amount   *)
(* the contract would give. p, q and o are the states of the pool a figure *)
(* was read in.                                                            *)
ShowsThePool ==
  IF "stats" \in req.missed THEN req.total = 0
  ELSE \E p, q, o \in req.during :
         /\ req.total = p.total /\ req.shares = q.shares /\ req.available = o.available
         /\ "stats" \in req.pieces \/ (p = q /\ q = o)

ShowsTheShares ==
  IF "own" \in req.missed THEN req.own = 0 ELSE \E p \in req.during : req.own = p.own

Fair(p) ==
  /\ paidFor(req.amount, Deposited(p, req.x)) <= req.x
  /\ p.shares > 0 /\ p.total > 0 => paidFor(p.shares, Deposited(p, req.x)) >= p.total

AmountIsTheContracts ==
  \E p, q \in req.during :
    /\ req.amount = Calculated(p.total, q.shares)
    /\ "calc" \in req.pieces \/ p = q
    /\ req.kind = "deposit" /\ p = q => Fair(p)

AtRest(p) ==
  /\ Withdrawable(p, req.x)
  /\ "fee" \notin req.missed =>
       Net(req) = paidFor(req.x, p) - (paidFor(req.x, p) * FeeBps) \div SHARE_PRICE_BPS

(* Every figure of an answer is the pool's in a state it was in while the  *)
(* answer was made, and 0 only otherwise, where it could not be read. The  *)
(* pool's own figures are of one state, and an amount is what the contract *)
(* computes in one, unless they are read piece by piece; but the code asks *)
(* for the two separately, and when the pool moves in between one answer   *)
(* speaks of several states. Nobody is quoted shares that redeem to more   *)
(* than was paid or that cost the others. A withdrawal is within the       *)
(* shares and the liquidity it shows, the contract has let it through, and *)
(* if the pool was at rest meanwhile it pays what was quoted. An answer of *)
(* the cache is about the time it was put there.                           *)
QuotesComeFromThePool ==
  req.pc = "answered" =>
    /\ ShowsThePool
    /\ req.kind \in {"withdraw", "summary"} => ShowsTheShares
    /\ req.kind # "overview" => AmountIsTheContracts
    /\ req.kind = "withdraw" =>
         /\ req.x <= req.own /\ req.amount <= req.available
         /\ req.feeBps = IF "fee" \in req.missed THEN 0 ELSE FeeBps
         /\ \E p \in req.during : Withdrawable(p, req.x)
         /\ Cardinality(req.during) = 1 => \A p \in req.during : AtRest(p)
=============================================================================
