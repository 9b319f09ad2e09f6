---------------------------- MODULE MerchantStats ----------------------------
(***************************************************************************)
(* What MerchantsService computes from the tables merchants and loans:     *)
(* the score of a merchant, the leaderboard, which is ranked anew for every*)
(* page, the portfolio and the monthly analytics. Leaderboard and portfolio*)
(* take two queries that run at the same time, and no list of merchants    *)
(* asks for an order.                                                      *)
(***************************************************************************)
EXTENDS Integers, FiniteSets, Functions, LoanStatuses

CONSTANTS
  Merchants, \* the rows of merchants
  Loans,     \* the rows of loans there may be
  Volume,    \* [Loans -> Nat]: loan_amount in dollars
  Created,   \* [Loans -> Nat]: month of created_at, counted from a January
  Today,     \* the months in which analytics are asked for
  Metrics,   \* what leaderboards are ranked by; "listed" is no leaderboard
  Limits,    \* page sizes
  Regimes    \* sets of circumstances, one of which a behaviour has

(* "moves": loans and merchants change while pages are read; "reorders":   *)
(* the database returns equal queries in different orders.                 *)
Circumstances == {"moves", "reorders"}

VARIABLES
  regime, \* what may happen in this behaviour; it never changes
  open,   \* the merchants whose is_active is true
  rows,   \* [Loans -> ...]: merchant and status, or none yet
  pager,  \* who reads the leaderboard, page by page
  folio   \* who reads a portfolio

vars == <<regime, open, rows, pager, folio>>

Absent == [status |-> "absent"]
Nobody == [pc |-> "idle"]

(* No query asks for an order of its rows: the database promises none.     *)
Orders == Bijection(Merchants, 1 .. Cardinality(Merchants))
RowOrders == IF "reorders" \in regime THEN Orders ELSE {CHOOSE o \in Orders : TRUE}

-----------------------------------------------------------------------------
(* aggregateLoans, of the loans t shows for merchant m. Rates are in       *)
(* hundredths of a percent, rounded.                                       *)
Of(t, m, statuses) ==
  {l \in Loans : t[l] # Absent /\ t[l].merchant = m /\ t[l].status \in statuses}
rate(part, whole) == IF whole = 0 THEN 0 ELSE (20000 * part + whole) \div (2 * whole)

aggregateLoans(t, m) ==
  LET total == Cardinality(Of(t, m, Statuses)) IN
  [totalLoans    |-> total,
   activeLoans   |-> Cardinality(Of(t, m, {"active"})),
   volume        |-> SumFunctionOnSet(Volume, Of(t, m, Statuses)),
   repaymentRate |-> rate(Cardinality(Of(t, m, {"completed"})), total),
   defaultRate   |-> rate(Cardinality(Of(t, m, {"defaulted"})), total)]

Clamp(low, high, n) == IF n < low THEN low ELSE IF n > high THEN high ELSE n

(* 0.9 of the repayment rate less 0.5 of the default rate, and up to 10 for*)
(* the volume, in thousandths.                                             *)
calculateScore(a) ==
  IF a.totalLoans = 0 THEN 0
  ELSE Clamp(0, 100, (9 * a.repaymentRate - 5 * a.defaultRate
                        + Clamp(0, 10000, a.volume \div 10) + 500) \div 1000)

figure(t, metric, m) ==
  LET a == aggregateLoans(t, m)
  IN  CASE metric = "volume" -> a.volume
        [] metric = "score" -> calculateScore(a)
        [] metric = "repaymentRate" -> a.repaymentRate
        [] metric = "totalLoans" -> a.totalLoans
        [] metric = "listed" -> 0

(* A stable sort, downwards: what ties stays in the order of the rows.     *)
rankOf(figures, place, m) ==
  1 + Cardinality({n \in DOMAIN figures :
        \/ figures[n] > figures[m]
        \/ figures[n] = figures[m] /\ place[n] < place[m]})

BugOverlapping(offset, limit) == offset .. offset + limit
pageOf(offset, limit) == offset + 1 .. offset + limit

(* getMerchantAnalytics: the last months, the present one included; a Date *)
(* whose month is below zero is one of the years before.                   *)
buildMonthlyBuckets(today, months) ==
  [i \in 1 .. months |-> LET k == (today % 12) - (months - i) IN
                           [year |-> today \div 12 + k \div 12, month |-> k % 12]]
isWithinBucket(l, b) == Created[l] \div 12 = b.year /\ Created[l] % 12 = b.month
monthsData(t, m, today, months) ==
  LET bucket == buildMonthlyBuckets(today, months)
  IN  [i \in 1 .. months |->
        aggregateLoans([l \in Loans |-> IF isWithinBucket(l, bucket[i])
                                        THEN t[l] ELSE Absent], m)]

-----------------------------------------------------------------------------
TypeOK ==
  /\ regime \in Regimes
  /\ open \subseteq Merchants
  /\ \A l \in Loans :
       rows[l] = Absent \/ rows[l] \in [merchant : Merchants, status : Statuses]
  /\ pager # Nobody =>
       /\ pager.pc \in {"ask", "half", "done"}
       /\ pager.metric \in Metrics /\ pager.limit \in Limits
       /\ pager.ranked \subseteq Merchants
       /\ \A e \in pager.seen :
            e.merchant \in Merchants /\ e.rank \in 1 .. Cardinality(Merchants)
  /\ folio # Nobody => folio.counted \in Nat /\ folio.shown \in Nat

Init ==
  /\ regime \in Regimes
  /\ open \in SUBSET Merchants \ {{}}
  /\ rows = [l \in Loans |-> Absent]
  /\ pager = Nobody
  /\ folio = Nobody

Reading == pager # Nobody \/ folio # Nobody
MayMove == ~Reading \/ "moves" \in regime

Approved(m) ==
  /\ MayMove
  /\ m \notin open
  /\ open' = open \cup {m}
  /\ UNCHANGED <<regime, rows, pager, folio>>

LoanCreated(l, m) ==
  /\ MayMove
  /\ rows[l] = Absent
  /\ rows' = [rows EXCEPT ![l] = [merchant |-> m, status |-> "pending"]]
  /\ UNCHANGED <<regime, open, pager, folio>>

LoanMoves(l) ==
  /\ MayMove
  /\ rows[l] # Absent
  /\ \E to \in VALID_LOAN_TRANSITIONS[rows[l].status] :
       rows' = [rows EXCEPT ![l].status = to]
  /\ UNCHANGED <<regime, open, pager, folio>>

-----------------------------------------------------------------------------
(* getLeaderboard: merchants and loans are read by two queries at the same *)
(* time. Either may be answered first; others may write before the second. *)
(* listMerchants is one query, whose pages the database cuts.              *)
Begin(metric) == IF metric = "listed" THEN "half" ELSE "ask"

AskLeaderboard(metric, limit) ==
  /\ ~Reading
  /\ pager' = [pc |-> Begin(metric), metric |-> metric, limit |-> limit, offset |-> 0,
               was |-> <<>>, ranked |-> {}, seen |-> {}]
  /\ UNCHANGED <<regime, open, rows, folio>>

FirstAnswer ==
  /\ pager.pc = "ask"
  /\ \E was \in {[open |-> open], [rows |-> rows]} :
       pager' = [pager EXCEPT !.pc = "half", !.was = was]
  /\ UNCHANGED <<regime, open, rows, folio>>

Page ==
  /\ pager.pc = "half"
  /\ \E place \in RowOrders :
       LET answered == DOMAIN pager.was
           active == IF "open" \in answered THEN pager.was.open ELSE open
           read == IF "rows" \in answered THEN pager.was.rows ELSE rows
           figures == [m \in active |-> figure(read, pager.metric, m)]
           page == {m \in active : rankOf(figures, place, m)
                                     \in pageOf(pager.offset, pager.limit)}
           end == pager.offset + pager.limit
       IN pager' = [pager EXCEPT
            !.pc = IF end >= Cardinality(active) THEN "done"
                   ELSE Begin(pager.metric),
            !.offset = end, !.was = <<>>, !.ranked = active,
            !.seen = @ \cup
              {[page |-> pager.offset, merchant |-> m, figure |-> figures[m],
                rank |-> rankOf(figures, place, m)] : m \in page}]
  /\ UNCHANGED <<regime, open, rows, folio>>

(* getMerchantPortfolio: the loans the aggregate counts and the active ones*)
(* it pages come from two queries as well.                                 *)
Counted(m) == aggregateLoans(rows, m).activeLoans
Shown(m) == Cardinality(Of(rows, m, {"active"}))

AskPortfolio(m) ==
  /\ ~Reading
  /\ \/ folio' = [pc |-> "paging", merchant |-> m, counted |-> Counted(m), shown |-> 0]
     \/ folio' = [pc |-> "counting", merchant |-> m, counted |-> 0, shown |-> Shown(m)]
  /\ UNCHANGED <<regime, open, rows, pager>>

Portfolio ==
  /\ \/ folio.pc = "paging"
        /\ folio' = [folio EXCEPT !.pc = "done", !.shown = Shown(folio.merchant)]
     \/ folio.pc = "counting"
        /\ folio' = [folio EXCEPT !.pc = "done", !.counted = Counted(folio.merchant)]
  /\ UNCHANGED <<regime, open, rows, pager>>

Leave ==
  /\ "done" \in {pager.pc, folio.pc}
  /\ pager' = Nobody
  /\ folio' = Nobody
  /\ UNCHANGED <<regime, open, rows>>

Next ==
  \/ \E m \in Merchants : Approved(m) \/ AskPortfolio(m)
  \/ \E l \in Loans : LoanMoves(l) \/ \E m \in Merchants : LoanCreated(l, m)
  \/ \E metric \in Metrics, limit \in Limits : AskLeaderboard(metric, limit)
  \/ FirstAnswer \/ Page \/ Portfolio \/ Leave

Spec == Init /\ [][Next]_vars

-----------------------------------------------------------------------------
(* The pages of a list, made anew for each, make one ranking: all          *)
(* active merchants once, downwards. It takes that nothing moves meanwhile,*)
(* unless one page holds them all, and that no two tie whose rows the      *)
(* database may swap between pages.                                        *)
OnePage == Cardinality(pager.ranked) <= pager.limit
NoTies ==
  \A m, n \in open :
    figure(rows, pager.metric, m) = figure(rows, pager.metric, n) => m = n

PagesMakeOneRanking ==
  /\ pager.pc = "done"
  /\ "moves" \in regime => OnePage
  /\ "reorders" \in regime => OnePage \/ NoTies
  => /\ {e.merchant : e \in pager.seen} = pager.ranked
     /\ Cardinality(pager.seen) = Cardinality(pager.ranked)
     /\ {e.rank : e \in pager.seen} = 1 .. Cardinality(pager.ranked)
     /\ \A d, e \in pager.seen : d.rank < e.rank => d.figure >= e.figure

(* Both queries of a portfolio tell the same number of active loans when   *)
(* nothing moves between them.                                             *)
PortfolioAgrees ==
  folio.pc = "done" /\ "moves" \notin regime => folio.counted = folio.shown

(* Who has been paid back every loan is gold, and who lost half of them is *)
(* poor, whatever the volume.                                              *)
ScoreMeansSomething ==
  \A m \in Merchants :
    LET a == aggregateLoans(rows, m) IN
    /\ a.totalLoans > 0 /\ a.repaymentRate = 10000 => calculateScore(a) >= 90
    /\ a.defaultRate >= 5000 => calculateScore(a) < 60

(* The months of the analytics account for every loan created in them once,*)
(* across the turn of a year too.                                          *)
EveryLoanInItsMonth ==
  \A m \in Merchants, today \in Today, months \in {1, 14} :
    LET data == monthsData(rows, m, today, months) IN
    /\ SumFunction([i \in 1 .. months |-> data[i].totalLoans]) =
         Cardinality({l \in Of(rows, m, Statuses) :
                        Created[l] \in today - months + 1 .. today})
    /\ data[months].totalLoans =
         Cardinality({l \in Of(rows, m, Statuses) : Created[l] = today})

MerchantFiguresAgree ==
  /\ PagesMakeOneRanking
  /\ PortfolioAgrees
  /\ ~Reading => ScoreMeansSomething /\ EveryLoanInItsMonth
=============================================================================
