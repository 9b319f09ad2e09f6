--------------------------- MODULE MCEventIndexer ---------------------------
(***************************************************************************)
(* Instances of EventIndexer: five events in ledgers 1, 2, 2, 3 and 3 of   *)
(* two loans of 3 that are created and repaid, of one that defaults before *)
(* it is repaid, of the scores of two wallets, of the deposits of two      *)
(* users, and of a contract that starts with events nobody knows.          *)
(***************************************************************************)
EXTENDS EventIndexer, TLC

CONSTANTS s1, s2

Emits(types, subjects, values) ==
  [e \in 1 .. 5 |-> [ledger |-> <<1, 2, 2, 3, 3>>[e], type |-> types[e],
                     subject |-> subjects[e], value |-> values[e]]]

LoanFeed ==
  Emits(<<"LOAN_CREATED", "LOAN_REPAID", "LOAN_REPAID", "LOAN_CREATED",
          "LOAN_REPAID">>, <<s1, s1, s1, s2, s2>>, <<0, 1, 2, 0, 3>>)
DefaultFeed ==
  Emits(<<"LOAN_CREATED", "LOAN_DEFAULTED", "LOAN_REPAID", "LOAN_CREATED",
          "unrecognised">>, <<s1, s1, s1, s2, s2>>, <<0, 0, 3, 0, 0>>)
ScoreFeed ==
  Emits(<<"SCORE_CHANGED", "SCORE_CHANGED", "SCORE_CHANGED", "SCORE_CHANGED",
          "unrecognised">>, <<s1, s1, s2, s1, s1>>, <<5, 7, 6, 4, 0>>)
DepositFeed ==
  Emits(<<"LIQUIDITY_DEPOSITED", "unrecognised", "LIQUIDITY_DEPOSITED",
          "LIQUIDITY_DEPOSITED", "unrecognised">>, <<s1, s1, s2, s1, s1>>,
        <<0, 0, 0, 0, 0>>)
MixedFeed ==
  Emits(<<"unrecognised", "unrecognised", "LOAN_CREATED", "LOAN_REPAID",
          "LOAN_REPAID">>, <<s1, s1, s1, s1, s1>>, <<0, 0, 0, 1, 2>>)

Of(feed, limit, poison, mishaps) ==
  [events |-> feed, limit |-> limit, poison |-> poison, mishaps |-> mishaps]

MCSafety ==
  {Of(LoanFeed, 5, {}, {"rpc", "crash", "overlap"}),
   Of(LoanFeed, 2, {}, {"rpc"}),
   Of(LoanFeed, 3, {}, {"rpc", "crash", "partial"}),
   Of(LoanFeed, 5, {}, {"rpc", "cursor"}),
   Of(LoanFeed, 2, {}, {"db", "crash", "cursor", "overlap"}),
   Of(DefaultFeed, 5, {}, {"rpc"}),
   Of(DefaultFeed, 5, {4}, {"rpc", "crash", "cursor"}),
   Of(DefaultFeed, 2, {}, {"rpc", "crash"}),
   Of(ScoreFeed, 2, {}, {"rpc"}),
   Of(ScoreFeed, 5, {3}, {"rpc", "cursor"}),
   Of(ScoreFeed, 3, {}, {"db", "crash", "overlap"}),
   Of(DepositFeed, 5, {}, {"rpc", "cursor", "overlap"}),
   Of(DepositFeed, 5, {}, {"rpc", "roles"}),
   Of(DepositFeed, 2, {}, {"db", "roles"})}
MCLiveness ==
  {Of(MixedFeed, 5, {}, {"rpc", "crash", "cursor"}),
   Of(MixedFeed, 2, {}, {"rpc"}),
   Of(LoanFeed, 5, {4}, {"rpc", "cursor"}),
   Of(LoanFeed, 3, {}, {"rpc", "partial"}),
   Of(ScoreFeed, 2, {}, {"rpc", "crash"})}
MCCut == {Of(LoanFeed, 2, {}, {})}

MCOwed == [s \in Subjects |-> 3]
Symmetry == Permutations(Workers)
=============================================================================
