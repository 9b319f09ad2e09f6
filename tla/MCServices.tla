----------------------------- MODULE MCServices -----------------------------
(***************************************************************************)
(* An instance of Services: two requests, and for each service the regimes *)
(* and the values at which its bounds and its roundings show.              *)
(***************************************************************************)
EXTENDS Services, TLC

MCRegimes ==
  [Accounts |-> {{"applies", "assign"}, {"applies", "reviews", "fail"}, {}},
   Sessions |-> {{"tabs", "lost"}, {"fail", "block"}},
   SignIn |-> {{"slow"}, {"overlap"}, {"slow", "fail"}},
   LoanRequests |-> {{"overlap"}, {"fail"}, {"slow"}, {"rls"}, {"instances"}, {}},
   LoanTerms |-> {{"recorded"}, {}, {"free"}, {"recorded", "overlap"}},
   MerchantStats |-> {{}, {"reorders"}, {"moves"}},
   Liquidity |-> {{}, {"old", "bare"}, {"again"}, {"fail"}},
   Reminders |-> {{"again", "late"}, {"overlap", "again", "fail"}}]

MCStarts == {[month |-> 0, day |-> 31], [month |-> 10, day |-> 30]}
MCVolume == [l \in Sales |-> IF l = "x" THEN 4000 ELSE 150000]
MCCreated == [l \in Sales |-> IF l = "x" THEN 22 ELSE 25]
MCFirstDue == [l \in Loans |-> 3]
Pool(total, available, shares, own) ==
  [total |-> total, available |-> available, shares |-> shares, own |-> own]
MCPools == {Pool(0, 0, 0, 0), Pool(7, 5, 4, 2), Pool(9, 9, 9, 4)}

Symmetry == Permutations(Requests)
=============================================================================
