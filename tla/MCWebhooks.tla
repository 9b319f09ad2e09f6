----------------------------- MODULE MCWebhooks -----------------------------
(***************************************************************************)
(* Instances of Webhooks for TLC: one endpoint to which a transition is    *)
(* announced three times, which uses up the occurrences, or twice where    *)
(* processes die, or two endpoints to which it is announced twice.         *)
(***************************************************************************)
EXTENDS Webhooks

MCRegimes ==
  {{"one", "queue", "evict", "owner"}, {"one", "db", "evict"},
   {"one", "crash", "evict"}, {"one", "answer"}, {}}
MCDispatches ==
  [r \in MCRegimes |-> IF "one" \in r /\ "crash" \notin r THEN 3 ELSE 2]
=============================================================================
