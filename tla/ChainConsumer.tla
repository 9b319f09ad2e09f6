--------------------------- MODULE ChainConsumer ----------------------------
(***************************************************************************)
(* What the event indexer promises: a chain emits numbered events, and the *)
(* index takes each of them once, in that order, leaving none out.         *)
(***************************************************************************)
EXTENDS Naturals

VARIABLES
  events,  \* the events of the chain; they never change
  indexed  \* those that are in the index

Init ==
  /\ events \subseteq Nat
  /\ indexed = {}

Consume(e) ==
  /\ e \in events \ indexed
  /\ \A d \in events : d < e => d \in indexed
  /\ indexed' = indexed \cup {e}
  /\ UNCHANGED events

Next == \E e \in events : Consume(e)

Spec == Init /\ [][Next]_<<events, indexed>>
=============================================================================
