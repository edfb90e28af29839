------------------------------ MODULE MCDelivery ------------------------------
(***************************************************************************)
(* Instances of Delivery for TLC.                                          *)
(***************************************************************************)
EXTENDS DeliveryProperties, TLC

\* Handlers are interchangeable, and so are the events whose body parses.
Symmetry == Permutations(Handlers) \cup Permutations(Events \ Malformed)

\* A bound: two events are about at a time, and one of them is tried again.
TwoEvents ==
  /\ Cardinality({e \in Events : attempts[e] > 0}) <= 2
  /\ Cardinality({e \in Events : attempts[e] = MaxAttempts}) <= 1
===============================================================================
