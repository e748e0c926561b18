----------------------- MODULE MCSubscriptionHandler -----------------------
(* SubscriptionHandler for TLC: the subscriptions of one user. *)
EXTENDS SubscriptionHandler, TLC

CONSTANTS u1

SameUser == [s \in Sub |-> u1]

UnitPeriod == [s \in Sub |-> 1]

Symmetry == Permutations(Caller) \cup Permutations(Sub)
=============================================================================
