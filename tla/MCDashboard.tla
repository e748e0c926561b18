---------------------------- MODULE MCDashboard ----------------------------
(* Dashboard for TLC: the subscriptions of two users. *)
EXTENDS Dashboard, TLC

OwnUser == [s \in Sub |-> s]

UnitPeriod == [s \in Sub |-> 1]

Symmetry == Permutations(Caller) \cup Permutations(Sub)
=============================================================================
