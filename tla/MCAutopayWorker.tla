-------------------------- MODULE MCAutopayWorker --------------------------
(* AutopayWorker for TLC: one user, whose subscriptions have one plan, or a *)
(* user for each of two subscriptions.                                      *)
EXTENDS AutopayWorker, TLC

CONSTANTS u1, k1, a1, s1, s2, o1, o2

SameUser == [s \in Sub |-> u1]

UnitPeriod == [s \in Sub |-> 1]

OneKey == [o \in Order |-> k1]

OneRenewalKey == [s \in Sub |-> k1]

OwnUser == [s \in Sub |-> s]

OwnRenewalKey == [s \in Sub |-> s]

(* Two orders under the key of each subscription. *)
OrdersOfEach == [o \in Order |-> IF o \in {o1, o2} THEN s1 ELSE s2]

Symmetry == Permutations(Worker) \cup Permutations(Order) \cup Permutations(JobId)

JobSymmetry == Permutations(Order) \cup Permutations(JobId)
=============================================================================
