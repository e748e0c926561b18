-------------------------- MODULE MCPaymentHandler --------------------------
(* PaymentHandler for TLC: the orders of one user and product, or of two. *)
EXTENDS PaymentHandler, TLC

CONSTANTS c1, c2, o1, o2, k1, k2

SameKey == [o \in Order |-> k1]

TwoKeys == [o \in Order |-> IF o = o1 THEN k1 ELSE k2]

CallerSymmetry == Permutations(Caller)

Symmetry == Permutations(Caller) \cup Permutations(Order)
=============================================================================
