-------------------------- MODULE MCPaymentLedger --------------------------
(* Instances of PaymentLedger for TLC. *)
EXTENDS PaymentLedger, TLC

CONSTANTS l1, l2, a1, a2, a3

\* Every attempt is on the one link.
OneOrder == [a \in Attempts |-> l1]

\* Two attempts on the first link, one on the second.
TwoOrders == [a \in Attempts |-> IF a = a3 THEN l2 ELSE l1]

\* Attempts of one order are interchangeable.
AttemptSymmetry == Permutations(Attempts)
OrderSymmetry == Permutations({a1, a2})

\* A bound: each behaviour is about one link or the other, never both.
OneLinkExists == Cardinality({l \in Links : linkStatus[l] # "absent"}) <= 1

=============================================================================
