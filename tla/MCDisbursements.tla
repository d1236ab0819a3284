-------------------------- MODULE MCDisbursements --------------------------
(* Instances of Disbursements for TLC. *)
EXTENDS Disbursements, TLC

CONSTANTS s1, s2

TwoDays == [s \in Sales |-> IF s = s1 THEN 1 ELSE LastDay]

\* One day's range inside a longer one.
TwoRanges == {<<1, 1>>, <<1, 2>>}

\* Grosses whose halves round, so the holds are 2 cents and 1.
SmallGross == [s \in Charges |-> IF s = s1 THEN 3 ELSE 2]

\* The two parts share no row: each is explored with the other at rest.
PayoutsAtRest == PayoutInit /\ salaried = {}
ReserveAtRest == ReserveInit /\ ~enabled /\ pct = 50

ApartNext ==
  \/ ReserveAtRest /\ PayoutNext /\ UNCHANGED reserveVars
  \/ PayoutsAtRest /\ ReserveNext /\ UNCHANGED payoutVars

ApartInit == Init /\ (PayoutsAtRest \/ ReserveAtRest)
ApartSpec == ApartInit /\ [][ApartNext]_vars

Same == Permutations(Requests) \cup Permutations(Releasers)
=============================================================================
