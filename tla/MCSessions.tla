----------------------------- MODULE MCSessions -----------------------------
(* Instances of Sessions for TLC. *)
EXTENDS Sessions

ThreeTokens == 1..3
TwoSignIns == 1..2
=============================================================================
