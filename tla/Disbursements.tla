--------------------------- MODULE Disbursements ---------------------------
(* The money an agency gives out of its sales: payouts to creators and       *)
(* agents (Payouts) and the reserve it keeps back and releases               *)
(* (RollingReserve).  Each reads the sales; neither writes a row the other   *)
(* reads.                                                                    *)
EXTENDS Payouts, RollingReserve

vars == <<payoutVars, reserveVars>>

Init == PayoutInit /\ ReserveInit

Next ==
  \/ PayoutNext /\ UNCHANGED reserveVars
  \/ ReserveNext /\ UNCHANGED payoutVars

Spec == Init /\ [][Next]_vars
=============================================================================
