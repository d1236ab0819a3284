----------------------------- MODULE Directory -----------------------------
(* What an agency keeps beside its sales: what it may sell in (Pricing),     *)
(* whom it sells to (Customers) and who works in it (Membership).  The       *)
(* handlers of one write no row of the others.                               *)
EXTENDS Pricing, Customers, Membership

vars == <<pricingVars, customersVars, memberVars>>

TypeOK == PricingTypeOK /\ CustomersTypeOK /\ MembershipTypeOK

Init == PricingInit /\ CustomersInit /\ MembershipInit

Next ==
  \/ PricingNext /\ UNCHANGED <<customersVars, memberVars>>
  \/ CustomersNext /\ UNCHANGED <<pricingVars, memberVars>>
  \/ MembershipNext /\ UNCHANGED <<pricingVars, customersVars>>

Spec == Init /\ [][Next]_vars
=============================================================================
