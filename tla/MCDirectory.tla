---------------------------- MODULE MCDirectory ----------------------------
(* Instances of Directory for TLC.                                           *)
EXTENDS Directory, TLC

CONSTANTS p1, p2

Days == (p1 :> 1) @@ (p2 :> 2)

\* The three parts share no row: each is explored with the others at rest.
MembersAtRest == changes = 0 /\ MembershipInit /\ platform = {} /\ login = {Founder}

ApartNext ==
  \/ CustomersInit /\ MembersAtRest /\ PricingNext /\ UNCHANGED <<customersVars, memberVars>>
  \/ PricingInit /\ MembersAtRest /\ CustomersNext /\ UNCHANGED <<pricingVars, memberVars>>
  \/ PricingInit /\ CustomersInit /\ MembershipNext /\ UNCHANGED <<pricingVars, customersVars>>

ApartSpec == Init /\ [][ApartNext]_vars

DirectorySymmetry ==
  Permutations(Requests) \cup Permutations(Forms) \cup Permutations(Currencies \ {FirstBase})
    \cup Permutations(Users \ {Founder})
=============================================================================
