-------------------------- MODULE MCCorrections --------------------------
(* Instances of Corrections for TLC: two creators of the old database and    *)
(* the excluded one, a sale of each kind; one attempt.                       *)
EXTENDS Corrections, TLC

CONSTANTS a1, a2, g1, n1, n2, nTest, s1, s2, sTest, sg,
          l1, p1, t1, e1, p2, t2, e2, l3, p3, t3, e3

\* The agency has one creator; the other is created, or the first renamed.
TargetCreators == (a1 :> n1) @@ (a2 :> None)

\* s1 is found by name, s2 by login, and 'test' is a name the agency may use.
Canonical == (s1 :> n1) @@ (s2 :> n2) @@ (sTest :> nTest)
Logins == (s1 :> None) @@ (s2 :> a2) @@ (sTest :> None)
AgentLogins == (sg :> g1)

\* l1-p1-t1-e1: a sale on a link, with a customer.  p2-t2-e2: a sale of s2 without
\* a link.  l3-p3-t3-e3: a payment of the excluded creator on a link of s1.
Tables ==
  [r \in Rows |-> CASE r \in {l1, l3} -> "link" [] r \in {p1, p2, p3} -> "payment"
                    [] r \in {t1, t2, t3} -> "transaction" [] OTHER -> "entry"]
Parents ==
  (l1 :> None) @@ (p1 :> l1) @@ (t1 :> p1) @@ (e1 :> t1)
    @@ (p2 :> None) @@ (t2 :> p2) @@ (e2 :> t2)
    @@ (l3 :> None) @@ (p3 :> l3) @@ (t3 :> p3) @@ (e3 :> t3)
Owners ==
  [r \in Rows |-> CASE r \in {l1, p1, e1, l3} -> s1 [] r \in {p2, e2} -> s2
                    [] r \in {p3, e3} -> sTest [] OTHER -> None]
OwnersMixed == [Owners EXCEPT ![e2] = sTest, ![p2] = s1]
Sellers == [r \in Rows |-> IF r = e1 THEN sg ELSE None]
Keys == [k \in Runs |-> k]

\* The premise of AttributionHolds, in every instance but the mixed one.
ASSUME SalesPostedHere == Owner = Owners => SalesPosted

\* Runs are interchangeable, each with a key of its own.
RunSymmetry == Permutations(Runs)

Body == [name |-> Keep, pct |-> Keep, status |-> Keep, pay |-> Keep]
\* A rename and an archive.
SomeBodies == {[Body EXCEPT !.name = n2], [Body EXCEPT !.status = "archived"]}

\* The two parts share no row: each is explored with the other at rest.
EvidenceAtRest == EvidenceInit /\ attemptStatus = "absent" /\ charged = 0

ApartNext ==
  \/ EvidenceAtRest /\ LegacyNext /\ UNCHANGED evidenceVars
  \/ LegacyInit /\ EvidenceNext /\ UNCHANGED legacyVars

ApartSpec == Init /\ [][ApartNext]_vars

CorrectionSymmetry == RunSymmetry
=============================================================================
