---------------------------- MODULE Corrections ----------------------------
(* What is put right after the fact: the reasons and fees of payments the    *)
(* provider explained late (ProviderEvidence), and the sales of the old      *)
(* database that were never brought over (LegacyRecovery).  An attempt of    *)
(* the one is a row the other finds present and leaves alone.                *)
EXTENDS ProviderEvidence, LegacyRecovery

vars == <<evidenceVars, legacyVars>>

Init == EvidenceInit /\ LegacyInit

Next ==
  \/ EvidenceNext /\ UNCHANGED legacyVars
  \/ LegacyNext /\ UNCHANGED evidenceVars

Spec == Init /\ [][Next]_vars
=============================================================================
