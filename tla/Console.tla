------------------------------ MODULE Console ------------------------------
(* The console's hidden states: which rows it shows (QueryCache), as whom it *)
(* reads them (Impersonation) and what an open editor believes (Editors).    *)
(* Changing identity empties the cache, so an entry's life lies between two  *)
(* such changes; the editors keep their rows to themselves.                  *)
EXTENDS QueryCache, Impersonation, Editors

vars == <<cacheVars, actVars, editorVars>>

Init == CacheInit /\ ActInit /\ EditorInit

Next ==
  \/ CacheNext /\ UNCHANGED <<actVars, editorVars>>
  \/ ActNext /\ UNCHANGED <<cacheVars, editorVars>>
  \/ EditorNext /\ UNCHANGED <<cacheVars, actVars>>

Spec == Init /\ [][Next]_vars
=============================================================================
