----------------------------- MODULE MCConsole -----------------------------
(* Instances of Console for TLC: the tables of Screens, cut down to the      *)
(* pages and mutations that make a difference to the watched keys.           *)
EXTENDS Console, TLC

S == INSTANCE Screens

\* A key of the frame that one mutation answers, one the bell polls, one of a
\* page that several pages change, one the stream reaches by name, one it does not.
WatchedKeys ==
  {"workspace-currencies", "notifications", "payments-summary", "platform-workspaces", "auth-me"}

SomePages == {"payments", "settings", "platform", "archive"}

SomeOps == {"reverse", "workspace", "currencies", "rate card", "platform admin", "read the bell"}

SomeObserves == S!ObservedKeys \cap (SomePages \X S!Keys)
SomeRunsOn == S!OpPages \cap (SomeOps \X SomePages)
SomeChanges == S!ChangedKeys \cap (SomeOps \X S!Keys)
SomeLists == S!ListedKeys \cap (SomeOps \X S!Keys)
Unreached == S!UnreachedKeys

\* One custom role, whose list is not the admins' default.
OwnRole == {"custom"}
OwnList == [custom |-> "few"]
Defaults == [role \in Roles |-> IF role = "workspace_admin" THEN "all" ELSE "few"]

\* No call of a save reads both the roster and the permissions: an editor is about
\* one of them, with the other at rest. Of the seat, assignments read an agent's
\* status.
Few == [roleKey |-> Empty, permissions |-> "few"]
AboutRoster ==
  /\ kind # "member"
  /\ \A row \in {seat, listed} :
       /\ row.grants = Few /\ row.role # "workspace_admin"
       /\ kind = "creator" => row.status = "active"
  /\ dialog # Empty => dialog.grants = Few
AboutSeat ==
  /\ kind \notin New /\ manages /\ wide
  /\ roster = {} /\ barred = {} /\ "roster" \notin stale /\ (kind = "member" => cached = Empty)
  /\ dialog # Empty => dialog.picked = {}
EditorPart == AboutRoster \/ AboutSeat

\* The three parts share no state: each is explored with the others at rest.
CacheAtRest == key = "notifications" /\ CacheInit
EditorAtRest == kind = "new agent" /\ manages /\ EditorInit

ApartNext ==
  \/ ActInit /\ EditorAtRest /\ CacheNext /\ UNCHANGED <<actVars, editorVars>>
  \/ CacheAtRest /\ EditorAtRest /\ ActNext /\ UNCHANGED <<cacheVars, editorVars>>
  \/ CacheAtRest /\ ActInit /\ EditorNext /\ EditorPart' /\ UNCHANGED <<cacheVars, actVars>>

ApartInit == Init /\ EditorPart /\ (CacheAtRest \/ EditorAtRest)
ApartSpec == ApartInit /\ [][ApartNext]_vars

EditorSymmetry == Permutations(Partners)
=============================================================================
