------------------------------ MODULE Editors ------------------------------
(***************************************************************************)
(* The agency page's dialogs (pages/Agency): one save is a sequence of     *)
(* calls, each committed on its own, against one creator, salesperson or   *)
(* seat.  The form is seeded from cached queries, the calls are chosen by  *)
(* comparing the form with what was cached or read, and a failed call      *)
(* leaves the dialog open for another try.  Roster is the edited profile's *)
(* account_agents rows.  A dialog stays open while it saves; names, pay    *)
(* and passwords are left out, their calls are not.                        *)
(***************************************************************************)
EXTENDS Naturals

CONSTANTS
  Partners,         \* agents a creator may be given, or creators a salesperson may sell for
  PermissionLists,  \* lists of permissions
  CustomRoles,      \* keys of the workspace's custom roles
  ListOf,           \* the permissions of each custom role
  DefaultList,      \* ROLE_PERMISSIONS: the permissions a type starts with
  MaxOthers,        \* bound: writes of other clients
  Empty             \* null

Roles == {"workspace_admin", "member", "agent", "account_owner"}

\* A save: the call it is at, and the assignments it has still to add and drop.
Steps == {"create", "terms", "read", "assign", "access", "status", "done"}
Saves == [step : Steps, add : SUBSET Partners, drop : SUBSET Partners]

\* What a seat holds: a custom role and its list, or a list of its own.
PermissionStates ==
  [roleKey : {Empty}, permissions : PermissionLists]
    \cup {[roleKey |-> key, permissions |-> ListOf[key]] : key \in CustomRoles}

ASSUME EditorsAssumption ==
  /\ MaxOthers \in Nat /\ Empty \notin CustomRoles \cup Saves
  /\ ListOf \in [CustomRoles -> PermissionLists]
  /\ DefaultList \in [Roles -> PermissionLists]
  /\ \A chosen \in SUBSET Partners : chosen # Empty

Kinds == {"creator", "agent", "member", "new creator", "new agent"}
New == {"new creator", "new agent"}

VARIABLES
  kind,      \* which dialog this behaviour is about; never changes
  manages,   \* canManageMembers; never changes
  wide,      \* the caller's data scope is the workspace; never changes
  exists,    \* the profile's row
  roster,    \* the profile's account_agents rows
  seat,      \* the workspace_users row: [role, status, grants]
  barred,    \* partners whose own seat is not active
  cached,    \* roster in the query cache: ['account', id] of a creator, 'agents' of a salesperson
  listed,    \* seat in the cached 'team' query
  dialog,    \* Empty, or [seen, picked, role, status, grants]
  saving,    \* Empty, or [step, add, drop]
  half,      \* a save of this dialog failed
  stale,     \* rows that differ from what the save goes by: "roster", "seat"
  others     \* writes of other clients so far

callerVars == <<kind, manages, wide>>
serverVars == <<exists, roster, seat, barred>>
historyVars == <<half, stale, others>>
editorVars == <<callerVars, serverVars, cached, listed, dialog, saving, historyVars>>

Statuses == {"active", "suspended", "removed"}
Seats == [role : Roles, status : Statuses, grants : PermissionStates]

\* The types a seat behind this dialog can have; a seat left by a creator that
\* was refused for its name is a plain member's.
SeatRoles ==
  CASE kind \in {"creator", "new creator"} -> {"account_owner"}
    [] kind \in {"agent", "new agent"} -> {"agent", "workspace_admin"}
    [] OTHER -> {"member", "workspace_admin", "account_owner"}

\* grantWorkspaceRole
NewSeat ==
  LET role == IF kind = "new creator" THEN "account_owner" ELSE "agent" IN
  [role |-> role, status |-> "active",
   grants |-> [roleKey |-> Empty, permissions |-> DefaultList[role]]]

\* DELETE /team/:userId refuses a seat behind a profile; a creator's is removed
\* before it has one.
SeatStatuses == IF kind = "agent" THEN Statuses \ {"removed"} ELSE Statuses

\* Partners whose assignment the server accepts: the agent's seat is active.
Assignable ==
  IF kind \in {"agent", "new agent"}
  THEN IF seat.status = "active" THEN Partners ELSE {}
  ELSE Partners \ barred

\* What a read of the roster answers: GET /accounts/:id names the active agents,
\* to a caller who sees the whole workspace; GET /agents names every creator.
ShownRoster ==
  CASE kind = "creator" /\ wide -> roster \ barred
    [] kind = "creator" /\ ~wide -> {}
    [] OTHER -> roster

EditorInit ==
  /\ kind \in Kinds /\ manages \in BOOLEAN /\ (kind = "member" => manages)
  /\ wide \in BOOLEAN /\ (kind # "creator" => wide)
  /\ exists = (kind \notin New)
  /\ roster \in IF kind \in {"creator", "agent"} THEN SUBSET Partners ELSE {{}}
  /\ seat \in IF kind \in New THEN {NewSeat}
              ELSE [role : SeatRoles, status : SeatStatuses, grants : PermissionStates]
  /\ barred \in IF kind \in {"creator", "new creator"} THEN SUBSET Partners ELSE {{}}
  /\ cached = (IF kind \in New THEN {} ELSE Empty) /\ listed = seat
  /\ dialog = Empty /\ saving = Empty
  /\ half = FALSE /\ stale = {} /\ others = 0

-----------------------------------------------------------------------------
(* Cached rows *)

\* The page observes 'agents' and 'team'; ['account', id] is observed while its
\* dialog is open, and no mutation of the page invalidates it.
RosterFetched ==
  /\ kind \notin New
  /\ cached # ShownRoster
  /\ kind = "creator" => dialog # Empty \/ cached = Empty
  /\ cached' = ShownRoster
  /\ UNCHANGED <<callerVars, serverVars, listed, dialog, saving, historyVars>>

\* gcTime, or a page load.
RosterForgotten ==
  /\ kind = "creator" /\ dialog = Empty /\ cached # Empty
  /\ cached' = Empty
  /\ UNCHANGED <<callerVars, serverVars, listed, dialog, saving, historyVars>>

TeamFetched ==
  /\ listed # seat
  /\ listed' = seat
  /\ UNCHANGED <<callerVars, serverVars, cached, dialog, saving, historyVars>>

-----------------------------------------------------------------------------
(* The form *)

\* The member dialog knows two types, and every dialog two statuses.
FormRole(role) ==
  IF kind = "member" /\ role # "workspace_admin" THEN "member" ELSE role

FormStatus(status) == IF status = "suspended" THEN status ELSE "active"

\* Every field seeds once, from what the cache holds when the form mounts.
Open ==
  /\ dialog = Empty /\ (cached # Empty \/ kind = "member")
  /\ dialog' = [seen |-> listed, picked |-> IF cached = Empty THEN {} ELSE cached,
                role |-> FormRole(listed.role), status |-> FormStatus(listed.status),
                grants |-> listed.grants]
  /\ half' = FALSE
  /\ stale' = IF listed = seat THEN {} ELSE {"seat"}
  /\ UNCHANGED <<callerVars, serverVars, cached, listed, saving, others>>

Pick(partner) ==
  /\ dialog # Empty /\ saving = Empty /\ kind # "member"
  /\ dialog' = [dialog EXCEPT
       !.picked = IF partner \in @ THEN @ \ {partner} ELSE @ \cup {partner}]
  /\ UNCHANGED <<callerVars, serverVars, cached, listed, saving, historyVars>>

Managing == dialog # Empty /\ saving = Empty /\ manages /\ kind \notin New

\* Another type brings the permissions it starts with.
ChooseRole(role) ==
  /\ Managing /\ kind # "creator" /\ role \in SeatRoles \ {"account_owner", dialog.role}
  /\ dialog' = [dialog EXCEPT
       !.role = role, !.grants = [roleKey |-> Empty, permissions |-> DefaultList[role]]]
  /\ UNCHANGED <<callerVars, serverVars, cached, listed, saving, historyVars>>

ChooseGrants(grants) ==
  /\ Managing /\ grants # dialog.grants
  /\ dialog' = [dialog EXCEPT !.grants = grants]
  /\ UNCHANGED <<callerVars, serverVars, cached, listed, saving, historyVars>>

ChooseStatus(status) ==
  /\ Managing /\ status # dialog.status
  /\ dialog' = [dialog EXCEPT !.status = status]
  /\ UNCHANGED <<callerVars, serverVars, cached, listed, saving, historyVars>>

Cancel ==
  /\ dialog # Empty /\ saving = Empty
  /\ dialog' = Empty
  /\ UNCHANGED <<callerVars, serverVars, cached, listed, saving, historyVars>>

-----------------------------------------------------------------------------
(* The calls of a save *)

Plan(step, current) ==
  [step |-> step, add |-> dialog.picked \ current, drop |-> current \ dialog.picked]

\* Mutant: a creator's roster is compared with the detail in the cache.
CurrentRosterCached == cached

\* What the wanted roster is compared with: a creator's is read again, a
\* salesperson's is the page's list.
CurrentRoster == IF kind = "creator" THEN ShownRoster ELSE cached

\* For a salesperson the rows may differ from the list for any reason: another
\* client's write, a list not fetched since this client's own, a half save.
SubmitEditor ==
  /\ dialog # Empty /\ saving = Empty
  /\ saving' = CASE kind \in New -> Plan("create", {})
                 [] kind = "member" -> [step |-> "access", add |-> {}, drop |-> {}]
                 [] kind = "agent" -> Plan("terms", CurrentRoster)
                 [] OTHER -> [step |-> "terms", add |-> {}, drop |-> {}]
  /\ stale' = IF kind = "agent" /\ cached # roster THEN stale \cup {"roster"} ELSE stale \ {"roster"}
  /\ UNCHANGED <<callerVars, serverVars, cached, listed, dialog, half, others>>

\* The call was answered, or its answer was lost and the save stops.
Proceed(next) ==
  \/ saving' = next /\ UNCHANGED half
  \/ saving' = Empty /\ half' = TRUE

At(step) == saving # Empty /\ saving.step = step

Unread == UNCHANGED <<callerVars, cached, listed, dialog, others>>

\* POST /accounts, POST /agents: a second try finds the login taken.
Create ==
  /\ At("create") /\ ~exists
  /\ exists' = TRUE
  /\ Proceed([saving EXCEPT !.step = "assign"])
  /\ UNCHANGED <<roster, seat, barred, stale>> /\ Unread

\* PATCH /accounts/:id, PATCH /agents/:id
SaveTerms ==
  /\ At("terms")
  /\ Proceed([saving EXCEPT !.step = IF kind = "creator" THEN "read" ELSE "assign"])
  /\ UNCHANGED <<serverVars, stale>> /\ Unread

\* GET /accounts/:id, before the first assignment of a creator.
ReadRoster ==
  /\ At("read")
  /\ Proceed(Plan("assign", CurrentRoster))
  /\ UNCHANGED serverVars /\ Unread
  /\ stale' = stale \ {"roster"}

\* POST /accounts/:id/agents
Assign(partner) ==
  /\ At("assign") /\ partner \in saving.add \cap Assignable
  /\ roster' = roster \cup {partner}
  /\ Proceed([saving EXCEPT !.add = @ \ {partner}])
  /\ UNCHANGED <<exists, seat, barred, stale>> /\ Unread

\* DELETE /accounts/:id/agents/:agentId, once all are added.
Unassign(partner) ==
  /\ At("assign") /\ saving.add = {} /\ partner \in saving.drop
  /\ roster' = roster \ {partner}
  /\ Proceed([saving EXCEPT !.drop = @ \ {partner}])
  /\ UNCHANGED <<exists, seat, barred, stale>> /\ Unread

\* The roster is saved; the seat is next for who manages members.
Assigned ==
  /\ At("assign") /\ saving.add = {} /\ saving.drop = {}
  /\ saving' = [saving EXCEPT !.step = IF kind \notin New /\ manages THEN "access" ELSE "done"]
  /\ UNCHANGED <<serverVars, half, stale>> /\ Unread

\* permissionChange: a custom role, a list, or only that the role is left.
GrantsDiffer == dialog.grants # dialog.seen.grants
Detached ==
  /\ GrantsDiffer /\ dialog.grants.roleKey = Empty
  /\ dialog.grants.permissions = dialog.seen.grants.permissions

\* accessUpdate: a moved type is sent with the permissions; the member dialog
\* sends the type in any case.
RoleMoved == dialog.role # dialog.seen.role
RoleSent == kind = "member" \/ RoleMoved
GrantsSent == (kind # "member" /\ RoleMoved) \/ (GrantsDiffer /\ ~Detached)

\* A type that comes without permissions resets them, except to a plain member's.
RoleResets == RoleSent /\ ~GrantsSent /\ dialog.role \in {"workspace_admin", "agent"}

GrantsSaved(row) ==
  IF GrantsSent THEN dialog.grants
  ELSE IF RoleResets THEN [roleKey |-> Empty, permissions |-> DefaultList[dialog.role]]
  ELSE IF Detached THEN [row.grants EXCEPT !.roleKey = Empty]
  ELSE row.grants

\* PATCH /team/:userId
SaveAccess ==
  /\ At("access")
  /\ seat' = [seat EXCEPT !.role = IF RoleSent THEN dialog.role ELSE @,
                          !.grants = GrantsSaved(seat)]
  /\ Proceed([saving EXCEPT !.step = "status"])
  /\ UNCHANGED <<exists, roster, barred, stale>> /\ Unread

\* Mutant: only a suspension is sent.
StatusDiffersOneWay == dialog.status = "suspended"

\* applyAccess compares with the listed status, and leaves a removed seat alone.
StatusDiffers == dialog.status # dialog.seen.status /\ dialog.seen.status # "removed"

\* PATCH /team/:userId/status
SaveStatus ==
  /\ At("status")
  /\ seat' = [seat EXCEPT !.status = IF StatusDiffers THEN dialog.status ELSE @]
  /\ Proceed([saving EXCEPT !.step = "done"])
  /\ UNCHANGED <<exists, roster, barred, stale>> /\ Unread

\* A call is refused or never arrives; the dialog shows why and stays.
SaveFails ==
  /\ saving # Empty /\ saving.step # "done"
  /\ saving' = Empty /\ half' = TRUE
  /\ UNCHANGED <<serverVars, stale>> /\ Unread

Saved ==
  /\ At("done")
  /\ saving' = Empty /\ dialog' = Empty
  /\ UNCHANGED <<callerVars, serverVars, cached, listed, historyVars>>

-----------------------------------------------------------------------------
(* Other clients *)

OthersAssign(partner) ==
  /\ exists /\ kind # "member"
  /\ \/ partner \in roster /\ roster' = roster \ {partner}
     \/ partner \in Assignable \ roster /\ roster' = roster \cup {partner}
  /\ stale' = stale \cup {"roster"}
  /\ UNCHANGED <<seat, barred>>

OthersSetSeat ==
  /\ kind \notin New
  /\ \/ \E status \in SeatStatuses : seat' = [seat EXCEPT !.status = status]
     \/ \E role \in SeatRoles, grants \in PermissionStates :
          seat' = [seat EXCEPT !.role = role, !.grants = grants]
  /\ seat' # seat
  /\ stale' = stale \cup {"seat"}
  /\ UNCHANGED <<roster, barred>>

\* Another seat is suspended or reactivated: a creator's roster is shown differently.
OthersSetPartner(partner) ==
  /\ kind \in {"creator", "new creator"}
  /\ barred' = IF partner \in barred THEN barred \ {partner} ELSE barred \cup {partner}
  /\ stale' = IF kind = "creator" THEN stale \cup {"roster"} ELSE stale
  /\ UNCHANGED <<roster, seat>>

Others ==
  /\ others < MaxOthers
  /\ \/ \E partner \in Partners : OthersAssign(partner) \/ OthersSetPartner(partner)
     \/ OthersSetSeat
  /\ others' = others + 1
  /\ UNCHANGED <<callerVars, exists, cached, listed, dialog, saving, half>>

EditorNext ==
  \/ RosterFetched \/ RosterForgotten \/ TeamFetched
  \/ Open \/ Cancel \/ SubmitEditor
  \/ \E partner \in Partners : Pick(partner) \/ Assign(partner) \/ Unassign(partner)
  \/ \E role \in Roles : ChooseRole(role)
  \/ \E grants \in PermissionStates : ChooseGrants(grants)
  \/ \E status \in {"active", "suspended"} : ChooseStatus(status)
  \/ Create \/ SaveTerms \/ ReadRoster \/ Assigned \/ SaveAccess \/ SaveStatus
  \/ SaveFails \/ Saved \/ Others

-----------------------------------------------------------------------------
(* Properties *)

\* A dialog that reports success has assigned what its form picked, after any
\* number of half-saved attempts, and nothing else that its caller could see: a
\* creator's suspended agents stay, and all of them for a caller who sees none.
\* Excepted is a roster that changed since the save compared it, or differed from
\* the salesperson's cached list when it was submitted.
RosterAsChosen ==
  At("done") /\ kind # "member" /\ "roster" \notin stale =>
    /\ dialog.picked \subseteq roster
    /\ wide => roster \ dialog.picked \subseteq (IF kind = "creator" THEN barred ELSE {})

\* ... and, at the first attempt, the seat of its form, if that was listed as it
\* is: type, status and permissions, of which only the last two are sent as
\* differences.  Excepted are a removed seat, whose status stays, and an admin in
\* the member dialog whose permissions are not sent: they are reset.
SeatAsChosen ==
  At("done") /\ kind \notin New /\ manages /\ ~half /\ "seat" \notin stale =>
    /\ seat.role = dialog.role
    /\ seat.status = IF dialog.seen.status = "removed" THEN "removed" ELSE dialog.status
    /\ seat.grants =
         IF kind = "member" /\ dialog.role = "workspace_admin" /\ ~GrantsSent
         THEN [roleKey |-> Empty, permissions |-> DefaultList["workspace_admin"]]
         ELSE dialog.grants

\* While nobody else writes, a dialog that reports success has the roster of its
\* form: "every mutation here refreshes the same four keys" (useAgencyData.ts:93),
\* so the list the next attempt goes by is not a half save behind.
RosterAsChosenAlone ==
  At("done") /\ kind # "member" /\ wide /\ others = 0 =>
    roster = dialog.picked \cup (IF kind = "creator" THEN roster \cap barred ELSE {})

\* A first attempt leaves the permissions of its form: what is sent carries "a
\* permission change, or none when nothing changed" (permissionState.ts:17-18).
GrantsAsChosen ==
  At("done") /\ kind \notin New /\ manages /\ ~half /\ "seat" \notin stale
    => seat.grants = dialog.grants

\* A removed seat is given the status of the form.
StatusAsChosen ==
  At("done") /\ kind \notin New /\ manages /\ ~half /\ "seat" \notin stale
    => seat.status = dialog.status

\* The seat after a failed attempt: a choice taken back is no difference, and
\* what the failed attempt saved stays.
SeatAsChosenAfterAll ==
  At("done") /\ kind = "creator" /\ manages /\ "seat" \notin stale
    => seat.grants = dialog.grants

\* "Mounted only once the roster is known" (CreatorEditor.tsx:224): a save whose
\* form shows the roster as fetched, while nobody else writes, removes nothing.
RosterLeftAlone ==
  [][kind \notin New /\ others' = 0 /\ saving # Empty /\ dialog.picked = cached /\ ~half
       => roster \subseteq roster']_editorVars

\* Reactivating a salesperson and assigning a creator in one save can succeed:
\* the assignment is sent first, and refused while the seat is suspended.
ReactivatedCanBeAssigned ==
  kind = "agent" /\ saving # Empty /\ dialog.status = "active" /\ "seat" \notin stale
    => saving.add \subseteq Assignable
=============================================================================
