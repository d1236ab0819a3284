----------------------------- MODULE Membership -----------------------------
(***************************************************************************)
(* Who may do what in one workspace: seats, custom roles, invites, creator *)
(* and agent profiles and platform administrators (routes/team, roles,     *)
(* invites, platform, accounts and agents; services/people and invites;    *)
(* auth/permissions; the access check of middleware/index.js).             *)
(*                                                                         *)
(* A request is authorised by what requireWorkspace read when it arrived.  *)
(* The ones that read a row and write it in a later statement are modelled *)
(* in two steps, so that others commit in between; the ones that are one   *)
(* statement, or hold the locks of all they read, are one step.            *)
(***************************************************************************)
EXTENDS Naturals, FiniteSets

CONSTANTS
  Users,        \* people: a login is looked up by its e-mail address
  Keys,         \* custom roles
  NoKey,        \* no custom role
  Founder,      \* the first admin an agency is onboarded with
  MaxPending,   \* bound: requests between their reads and their writes
  MaxChanges    \* bound: requests that change something

ASSUME MembershipAssumption ==
  /\ Founder \in Users
  /\ NoKey \notin Keys
  /\ MaxPending \in Nat /\ MaxChanges \in Nat

\* The permissions the rules tell apart: to see the team, and to manage it.
Permissions == {"team.view", "team.manage"}

\* PERMISSION_DEPENDENCIES: managing needs viewing.
Lists == {p \in SUBSET Permissions : "team.manage" \in p => "team.view" \in p}

\* validatePermissions: the lists a request can name.
OfferedLists == Lists

FullAccess == {"workspace_owner", "workspace_admin"}
Plain == {"workspace_admin", "member"}
Roles == FullAccess \cup {"member", "agent", "account_owner"}

\* ROLE_PERMISSIONS
Default(r) == CASE r \in FullAccess -> Permissions
                [] r = "member" -> {"team.view"}
                [] OTHER -> {}

VARIABLES
  seat,      \* workspace_users: role, status ("none" for no row), permissions, custom_role_key
  login,     \* users with a row in users
  profile,   \* "none", "agent" or "account"
  platform,  \* users.is_platform_admin
  granted,   \* seats with platform_granted
  rights,    \* workspace_roles: a custom role's permissions
  invite,    \* a user's invite: its role, and "none", "open" or "accepted"
  pending,   \* requests between their reads and their writes
  changes,   \* requests so far
  halfMade   \* history: who was given a creator's seat by a request that then refused the creator

memberVars == <<seat, login, profile, platform, granted, rights, invite, pending, changes, halfMade>>

NoSeat == [role |-> "none", status |-> "none", perms |-> {}, key |-> NoKey]
NoRole == {"none"}       \* no such custom role
NoInvite == [role |-> "none", state |-> "none"]

Seats == {NoSeat} \cup [role : Roles, status : {"active", "suspended", "removed"},
                        perms : Lists, key : Keys \cup {NoKey}]

\* A request: who sent it with which access, what it does to whom, what it read.
Waits ==
  [op : {"edit", "transfer", "status", "remove", "accept", "promote", "account"},
   by : Users, to : Users, write : Seats]

MembershipTypeOK ==
  /\ seat \in [Users -> Seats]
  /\ login \subseteq Users
  /\ profile \in [Users -> {"none", "agent", "account"}]
  /\ platform \subseteq Users
  /\ granted \subseteq Users
  /\ rights \in [Keys -> Lists \cup {NoRole}]
  /\ invite \in [Users -> {NoInvite} \cup
                          [role : Roles, state : {"open", "accepted"}]]
  /\ halfMade \subseteq Users
  /\ pending \subseteq Waits /\ Cardinality(pending) <= MaxPending
  /\ changes \in 0..MaxChanges

NewSeat(r, p, k) == [role |-> r, status |-> "active", perms |-> p, key |-> k]

\* POST /platform/agencies: with a password the first admin has a seat at
\* once, without one an invite. Whoever is a platform admin has a seat.
MembershipInit ==
  /\ platform \in {{}} \cup {{u} : u \in Users \ {Founder}}
  /\ granted = platform
  /\ \/ /\ seat = [u \in Users |->
               IF u = Founder THEN NewSeat("workspace_owner", Permissions, NoKey)
               ELSE IF u \in platform THEN NewSeat("workspace_admin", Permissions, NoKey)
               ELSE NoSeat]
        /\ login = {Founder} \cup platform
        /\ invite = [u \in Users |-> NoInvite]
     \/ /\ seat = [u \in Users |->
               IF u \in platform THEN NewSeat("workspace_admin", Permissions, NoKey)
               ELSE NoSeat]
        /\ login = platform
        /\ invite = [u \in Users |->
               IF u = Founder THEN [role |-> "workspace_owner", state |-> "open"]
               ELSE NoInvite]
  /\ profile = [u \in Users |-> "none"]
  /\ rights = [k \in Keys |-> NoRole]
  /\ pending = {} /\ changes = 0 /\ halfMade = {}

-----------------------------------------------------------------------------
(* Access *)

Owners == {u \in Users : seat[u].role = "workspace_owner"}

\* requireWorkspace and requirePermission('team.manage' or 'roles.manage')
Manages(u) == seat[u].status = "active" /\ "team.manage" \in seat[u].perms

\* validateGrantablePermissions, for the access a request arrived with
Grantable(acc, p) == acc.role \in FullAccess \/ p \subseteq acc.perms

\* canGrantRole
CanGrantRole(acc, r) == r \in FullAccess => acc.role \in FullAccess

\* seatOutranksCaller
Outranks(acc, s) ==
  /\ acc.role \notin FullAccess
  /\ s.role \in FullAccess \/ ~(s.perms \subseteq acc.perms)

\* The seat rows requests hold FOR UPDATE: targetForRoleChange.
SeatLocked(u) == \E q \in pending : q.to = u /\ q.op \in {"edit", "transfer"}

Await(op, by, to, write) ==
  /\ Cardinality(pending) < MaxPending
  /\ pending' = pending \cup {[op |-> op, by |-> by, to |-> to, write |-> write]}

Ends(q) == pending' = pending \ {q}

-----------------------------------------------------------------------------
(* routes/team *)

\* POST /team: a login and a seat at once.
CreateMember(by, u, r, p, k) ==
  /\ Manages(by) /\ CanGrantRole(seat[by], r)
  /\ k # NoKey => rights[k] = p
  /\ Grantable(seat[by], p)
  /\ u \notin login
  /\ login' = login \cup {u}
  /\ seat' = [seat EXCEPT ![u] = NewSeat(r, p, k)]
  /\ UNCHANGED <<profile, platform, granted, rights, invite, pending, halfMade>>

\* Mutant: an agent's seat takes the plain member types.
SeatRolesPlain(u) == Plain

\* The membership types a seat may be moved to.
SeatRoles(u) == IF profile[u] = "account" THEN {}
                ELSE IF profile[u] = "agent" THEN {"agent", "workspace_admin"}
                ELSE Plain

\* A seat of the same status, with another type, list and custom role.
Retyped(s, r, p, k) == [role |-> r, status |-> s.status, perms |-> p, key |-> k]

\* What PATCH /team/:userId makes of a seat: it keeps its type or takes another,
\* with a custom role, with a list of its own (a new admin's or agent's is the
\* type's default), or with what it had.
Edits(s, u) ==
  LET types == {s.role} \cup SeatRoles(u)
      roles == {k \in Keys : rights[k] # NoRole}
  IN {Retyped(s, r, rights[k], k) : r \in types, k \in roles}
     \cup {Retyped(s, r, p, NoKey) : r \in types, p \in OfferedLists}
     \cup {Retyped(s, r, s.perms, s.key) : r \in {s.role} \cup (SeatRoles(u) \cap {"member"})}

\* PATCH /team/:userId locks the seat and reads the custom role without a lock.
BeginEdit(by, u) ==
  /\ Manages(by) /\ by # u
  /\ seat[u] # NoSeat /\ ~SeatLocked(u)
  /\ seat[u].role # "workspace_owner" /\ u \notin platform
  /\ ~Outranks(seat[by], seat[u])
  /\ \E s \in Edits(seat[u], u) :
       /\ s.role # seat[u].role => CanGrantRole(seat[by], s.role)
       /\ Grantable(seat[by], s.perms)
       /\ Await("edit", by, u, s)
  /\ UNCHANGED <<seat, login, profile, platform, granted, rights, invite, halfMade>>

\* A custom role deleted meanwhile fails the foreign key.
EndEdit(q) ==
  /\ q.op = "edit"
  /\ Ends(q)
  /\ seat' = IF q.write.key # NoKey /\ rights[q.write.key] = NoRole THEN seat
             ELSE [seat EXCEPT ![q.to] = q.write]
  /\ UNCHANGED <<login, profile, platform, granted, rights, invite, halfMade>>

\* POST /team/owner-transfer locks the new owner's seat.
BeginTransfer(by, u) ==
  /\ Manages(by) /\ seat[by].role = "workspace_owner" /\ by # u
  /\ seat[u].status = "active" /\ ~SeatLocked(u)
  /\ u \notin platform /\ profile[u] = "none"
  /\ Await("transfer", by, u, NoSeat)
  /\ UNCHANGED <<seat, login, profile, platform, granted, rights, invite, halfMade>>

\* owner_changed: the owner is whoever is when the owner's row is locked.
StillOwner(by) == Owners = {by}

\* Then it locks the owner's seat.
EndTransfer(q) ==
  /\ q.op = "transfer"
  /\ \A u \in Owners : ~SeatLocked(u)
  /\ Ends(q)
  /\ seat' = IF ~StillOwner(q.by) THEN seat
             ELSE [seat EXCEPT
                     ![q.by] = Retyped(seat[q.by], "workspace_admin", Permissions, seat[q.by].key),
                     ![q.to] = Retyped(seat[q.to], "workspace_owner", Permissions, seat[q.to].key)]
  /\ UNCHANGED <<login, profile, platform, granted, rights, invite, halfMade>>

\* PATCH /team/:userId/status reads the seat without a lock.
BeginStatus(by, u, st) ==
  /\ Manages(by) /\ by # u
  /\ seat[u] # NoSeat /\ seat[u].role # "workspace_owner"
  /\ ~Outranks(seat[by], seat[u])
  /\ Await("status", by, u, [seat[u] EXCEPT !.status = st])
  /\ UNCHANGED <<seat, login, profile, platform, granted, rights, invite, halfMade>>

\* DELETE /team/:userId: a seat with a profile stays.
BeginRemove(by, u) ==
  /\ Manages(by) /\ by # u
  /\ seat[u].status \in {"active", "suspended"} /\ seat[u].role # "workspace_owner"
  /\ ~Outranks(seat[by], seat[u])
  /\ profile[u] = "none"
  /\ Await("remove", by, u, [seat[u] EXCEPT !.status = "removed"])
  /\ UNCHANGED <<seat, login, profile, platform, granted, rights, invite, halfMade>>

\* Mutant: the row is written back as it was read.
StatusWriteAll(s, q) == q.write

\* UPDATE workspace_users SET status: no other column.
StatusWrite(s, q) == IF s = NoSeat THEN s ELSE [s EXCEPT !.status = q.write.status]

EndStatus(q) ==
  /\ q.op \in {"status", "remove"}
  /\ ~SeatLocked(q.to)
  /\ Ends(q)
  /\ seat' = [seat EXCEPT ![q.to] = StatusWrite(seat[q.to], q)]
  /\ UNCHANGED <<login, profile, platform, granted, rights, invite, halfMade>>

-----------------------------------------------------------------------------
(* routes/roles *)

CreateRole(by, k, p) ==
  /\ Manages(by) /\ Grantable(seat[by], p)
  /\ rights[k] = NoRole
  /\ rights' = [rights EXCEPT ![k] = p]
  /\ UNCHANGED <<seat, login, profile, platform, granted, invite, pending, halfMade>>

\* Every seat on the role follows it.
Follows(s, k, p) == IF s.key = k THEN [s EXCEPT !.perms = p] ELSE s

\* PATCH /roles/:key holds the role and waits for the seats it updates.
EditRole(by, k, p) ==
  /\ Manages(by) /\ Grantable(seat[by], p)
  /\ rights[k] # NoRole
  /\ \A u \in Users : seat[u].key = k => ~SeatLocked(u)
  /\ rights' = [rights EXCEPT ![k] = p]
  /\ seat' = [u \in Users |-> Follows(seat[u], k, p)]
  /\ UNCHANGED <<login, profile, platform, granted, invite, pending, halfMade>>

\* DELETE /roles/:key: role_in_use.
DeleteRole(by, k) ==
  /\ Manages(by)
  /\ rights[k] # NoRole /\ \A u \in Users : seat[u].key # k
  /\ rights' = [rights EXCEPT ![k] = NoRole]
  /\ UNCHANGED <<seat, login, profile, platform, granted, invite, pending, halfMade>>

-----------------------------------------------------------------------------
(* routes/invites *)

\* POST /invites: every permission of the role has to be the caller's own.
CreateInvite(by, u, r) ==
  /\ Manages(by) /\ r \in Plain /\ Default(r) \subseteq seat[by].perms
  /\ invite[u].state # "open"
  /\ invite' = [invite EXCEPT ![u] = [role |-> r, state |-> "open"]]
  /\ UNCHANGED <<seat, login, profile, platform, granted, rights, pending, halfMade>>

\* DELETE /invites/:id, or seven days pass.
WithdrawInvite(u) ==
  /\ invite[u].state = "open"
  /\ invite' = [invite EXCEPT ![u] = NoInvite]
  /\ UNCHANGED <<seat, login, profile, platform, granted, rights, pending, halfMade>>

\* POST /invites/:token/accept reads the invite without a lock.
BeginAccept(u) ==
  /\ invite[u].state = "open"
  /\ Await("accept", u, u, NewSeat(invite[u].role, Default(invite[u].role), NoKey))
  /\ UNCHANGED <<seat, login, profile, platform, granted, rights, invite, halfMade>>

\* An invite never re-roles a seat, brings a removed one back, and makes one
\* where there is none; a second owner is refused.
Accepted(s, q) ==
  IF s = NoSeat
  THEN IF q.write.role = "workspace_owner" /\ Owners # {} THEN s ELSE q.write
  ELSE IF s.role = q.write.role /\ s.status = "removed" THEN [s EXCEPT !.status = "active"]
  ELSE s

\* Consumed either way; one withdrawn meanwhile is no longer there to mark.
EndAccept(q) ==
  /\ q.op = "accept"
  /\ ~SeatLocked(q.to)
  /\ Ends(q)
  /\ login' = login \cup {q.to}
  /\ seat' = [seat EXCEPT ![q.to] = Accepted(seat[q.to], q)]
  /\ invite' = [invite EXCEPT ![q.to] =
       IF invite[q.to].state = "open" THEN [invite[q.to] EXCEPT !.state = "accepted"] ELSE @]
  /\ UNCHANGED <<profile, platform, granted, rights, halfMade>>

-----------------------------------------------------------------------------
(* Profiles: POST /agents and POST /accounts *)

ProfileRole(kind) == IF kind = "agent" THEN "agent" ELSE "account_owner"

\* grantWorkspaceRole for somebody who is nobody here yet: a login, if there is
\* none, and a seat of the profile's type.
GrantSeat(u, kind) ==
  /\ seat[u] = NoSeat /\ profile[u] = "none"
  /\ seat' = [seat EXCEPT ![u] = NewSeat(ProfileRole(kind), {}, NoKey)]
  /\ login' = login \cup {u}

\* The profile with its seat. A creator's new login is sent an invite unless a
\* password came with it.
CreateProfile(u, kind) ==
  /\ GrantSeat(u, kind)
  /\ profile' = [profile EXCEPT ![u] = kind]
  /\ \/ UNCHANGED invite
     \/ /\ u \notin login /\ kind = "account"
        /\ invite' = [invite EXCEPT ![u] = [role |-> "account_owner", state |-> "open"]]
  /\ UNCHANGED <<platform, granted, rights, pending, halfMade>>

\* POST /accounts under a name another creator has: the answer is an error and
\* the transaction commits, with the login and the seat and no account.
RefuseName(u) ==
  /\ \E v \in Users \ {u} : profile[v] = "account"
  /\ GrantSeat(u, "account")
  /\ halfMade' = halfMade \cup {u}
  /\ UNCHANGED <<profile, platform, granted, rights, invite, pending>>

\* POST /accounts again for such a person: grantWorkspaceRole reads the seat,
\* without a lock, and finds the type it is to give.
BeginAccount(u) ==
  /\ seat[u].role = ProfileRole("account") /\ profile[u] = "none"
  /\ Await("account", u, u, NoSeat)
  /\ UNCHANGED <<seat, login, profile, platform, granted, rights, invite, halfMade>>

\* The account is inserted if the person has none yet. Its foreign key asks for
\* the seat and not for the seat's type: it waits for an edit of the seat, and
\* an edit that waits for it looked for the account before.
EndAccount(q) ==
  /\ q.op = "account"
  /\ Ends(q)
  /\ profile' = IF seat[q.to] # NoSeat /\ profile[q.to] = "none"
                THEN [profile EXCEPT ![q.to] = "account"] ELSE profile
  /\ UNCHANGED <<seat, login, platform, granted, rights, invite, halfMade>>

\* POST /agents/:id/archive and /reactivate: the seat of an agent.
ArchiveAgent(u) ==
  /\ profile[u] = "agent" /\ ~SeatLocked(u)
  /\ seat[u].status \in {"active", "suspended"}
  /\ seat' = [seat EXCEPT ![u].status = IF @ = "active" THEN "suspended" ELSE "active"]
  /\ UNCHANGED <<login, profile, platform, granted, rights, invite, pending, halfMade>>

-----------------------------------------------------------------------------
(* routes/platform *)

\* PATCH /platform/users/:id/platform-admin { true } looks for a profile first.
BeginPromote(u) ==
  /\ u \in login \ platform /\ profile[u] = "none"
  /\ Await("promote", u, u, NewSeat("workspace_admin", Permissions, NoKey))
  /\ UNCHANGED <<seat, login, profile, platform, granted, rights, invite, halfMade>>

\* ON CONFLICT DO NOTHING: a seat the user already has stays theirs.
EndPromote(q) ==
  /\ q.op = "promote"
  /\ Ends(q)
  /\ platform' = platform \cup {q.to}
  /\ IF seat[q.to] = NoSeat
     THEN /\ seat' = [seat EXCEPT ![q.to] = q.write]
          /\ granted' = granted \cup {q.to}
     ELSE UNCHANGED <<seat, granted>>
  /\ UNCHANGED <<login, profile, rights, invite, halfMade>>

\* Mutant: every admin seat of the user goes, not only the granted one.
SeatsTakenAll(u) == {v \in {u} : seat[u].role \in FullAccess}

\* The seats DELETE ... WHERE platform_granted takes with a demotion.
SeatsTaken(u) == {u} \cap granted

Demote(u) ==
  /\ u \in platform /\ ~SeatLocked(u)
  /\ platform' = platform \ {u}
  /\ seat' = [v \in Users |-> IF v \in SeatsTaken(u) THEN NoSeat ELSE seat[v]]
  /\ granted' = granted \ {u}
  /\ UNCHANGED <<login, profile, rights, invite, pending, halfMade>>

\* POST /platform/workspaces/:id/owner-recovery: the type alone is changed.
RecoverOwner(u) ==
  /\ Owners = {}
  /\ seat[u].status = "active" /\ seat[u].role \in Plain /\ ~SeatLocked(u)
  /\ u \notin platform /\ profile[u] = "none"
  /\ seat' = [seat EXCEPT ![u].role = "workspace_owner"]
  /\ UNCHANGED <<login, profile, platform, granted, rights, invite, pending, halfMade>>

-----------------------------------------------------------------------------

TeamRequest(by, u) ==
  \/ BeginEdit(by, u) \/ BeginTransfer(by, u) \/ BeginRemove(by, u)
  \/ \E st \in {"active", "suspended"} : BeginStatus(by, u, st)
  \/ \E r \in Plain, k \in Keys \cup {NoKey}, p \in OfferedLists : CreateMember(by, u, r, p, k)
  \/ \E r \in Plain : CreateInvite(by, u, r)

RoleRequest(by, k) ==
  \/ \E p \in OfferedLists : CreateRole(by, k, p) \/ EditRole(by, k, p)
  \/ DeleteRole(by, k)

PersonRequest(u) ==
  \/ WithdrawInvite(u) \/ BeginAccept(u)
  \/ \E kind \in {"agent", "account"} : CreateProfile(u, kind)
  \/ RefuseName(u) \/ BeginAccount(u)
  \/ ArchiveAgent(u)
  \/ BeginPromote(u) \/ Demote(u) \/ RecoverOwner(u)

End(q) == EndEdit(q) \/ EndTransfer(q) \/ EndStatus(q) \/ EndAccept(q) \/ EndPromote(q)
          \/ EndAccount(q)

MembershipNext ==
  \/ /\ changes < MaxChanges
     /\ changes' = changes + 1
     /\ \/ \E by, u \in Users : TeamRequest(by, u)
        \/ \E by \in Users, k \in Keys : RoleRequest(by, k)
        \/ \E u \in Users : PersonRequest(u)
  \/ \E q \in pending : End(q) /\ UNCHANGED changes

-----------------------------------------------------------------------------
(* Properties *)

\* A workspace never has two owners, and one that has an owner never loses it:
\* transfers that overlap one another, an accepted owner invite, a recovery, a
\* removal decided before a transfer and a demotion leave exactly one.
OwnerKept ==
  [][Cardinality(Owners') <= 1 /\ (Owners # {} => Owners' # {})]_memberVars

\* The seat's type and the profile behind it agree: whoever sells has an agent's
\* or an admin's seat, nobody has an agent's seat without selling, a profile's
\* seat is never gone, and, except for the people a refused request gave a
\* creator's seat, exactly the creators have the creators' type.
ProfileMatchesSeat ==
  \A u \in Users :
    /\ profile[u] = "agent" => seat[u].role \in {"agent", "workspace_admin"}
    /\ seat[u].role = "agent" => profile[u] = "agent"
    /\ profile[u] # "none" => seat[u] # NoSeat
    /\ u \notin halfMade => (profile[u] = "account" <=> seat[u].role = "account_owner")

\* The seats operators were given go with the office, and only those: a seat
\* someone has of their own is never deleted, whatever it became meanwhile.
OwnSeatOutlivesOffice ==
  [][\A u \in Users : seat[u] # NoSeat /\ u \notin granted => seat'[u] # NoSeat]_memberVars

\* Companion counterexamples: what the code or its comments say of
\* the seats and a sequence of legal calls breaks.

\* accounts.routes.js and team.routes.js: the login, its access and the profile
\* are one operation, so whoever has a profile's type has the profile.
TypeComesWithProfile ==
  \A u \in Users : seat[u].role \in {"agent", "account_owner"} => profile[u] # "none"

\* people.js: one person is one thing per workspace, so a creator's seat has the
\* creators' type.
OnePersonOneThing ==
  \A u \in Users : profile[u] = "account" => seat[u].role = "account_owner"

\* permissions.js: the owner holds every permission.
OwnerHoldsAll == \A u \in Owners : seat[u].perms = Permissions

\* roles.routes.js: every seat on a role follows it.
SeatFollowsRole ==
  \A u \in Users : seat[u].key # NoKey /\ seat[u].role # "workspace_owner" =>
    seat[u].perms = rights[seat[u].key]

\* team.routes.js: an owner is transferred, never suspended or removed.
OwnerIsActive == \A u \in Owners : seat[u].status = "active"

\* platform.routes.js: a user with a profile cannot be a platform admin.
OperatorHasNoProfile == \A u \in platform : profile[u] = "none"
=============================================================================
