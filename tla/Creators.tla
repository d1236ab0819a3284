------------------------------ MODULE Creators ------------------------------
(***************************************************************************)
(* The creators and agents of one agency: accounts.routes.js,              *)
(* agents.routes.js, archive.routes.js and services/splits.js.             *)
(*                                                                         *)
(* A request that checks and then writes does both in one READ COMMITTED   *)
(* transaction without a lock: `pending' holds the requests whose checks   *)
(* have passed and whose write is still to come.  Handles, countries,      *)
(* salaries and e-mails of logins are left out; a name stands for its      *)
(* lower-case form, and shares are percentages.                            *)
(***************************************************************************)
EXTENDS Naturals, FiniteSets, FiniteSetsExt

CONSTANTS Accounts, Agents, Names, Pcts,  \* ids of rows, names, percentages
          Existing,                       \* [Accounts -> Names \cup {None}] at the start
          None, Keep,                     \* no row; a field the request leaves alone
          Patches,                        \* the bodies PATCH /accounts/:id is sent
          MaxPending, MaxEdits            \* bounds: open requests, writes in all

ASSUME CreatorsAssumption ==
  /\ Pcts \subseteq 0..100 /\ 0 \in Pcts
  /\ None \notin Names /\ Keep \notin Names \cup Pcts
  /\ Existing \in [Accounts -> Names \cup {None}]
  /\ Patches \subseteq [name : Names \cup {Keep}, pct : Pcts \cup {Keep},
                        status : {Keep, "active", "paused", "archived"},
                        pay : {Keep, "share", "salary"}]

VARIABLES
  name,      \* accounts.name, None for an account that is not there
  status,    \* accounts.status
  split,     \* accounts.revenue_split_pct
  salaried,  \* accounts.pay_model = 'salary'
  pct,       \* agents.commission_pct, None for no agent
  seated,    \* workspace_users.status = 'active' of the agents
  assigned,  \* account_agents
  pending,   \* requests between their checks and their write
  edits      \* a bound: how many writes there have been

accountRow == <<name, status, split, salaried>>
agentRow == <<pct, seated>>
creatorVars == <<accountRow, agentRow, assigned, pending, edits>>

Present == {a \in Accounts : name[a] # None}
Live == {a \in Present : status[a] # "archived"}
Hired == {g \in Agents : pct[g] # None}

-----------------------------------------------------------------------------
(* services/splits.js and the name check *)

MaxAgentPct == Max({0} \cup {pct[g] : g \in Hired})
MaxAccountSplitPct == Max({0} \cup {split[a] : a \in Live})

SplitFits(s) == s + MaxAgentPct <= 100
CommissionFits(p) == MaxAccountSplitPct + p <= 100

NameIsTaken(n, except) == \E a \in Live \ {except} : name[a] = n

-----------------------------------------------------------------------------
CreatorsInit ==
  /\ name = Existing
  /\ status = [a \in Accounts |-> "active"]
  /\ split = [a \in Accounts |-> 0]
  /\ salaried = [a \in Accounts |-> FALSE]
  /\ pct = [g \in Agents |-> None]
  /\ seated = [g \in Agents |-> FALSE]
  /\ assigned = {} /\ pending = {} /\ edits = 0

CanEdit == edits < MaxEdits
Edited == edits' = edits + 1

\* The checks of a request have passed; its write is still to come.
Checked(req) ==
  /\ CanEdit /\ Cardinality(pending) < MaxPending
  /\ pending' = pending \cup {req}
  /\ UNCHANGED <<accountRow, agentRow, assigned, edits>>

Writes(req) ==
  /\ req \in pending /\ pending' = pending \ {req}
  /\ CanEdit /\ Edited

\* An error or a lost connection: the transaction rolls back.
DropRequest(req) ==
  /\ pending' = pending \ {req}
  /\ UNCHANGED <<accountRow, agentRow, assigned, edits>>

\* POST /accounts.  A salaried creator's share is not checked.
CreateReq(a, n, s, sal) == [op |-> "create", who |-> a, name |-> n, pct |-> s, salaried |-> sal]

CheckCreate(a, n, s, sal) ==
  /\ a \notin Present
  /\ ~sal => SplitFits(s)
  /\ ~NameIsTaken(n, None)
  /\ Checked(CreateReq(a, n, s, sal))

WriteCreate(a, n, s, sal) ==
  /\ Writes(CreateReq(a, n, s, sal))
  /\ a \notin Present
  /\ name' = [name EXCEPT ![a] = n]
  /\ split' = [split EXCEPT ![a] = s]
  /\ salaried' = [salaried EXCEPT ![a] = sal]
  /\ UNCHANGED <<status, agentRow, assigned>>

\* PATCH /accounts/:id.  Only a field of the body is checked: a new share unless
\* the body makes the creator salaried, a new name; a status or a switch to share
\* pay is not.
PatchReq(a, body) == [op |-> "patch", who |-> a, body |-> body]

CheckPatch(a, body) ==
  /\ a \in Present
  /\ (body.pct # Keep /\ body.pay # "salary") => SplitFits(body.pct)
  /\ body.name # Keep => ~NameIsTaken(body.name, a)
  /\ Checked(PatchReq(a, body))

Updated(old, new) == IF new = Keep THEN old ELSE new

WritePatch(a, body) ==
  /\ Writes(PatchReq(a, body))
  /\ name' = [name EXCEPT ![a] = Updated(@, body.name)]
  /\ split' = [split EXCEPT ![a] = Updated(@, body.pct)]
  /\ status' = [status EXCEPT ![a] = Updated(@, body.status)]
  /\ salaried' = [salaried EXCEPT ![a] = IF body.pay = Keep THEN @ ELSE body.pay = "salary"]
  /\ UNCHANGED <<agentRow, assigned>>

\* POST /archive/creators/:id/restore: neither name nor share is checked again.
RestoreCreator(a) ==
  /\ CanEdit /\ Edited
  /\ a \in Present \ Live
  /\ status' = [status EXCEPT ![a] = "active"]
  /\ UNCHANGED <<name, split, salaried, agentRow, assigned, pending>>

-----------------------------------------------------------------------------
(* Agents *)

CommissionReq(g, p) == [op |-> "commission", who |-> g, pct |-> p]

\* POST /agents and PATCH /agents/:id: a commission has to fit the highest share.
CheckCommission(g, p) == CommissionFits(p) /\ Checked(CommissionReq(g, p))

\* A new agent arrives with an active seat; an agent's seat is not touched.
WriteCommission(g, p) ==
  /\ Writes(CommissionReq(g, p))
  /\ pct' = [pct EXCEPT ![g] = p]
  /\ seated' = [seated EXCEPT ![g] = @ \/ pct[g] = None]
  /\ UNCHANGED <<accountRow, assigned>>

\* Archiving an agent suspends the seat and keeps the commission.
SeatAgent(g, active) ==
  /\ CanEdit /\ Edited
  /\ g \in Hired /\ seated[g] # active
  /\ seated' = [seated EXCEPT ![g] = active]
  /\ UNCHANGED <<accountRow, pct, assigned, pending>>

\* POST and DELETE /accounts/:id/agents.
Assign(a, g) ==
  /\ CanEdit /\ Edited
  /\ a \in Present /\ g \in Hired /\ seated[g]
  /\ assigned' = assigned \cup {<<a, g>>}
  /\ UNCHANGED <<accountRow, agentRow, pending>>

Unassign(a, g) ==
  /\ CanEdit /\ Edited
  /\ <<a, g>> \in assigned
  /\ assigned' = assigned \ {<<a, g>>}
  /\ UNCHANGED <<accountRow, agentRow, pending>>

CreatorsNext ==
  \/ \E req \in pending : DropRequest(req)
  \/ \E a \in Accounts, n \in Names, s \in Pcts, sal \in BOOLEAN :
       CheckCreate(a, n, s, sal) \/ WriteCreate(a, n, s, sal)
  \/ \E a \in Accounts, body \in Patches : CheckPatch(a, body) \/ WritePatch(a, body)
  \/ \E a \in Accounts : RestoreCreator(a)
  \/ \E g \in Agents, p \in Pcts : CheckCommission(g, p) \/ WriteCommission(g, p)
  \/ \E g \in Agents, active \in BOOLEAN : SeatAgent(g, active)
  \/ \E a \in Accounts, g \in Agents : Assign(a, g) \/ Unassign(a, g)

CreatorsSpec == CreatorsInit /\ [][CreatorsNext]_creatorVars

-----------------------------------------------------------------------------
(* What the comments of these routes say of them.  Each is violated. *)

(* accounts.routes.js:97-107: two live creators of one agency never share a   *)
(* name.  Two requests can both pass the check before either writes, and a    *)
(* restored creator comes back under a name taken since.                      *)
NamesDistinct ==
  \A a, b \in Live : a # b => name[a] # name[b]

(* splits.js:3-7: the settings routes refuse up front whatever fn_post_sale   *)
(* would refuse at the sale: a share and a commission never exceed 100%.      *)
RoomForEveryAgent ==
  \A a \in Live, g \in Hired : salaried[a] \/ split[a] + pct[g] <= 100

=============================================================================
