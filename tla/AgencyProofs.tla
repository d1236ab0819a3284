---------------------------- MODULE AgencyProofs ----------------------------
(***************************************************************************)
(* An agency and the people in it.  Sessions: one usable refresh token per *)
(* family, none once a token was reused.  Directory: what may be sold in   *)
(* (Pricing), who was erased (Customers), whose seat is whose and who owns *)
(* the workspace (Membership).  For any number of tabs, tokens, people,    *)
(* links, and requests between their reads and their writes.               *)
(***************************************************************************)
EXTENDS Directory, Sessions, FiniteSetTheorems, TLAPS

(* Sessions                                                                 *)

Claimed == Tokens \cup {NoToken}

(* A token that somebody holds was issued, and its row stays.                *)
Issued(x) == x = NoToken \/ (x \in Tokens /\ status[x] # "absent")

(* A family is named after its first token; it has one live row at most, and *)
(* none when it was reused.                                                  *)
RowInv ==
  /\ status \in [Tokens -> {"absent", "live", "revoked"}]
  /\ family \in [Tokens -> Claimed]
  /\ \A t \in Tokens : status[t] # "absent" =>
       family[t] \in Tokens /\ status[family[t]] # "absent"
  /\ \A t, u \in Tokens :
       status[t] = "live" /\ status[u] = "live" /\ family[t] = family[u] => t = u
  /\ \A r \in reused : r \in Tokens /\ status[r] # "absent"
  /\ \A t \in Tokens : status[t] = "live" => family[t] \notin reused

(* A refresh holds the row it was presented, and after its second statement  *)
(* its whole family, whose live rows are those it found.                     *)
LockInv ==
  /\ holder \in [Tokens -> Flights \cup {Free}]
  /\ pc \in [Flights -> {"idle", "sent", "row", "family", "answered"}]
  /\ found \in [Flights -> SUBSET Tokens]
  /\ \A f \in Flights : pc[f] \in {"row", "family"} =>
       token[f] \in Tokens /\ holder[token[f]] = f
  /\ \A f \in Flights : pc[f] = "family" =>
       \A t \in Tokens : status[t] # "absent" /\ family[t] = family[token[f]] =>
         holder[t] = f /\ (status[t] = "live" => t \in found[f])

TokenInv ==
  /\ token \in [Flights -> Claimed] /\ answer \in [Flights -> Claimed]
  /\ memory \in [Tabs -> Claimed] /\ cookie \in Claimed
  /\ \A f \in Flights : Issued(token[f]) /\ Issued(answer[f])
  /\ \A b \in Tabs : Issued(memory[b])
  /\ Issued(cookie)

(* The inductive invariant. *)
SessionInv == RowInv /\ LockInv /\ TokenInv

-----------------------------------------------------------------------------
LEMMA FreeHoldsNothing == ASSUME NEW f \in Flights PROVE f # Free
  BY DEF Flights, Refreshers, Free

LEMMA SessionInvStart == SessionInit => SessionInv
  BY FreeHoldsNothing
     DEF SessionInit, SessionInv, RowInv, LockInv, TokenInv, Issued, Claimed

-----------------------------------------------------------------------------
(* Revoking: rows are never added, and only live ones change.                *)

Fewer ==
  /\ status' \in [Tokens -> {"absent", "live", "revoked"}]
  /\ \A t \in Tokens : status'[t] = status[t] \/ (status[t] = "live" /\ status'[t] = "revoked")

LEMMA RevokedIsFewer ==
  ASSUME RowInv, NEW S, status' = Revoked(S)
  PROVE  Fewer
  BY DEF RowInv, Revoked, Fewer

LEMMA SameIsFewer == ASSUME RowInv, status' = status PROVE Fewer
  BY DEF RowInv, Fewer

LEMMA FewerRows ==
  ASSUME RowInv, Fewer, UNCHANGED <<family, reused>>
  PROVE  RowInv'
  BY DEF RowInv, Fewer, Claimed

LEMMA FewerLocks ==
  ASSUME LockInv, Fewer, UNCHANGED <<family, holder, pc, token, found>>
  PROVE  LockInv'
  BY DEF LockInv, Fewer

(* Held tokens stay issued when rows are never deleted.                      *)
LEMMA FewerIssued == ASSUME Fewer, NEW x, Issued(x) PROVE Issued(x)'
  BY DEF Fewer, Issued

LEMMA FewerTokens ==
  ASSUME TokenInv, Fewer, UNCHANGED <<token, answer>>,
         memory' \in [Tabs -> Claimed], \A b \in Tabs : memory'[b] \in {memory[b], NoToken},
         cookie' \in {cookie, NoToken}
  PROVE  TokenInv'
  BY DEF TokenInv, Fewer, Issued, Claimed

-----------------------------------------------------------------------------
(* The end of a refresh.                                                     *)

LEMMA FinishLocks ==
  ASSUME LockInv, Fewer, NEW f \in Flights, NEW t, Finish(f, t), UNCHANGED family
  PROVE  LockInv'
<1>1. holder' \in [Tokens -> Flights \cup {Free}]
  BY DEF LockInv, Finish, Released
<1>2. /\ pc' \in [Flights -> {"idle", "sent", "row", "family", "answered"}]
      /\ found' \in [Flights -> SUBSET Tokens]
      /\ pc'[f] = "answered" /\ token' = token
  BY DEF LockInv, Finish
<1>3. ASSUME NEW g \in Flights, g # f
      PROVE  pc'[g] = pc[g] /\ found'[g] = found[g]
  BY <1>3 DEF LockInv, Finish
<1>4. ASSUME NEW g \in Flights, g # f, NEW u \in Tokens, holder[u] = g
      PROVE  holder'[u] = g
  BY <1>4 DEF LockInv, Finish, Released
<1> QED
  BY <1>1, <1>2, <1>3, <1>4 DEF LockInv, Fewer

LEMMA FinishTokens ==
  ASSUME TokenInv, Fewer, NEW f \in Flights, Finish(f, NoToken), UNCHANGED tabVars
  PROVE  TokenInv'
  BY DEF TokenInv, Fewer, Issued, Claimed, Finish, tabVars

(* A refresh that is answered an error: it may revoke what it found.         *)
LEMMA FailedStep ==
  ASSUME SessionInv, NEW f \in Flights,
         Missing(f) \/ Expire(f) \/ RotateFails(f) \/ BreakDeadlock(f)
  PROVE  SessionInv'
<1>1. Fewer
  BY RevokedIsFewer, SameIsFewer
  DEF SessionInv, Missing, Expire, RotateFails, BreakDeadlock, rowVars
<1>2. Finish(f, NoToken) /\ UNCHANGED <<family, reused, tabVars>>
  BY DEF Missing, Expire, RotateFails, BreakDeadlock, rowVars
<1> QED
  BY <1>1, <1>2, FewerRows, FinishLocks, FinishTokens DEF SessionInv

(* A reused token: what its refresh found was all that lived of the family.  *)
LEMMA ReuseStep ==
  ASSUME SessionInv, NEW f \in Flights, Reuse(f)
  PROVE  SessionInv'
<1> DEFINE t == token[f]
<1>1. Fewer
  BY RevokedIsFewer DEF SessionInv, Reuse
<1>2. /\ Finish(f, NoToken) /\ UNCHANGED <<family, tabVars>>
      /\ pc[f] = "family" /\ status[t] = "revoked"
      /\ status' = Revoked(found[f]) /\ reused' = reused \cup {family[t]}
  BY DEF Reuse, WasUsed
<1>3. t \in Tokens
  BY <1>2 DEF SessionInv, LockInv
<1>4. family[t] \in Tokens /\ status[family[t]] # "absent"
  BY <1>2, <1>3 DEF SessionInv, RowInv
<1>5. ASSUME NEW u \in Tokens, status'[u] = "live" PROVE family[u] # family[t]
  <2>1. status[u] = "live" /\ u \notin found[f]
    BY <1>2, <1>5 DEF Revoked
  <2> QED
    BY <1>2, <2>1 DEF SessionInv, LockInv
<1>6. RowInv'
  BY <1>1, <1>2, <1>4, <1>5 DEF SessionInv, RowInv, Fewer, Claimed
<1> QED
  BY <1>1, <1>2, <1>6, FinishLocks, FinishTokens DEF SessionInv

(* A rotation: the one live row of the family makes way for a new one.       *)
LEMMA RotateStep ==
  ASSUME SessionInv, NEW f \in Flights, Rotate(f)
  PROVE  SessionInv'
<1> DEFINE t == token[f]
<1>1. PICK n \in Tokens :
        /\ status[n] = "absent" /\ status' = [status EXCEPT ![t] = "revoked", ![n] = "live"]
        /\ family' = [family EXCEPT ![n] = family[t]]
        /\ Finish(f, n)
  BY DEF Rotate, Unissued, RotatedRows, Issue
<1>2. pc[f] = "family" /\ status[t] # "revoked" /\ UNCHANGED <<reused, tabVars>>
  BY DEF Rotate, WasUsed
<1>3. t \in Tokens /\ holder[t] = f
  BY <1>2 DEF SessionInv, LockInv
<1>4. status[t] = "live" /\ n # t
  BY <1>1, <1>2, <1>3, SessionAssumption DEF SessionInv, TokenInv, RowInv, Issued, NoToken
<1>5. family[t] \in Tokens /\ status[family[t]] # "absent" /\ family[t] \notin reused
  BY <1>3, <1>4 DEF SessionInv, RowInv
<1>6. /\ status'[t] = "revoked" /\ status'[n] = "live" /\ family'[n] = family[t]
      /\ \A u \in Tokens \ {t, n} : status'[u] = status[u]
      /\ \A u \in Tokens \ {n} : family'[u] = family[u]
      /\ status' \in [Tokens -> {"absent", "live", "revoked"}]
      /\ family' \in [Tokens -> Claimed]
  BY <1>1, <1>3, <1>4, <1>5 DEF SessionInv, RowInv, Claimed
<1>7. RowInv'
  <2>1. ASSUME NEW u \in Tokens, status'[u] # "absent"
        PROVE  family'[u] \in Tokens /\ status'[family'[u]] # "absent"
    BY <1>1, <1>3, <1>4, <1>5, <1>6, <2>1 DEF SessionInv, RowInv
  <2>2. ASSUME NEW u \in Tokens, status'[u] = "live", u # n
        PROVE  family'[u] # family[t] /\ status[u] = "live" /\ family'[u] = family[u]
    BY <1>3, <1>4, <1>6, <2>2 DEF SessionInv, RowInv
  <2>3. \A u, v \in Tokens :
          status'[u] = "live" /\ status'[v] = "live" /\ family'[u] = family'[v] => u = v
    BY <1>6, <2>2 DEF SessionInv, RowInv
  <2>4. \A u \in Tokens : status'[u] = "live" => family'[u] \notin reused'
    BY <1>2, <1>5, <1>6, <2>2 DEF SessionInv, RowInv
  <2>5. \A r \in reused' : r \in Tokens /\ status'[r] # "absent"
    BY <1>2, <1>1, <1>6 DEF SessionInv, RowInv
  <2> QED
    BY <1>6, <2>1, <2>3, <2>4, <2>5 DEF RowInv
<1>8. LockInv'
  <2>1. /\ holder' \in [Tokens -> Flights \cup {Free}]
        /\ pc' \in [Flights -> {"idle", "sent", "row", "family", "answered"}]
        /\ found' \in [Flights -> SUBSET Tokens]
        /\ pc'[f] = "answered" /\ token' = token
        /\ \A g \in Flights \ {f} : pc'[g] = pc[g] /\ found'[g] = found[g]
    BY <1>1 DEF SessionInv, LockInv, Finish, Released
  <2>2. ASSUME NEW g \in Flights, g # f, NEW u \in Tokens, holder[u] = g
        PROVE  holder'[u] = g
    BY <1>1, <2>2 DEF SessionInv, LockInv, Finish, Released
  <2>3. ASSUME NEW g \in Flights, pc'[g] \in {"row", "family"}
        PROVE  token'[g] \in Tokens /\ holder'[token'[g]] = g
    BY <2>1, <2>2, <2>3 DEF SessionInv, LockInv
  <2>4. ASSUME NEW g \in Flights, pc'[g] = "family", NEW u \in Tokens,
               status'[u] # "absent", family'[u] = family'[token'[g]]
        PROVE  holder'[u] = g /\ (status'[u] = "live" => u \in found'[g])
    <3>1. g # f /\ pc[g] = "family" /\ token[g] \in Tokens
      BY <2>1, <2>4 DEF SessionInv, LockInv
    <3>2. status[token[g]] # "absent"
      BY <3>1, SessionAssumption DEF SessionInv, TokenInv, Issued, NoToken
    <3>3. family'[token'[g]] = family[token[g]]
      BY <1>1, <1>6, <2>1, <3>1, <3>2
    <3>4. family[token[g]] # family[t]
      BY <1>3, <1>4, <3>1 DEF SessionInv, LockInv
    <3>5. u # n /\ u # t /\ status[u] = status'[u] /\ family[u] = family[token[g]]
      BY <1>3, <1>4, <1>6, <2>4, <3>3, <3>4
    <3>6. holder[u] = g /\ (status[u] = "live" => u \in found[g])
      BY <2>4, <3>1, <3>5 DEF SessionInv, LockInv
    <3> QED
      BY <2>1, <2>2, <3>1, <3>5, <3>6
  <2> QED
    BY <2>1, <2>3, <2>4 DEF LockInv
<1>9. TokenInv'
  <2>1. \A x : Issued(x) => Issued(x)'
    BY <1>1, <1>3, <1>4, <1>6 DEF Issued
  <2>2. Issued(n)'
    BY <1>6 DEF Issued
  <2> QED
    BY <1>1, <1>2, <2>1, <2>2 DEF SessionInv, TokenInv, Issued, Claimed, Finish, tabVars
<1> QED
  BY <1>7, <1>8, <1>9 DEF SessionInv

-----------------------------------------------------------------------------
(* Locks.                                                                    *)

LEMMA LockStep ==
  ASSUME SessionInv, NEW f \in Flights, LockRow(f) \/ LockFamily(f)
  PROVE  SessionInv'
<1>1. UNCHANGED <<status, family, reused, token, answer, memory, cookie>>
  BY DEF LockRow, LockFamily, rowVars, tabVars
<1>2. RowInv' /\ TokenInv'
  BY <1>1 DEF SessionInv, RowInv, TokenInv, Issued
<1>3. CASE LockRow(f)
  <2>1. token[f] \in Tokens
    BY <1>3 DEF LockRow, SessionInv, TokenInv, Claimed
  <2> QED
    BY <1>1, <1>2, <1>3, <2>1, FreeHoldsNothing DEF LockRow, SessionInv, LockInv
<1>4. CASE LockFamily(f)
  <2> DEFINE r == family[token[f]]
  <2>1. /\ pc[f] = "row" /\ FamilyFree(f, r)
        /\ holder' = [t \in Tokens |-> IF t \in Rows(r) /\ holder[t] = Free THEN f ELSE holder[t]]
        /\ found' = [found EXCEPT ![f] = LiveRows(r)]
        /\ pc' = [pc EXCEPT ![f] = "family"]
    BY <1>4 DEF LockFamily
  <2>2. ASSUME NEW g \in Flights, NEW u \in Tokens, holder[u] = g PROVE holder'[u] = g
    BY <2>1, <2>2, FreeHoldsNothing
  <2>3. \A u \in Rows(r) : holder'[u] = f
    BY <2>1 DEF FamilyFree, Rows
  <2>4. /\ holder' \in [Tokens -> Flights \cup {Free}]
        /\ pc' \in [Flights -> {"idle", "sent", "row", "family", "answered"}]
        /\ found' \in [Flights -> SUBSET Tokens]
    BY <2>1 DEF SessionInv, LockInv, LiveRows, Rows
  <2>5. ASSUME NEW g \in Flights, pc'[g] \in {"row", "family"}
        PROVE  token'[g] \in Tokens /\ holder'[token'[g]] = g
    BY <1>1, <2>1, <2>2, <2>5 DEF SessionInv, LockInv
  <2>6. ASSUME NEW g \in Flights, pc'[g] = "family", NEW u \in Tokens,
               status'[u] # "absent", family'[u] = family'[token'[g]]
        PROVE  holder'[u] = g /\ (status'[u] = "live" => u \in found'[g])
    <3>1. CASE g = f
      <4>1. u \in Rows(r) /\ found'[f] = LiveRows(r)
        BY <1>1, <2>1, <2>6, <3>1 DEF Rows, SessionInv, LockInv
      <4> QED
        BY <1>1, <2>3, <3>1, <4>1 DEF LiveRows
    <3>2. CASE g # f
      <4>1. pc[g] = "family" /\ found'[g] = found[g]
        BY <2>1, <2>6, <3>2 DEF SessionInv, LockInv
      <4> QED
        BY <1>1, <2>2, <2>6, <4>1 DEF SessionInv, LockInv
    <3> QED
      BY <3>1, <3>2
  <2> QED
    BY <1>2, <2>4, <2>5, <2>6 DEF SessionInv, LockInv
<1> QED
  BY <1>3, <1>4

-----------------------------------------------------------------------------
(* The browser.                                                              *)

(* What the locks of a refresh rest on, when no refresh takes a step.        *)
LEMMA QuietLocks ==
  ASSUME LockInv, UNCHANGED <<status, family, holder, found>>,
         pc' \in [Flights -> {"idle", "sent", "row", "family", "answered"}],
         \A f \in Flights : pc'[f] \in {"row", "family"} => pc'[f] = pc[f] /\ token'[f] = token[f]
  PROVE  LockInv'
  BY DEF LockInv

LEMMA AskStep ==
  ASSUME SessionInv, NEW f \in Flights, StartRefresh(f)
  PROVE  SessionInv'
<1>1. /\ UNCHANGED <<status, family, reused, holder, found, answer, memory, cookie>>
      /\ pc' = [pc EXCEPT ![f] = "sent"]
      /\ token' = [token EXCEPT ![f] = Presented(f)]
  BY DEF StartRefresh, rowVars, tabVars
<1>2. Presented(f) \in Claimed /\ Issued(Presented(f))
  BY DEF SessionInv, TokenInv, Presented, Flights
<1>3. RowInv'
  BY <1>1 DEF SessionInv, RowInv
<1>4. LockInv'
  BY <1>1, QuietLocks DEF SessionInv, LockInv, TokenInv
<1>5. TokenInv'
  BY <1>1, <1>2 DEF SessionInv, TokenInv, Issued
<1> QED
  BY <1>3, <1>4, <1>5 DEF SessionInv

LEMMA HearStep ==
  ASSUME SessionInv, NEW f \in Flights, ReceiveTokens(f) \/ ReceiveError(f)
  PROVE  SessionInv'
<1>1. /\ UNCHANGED <<status, family, reused, holder, found>>
      /\ pc' = [pc EXCEPT ![f] = "idle"]
      /\ token' = [token EXCEPT ![f] = NoToken]
      /\ answer' = [answer EXCEPT ![f] = NoToken]
  BY DEF ReceiveTokens, ReceiveError, Landed, rowVars
<1>2. RowInv'
  BY <1>1 DEF SessionInv, RowInv
<1>3. LockInv'
  BY <1>1, QuietLocks DEF SessionInv, LockInv, TokenInv
<1>4. /\ cookie' \in {cookie, answer[f]}
      /\ \/ memory' = memory
         \/ memory' = [memory EXCEPT ![f[1]] = answer[f]]
         \/ memory' = [memory EXCEPT ![f[1]] = NoToken]
  BY DEF ReceiveTokens, ReceiveError, SignedIn, SignedOut
<1>5. answer[f] \in Claimed /\ Issued(answer[f]) /\ Issued(NoToken) /\ NoToken \in Claimed /\ f[1] \in Tabs
  BY DEF SessionInv, TokenInv, Issued, Claimed, Flights
<1>6. TokenInv'
  BY <1>1, <1>4, <1>5 DEF SessionInv, TokenInv, Issued
<1> QED
  BY <1>2, <1>3, <1>6 DEF SessionInv

(* A sign-in starts a family that has no row yet.                            *)
LEMMA SignInStep ==
  ASSUME SessionInv, NEW b \in Tabs, SignIn(b)
  PROVE  SessionInv'
<1>1. PICK t \in SignInTokens :
        /\ status[t] = "absent" /\ status' = [status EXCEPT ![t] = "live"]
        /\ family' = [family EXCEPT ![t] = t]
        /\ memory' = [memory EXCEPT ![b] = t] /\ cookie' = t
  BY DEF SignIn, Unissued, Issue, SignedIn
<1>2. UNCHANGED <<reused, holder, pc, token, found, answer>>
  BY DEF SignIn, flightVars
<1>3. /\ t \in Tokens /\ status'[t] = "live" /\ family'[t] = t
      /\ \A u \in Tokens \ {t} : status'[u] = status[u] /\ family'[u] = family[u]
      /\ status' \in [Tokens -> {"absent", "live", "revoked"}]
      /\ family' \in [Tokens -> Claimed]
  BY <1>1, SessionAssumption DEF SessionInv, RowInv, Claimed
<1>4. \A u \in Tokens : status[u] # "absent" => u # t /\ family[u] # t
  BY <1>1 DEF SessionInv, RowInv
<1>5. RowInv'
  BY <1>1, <1>2, <1>3, <1>4 DEF SessionInv, RowInv
<1>6. LockInv'
  <2>1. ASSUME NEW f \in Flights, pc[f] = "family", NEW u \in Tokens,
               status'[u] # "absent", family'[u] = family'[token[f]]
        PROVE  holder[u] = f /\ (status'[u] = "live" => u \in found[f])
    <3>1. token[f] \in Tokens /\ status[token[f]] # "absent"
      BY <2>1, SessionAssumption DEF SessionInv, LockInv, TokenInv, Issued, NoToken
    <3>2. family'[token[f]] = family[token[f]] /\ family[token[f]] # t
      BY <1>3, <1>4, <3>1
    <3>3. u # t /\ status[u] = status'[u] /\ family[u] = family[token[f]]
      BY <1>3, <2>1, <3>2
    <3> QED
      BY <2>1, <3>3 DEF SessionInv, LockInv
  <2> QED
    BY <1>2, <2>1 DEF SessionInv, LockInv
<1>7. TokenInv'
  <2>1. \A x : Issued(x) => Issued(x)'
    BY <1>1, <1>3 DEF Issued
  <2>2. Issued(t)' /\ t \in Claimed
    BY <1>3 DEF Issued, Claimed
  <2> QED
    BY <1>1, <1>2, <2>1, <2>2 DEF SessionInv, TokenInv
<1> QED
  BY <1>5, <1>6, <1>7 DEF SessionInv

(* Signing out, by hand or for idleness, and what touches no token.          *)
LEMMA TabRest ==
  ASSUME SessionInv, NEW b \in Tabs,
         Reload(b) \/ Logout(b) \/ Activity(b) \/ IdleSignOut(b) \/ AccessExpires(b)
  PROVE  SessionInv'
<1>1. Fewer
  BY RevokedIsFewer, SameIsFewer
  DEF SessionInv, Reload, Logout, Activity, IdleSignOut, AccessExpires, rowVars
<1>2. UNCHANGED <<family, reused, holder, pc, token, found, answer>>
  BY DEF Reload, Logout, Activity, IdleSignOut, AccessExpires, rowVars, flightVars
<1>3. /\ cookie' \in {cookie, NoToken}
      /\ memory' = memory \/ memory' = [memory EXCEPT ![b] = NoToken]
  BY DEF Reload, Logout, Activity, IdleSignOut, AccessExpires, SignedOut
<1>4. memory' \in [Tabs -> Claimed] /\ \A c \in Tabs : memory'[c] \in {memory[c], NoToken}
  BY <1>3 DEF SessionInv, TokenInv, Claimed
<1> QED
  BY <1>1, <1>2, <1>3, <1>4, FewerRows, FewerLocks, FewerTokens DEF SessionInv

LEMMA OtherStep ==
  ASSUME SessionInv, Revoke \/ BeginRevoke \/ EndRevoke \/ LoseCookie \/ Tick
  PROVE  SessionInv'
<1>1. Fewer
  BY RevokedIsFewer, SameIsFewer
  DEF SessionInv, Revoke, BeginRevoke, EndRevoke, LoseCookie, Tick, rowVars
<1>2. /\ UNCHANGED <<family, reused, holder, pc, token, found, answer, memory>>
      /\ cookie' \in {cookie, NoToken}
  BY DEF Revoke, BeginRevoke, EndRevoke, LoseCookie, Tick, rowVars, flightVars, tabVars
<1> QED
  BY <1>1, <1>2, FewerRows, FewerLocks, FewerTokens DEF SessionInv, TokenInv

-----------------------------------------------------------------------------
LEMMA SessionInvStep == SessionInv /\ [SessionNext]_sessionVars => SessionInv'
<1> SUFFICES ASSUME SessionInv, [SessionNext]_sessionVars PROVE SessionInv'
  OBVIOUS
<1>1. ASSUME NEW f \in Flights, RefreshStep(f) PROVE SessionInv'
  BY <1>1, FailedStep, ReuseStep, RotateStep, LockStep DEF RefreshStep
<1>2. ASSUME NEW b \in Tabs, TabStep(b) PROVE SessionInv'
  BY <1>2, SignInStep, TabRest DEF TabStep
<1>3. CASE UNCHANGED sessionVars
  <2>1. UNCHANGED <<status, family, reused, holder, found, pc, token, answer, memory, cookie>>
    BY <1>3 DEF sessionVars, rowVars, flightVars, tabVars
  <2> QED
    BY <2>1 DEF SessionInv, RowInv, LockInv, TokenInv, Issued
<1> QED
  BY <1>1, <1>2, <1>3, AskStep, HearStep, OtherStep DEF SessionNext

(* Families, locks and the tokens people hold stay as the three parts say,     *)
(* through refreshes, sign-ins, revocations, failures and broken deadlocks.   *)
THEOREM SessionsSafe == SessionSpec => []SessionInv
<1>1. SessionInit => SessionInv
  BY SessionInvStart
<1>2. SessionInv /\ [SessionNext]_sessionVars => SessionInv'
  BY SessionInvStep
<1> QED
  BY <1>1, <1>2, PTL DEF SessionSpec

(* However refreshes, sign-outs and revocations interleave, a family never    *)
(* has two usable refresh tokens.                                             *)
THEOREM OneLiveHolds == SessionSpec => []OneLivePerFamily
<1>1. ASSUME SessionInv, NEW r \in Tokens PROVE Cardinality(LiveRows(r)) <= 1
  <2>1. CASE LiveRows(r) = {}
    BY <2>1, FS_EmptySet
  <2>2. CASE LiveRows(r) # {}
    <3>1. PICK t : t \in LiveRows(r)
      BY <2>2
    <3>2. LiveRows(r) = {t}
      BY <1>1, <3>1 DEF LiveRows, Rows, SessionInv, RowInv
    <3> QED
      BY <3>2, FS_Singleton
  <2> QED
    BY <2>1, <2>2
<1>2. SessionInv => OneLivePerFamily
  BY <1>1 DEF OneLivePerFamily
<1> QED
  BY <1>2, SessionsSafe, PTL

(* A family whose rotated token was presented again stays unusable, although  *)
(* another refresh of it may be waiting for its locks at that moment.         *)
THEOREM ReuseEndsHolds == SessionSpec => []ReuseEndsFamily
<1>1. SessionInv => ReuseEndsFamily
  BY DEF SessionInv, RowInv, ReuseEndsFamily, Dead, LiveRows, Rows
<1> QED
  BY <1>1, SessionsSafe, PTL

-----------------------------------------------------------------------------
(* Pricing                                                                  *)

PricingSpec == PricingInit /\ [][PricingNext]_pricingVars

(* Whoever is rewriting the settings is alone with them, so a link is made of  *)
(* the settings its request read, and the base stays among the wanted ones.    *)
SettingsInv ==
  /\ \A r \in Holding({"allow", "base"}), s \in Holding({"link", "allow", "base"}) : r = s
  /\ \A r \in Holding({"link"}) : Admits(desk[r].row.currency, desk[r].row.type)
  /\ \A r \in Holding({"allow"}) : base \in desk[r].wanted

RowsOffered == offer[base] # "absent" /\ \A l \in Existing : offer[link[l].currency] # "absent"

PricingInv == PricingTypeOK /\ SettingsInv /\ RowsOffered

LEMMA PricingInvStart == PricingInit => PricingInv
  BY PricingAssumption
     DEF PricingInit, PricingInv, PricingTypeOK, SettingsInv, RowsOffered, Holding, Existing

-----------------------------------------------------------------------------
(* A request opens or closes; nothing is written.                             *)
LEMMA DeskMoves ==
  ASSUME PricingTypeOK, NEW r \in Requests, NEW work, desk' = [desk EXCEPT ![r] = work]
  PROVE  desk'[r] = work /\ \A s \in Requests \ {r} : desk'[s] = desk[s]
  BY DEF PricingTypeOK

LEMMA OpenStep ==
  ASSUME PricingInv, NEW r \in Requests,
         \/ \E c \in Currencies, t \in Types : OpenLink(r, c, t)
         \/ OpenOrder(r)
         \/ \E wanted \in SUBSET Currencies : OpenAllowed(r, wanted)
         \/ \E c \in Currencies : OpenBase(r, c)
  PROVE  PricingInv'
<1>1. PricingTypeOK
  BY DEF PricingInv
<1>2. UNCHANGED <<settingRows, link>>
  BY DEF OpenLink, OpenOrder, OpenAllowed, OpenBase
<1>3. RowsOffered'
  BY <1>2 DEF PricingInv, RowsOffered, Existing, settingRows
<1>4. ASSUME NEW c \in Currencies, NEW t \in Types, OpenLink(r, c, t)
      PROVE  PricingTypeOK' /\ SettingsInv'
  <2> DEFINE row == [currency |-> c, type |-> t, console |-> TRUE, status |-> "active", paid |-> FALSE]
             work == [op |-> "link", row |-> row]
  <2>1. desk' = [desk EXCEPT ![r] = work] /\ Admits(c, t) /\ Holding({"allow", "base"}) = {}
    BY <1>4 DEF OpenLink, Open, LinkFree
  <2>2. row \in LinkRows /\ row.currency = c /\ row.type = t
    BY DEF LinkRows
  <2>3. work \in Work /\ work.op = "link" /\ work.row = row
    BY <2>2 DEF Work
  <2> HIDE DEF row, work
  <2>4. PricingTypeOK'
    BY <1>1, <1>2, <2>1, <2>3 DEF PricingTypeOK, settingRows
  <2>5. Holding({"allow", "base"})' = {}
    BY <1>1, <2>1, <2>3, DeskMoves DEF Holding
  <2>6. Holding({"allow"})' \subseteq Holding({"allow", "base"})'
    BY DEF Holding
  <2>7. \A s \in Holding({"link"})' : Admits(desk'[s].row.currency, desk'[s].row.type)
    <3> SUFFICES ASSUME NEW s \in Holding({"link"})' PROVE Admits(desk'[s].row.currency, desk'[s].row.type)
      OBVIOUS
    <3>1. s \in Requests
      BY DEF Holding
    <3>2. CASE s = r
      <4>1. desk'[s].row = row
        BY <1>1, <2>1, <2>3, <3>2, DeskMoves
      <4> QED
        BY <2>1, <2>2, <4>1, Zenon
    <3>3. CASE s # r
      BY <1>1, <2>1, <3>1, <3>3, DeskMoves DEF PricingInv, SettingsInv, Holding
    <3> QED
      BY <3>2, <3>3
  <2> QED
    BY <1>2, <2>4, <2>5, <2>6, <2>7 DEF SettingsInv, Admits, settingRows
<1>5. ASSUME OpenOrder(r)
      PROVE  PricingTypeOK' /\ SettingsInv'
  <2> DEFINE work == [op |-> "order", currency |-> base]
  <2>1. desk' = [desk EXCEPT ![r] = work]
    BY <1>5 DEF OpenOrder, Open
  <2>2. work \in Work /\ work.op = "order"
    BY <1>1 DEF Work, PricingTypeOK
  <2> HIDE DEF work
  <2>3. PricingTypeOK'
    BY <1>1, <1>2, <2>1, <2>2 DEF PricingTypeOK, settingRows
  <2>4. \A s \in Requests : desk'[s] # NoRow /\ desk'[s].op \in {"link", "allow", "base"} =>
          desk'[s] = desk[s]
    BY <1>1, <2>1, <2>2, DeskMoves
  <2>5. SettingsInv'
    BY <1>2, <2>4 DEF PricingInv, SettingsInv, Admits, settingRows, Holding
  <2> QED
    BY <2>3, <2>5
<1>6. ASSUME NEW work \in Work, SettingsFree, Open(r, work),
             work.op = "base" \/ (work.op = "allow" /\ base \in work.wanted)
      PROVE  PricingTypeOK' /\ SettingsInv'
  <2>1. PricingTypeOK'
    BY <1>1, <1>2, <1>6 DEF PricingTypeOK, settingRows, Open
  <2>2. \A s \in Requests : desk'[s] # NoRow /\ desk'[s].op \in {"link", "allow", "base"} =>
          s = r /\ desk'[s] = work
    BY <1>1, <1>6, DeskMoves DEF Open, SettingsFree, Holding
  <2>3. SettingsInv'
    BY <1>2, <1>6, <2>2 DEF SettingsInv, settingRows, Holding
  <2> QED
    BY <2>1, <2>3
<1>7. ASSUME NEW wanted \in SUBSET Currencies, OpenAllowed(r, wanted)
      PROVE  PricingTypeOK' /\ SettingsInv'
  BY <1>6, <1>7 DEF OpenAllowed, KeepsBase, Work
<1>8. ASSUME NEW c \in Currencies, OpenBase(r, c)
      PROVE  PricingTypeOK' /\ SettingsInv'
  BY <1>6, <1>8 DEF OpenBase, Work
<1> QED
  BY <1>3, <1>4, <1>5, <1>7, <1>8 DEF PricingInv

-----------------------------------------------------------------------------
(* A request writes and closes.  The locks of the others are untouched.       *)
LEMMA CloseKeeps ==
  ASSUME PricingInv, NEW r \in Requests, Close(r), UNCHANGED settingRows
  PROVE  SettingsInv' /\ desk' \in [Requests -> Work \cup {NoRow}]
<1>1. desk' \in [Requests -> Work \cup {NoRow}]
  BY DEF PricingInv, PricingTypeOK, Close
<1>2. \A s \in Requests : desk'[s] # NoRow => desk'[s] = desk[s]
  BY DEF PricingInv, PricingTypeOK, Close
<1>3. SettingsInv'
  BY <1>2 DEF PricingInv, SettingsInv, Admits, settingRows, Holding
<1> QED
  BY <1>1, <1>3

(* A new link has a currency with a row.                                      *)
LEMMA LinkAdded ==
  ASSUME PricingInv, NEW l \in Links, NEW row \in LinkRows, offer[row.currency] # "absent",
         link' = [link EXCEPT ![l] = row], UNCHANGED settingRows
  PROVE  link' \in [Links -> LinkRows \cup {NoRow}] /\ RowsOffered'
  BY DEF PricingInv, PricingTypeOK, RowsOffered, Existing, settingRows

LEMMA InsertStep ==
  ASSUME PricingInv, NEW r \in Requests, NEW l \in Links, InsertLink(r, l) \/ InsertOrder(r, l)
  PROVE  PricingInv'
<1>1. CASE InsertLink(r, l)
  <2>1. desk[r].row \in LinkRows
    BY <1>1 DEF InsertLink, Holding, PricingInv, PricingTypeOK, Work
  <2> QED
    BY <1>1, <2>1, CloseKeeps, LinkAdded
       DEF InsertLink, PricingInv, PricingTypeOK, settingRows
<1>2. CASE InsertOrder(r, l)
  <2> DEFINE row == [currency |-> desk[r].currency, type |-> "single_use",
                     console |-> FALSE, status |-> "active", paid |-> FALSE]
  <2>1. desk[r].currency \in Currencies
    BY <1>2 DEF InsertOrder, Holding, PricingInv, PricingTypeOK, Work
  <2>2. row \in LinkRows /\ row.currency = desk[r].currency
    BY <2>1 DEF LinkRows, Types
  <2>3. link' = [link EXCEPT ![l] = row] /\ offer[desk[r].currency] # "absent"
        /\ UNCHANGED settingRows /\ Close(r)
    BY <1>2 DEF InsertOrder
  <2> HIDE DEF row
  <2> QED
    BY <2>2, <2>3, CloseKeeps, LinkAdded DEF PricingInv, PricingTypeOK, settingRows
<1> QED
  BY <1>1, <1>2

LEMMA RefuseStep == ASSUME PricingInv, NEW r \in Requests, RefuseOrder(r) PROVE PricingInv'
  BY CloseKeeps
     DEF RefuseOrder, PricingInv, PricingTypeOK, RowsOffered, Existing, settingRows

(* A link that is there is cancelled, paid or deleted.                        *)
LEMMA LinkStep ==
  ASSUME PricingInv, NEW l \in Links, CancelLink(l) \/ RecordAttempt(l) \/ DeleteLink(l)
  PROVE  PricingInv'
<1>1. UNCHANGED <<settingRows, desk>> /\ l \in Existing /\ link[l] \in LinkRows
  BY DEF CancelLink, RecordAttempt, DeleteLink, PricingInv, PricingTypeOK, Existing
<1>2. PICK row \in LinkRows \cup {NoRow} :
        /\ link' = [link EXCEPT ![l] = row]
        /\ row # NoRow => row.currency = link[l].currency
  <2>1. CASE CancelLink(l)
    <3>1. [link[l] EXCEPT !.status = "cancelled"] \in LinkRows
          /\ [link[l] EXCEPT !.status = "cancelled"].currency = link[l].currency
      BY <1>1 DEF LinkRows
    <3> QED
      BY <2>1, <3>1 DEF CancelLink
  <2>2. CASE RecordAttempt(l)
    <3>1. [link[l] EXCEPT !.paid = TRUE] \in LinkRows
          /\ [link[l] EXCEPT !.paid = TRUE].currency = link[l].currency
      BY <1>1 DEF LinkRows
    <3> QED
      BY <2>2, <3>1 DEF RecordAttempt
  <2>3. CASE DeleteLink(l)
    BY <2>3 DEF DeleteLink
  <2> QED
    BY <2>1, <2>2, <2>3
<1>3. link' \in [Links -> LinkRows \cup {NoRow}] /\ RowsOffered'
  BY <1>1, <1>2 DEF PricingInv, PricingTypeOK, RowsOffered, Existing, settingRows
<1> QED
  BY <1>1, <1>3 DEF PricingInv, PricingTypeOK, SettingsInv, Admits, settingRows, Holding

-----------------------------------------------------------------------------
(* The settings are written by the one request that holds them.               *)
LEMMA AllowStep == ASSUME PricingInv, NEW r \in Requests, SetAllowedCurrencies(r) PROVE PricingInv'
<1>1. r \in Holding({"allow"}) /\ base' = base /\ reusable' = reusable /\ link' = link
      /\ Close(r) /\ offer' = [c \in Currencies |-> AllowedRow(c, desk[r].wanted)]
  BY DEF SetAllowedCurrencies
<1>2. \A s \in Requests : desk'[s] # NoRow => desk'[s] = desk[s] /\ s # r
  BY <1>1 DEF PricingInv, PricingTypeOK, Close
<1>3. \A s \in Requests : desk'[s] # NoRow => desk'[s].op \notin {"link", "allow", "base"}
  BY <1>1, <1>2 DEF PricingInv, SettingsInv, Holding
<1>4. SettingsInv'
  BY <1>3 DEF SettingsInv, Holding
<1>5. PricingTypeOK'
  BY <1>1 DEF PricingInv, PricingTypeOK, Close, AllowedRow
<1>6. RowsOffered'
  <2>1. base \in desk[r].wanted /\ base \in Currencies
    BY <1>1 DEF PricingInv, PricingTypeOK, SettingsInv
  <2>2. \A l \in Existing : link[l].currency \in Currencies /\ InUse(link[l].currency)
    BY DEF PricingInv, PricingTypeOK, LinkRows, Existing, InUse
  <2> QED
    BY <1>1, <2>1, <2>2 DEF PricingInv, RowsOffered, AllowedRow, Existing
<1> QED
  BY <1>4, <1>5, <1>6 DEF PricingInv

LEMMA BaseStep == ASSUME PricingInv, NEW r \in Requests, ChangeBase(r) PROVE PricingInv'
<1>1. /\ r \in Holding({"base"}) /\ base' = desk[r].currency /\ reusable' = reusable /\ link' = link
      /\ Close(r) /\ offer' = [offer EXCEPT ![base'] = TriggeredRow(base')]
  BY DEF ChangeBase
<1>2. \A s \in Requests : desk'[s] # NoRow => desk'[s] = desk[s] /\ s # r
  BY <1>1 DEF PricingInv, PricingTypeOK, Close
<1>3. \A s \in Requests : desk'[s] # NoRow => desk'[s].op \notin {"link", "allow", "base"}
  BY <1>1, <1>2 DEF PricingInv, SettingsInv, Holding
<1>4. SettingsInv'
  BY <1>3 DEF SettingsInv, Holding
<1>5. base' \in Currencies
  BY <1>1 DEF PricingInv, PricingTypeOK, Work, Holding
<1>6. /\ offer' \in [Currencies -> {"absent", "off", "on"}]
      /\ \A c \in Currencies : offer[c] # "absent" \/ c = base' => offer'[c] # "absent"
  BY <1>1, <1>5 DEF PricingInv, PricingTypeOK, TriggeredRow
<1>7. PricingTypeOK'
  BY <1>1, <1>5, <1>6 DEF PricingInv, PricingTypeOK, Close
<1>8. RowsOffered'
  <2>1. \A l \in Existing : link[l].currency \in Currencies
    BY DEF PricingInv, PricingTypeOK, LinkRows, Existing
  <2> QED
    BY <1>1, <1>5, <1>6, <2>1 DEF PricingInv, RowsOffered, Existing
<1> QED
  BY <1>4, <1>7, <1>8 DEF PricingInv

LEMMA LimitsStep == ASSUME PricingInv, NEW b \in BOOLEAN, SetLinkLimits(b) PROVE PricingInv'
<1>1. SettingsInv'
  BY DEF PricingInv, SetLinkLimits, SettingsInv, SettingsFree, Holding
<1> QED
  BY <1>1 DEF PricingInv, SetLinkLimits, PricingTypeOK, RowsOffered, Existing

LEMMA PricingInvStep == PricingInv /\ [PricingNext]_pricingVars => PricingInv'
<1> SUFFICES ASSUME PricingInv, [PricingNext]_pricingVars PROVE PricingInv'
  OBVIOUS
<1>1. CASE UNCHANGED pricingVars
  BY <1>1
     DEF pricingVars, settingRows, PricingInv, PricingTypeOK, SettingsInv, RowsOffered,
         Admits, Holding, Existing
<1> QED
  BY <1>1, OpenStep, InsertStep, RefuseStep, LinkStep, AllowStep, BaseStep, LimitsStep
     DEF PricingNext

LEMMA PricingInvAlways == PricingSpec => []PricingInv
  BY PricingInvStart, PricingInvStep, PTL DEF PricingSpec

(* No figure is lost to the reports: the base and the currency of every link   *)
(* have a row, for any currencies, links and requests under way.               *)
THEOREM EveryLinkHolds == PricingSpec => []EveryLinkIsReported
<1>1. PricingInv => EveryLinkIsReported
  BY PricingAssumption
     DEF PricingInv, PricingTypeOK, RowsOffered, EveryLinkIsReported, ReportingCurrency, Existing, LinkRows
<1> QED
  BY <1>1, PricingInvAlways, PTL

(* A console link is of a currency and a type offered when it appears.         *)
THEOREM LinkMeetsHolds == PricingSpec => LinkMeetsSettings
<1> DEFINE Met == \A l \in Links :
                    link[l] = NoRow /\ link'[l] # NoRow /\ link'[l].console =>
                      Admits(link'[l].currency, link'[l].type)
<1>1. PricingInv /\ [PricingNext]_pricingVars => [Met]_pricingVars
  <2> SUFFICES ASSUME PricingInv, PricingNext PROVE Met
    OBVIOUS
  <2>1. ASSUME NEW r \in Requests, NEW k \in Links, InsertLink(r, k) PROVE Met
    BY <2>1 DEF InsertLink, Holding, PricingInv, PricingTypeOK, SettingsInv
  <2>2. ASSUME NEW r \in Requests, NEW k \in Links, InsertOrder(r, k) PROVE Met
    BY <2>2 DEF InsertOrder, PricingInv, PricingTypeOK
  <2>3. ASSUME NEW k \in Links, CancelLink(k) \/ RecordAttempt(k) \/ DeleteLink(k) PROVE Met
    BY <2>3 DEF CancelLink, RecordAttempt, DeleteLink, Existing, PricingInv, PricingTypeOK
  <2>4. CASE link' = link
    BY <2>4
  <2> QED
    BY <2>1, <2>2, <2>3, <2>4
       DEF PricingNext, OpenLink, OpenOrder, RefuseOrder, OpenAllowed, SetAllowedCurrencies,
           OpenBase, ChangeBase, SetLinkLimits
<1> QED
  BY <1>1, PricingInvAlways, PTL DEF PricingSpec, LinkMeetsSettings

-----------------------------------------------------------------------------
(* Customers                                                                *)

CustomersSpec == CustomersInit /\ [][CustomersNext]_customersVars

ContactInv == contact \in [CustomerIds -> {"absent", "known", "erased"}]

ErasedKept == \A c \in CustomerIds : contact[c] = "erased" => contact'[c] = "erased"

(* A completion that typed a customer in finds the id unused, and one that     *)
(* picked a customer leaves the contact as it is.                              *)
LEMMA DetailsKeep ==
  ASSUME ContactInv, NEW f \in Forms, CompleteDetails(f)
  PROVE  ContactInv' /\ ErasedKept
<1> DEFINE w == form[f]
<1>1. w.inline => contact[w.customer] = "absent"
  BY DEF CompleteDetails, NewCustomer
<1>2. contact' = IF w.inline THEN [contact EXCEPT ![w.customer] = "known"] ELSE contact
  BY DEF CompleteDetails
<1> QED
  BY <1>1, <1>2 DEF ContactInv, ErasedKept

LEMMA ContactStep == ContactInv /\ [CustomersNext]_customersVars => ContactInv' /\ ErasedKept
<1> SUFFICES ASSUME ContactInv, [CustomersNext]_customersVars PROVE ContactInv' /\ ErasedKept
  OBVIOUS
<1>1. ASSUME NEW c \in CustomerIds,
             \/ CreateCustomer(c)
             \/ \E s \in Scopes : UpdateCustomer(s, c) \/ EraseCustomer(s, c)
             \/ \E b \in BOOLEAN : ShelveCustomer(c, b)
      PROVE  ContactInv' /\ ErasedKept
  BY <1>1
     DEF CreateCustomer, UpdateCustomer, EraseCustomer, ShelveCustomer, NewCustomer,
         Editable,
              ContactInv, ErasedKept
<1>2. CASE contact' = contact
  BY <1>2 DEF ContactInv, ErasedKept
<1> QED
  BY <1>1, <1>2, DetailsKeep
     DEF CustomersNext, customersVars, customerRows, CreateCategory, DeleteCategory, UpdateCategory,
         Refund, OpenDetails, AbortDetails, OpenArchive, CommitArchive

(* An erasure is final, for any customers, payments and requests under way.    *)
THEOREM ErasedHolds == CustomersSpec => ErasedStaysErased
<1>1. CustomersInit => ContactInv
  BY DEF CustomersInit, ContactInv
<1>2. ContactInv /\ [CustomersNext]_customersVars => ContactInv' /\ [ErasedKept]_customersVars
  BY ContactStep
<1> QED
  BY <1>1, <1>2, PTL DEF CustomersSpec, ErasedStaysErased, ErasedKept

-----------------------------------------------------------------------------
(* Membership                                                               *)

MemberSpec == MembershipInit /\ [][MembershipNext]_memberVars

(* The types of a seat with a profile behind it. *)
Bound == {"agent", "account_owner"}

MemberTypes ==
  /\ seat \in [Users -> Seats]
  /\ login \subseteq Users
  /\ profile \in [Users -> {"none", "agent", "account"}]
  /\ platform \subseteq Users /\ granted \subseteq platform
  /\ rights \in [Keys -> Lists \cup {NoRole}]
  /\ invite \in [Users -> {NoInvite} \cup [role : Roles, state : {"open", "accepted"}]]
  /\ pending \subseteq Waits
  /\ halfMade \subseteq Users

HasSeat(u) == seat[u].role # "none"

(* A type a person's seat may have, by the profile they have.                 *)
Fits(u, r) ==
  /\ profile[u] = "agent" => r \in {"agent", "workspace_admin"}
  /\ r = "agent" => profile[u] = "agent"
  /\ profile[u] # "none" => r # "none"
  /\ u \notin halfMade => (profile[u] = "account" <=> r = "account_owner")

(* What a row says of the others about the same person.                       *)
PersonInv ==
  /\ \A u \in Users : Fits(u, seat[u].role)
  /\ \A u \in Users : HasSeat(u) => u \in login
  /\ \A u \in granted : seat[u].role = "workspace_admin" /\ profile[u] = "none"
  /\ \A u \in Users : invite[u].role \in Bound => profile[u] # "none"
  /\ \A u \in halfMade : HasSeat(u) /\ u \notin granted
  /\ \A u, v \in Owners : u = v

Holds(q) == q.op \in {"edit", "transfer"}

(* What a request read is still true when it writes: its lock keeps the row it *)
(* will overwrite, and a profile or a login that is there stays.              *)
Stands(q) ==
  /\ q.op \notin {"transfer", "account"} => q.write.role # "none"
  /\ Holds(q) => HasSeat(q.to) /\ q.to \notin granted
  /\ q.op = "edit" =>
       /\ seat[q.to].role # "workspace_owner" /\ q.write.role # "workspace_owner"
       /\ Fits(q.to, q.write.role)
  /\ q.op = "transfer" =>
       q.by # q.to /\ (profile[q.to] = "none" \/ (profile[q.to] = "account" /\ q.to \in halfMade))
  /\ q.op = "account" => q.to \in halfMade
  /\ q.op = "accept" /\ q.write.role \in Bound => profile[q.to] # "none"
  /\ q.op = "promote" => q.to \in login /\ q.write.role = "workspace_admin"

WaitInv ==
  /\ \A p, q \in pending : Holds(p) /\ Holds(q) /\ p.to = q.to => p = q
  /\ \A q \in pending : Stands(q)

(* The inductive invariant. *)
MemberInv == MemberTypes /\ PersonInv /\ WaitInv

(* What no step may do. *)
Kept ==
  /\ Owners # {} => Owners' # {}
  /\ \A u \in Users : HasSeat(u) /\ u \notin granted => HasSeat(u)'

-----------------------------------------------------------------------------
LEMMA SeatFacts ==
  /\ \A s \in Seats : s.role \in Roles \cup {"none"} /\ (s = NoSeat <=> s.role = "none")
  /\ \A r \in Roles, p \in Lists, k \in Keys \cup {NoKey} :
       NewSeat(r, p, k) \in Seats /\ NewSeat(r, p, k).role = r
  /\ Permissions \in Lists /\ {"team.view"} \in Lists /\ {} \in Lists
  BY DEF Seats, NoSeat, NewSeat, Roles, FullAccess, Lists, Permissions

LEMMA SeatMoves ==
  ASSUME NEW s \in Seats, s.role # "none"
  PROVE  /\ \A st \in {"active", "suspended", "removed"} :
              [s EXCEPT !.status = st] \in Seats /\ [s EXCEPT !.status = st].role = s.role
         /\ \A p \in Lists :
              [s EXCEPT !.perms = p] \in Seats /\ [s EXCEPT !.perms = p].role = s.role
         /\ \A r \in Roles :
              [s EXCEPT !.role = r] \in Seats /\ [s EXCEPT !.role = r].role = r
         /\ s.perms \in Lists /\ s.key \in Keys \cup {NoKey}
<1>1. s \in [role : Roles, status : {"active", "suspended", "removed"},
             perms : Lists, key : Keys \cup {NoKey}]
  BY DEF Seats, NoSeat
<1>2. \A st \in {"active", "suspended", "removed"} :
        [s EXCEPT !.status = st] \in Seats /\ [s EXCEPT !.status = st].role = s.role
  BY <1>1 DEF Seats
<1>3. \A p \in Lists :
        [s EXCEPT !.perms = p] \in Seats /\ [s EXCEPT !.perms = p].role = s.role
  BY <1>1 DEF Seats
<1>4. \A r \in Roles :
        [s EXCEPT !.role = r] \in Seats /\ [s EXCEPT !.role = r].role = r
  BY <1>1 DEF Seats
<1>5. s.perms \in Lists /\ s.key \in Keys \cup {NoKey}
  BY <1>1
<1> QED
  BY <1>2, <1>3, <1>4, <1>5

LEMMA SeatRetyped ==
  ASSUME NEW s \in Seats, s.role # "none", NEW r \in Roles, NEW p \in Lists, NEW k \in Keys \cup {NoKey}
  PROVE  Retyped(s, r, p, k) \in Seats /\ Retyped(s, r, p, k).role = r
  BY DEF Seats, NoSeat, Retyped

LEMMA DefaultFits == \A r \in Roles : Default(r) \in Lists
<1> SUFFICES ASSUME NEW r \in Roles PROVE Default(r) \in Lists
  OBVIOUS
<1>1. CASE r \in FullAccess
  BY <1>1, SeatFacts DEF Default, FullAccess
<1>2. CASE r = "member"
  BY <1>2, SeatFacts DEF Default, FullAccess
<1>3. CASE r \notin FullAccess /\ r # "member"
  BY <1>3, SeatFacts DEF Default, FullAccess
<1> QED
  BY <1>1, <1>2, <1>3

LEMMA MemberInvStart == MembershipInit => MemberInv
<1> SUFFICES ASSUME MembershipInit PROVE MemberInv
  OBVIOUS
<1>1. NewSeat("workspace_owner", Permissions, NoKey) \in Seats
      /\ NewSeat("workspace_admin", Permissions, NoKey) \in Seats /\ NoSeat \in Seats
      /\ NewSeat("workspace_owner", Permissions, NoKey).role = "workspace_owner"
      /\ NewSeat("workspace_admin", Permissions, NoKey).role = "workspace_admin" /\ NoSeat.role = "none"
  BY SeatFacts DEF Seats, NoSeat, Roles, FullAccess
<1>2. platform \subseteq Users /\ Founder \notin platform /\ granted = platform /\ pending = {} /\ halfMade = {}
  BY DEF MembershipInit
<1>3. /\ seat \in [Users -> Seats] /\ login \subseteq Users
      /\ \A u \in Users : seat[u].role \in {"none", "workspace_owner", "workspace_admin"}
      /\ \A u \in Users : seat[u].role = "workspace_owner" => u = Founder
      /\ \A u \in Users : seat[u].role # "none" => u \in login
      /\ \A u \in granted : seat[u].role = "workspace_admin"
  BY <1>1, <1>2, MembershipAssumption DEF MembershipInit
<1>4. /\ invite \in [Users -> {NoInvite} \cup [role : Roles, state : {"open", "accepted"}]]
      /\ \A u \in Users : invite[u].role \in {"none", "workspace_owner"}
  BY DEF MembershipInit, NoInvite, Roles, FullAccess
<1>5. profile = [u \in Users |-> "none"] /\ rights = [k \in Keys |-> NoRole]
  BY DEF MembershipInit
<1>6. MemberTypes
  BY <1>2, <1>3, <1>4, <1>5 DEF MemberTypes
<1>7. PersonInv
  BY <1>2, <1>3, <1>4, <1>5 DEF PersonInv, Fits, Bound, HasSeat, Owners
<1> QED
  BY <1>2, <1>6, <1>7 DEF MemberInv, WaitInv

-----------------------------------------------------------------------------
(* A step that leaves every seat its type.                                    *)
LEMMA RolesKept ==
  ASSUME MemberInv, MemberTypes',
         \A u \in Users : seat'[u].role = seat[u].role,
         profile' = profile, granted' = granted, halfMade' = halfMade, login \subseteq login',
         \A u \in Users : invite'[u].role \in Bound => invite[u].role \in Bound,
         pending' \subseteq pending
  PROVE  MemberInv' /\ Kept
<1>1. Owners' = Owners
  BY DEF Owners
<1>2. granted \subseteq Users
  BY DEF MemberInv, MemberTypes
<1>3. \A q \in pending : q.to \in Users
  BY DEF MemberInv, MemberTypes, Waits
<1>4. PersonInv'
  <2>1. \A u \in Users : Fits(u, seat[u].role)'
    BY DEF MemberInv, PersonInv, Fits
  <2>2. \A u \in Users : HasSeat(u)' <=> HasSeat(u)
    BY DEF HasSeat
  <2>3. \A u \in granted' : seat'[u].role = "workspace_admin" /\ profile'[u] = "none"
    BY <1>2 DEF MemberInv, PersonInv
  <2>4. \A u \in halfMade' : HasSeat(u)' /\ u \notin granted'
    BY <2>2 DEF MemberInv, MemberTypes, PersonInv
  <2>5. \A u \in Users : invite'[u].role \in Bound => profile'[u] # "none"
    BY DEF MemberInv, PersonInv
  <2> QED
    BY <1>1, <2>1, <2>2, <2>3, <2>4, <2>5 DEF MemberInv, PersonInv
<1>5. \A q \in pending' : Stands(q)'
  BY <1>3 DEF MemberInv, WaitInv, Stands, Holds, Fits, HasSeat
<1>6. WaitInv'
  BY <1>5 DEF MemberInv, WaitInv, Holds
<1>7. Kept
  BY <1>1 DEF Kept, HasSeat
<1> QED
  BY <1>4, <1>6, <1>7 DEF MemberInv

(* A step about one person, whose seat nobody holds.                          *)
LEMMA PersonMoves ==
  ASSUME MemberInv, MemberTypes', NEW x \in Users,
         halfMade \subseteq halfMade', \A u \in halfMade' : u \in halfMade \/ u = x,
         x \in halfMade' => HasSeat(x)' /\ x \notin granted',
         \A u \in Users \ {x} :
           /\ seat'[u].role = seat[u].role /\ profile'[u] = profile[u]
           /\ u \in granted' <=> u \in granted
           /\ invite'[u].role \in Bound => invite[u].role \in Bound,
         login \subseteq login', HasSeat(x)' => x \in login',
         Fits(x, seat[x].role)', profile[x] # "none" => profile'[x] # "none",
         x \in granted' => seat'[x].role = "workspace_admin" /\ profile'[x] = "none",
         invite'[x].role \in Bound => profile'[x] # "none",
         seat[x].role = "workspace_owner" => seat'[x].role = "workspace_owner",
         seat'[x].role = "workspace_owner" => seat[x].role = "workspace_owner" \/ Owners = {},
         HasSeat(x) /\ x \notin granted => HasSeat(x)',
         pending' \subseteq pending, \A q \in pending' : Holds(q) => q.to # x
  PROVE  MemberInv' /\ Kept
<1>1. granted' \subseteq Users
  BY DEF MemberTypes
<1>2. \A q \in pending : q.to \in Users
  BY DEF MemberInv, MemberTypes, Waits
<1>3. \A u \in Users \ {x} : u \in Owners' <=> u \in Owners
  BY DEF Owners
<1>4. \A u, v \in Owners' : u = v
  BY <1>3 DEF MemberInv, PersonInv, Owners
<1>5. PersonInv'
  <2>1. \A u \in Users : Fits(u, seat[u].role)'
    BY DEF MemberInv, PersonInv, Fits
  <2>2. \A u \in Users : HasSeat(u)' => u \in login'
    BY DEF MemberInv, PersonInv, HasSeat
  <2>3. \A u \in granted' : seat'[u].role = "workspace_admin" /\ profile'[u] = "none"
    BY <1>1 DEF MemberInv, PersonInv
  <2>4. \A u \in Users : invite'[u].role \in Bound => profile'[u] # "none"
    BY DEF MemberInv, PersonInv
  <2>5. \A u \in halfMade' : HasSeat(u)' /\ u \notin granted'
    BY DEF MemberInv, MemberTypes, PersonInv, HasSeat
  <2> QED
    BY <1>4, <2>1, <2>2, <2>3, <2>4, <2>5 DEF PersonInv
<1>6. ASSUME NEW q \in pending' PROVE Stands(q)'
  <2>1. q \in pending /\ q.to \in Users /\ Stands(q)
    BY <1>2, <1>6 DEF MemberInv, WaitInv
  <2>2. CASE Holds(q)
    BY <1>6, <2>1, <2>2 DEF Stands, Holds, Fits, HasSeat
  <2>3. CASE ~Holds(q)
    BY <2>1, <2>3 DEF Stands, Holds
  <2> QED
    BY <2>2, <2>3
<1>7. WaitInv'
  BY <1>6 DEF MemberInv, WaitInv, Holds
<1>8. Kept
  BY <1>3 DEF Kept, Owners, HasSeat
<1> QED
  BY <1>5, <1>7, <1>8 DEF MemberInv

-----------------------------------------------------------------------------
(* Requests that read, and lock what they will overwrite.                     *)
LEMMA AwaitAdds ==
  ASSUME MemberInv, NEW w \in Waits, Stands(w), Holds(w) => ~SeatLocked(w.to),
         pending' = pending \cup {w},
         UNCHANGED <<seat, login, profile, platform, granted, rights, invite, halfMade>>
  PROVE  MemberInv' /\ Kept
<1>1. MemberTypes'
  BY DEF MemberInv, MemberTypes
<1>2. PersonInv'
  BY DEF MemberInv, PersonInv, Fits, HasSeat, Owners
<1>3. \A q \in pending' : Stands(q)'
  BY DEF MemberInv, WaitInv, Stands, Fits, HasSeat
<1>4. \A p, q \in pending' : Holds(p) /\ Holds(q) /\ p.to = q.to => p = q
  BY DEF MemberInv, WaitInv, Holds, SeatLocked
<1>5. Kept
  BY DEF Kept, Owners, HasSeat
<1> QED
  BY <1>1, <1>2, <1>3, <1>4, <1>5 DEF MemberInv, WaitInv

(* An edit keeps the seat's type or takes one its profile allows.             *)
LEMMA EditsFit ==
  ASSUME MemberInv, NEW u \in Users, HasSeat(u), NEW s \in Edits(seat[u], u)
  PROVE  s \in Seats /\ s.role \in {seat[u].role} \cup SeatRoles(u)
<1>1. seat[u] \in Seats /\ seat[u].role \in Roles
  BY SeatFacts DEF MemberInv, MemberTypes, HasSeat
<1>2. SeatRoles(u) \subseteq Roles
  BY DEF SeatRoles, Roles, FullAccess, Plain
<1>3. \A k \in Keys : rights[k] # NoRole => rights[k] \in Lists
  BY DEF MemberInv, MemberTypes
<1>4. seat[u].role # "none" /\ seat[u].perms \in Lists /\ seat[u].key \in Keys \cup {NoKey}
  <2>1. seat[u].role # "none"
    BY DEF HasSeat
  <2> QED
    BY <1>1, <2>1, SeatMoves
<1>5. PICK r \in {seat[u].role} \cup SeatRoles(u), p \in Lists, k \in Keys \cup {NoKey} :
        s = Retyped(seat[u], r, p, k)
  <2>1. CASE s \in {Retyped(seat[u], r, rights[k], k) :
               r \in {seat[u].role} \cup SeatRoles(u), k \in {j \in Keys : rights[j] # NoRole}}
    BY <1>3, <2>1
  <2>2. CASE s \in {Retyped(seat[u], r, p, NoKey) : r \in {seat[u].role} \cup SeatRoles(u), p \in Lists}
    BY <2>2
  <2>3. CASE s \in {Retyped(seat[u], r, seat[u].perms, seat[u].key) :
               r \in {seat[u].role} \cup (SeatRoles(u) \cap {"member"})}
    BY <1>4, <2>3
  <2> QED
    BY <2>1, <2>2, <2>3 DEF Edits, OfferedLists
<1>6. r \in Roles
  BY <1>1, <1>2
<1>7. Retyped(seat[u], r, p, k) \in Seats /\ Retyped(seat[u], r, p, k).role = r
  BY <1>1, <1>4, <1>5, <1>6, SeatRetyped
<1> QED
  BY <1>5, <1>7

(* The request that waits is a record, with the parts it was given.           *)
LEMMA Awaits ==
  ASSUME NEW op \in {"edit", "transfer", "status", "remove", "accept", "promote", "account"},
         NEW by \in Users, NEW to \in Users, NEW write \in Seats, Await(op, by, to, write)
  PROVE  \E w \in Waits : /\ pending' = pending \cup {w}
                          /\ w.op = op /\ w.by = by /\ w.to = to /\ w.write = write
<1> DEFINE w == [op |-> op, by |-> by, to |-> to, write |-> write]
<1>1. w \in Waits
  BY DEF Waits
<1>2. pending' = pending \cup {w}
  BY DEF Await
<1> QED
  BY <1>1, <1>2

LEMMA BeginStep ==
  ASSUME MemberInv, NEW by \in Users, NEW u \in Users,
         \/ BeginEdit(by, u) \/ BeginTransfer(by, u) \/ BeginRemove(by, u)
         \/ \E st \in {"active", "suspended"} : BeginStatus(by, u, st)
         \/ BeginAccept(u) \/ BeginPromote(u) \/ BeginAccount(u)
  PROVE  MemberInv' /\ Kept
<1>1. UNCHANGED <<seat, login, profile, platform, granted, rights, invite, halfMade>>
  BY DEF BeginEdit, BeginTransfer, BeginRemove, BeginStatus, BeginAccept, BeginPromote, BeginAccount
<1>2. /\ seat[u] \in Seats /\ Fits(u, seat[u].role) /\ NoSeat \in Seats
      /\ granted \subseteq platform /\ (seat[u] = NoSeat <=> seat[u].role = "none")
  BY SeatFacts DEF MemberInv, MemberTypes, PersonInv, Seats
<1>3. CASE BeginEdit(by, u)
  <2>1. PICK s \in Edits(seat[u], u) : Await("edit", by, u, s)
    BY <1>3 DEF BeginEdit
  <2>2. HasSeat(u) /\ seat[u].role # "workspace_owner" /\ u \notin granted /\ ~SeatLocked(u)
    BY <1>2, <1>3 DEF BeginEdit, HasSeat
  <2>3. s \in Seats /\ s.role \in {seat[u].role} \cup SeatRoles(u)
    BY <2>2, EditsFit
  <2>4. s.role \notin {"none", "workspace_owner"} /\ Fits(u, s.role)
    BY <1>2, <2>2, <2>3 DEF SeatRoles, Plain, Fits, Bound, HasSeat
  <2>5. PICK w \in Waits : /\ pending' = pending \cup {w}
                           /\ w.op = "edit" /\ w.to = u /\ w.write = s
    BY <2>1, <2>3, Awaits
  <2>6. Stands(w)
    BY <2>2, <2>4, <2>5 DEF Stands, Holds
  <2> QED
    BY <1>1, <2>2, <2>5, <2>6, AwaitAdds
<1>4. CASE BeginTransfer(by, u)
  <2>1. PICK w \in Waits : /\ pending' = pending \cup {w}
                           /\ w.op = "transfer" /\ w.by = by /\ w.to = u /\ w.write = NoSeat
    BY <1>2, <1>4, Awaits DEF BeginTransfer
  <2>2. HasSeat(u) /\ u \notin granted /\ ~SeatLocked(u) /\ profile[u] = "none" /\ by # u
    BY <1>2, <1>4 DEF BeginTransfer, HasSeat, NoSeat
  <2>3. HasSeat(w.to) /\ w.to \notin granted /\ profile[w.to] = "none" /\ w.by # w.to
    BY <2>1, <2>2
  <2>4. Stands(w)
    BY <2>1, <2>3 DEF Stands, Holds
  <2> QED
    BY <1>1, <2>1, <2>2, <2>4, AwaitAdds
<1>5. ASSUME NEW st \in {"active", "suspended", "removed"}, NEW op \in {"status", "remove"},
             seat[u] # NoSeat, Await(op, by, u, [seat[u] EXCEPT !.status = st])
      PROVE  MemberInv' /\ Kept
  <2>1. [seat[u] EXCEPT !.status = st] \in Seats /\ [seat[u] EXCEPT !.status = st].role # "none"
    BY <1>2, <1>5, SeatMoves
  <2>2. PICK s \in Seats : s.role # "none" /\ Await(op, by, u, s)
    BY <1>5, <2>1
  <2>3. PICK w \in Waits : pending' = pending \cup {w} /\ w.op = op /\ w.write = s
    BY <1>5, <2>1, <2>2, Awaits
  <2>4. Stands(w) /\ ~Holds(w)
    BY <1>5, <2>2, <2>3 DEF Stands, Holds
  <2> QED
    BY <1>1, <2>3, <2>4, AwaitAdds
<1>6. CASE BeginRemove(by, u)
  BY <1>5, <1>6 DEF BeginRemove, NoSeat
<1>7. CASE \E st \in {"active", "suspended"} : BeginStatus(by, u, st)
  BY <1>5, <1>7 DEF BeginStatus
<1>8. CASE BeginAccept(u)
  <2>1. invite[u].role \in Roles
    BY <1>8 DEF BeginAccept, MemberInv, MemberTypes, NoInvite
  <2> DEFINE s == NewSeat(invite[u].role, Default(invite[u].role), NoKey)
  <2>2. s \in Seats /\ s.role = invite[u].role /\ s.role # "none"
    BY <2>1, DefaultFits, SeatFacts DEF Roles, FullAccess
  <2>3. Await("accept", u, u, s)
    BY <1>8 DEF BeginAccept
  <2> HIDE DEF s
  <2>4. PICK w \in Waits : /\ pending' = pending \cup {w}
                           /\ w.op = "accept" /\ w.to = u /\ w.write = s
    BY <2>2, <2>3, Awaits
  <2>5. Stands(w) /\ ~Holds(w)
    BY <2>2, <2>4 DEF Stands, Holds, MemberInv, PersonInv
  <2> QED
    BY <1>1, <2>4, <2>5, AwaitAdds
<1>9. CASE BeginPromote(u)
  <2> DEFINE s == NewSeat("workspace_admin", Permissions, NoKey)
  <2>1. s \in Seats /\ s.role = "workspace_admin"
    BY SeatFacts DEF Roles, FullAccess
  <2>2. Await("promote", u, u, s) /\ u \in login
    BY <1>9 DEF BeginPromote
  <2> HIDE DEF s
  <2>3. PICK w \in Waits : /\ pending' = pending \cup {w}
                           /\ w.op = "promote" /\ w.to = u /\ w.write = s
    BY <2>1, <2>2, Awaits
  <2>4. Stands(w) /\ ~Holds(w)
    BY <2>1, <2>2, <2>3 DEF Stands, Holds
  <2> QED
    BY <1>1, <2>3, <2>4, AwaitAdds
<1>10. CASE BeginAccount(u)
  <2>1. seat[u].role = "account_owner" /\ profile[u] = "none" /\ Await("account", u, u, NoSeat)
    BY <1>10 DEF BeginAccount, ProfileRole
  <2>2. PICK w \in Waits : pending' = pending \cup {w} /\ w.op = "account" /\ w.to = u
    BY <1>2, <2>1, Awaits
  <2>3. Stands(w) /\ ~Holds(w)
    BY <1>2, <2>1, <2>2 DEF Stands, Holds, Fits
  <2> QED
    BY <1>1, <2>2, <2>3, AwaitAdds
<1> QED
  BY <1>3, <1>4, <1>6, <1>7, <1>8, <1>9, <1>10

-----------------------------------------------------------------------------
(* Requests that leave every seat its type.                                   *)
LEMMA RoleRequestStep ==
  ASSUME MemberInv, NEW by \in Users, NEW k \in Keys, RoleRequest(by, k)
  PROVE  MemberInv' /\ Kept
<1>1. UNCHANGED <<login, profile, platform, granted, invite, pending, halfMade>>
  BY DEF RoleRequest, CreateRole, EditRole, DeleteRole
<1>2. rights' \in [Keys -> Lists \cup {NoRole}]
  BY DEF RoleRequest, CreateRole, EditRole, DeleteRole, OfferedLists, MemberInv, MemberTypes
<1>3. seat' \in [Users -> Seats] /\ \A u \in Users : seat'[u].role = seat[u].role
  <2>1. CASE seat' = seat
    BY <2>1 DEF MemberInv, MemberTypes
  <2>2. ASSUME NEW p \in Lists, seat' = [u \in Users |-> Follows(seat[u], k, p)]
        PROVE  seat' \in [Users -> Seats] /\ \A u \in Users : seat'[u].role = seat[u].role
    <3>1. ASSUME NEW s \in Seats
          PROVE  Follows(s, k, p) \in Seats /\ Follows(s, k, p).role = s.role
      <4>1. s.key = k => s.role # "none"
        BY MembershipAssumption, SeatFacts DEF NoSeat
      <4> QED
        BY <3>1, <4>1, SeatMoves DEF Follows
    <3> QED
      BY <2>2, <3>1 DEF MemberInv, MemberTypes
  <2> QED
    BY <2>1, <2>2 DEF RoleRequest, CreateRole, EditRole, DeleteRole, OfferedLists
<1>4. MemberTypes'
  BY <1>1, <1>2, <1>3 DEF MemberInv, MemberTypes
<1> QED
  BY <1>1, <1>3, <1>4, RolesKept

LEMMA InviteStep ==
  ASSUME MemberInv, NEW by \in Users, NEW u \in Users,
         (\E r \in Plain : CreateInvite(by, u, r)) \/ WithdrawInvite(u)
  PROVE  MemberInv' /\ Kept
<1>1. UNCHANGED <<seat, login, profile, platform, granted, rights, pending, halfMade>>
  BY DEF CreateInvite, WithdrawInvite
<1>2. PICK row \in {NoInvite} \cup [role : Roles, state : {"open", "accepted"}] :
        invite' = [invite EXCEPT ![u] = row] /\ row.role \notin Bound
  <2>1. ASSUME NEW r \in Plain, CreateInvite(by, u, r)
        PROVE  \E row \in {NoInvite} \cup [role : Roles, state : {"open", "accepted"}] :
                 invite' = [invite EXCEPT ![u] = row] /\ row.role \notin Bound
    <3>1. r \in Roles \ Bound
      BY DEF Plain, Roles, FullAccess, Bound
    <3> DEFINE row == [role |-> r, state |-> "open"]
    <3>2. row \in [role : Roles, state : {"open", "accepted"}] /\ row.role \notin Bound
      BY <3>1
    <3>3. invite' = [invite EXCEPT ![u] = row]
      BY <2>1 DEF CreateInvite
    <3> QED
      BY <3>2, <3>3
  <2>2. CASE WithdrawInvite(u)
    <3>1. NoInvite.role \notin Bound
      BY DEF NoInvite, Bound
    <3> QED
      BY <2>2, <3>1 DEF WithdrawInvite
  <2> QED
    BY <2>1, <2>2
<1>3. MemberTypes' /\ \A v \in Users : invite'[v].role \in Bound => invite[v].role \in Bound
  BY <1>1, <1>2 DEF MemberInv, MemberTypes
<1> QED
  BY <1>1, <1>3, RolesKept

(* One seat changes, and not its type.                                        *)
LEMMA SameRole ==
  ASSUME MemberInv, NEW u \in Users, NEW s \in Seats, s.role = seat[u].role,
         seat' = [seat EXCEPT ![u] = s], pending' \subseteq pending,
         UNCHANGED <<profile, platform, granted, rights, halfMade>>,
         login \subseteq login', login' \subseteq Users,
         invite' \in [Users -> {NoInvite} \cup [role : Roles, state : {"open", "accepted"}]],
         \A v \in Users : invite'[v].role = invite[v].role
  PROVE  MemberInv' /\ Kept
<1>1. MemberTypes' /\ \A v \in Users : seat'[v].role = seat[v].role
  BY DEF MemberInv, MemberTypes
<1> QED
  BY <1>1, RolesKept

LEMMA ArchiveStep == ASSUME MemberInv, NEW u \in Users, ArchiveAgent(u) PROVE MemberInv' /\ Kept
<1>1. seat[u] \in Seats /\ seat[u].role # "none"
  BY SeatFacts DEF ArchiveAgent, MemberInv, MemberTypes, NoSeat
<1>2. PICK s \in Seats : s.role = seat[u].role /\ seat' = [seat EXCEPT ![u] = s]
  <2>1. PICK st \in {"active", "suspended"} : seat' = [seat EXCEPT ![u].status = st]
    BY DEF ArchiveAgent
  <2>2. [seat[u] EXCEPT !.status = st] \in Seats /\ [seat[u] EXCEPT !.status = st].role = seat[u].role
    BY <1>1, <2>1, SeatMoves
  <2> QED
    BY <2>1, <2>2
<1> QED
  BY <1>2, SameRole DEF ArchiveAgent, MemberInv, MemberTypes

LEMMA StatusStep == ASSUME MemberInv, NEW q \in pending, EndStatus(q) PROVE MemberInv' /\ Kept
<1>1. q.to \in Users /\ q.write \in Seats /\ q.write.role # "none" /\ seat[q.to] \in Seats
  BY DEF EndStatus, MemberInv, MemberTypes, Waits, WaitInv, Stands
<1>2. q.write.status \in {"active", "suspended", "removed"}
  BY <1>1, SeatFacts DEF Seats
<1>3. PICK s \in Seats : s.role = seat[q.to].role /\ seat' = [seat EXCEPT ![q.to] = s]
  <2>1. CASE seat[q.to] = NoSeat
    BY <1>1, <2>1 DEF EndStatus, StatusWrite
  <2>2. CASE seat[q.to] # NoSeat
    <3>1. /\ [seat[q.to] EXCEPT !.status = q.write.status] \in Seats
          /\ [seat[q.to] EXCEPT !.status = q.write.status].role = seat[q.to].role
      BY <1>1, <1>2, <2>2, SeatFacts, SeatMoves
    <3> QED
      BY <2>2, <3>1 DEF EndStatus, StatusWrite
  <2> QED
    BY <2>1, <2>2
<1> QED
  BY <1>1, <1>3, SameRole DEF EndStatus, Ends, MemberInv, MemberTypes

-----------------------------------------------------------------------------
(* Requests that make, move or take a seat.                                   *)
LEMMA UnlockedSeat ==
  ASSUME NEW u \in Users, ~SeatLocked(u)
  PROVE  \A q \in pending : Holds(q) => q.to # u
  BY DEF SeatLocked, Holds

LEMMA CreateMemberStep ==
  ASSUME MemberInv, NEW by \in Users, NEW u \in Users,
         NEW r \in Plain, NEW p \in Lists, NEW k \in Keys \cup {NoKey}, CreateMember(by, u, r, p, k)
  PROVE  MemberInv' /\ Kept
<1>1. NewSeat(r, p, k) \in Seats /\ NewSeat(r, p, k).role = r
      /\ r \notin Bound /\ r \notin {"none", "workspace_owner"}
  BY SeatFacts DEF Plain, Roles, FullAccess, Bound
<1>2. ~HasSeat(u)
  BY DEF CreateMember, MemberInv, PersonInv
<1>3. profile[u] = "none" /\ u \notin granted
  BY <1>2 DEF MemberInv, MemberTypes, PersonInv, Fits, HasSeat
<1>4. \A q \in pending : Holds(q) => q.to # u
  BY <1>2 DEF MemberInv, WaitInv, Stands
<1>5. /\ seat' = [seat EXCEPT ![u] = NewSeat(r, p, k)] /\ login' = login \cup {u}
      /\ UNCHANGED <<profile, platform, granted, rights, invite, pending, halfMade>>
  BY DEF CreateMember
<1>6. MemberTypes' /\ seat'[u].role = r /\ \A v \in Users \ {u} : seat'[v] = seat[v]
  BY <1>1, <1>5 DEF MemberInv, MemberTypes
<1>7. Fits(u, seat[u].role)' /\ HasSeat(u)' /\ seat[u].role = "none"
  BY <1>1, <1>2, <1>3, <1>5, <1>6 DEF Fits, HasSeat, Bound
<1>8. invite'[u].role \in Bound => profile'[u] # "none"
  BY <1>5 DEF MemberInv, PersonInv
<1> QED
  BY <1>1, <1>3, <1>4, <1>5, <1>6, <1>7, <1>8, PersonMoves

(* A new seat of a profile's type, with the profile or, refused, without.     *)
LEMMA GrantStep ==
  ASSUME MemberInv, NEW u \in Users, NEW kind \in {"agent", "account"}, GrantSeat(u, kind),
         UNCHANGED <<platform, granted, rights, pending>>,
         \/ profile' = [profile EXCEPT ![u] = kind] /\ halfMade' = halfMade
         \/ profile' = profile /\ halfMade' = halfMade \cup {u} /\ kind = "account",
         \/ invite' = invite
         \/ /\ invite' = [invite EXCEPT ![u] = [role |-> "account_owner", state |-> "open"]]
            /\ profile' = [profile EXCEPT ![u] = kind]
  PROVE  MemberInv' /\ Kept
<1> DEFINE r == ProfileRole(kind)
           s == NewSeat(r, {}, NoKey)
<1>1. r \in Bound /\ r \in Roles /\ s \in Seats /\ s.role = r
  BY SeatFacts DEF ProfileRole, Bound, Roles, FullAccess
<1>2. /\ seat' = [seat EXCEPT ![u] = s] /\ login' = login \cup {u}
      /\ profile[u] = "none" /\ seat[u].role = "none"
  BY DEF GrantSeat, NoSeat
<1>3. /\ invite' \in [Users -> {NoInvite} \cup [role : Roles, state : {"open", "accepted"}]]
      /\ \A v \in Users \ {u} : invite'[v] = invite[v]
  <2>1. CASE invite' = invite
    BY <2>1 DEF MemberInv, MemberTypes
  <2>2. CASE invite' = [invite EXCEPT ![u] = [role |-> "account_owner", state |-> "open"]]
    BY <2>2 DEF MemberInv, MemberTypes, Roles, FullAccess
  <2> QED
    BY <2>1, <2>2
<1>4. u \notin granted /\ u \notin halfMade /\ \A q \in pending' : Holds(q) => q.to # u
  BY <1>2 DEF MemberInv, PersonInv, WaitInv, Stands, HasSeat
<1>5. r = IF kind = "agent" THEN "agent" ELSE "account_owner"
  BY DEF ProfileRole
<1> HIDE DEF r, s
<1>6. /\ seat' \in [Users -> Seats] /\ seat'[u].role = r
      /\ \A v \in Users \ {u} : seat'[v] = seat[v] /\ profile'[v] = profile[v]
      /\ profile' \in [Users -> {"none", "agent", "account"}]
      /\ \/ profile'[u] = kind /\ u \notin halfMade'
         \/ profile'[u] = "none" /\ u \in halfMade' /\ kind = "account"
  <2>1. seat' \in [Users -> Seats] /\ seat'[u].role = r /\ \A v \in Users \ {u} : seat'[v] = seat[v]
    BY <1>1, <1>2 DEF MemberInv, MemberTypes
  <2>2. CASE profile' = [profile EXCEPT ![u] = kind] /\ halfMade' = halfMade
    BY <1>4, <2>1, <2>2 DEF MemberInv, MemberTypes
  <2>3. CASE profile' = profile /\ halfMade' = halfMade \cup {u} /\ kind = "account"
    BY <1>2, <2>1, <2>3 DEF MemberInv, MemberTypes
  <2> QED
    BY <2>2, <2>3
<1>7. MemberTypes'
  BY <1>2, <1>3, <1>6 DEF MemberInv, MemberTypes
<1>8. Fits(u, seat[u].role)' /\ HasSeat(u)'
  BY <1>4, <1>5, <1>6 DEF Fits, HasSeat
<1>9. r # "workspace_owner"
  BY <1>1 DEF Bound
<1>10. invite'[u].role \in Bound => profile'[u] # "none"
  <2>1. CASE invite' = invite
    BY <1>2, <2>1 DEF MemberInv, PersonInv
  <2>2. CASE profile' = [profile EXCEPT ![u] = kind]
    BY <2>2 DEF MemberInv, MemberTypes
  <2> QED
    BY <2>1, <2>2
<1>11. /\ halfMade \subseteq halfMade' /\ \A v \in halfMade' : v \in halfMade \/ v = u
       /\ login \subseteq login' /\ u \in login' /\ pending' \subseteq pending
  BY <1>2
<1>12. u \notin granted' /\ \A v \in Users : v \in granted' <=> v \in granted
  BY <1>4
<1> QED
  BY <1>2, <1>3, <1>4, <1>6, <1>7, <1>8, <1>9, <1>10, <1>11, <1>12, PersonMoves DEF HasSeat

LEMMA CreateProfileStep ==
  ASSUME MemberInv, NEW u \in Users, NEW kind \in {"agent", "account"}, CreateProfile(u, kind)
  PROVE  MemberInv' /\ Kept
  BY GrantStep DEF CreateProfile

LEMMA RefuseNameStep ==
  ASSUME MemberInv, NEW u \in Users, RefuseName(u)
  PROVE  MemberInv' /\ Kept
  BY GrantStep DEF RefuseName

LEMMA DemoteStep == ASSUME MemberInv, NEW u \in Users, Demote(u) PROVE MemberInv' /\ Kept
<1>1. /\ UNCHANGED <<login, profile, rights, invite, pending, halfMade>> /\ ~SeatLocked(u)
      /\ platform' = platform \ {u} /\ granted' = granted \ {u}
      /\ seat' = [v \in Users |-> IF v \in SeatsTaken(u) THEN NoSeat ELSE seat[v]]
  BY DEF Demote
<1>2. NoSeat \in Seats /\ NoSeat.role = "none"
  BY DEF Seats, NoSeat
<1>3. MemberTypes' /\ \A v \in Users \ {u} : seat'[v] = seat[v]
  BY <1>1, <1>2 DEF MemberInv, MemberTypes, SeatsTaken
<1>4. CASE u \in granted
  <2>1. /\ seat'[u].role = "none" /\ seat[u].role = "workspace_admin" /\ profile[u] = "none"
        /\ u \notin halfMade
    BY <1>1, <1>2, <1>4 DEF MemberInv, PersonInv, SeatsTaken
  <2>2. Fits(u, seat[u].role)' /\ ~HasSeat(u)'
    BY <1>1, <2>1 DEF Fits, HasSeat, Bound
  <2>3. invite'[u].role \in Bound => profile'[u] # "none"
    BY <1>1 DEF MemberInv, PersonInv
  <2> QED
    BY <1>1, <1>3, <1>4, <2>1, <2>2, <2>3, UnlockedSeat, PersonMoves
<1>5. CASE u \notin granted
  <2>1. \A v \in Users : seat'[v].role = seat[v].role
    BY <1>1, <1>5 DEF SeatsTaken
  <2> QED
    BY <1>1, <1>3, <1>5, <2>1, RolesKept
<1> QED
  BY <1>4, <1>5

LEMMA RecoverStep == ASSUME MemberInv, NEW u \in Users, RecoverOwner(u) PROVE MemberInv' /\ Kept
<1>1. /\ seat[u].role \in Plain /\ profile[u] = "none" /\ u \notin granted /\ ~SeatLocked(u) /\ Owners = {}
      /\ UNCHANGED <<login, profile, platform, granted, rights, invite, pending, halfMade>>
  BY DEF RecoverOwner, MemberInv, MemberTypes
<1>2. seat[u] \in Seats /\ seat[u].role # "none"
  BY <1>1 DEF MemberInv, MemberTypes, Plain
<1>3. PICK s \in Seats : s.role = "workspace_owner" /\ seat' = [seat EXCEPT ![u] = s]
  <2>1. /\ [seat[u] EXCEPT !.role = "workspace_owner"] \in Seats
        /\ [seat[u] EXCEPT !.role = "workspace_owner"].role = "workspace_owner"
    BY <1>2, SeatMoves DEF Roles, FullAccess
  <2> QED
    BY <2>1 DEF RecoverOwner
<1>4. /\ MemberTypes' /\ seat'[u].role = "workspace_owner"
      /\ \A v \in Users \ {u} : seat'[v] = seat[v]
  BY <1>1, <1>3 DEF MemberInv, MemberTypes
<1>5. Fits(u, seat[u].role)' /\ HasSeat(u)' /\ HasSeat(u) /\ u \in login
  BY <1>1, <1>2, <1>4 DEF Fits, HasSeat, Bound, MemberInv, PersonInv
<1>6. invite'[u].role \in Bound => profile'[u] # "none"
  BY <1>1 DEF MemberInv, PersonInv
<1> QED
  BY <1>1, <1>4, <1>5, <1>6, UnlockedSeat, PersonMoves

-----------------------------------------------------------------------------
(* The requests that wait, and write what they read.                          *)
LEMMA WaitsFor ==
  ASSUME MemberInv, NEW q \in pending
  PROVE  /\ q.by \in Users /\ q.to \in Users /\ q.write \in Seats /\ seat[q.to] \in Seats
         /\ Stands(q)
         /\ Ends(q) => pending' \subseteq pending
         /\ q.op \in {"edit", "transfer", "status", "remove", "accept", "promote", "account"}
  BY DEF MemberInv, MemberTypes, Waits, WaitInv, Ends

(* Only one request holds a seat, and it ends.                                *)
LEMMA HolderLeaves ==
  ASSUME MemberInv, NEW q \in pending, Holds(q), Ends(q)
  PROVE  \A p \in pending' : Holds(p) => p.to # q.to
  BY DEF MemberInv, WaitInv, Ends

LEMMA EndEditStep == ASSUME MemberInv, NEW q \in pending, EndEdit(q) PROVE MemberInv' /\ Kept
<1>1. /\ q.to \in Users /\ q.write \in Seats /\ Stands(q) /\ q.op = "edit" /\ Ends(q)
      /\ pending' \subseteq pending
      /\ UNCHANGED <<login, profile, platform, granted, rights, invite, halfMade>>
  BY WaitsFor DEF EndEdit
<1>2. Holds(q)
  BY <1>1 DEF Holds
<1>3. CASE seat' = seat
  <2>1. MemberTypes'
    BY <1>1, <1>3 DEF MemberInv, MemberTypes
  <2> QED
    BY <1>1, <1>3, <2>1, RolesKept
<1>4. CASE seat' = [seat EXCEPT ![q.to] = q.write]
  <2>1. MemberTypes' /\ seat'[q.to] = q.write /\ \A v \in Users \ {q.to} : seat'[v] = seat[v]
    BY <1>1, <1>4 DEF MemberInv, MemberTypes
  <2>2. /\ HasSeat(q.to) /\ q.to \notin granted /\ seat[q.to].role # "workspace_owner"
        /\ q.write.role # "workspace_owner" /\ q.write.role # "none" /\ Fits(q.to, q.write.role)
    BY <1>1, <1>2 DEF Stands
  <2>3. Fits(q.to, seat[q.to].role)' /\ HasSeat(q.to)'
    BY <1>1, <2>1, <2>2 DEF Fits, HasSeat
  <2>4. q.to \in login /\ (invite'[q.to].role \in Bound => profile'[q.to] # "none")
    BY <1>1, <2>2 DEF MemberInv, PersonInv
  <2> QED
    BY <1>1, <1>2, <2>1, <2>2, <2>3, <2>4, HolderLeaves, PersonMoves
<1> QED
  BY <1>3, <1>4 DEF EndEdit

(* The owner becomes an admin and the other seat its owner, in one step.      *)
LEMMA EndTransferStep == ASSUME MemberInv, NEW q \in pending, EndTransfer(q) PROVE MemberInv' /\ Kept
<1>1. /\ q.by \in Users /\ q.to \in Users /\ Stands(q) /\ q.op = "transfer" /\ Ends(q)
      /\ pending' \subseteq pending
      /\ UNCHANGED <<login, profile, platform, granted, rights, invite, halfMade>>
  BY WaitsFor DEF EndTransfer
<1>2. Holds(q)
  BY <1>1 DEF Holds
<1>3. CASE ~StillOwner(q.by)
  <2>1. seat' = seat
    BY <1>3 DEF EndTransfer
  <2>2. MemberTypes'
    BY <1>1, <2>1 DEF MemberInv, MemberTypes
  <2> QED
    BY <1>1, <2>1, <2>2, RolesKept
<1>4. CASE StillOwner(q.by)
  <2>1. /\ Owners = {q.by} /\ seat[q.by].role = "workspace_owner" /\ ~SeatLocked(q.by)
        /\ q.by # q.to /\ HasSeat(q.to) /\ q.to \notin granted
        /\ profile[q.to] = "none" \/ (profile[q.to] = "account" /\ q.to \in halfMade)
    BY <1>1, <1>2, <1>4 DEF EndTransfer, StillOwner, Owners, Stands
  <2> DEFINE old == Retyped(seat[q.by], "workspace_admin", Permissions, seat[q.by].key)
             new == Retyped(seat[q.to], "workspace_owner", Permissions, seat[q.to].key)
  <2>2. /\ old \in Seats /\ old.role = "workspace_admin"
        /\ new \in Seats /\ new.role = "workspace_owner"
    <3>1. /\ seat[q.by] \in Seats /\ seat[q.by].role # "none"
          /\ seat[q.to] \in Seats /\ seat[q.to].role # "none"
      BY <1>1, <2>1 DEF MemberInv, MemberTypes, HasSeat
    <3>2. seat[q.by].key \in Keys \cup {NoKey} /\ seat[q.to].key \in Keys \cup {NoKey}
      BY <3>1, SeatMoves
    <3>3. Permissions \in Lists /\ "workspace_admin" \in Roles /\ "workspace_owner" \in Roles
      BY SeatFacts DEF Roles, FullAccess
    <3> QED
      BY <3>1, <3>2, <3>3, SeatRetyped
  <2>3. seat' = [seat EXCEPT ![q.by] = old, ![q.to] = new]
    BY <1>4 DEF EndTransfer
  <2> HIDE DEF old, new
  <2>4. /\ seat' \in [Users -> Seats] /\ seat'[q.by] = old /\ seat'[q.to] = new
        /\ \A v \in Users \ {q.by, q.to} : seat'[v] = seat[v]
    BY <1>1, <2>1, <2>2, <2>3 DEF MemberInv, MemberTypes
  <2>5. MemberTypes'
    BY <1>1, <2>4 DEF MemberInv, MemberTypes
  <2>6. Owners' = {q.to}
    BY <1>1, <2>1, <2>2, <2>4 DEF Owners
  <2>7. q.by \notin granted /\ Fits(q.by, "workspace_owner") /\ profile[q.by] # "agent"
    BY <1>1, <2>1 DEF MemberInv, MemberTypes, PersonInv, Fits
  <2>8. PersonInv'
    <3>1. \A v \in Users : Fits(v, seat[v].role)'
      BY <1>1, <2>1, <2>2, <2>4, <2>7 DEF MemberInv, PersonInv, Fits, Bound
    <3>2. \A v \in Users : HasSeat(v) => HasSeat(v)'
      BY <2>2, <2>4 DEF HasSeat
    <3>3. \A v \in Users : HasSeat(v)' => v \in login'
      BY <1>1, <2>1, <2>4 DEF MemberInv, PersonInv, HasSeat
    <3>4. \A v \in granted' : seat'[v].role = "workspace_admin" /\ profile'[v] = "none"
      BY <1>1, <2>1, <2>4, <2>7 DEF MemberInv, MemberTypes, PersonInv
    <3>5. \A v \in halfMade' : HasSeat(v)' /\ v \notin granted'
      BY <1>1, <3>2 DEF MemberInv, MemberTypes, PersonInv
    <3> QED
      BY <1>1, <2>6, <3>1, <3>3, <3>4, <3>5 DEF MemberInv, PersonInv
  <2>9. ASSUME NEW p \in pending' PROVE Stands(p)'
    <3>1. p \in pending /\ p.to \in Users /\ Stands(p)
      BY <1>1, <2>9, WaitsFor
    <3>2. CASE Holds(p)
      <4>1. p.to # q.to /\ p.to # q.by
        BY <1>1, <1>2, <2>1, <2>9, <3>1, <3>2, HolderLeaves, UnlockedSeat
      <4> QED
        BY <1>1, <2>4, <3>1, <3>2, <4>1 DEF Stands, Holds, Fits, HasSeat
    <3>3. CASE ~Holds(p)
      BY <1>1, <3>1, <3>3 DEF Stands, Holds
    <3> QED
      BY <3>2, <3>3
  <2>10. WaitInv'
    BY <1>1, <2>9 DEF MemberInv, WaitInv, Holds
  <2>11. Kept
    BY <2>2, <2>4, <2>6 DEF Kept, HasSeat
  <2> QED
    BY <2>5, <2>8, <2>10, <2>11 DEF MemberInv
<1> QED
  BY <1>3, <1>4

LEMMA EndAcceptStep == ASSUME MemberInv, NEW q \in pending, EndAccept(q) PROVE MemberInv' /\ Kept
<1>1. /\ q.to \in Users /\ q.write \in Seats /\ seat[q.to] \in Seats /\ Stands(q)
      /\ q.op = "accept" /\ Ends(q) /\ pending' \subseteq pending /\ ~SeatLocked(q.to)
      /\ login' = login \cup {q.to} /\ seat' = [seat EXCEPT ![q.to] = Accepted(seat[q.to], q)]
      /\ UNCHANGED <<profile, platform, granted, rights, halfMade>>
  BY WaitsFor DEF EndAccept
<1>2. /\ invite' \in [Users -> {NoInvite} \cup [role : Roles, state : {"open", "accepted"}]]
      /\ \A v \in Users : invite'[v].role = invite[v].role
  <2>1. PICK row \in {NoInvite} \cup [role : Roles, state : {"open", "accepted"}] :
          invite' = [invite EXCEPT ![q.to] = row] /\ row.role = invite[q.to].role
    <3>1. CASE invite[q.to].state = "open"
      <4>1. invite[q.to] \in [role : Roles, state : {"open", "accepted"}]
        BY <1>1, <3>1 DEF MemberInv, MemberTypes, NoInvite
      <4>2. /\ [invite[q.to] EXCEPT !.state = "accepted"] \in [role : Roles, state : {"open", "accepted"}]
            /\ [invite[q.to] EXCEPT !.state = "accepted"].role = invite[q.to].role
        BY <4>1
      <4> QED
        BY <3>1, <4>2 DEF EndAccept
    <3>2. CASE invite[q.to].state # "open"
      BY <1>1, <3>2 DEF EndAccept, MemberInv, MemberTypes
    <3> QED
      BY <3>1, <3>2
  <2> QED
    BY <1>1, <2>1 DEF MemberInv, MemberTypes
<1>3. login \subseteq login' /\ login' \subseteq Users
  BY <1>1 DEF MemberInv, MemberTypes
<1>4. CASE /\ seat[q.to] = NoSeat
           /\ ~(q.write.role = "workspace_owner" /\ Owners # {})
  <2>1. seat' = [seat EXCEPT ![q.to] = q.write] /\ seat[q.to].role = "none" /\ q.write.role # "none"
    BY <1>1, <1>4, SeatFacts DEF Accepted, Stands
  <2>2. MemberTypes' /\ seat'[q.to] = q.write /\ \A v \in Users \ {q.to} : seat'[v] = seat[v]
    BY <1>1, <1>2, <1>3, <2>1 DEF MemberInv, MemberTypes
  <2>3. profile[q.to] = "none" /\ q.to \notin granted /\ q.write.role \notin Bound
    <3>1. Fits(q.to, seat[q.to].role) /\ profile[q.to] \in {"none", "agent", "account"}
      BY <1>1 DEF MemberInv, MemberTypes, PersonInv
    <3>2. profile[q.to] = "none"
      BY <2>1, <3>1 DEF Fits
    <3> QED
      BY <1>1, <2>1, <3>2 DEF Stands, MemberInv, PersonInv
  <2>4. Fits(q.to, seat[q.to].role)' /\ HasSeat(q.to)' /\ q.to \in login'
    BY <1>1, <2>1, <2>2, <2>3 DEF Fits, HasSeat, Bound
  <2>5. invite'[q.to].role \in Bound => profile'[q.to] # "none"
    BY <1>1, <1>2 DEF MemberInv, PersonInv
  <2>6. \A p \in pending' : Holds(p) => p.to # q.to
    BY <1>1, UnlockedSeat
  <2> QED
    BY <1>1, <1>2, <1>3, <1>4, <2>1, <2>2, <2>3, <2>4, <2>5, <2>6, PersonMoves
<1>5. CASE \/ seat[q.to] # NoSeat
           \/ q.write.role = "workspace_owner" /\ Owners # {}
  <2>1. CASE Accepted(seat[q.to], q) = seat[q.to]
    BY <1>1, <1>2, <1>3, <2>1, SameRole
  <2>2. CASE /\ seat[q.to] # NoSeat
             /\ Accepted(seat[q.to], q) = [seat[q.to] EXCEPT !.status = "active"]
    <3>1. /\ [seat[q.to] EXCEPT !.status = "active"] \in Seats
          /\ [seat[q.to] EXCEPT !.status = "active"].role = seat[q.to].role
      BY <1>1, <2>2, SeatFacts, SeatMoves
    <3> QED
      BY <1>1, <1>2, <1>3, <2>2, <3>1, SameRole
  <2> QED
    BY <1>5, <2>1, <2>2 DEF Accepted
<1> QED
  BY <1>4, <1>5

LEMMA EndAccountStep == ASSUME MemberInv, NEW q \in pending, EndAccount(q) PROVE MemberInv' /\ Kept
<1>1. /\ q.to \in Users /\ Stands(q) /\ q.op = "account" /\ pending' \subseteq pending
      /\ UNCHANGED <<seat, login, platform, granted, rights, invite, halfMade>>
  BY WaitsFor DEF EndAccount
<1>2. q.to \in halfMade /\ HasSeat(q.to) /\ q.to \in login
  BY <1>1 DEF Stands, MemberInv, PersonInv
<1>3. CASE profile' = profile
  <2>1. MemberTypes'
    BY <1>1, <1>3 DEF MemberInv, MemberTypes
  <2> QED
    BY <1>1, <1>3, <2>1, RolesKept
<1>4. CASE profile[q.to] = "none" /\ profile' = [profile EXCEPT ![q.to] = "account"]
  <2>1. /\ MemberTypes' /\ profile'[q.to] = "account"
        /\ \A v \in Users \ {q.to} : profile'[v] = profile[v]
    BY <1>1, <1>4 DEF MemberInv, MemberTypes
  <2>2. \A r : Fits(q.to, r) /\ r # "none" => Fits(q.to, r)'
    BY <1>1, <1>2, <1>4, <2>1 DEF Fits
  <2>3. \A u \in Users : Fits(u, seat[u].role)'
    BY <1>1, <1>2, <2>1, <2>2 DEF MemberInv, PersonInv, Fits, HasSeat
  <2>4. q.to \notin granted
    BY <1>2 DEF MemberInv, PersonInv
  <2>5. PersonInv'
    <3>1. \A u \in granted' : seat'[u].role = "workspace_admin" /\ profile'[u] = "none"
      BY <1>1, <2>1, <2>4 DEF MemberInv, PersonInv, MemberTypes
    <3>2. \A u \in Users : invite'[u].role \in Bound => profile'[u] # "none"
      BY <1>1, <2>1 DEF MemberInv, PersonInv
    <3> QED
      BY <1>1, <2>3, <3>1, <3>2 DEF MemberInv, PersonInv, HasSeat, Owners
  <2>6. ASSUME NEW p \in pending' PROVE Stands(p)'
    <3>1. p \in pending /\ p.to \in Users /\ Stands(p)
      BY <1>1, <2>6, WaitsFor
    <3>2. CASE p.to = q.to
      BY <1>1, <1>2, <2>1, <2>2, <3>1, <3>2 DEF Stands, Holds, HasSeat
    <3>3. CASE p.to # q.to
      BY <1>1, <2>1, <3>1, <3>3 DEF Stands, Holds, HasSeat, Fits
    <3> QED
      BY <3>2, <3>3
  <2>7. WaitInv'
    BY <1>1, <2>6 DEF MemberInv, WaitInv, Holds
  <2>8. Kept
    BY <1>1 DEF Kept, Owners, HasSeat
  <2> QED
    BY <2>1, <2>5, <2>7, <2>8 DEF MemberInv
<1> QED
  BY <1>3, <1>4 DEF EndAccount

LEMMA EndPromoteStep == ASSUME MemberInv, NEW q \in pending, EndPromote(q) PROVE MemberInv' /\ Kept
<1>1. /\ q.to \in Users /\ q.write \in Seats /\ seat[q.to] \in Seats /\ q.to \in login
      /\ q.write.role = "workspace_admin" /\ pending' \subseteq pending
      /\ platform' = platform \cup {q.to} /\ UNCHANGED <<login, profile, rights, invite, halfMade>>
  BY WaitsFor DEF EndPromote, Stands
<1>2. CASE seat[q.to] # NoSeat
  <2>1. UNCHANGED <<seat, granted>>
    BY <1>2 DEF EndPromote
  <2>2. MemberTypes'
    BY <1>1, <2>1 DEF MemberInv, MemberTypes
  <2> QED
    BY <1>1, <2>1, <2>2, RolesKept
<1>3. CASE seat[q.to] = NoSeat
  <2>1. seat' = [seat EXCEPT ![q.to] = q.write] /\ granted' = granted \cup {q.to}
    BY <1>3 DEF EndPromote
  <2>2. MemberTypes' /\ seat'[q.to] = q.write /\ \A v \in Users \ {q.to} : seat'[v] = seat[v]
    BY <1>1, <2>1 DEF MemberInv, MemberTypes
  <2>3. seat[q.to].role = "none" /\ profile[q.to] = "none" /\ q.to \notin halfMade
    <3>1. Fits(q.to, seat[q.to].role) /\ profile[q.to] \in {"none", "agent", "account"}
      BY <1>1 DEF MemberInv, MemberTypes, PersonInv
    <3>2. seat[q.to].role = "none"
      BY <1>1, <1>3, SeatFacts
    <3> QED
      BY <3>1, <3>2 DEF Fits, MemberInv, PersonInv, HasSeat
  <2>4. Fits(q.to, seat[q.to].role)' /\ HasSeat(q.to)'
    BY <1>1, <2>2, <2>3 DEF Fits, HasSeat, Bound
  <2>5. invite'[q.to].role \in Bound => profile'[q.to] # "none"
    BY <1>1 DEF MemberInv, PersonInv
  <2>6. \A p \in pending' : Holds(p) => p.to # q.to
    BY <1>1, <2>3 DEF MemberInv, WaitInv, Stands, HasSeat
  <2> QED
    BY <1>1, <2>1, <2>2, <2>3, <2>4, <2>5, <2>6, PersonMoves
<1> QED
  BY <1>2, <1>3

-----------------------------------------------------------------------------
LEMMA MemberStep == MemberInv /\ [MembershipNext]_memberVars => MemberInv' /\ Kept
<1> SUFFICES ASSUME MemberInv, [MembershipNext]_memberVars PROVE MemberInv' /\ Kept
  OBVIOUS
<1>1. CASE UNCHANGED memberVars
  <2>1. MemberTypes'
    BY <1>1 DEF memberVars, MemberInv, MemberTypes
  <2> QED
    BY <1>1, <2>1, RolesKept DEF memberVars
<1>2. ASSUME NEW by \in Users, NEW u \in Users, TeamRequest(by, u)
      PROVE  MemberInv' /\ Kept
  BY <1>2, BeginStep, CreateMemberStep, InviteStep DEF TeamRequest, OfferedLists
<1>3. ASSUME NEW u \in Users, PersonRequest(u)
      PROVE  MemberInv' /\ Kept
  BY <1>3, BeginStep, InviteStep, CreateProfileStep, RefuseNameStep, ArchiveStep, DemoteStep, RecoverStep
     DEF PersonRequest
<1>4. ASSUME NEW q \in pending, End(q)
      PROVE  MemberInv' /\ Kept
  BY <1>4, EndEditStep, EndTransferStep, StatusStep, EndAcceptStep, EndPromoteStep, EndAccountStep DEF End
<1> QED
  BY <1>1, <1>2, <1>3, <1>4, RoleRequestStep DEF MembershipNext

LEMMA MemberInvAlways == MemberSpec => []MemberInv
  BY MemberInvStart, MemberStep, PTL DEF MemberSpec

(* The seat's type and the profile behind it agree, for any people, custom      *)
(* roles and requests between their reads and their writes.                    *)
THEOREM ProfileMatchesHolds == MemberSpec => []ProfileMatchesSeat
<1>1. MemberInv => ProfileMatchesSeat
  BY SeatFacts DEF MemberInv, MemberTypes, PersonInv, Fits, ProfileMatchesSeat
<1> QED
  BY <1>1, MemberInvAlways, PTL

LEMMA OneAtMost ==
  ASSUME NEW S, \A u, v \in S : u = v
  PROVE  Cardinality(S) <= 1
<1>1. CASE S = {}
  BY <1>1, FS_EmptySet
<1>2. CASE S # {}
  <2>1. PICK u \in S : S = {u}
    BY <1>2
  <2>2. Cardinality({u}) = 1
    BY FS_Singleton
  <2>3. Cardinality(S) = 1
    BY <2>1, <2>2, Zenon
  <2> QED
    BY <2>3
<1> QED
  BY <1>1, <1>2

(* A workspace with an owner always has exactly one.                           *)
THEOREM OwnerKeptHolds == MemberSpec => OwnerKept
<1>1. MemberInv /\ [MembershipNext]_memberVars =>
        [Cardinality(Owners') <= 1 /\ (Owners # {} => Owners' # {})]_memberVars
  <2> SUFFICES ASSUME MemberInv, MemberInv', Kept
               PROVE  Cardinality(Owners') <= 1 /\ (Owners # {} => Owners' # {})
    BY MemberStep
  <2>1. Cardinality(Owners') <= 1
    BY OneAtMost DEF MemberInv, PersonInv
  <2> QED
    BY <2>1 DEF Kept
<1> QED
  BY <1>1, MemberInvAlways, PTL DEF MemberSpec, OwnerKept

(* A seat someone has of their own is never deleted.                           *)
THEOREM OwnSeatHolds == MemberSpec => OwnSeatOutlivesOffice
<1> DEFINE Outlives == \A u \in Users : seat[u] # NoSeat /\ u \notin granted => seat'[u] # NoSeat
<1>1. MemberInv /\ [MembershipNext]_memberVars => [Outlives]_memberVars
  <2> SUFFICES ASSUME MemberInv, MemberInv', Kept PROVE Outlives
    BY MemberStep
  <2> QED
    BY SeatFacts DEF Kept, HasSeat, MemberInv, MemberTypes
<1> QED
  BY <1>1, MemberInvAlways, PTL DEF MemberSpec, OwnSeatOutlivesOffice

-----------------------------------------------------------------------------
(* Each part of Directory behaves as if it were alone, so what is proved of a  *)
(* part holds in the composition.                                             *)
THEOREM PartsStandAlone == Spec => PricingSpec /\ CustomersSpec /\ MemberSpec
<1>1. Init => PricingInit /\ CustomersInit /\ MembershipInit
  BY DEF Init
<1>2. [Next]_vars => [PricingNext]_pricingVars
  BY DEF Next, vars
<1>3. [Next]_vars => [CustomersNext]_customersVars
  BY DEF Next, vars
<1>4. [Next]_vars => [MembershipNext]_memberVars
  BY DEF Next, vars
<1> QED
  BY <1>1, <1>2, <1>3, <1>4, PTL DEF Spec, PricingSpec, CustomersSpec, MemberSpec
=============================================================================
