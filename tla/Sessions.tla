------------------------------ MODULE Sessions ------------------------------
(***************************************************************************)
(* Sign-in sessions: the refresh-token families of routes/auth.routes.js,  *)
(* the session check of middleware/index.js, and the browser that holds    *)
(* the tokens (api/http.ts, store/auth.ts, useWorkspaceUpdates.ts,         *)
(* useSessionIdle.ts).  One user, one browser with several tabs.           *)
(*                                                                         *)
(* A tab has two independent refreshers: "api" (a request answered 401)    *)
(* and "sse" (the event stream answered 401).  POST /auth/refresh is       *)
(* modelled at the grain of its row locks, because two refreshes of one    *)
(* family overlap; every other statement commits alone, and an UPDATE that *)
(* waits for a row keeps the rows it found when it began (READ COMMITTED). *)
(* Time is what remains of a token's inactivity window and of its absolute *)
(* limit, in ticks; an access token lives for minutes, less than a tick.   *)
(***************************************************************************)
EXTENDS Naturals, FiniteSets

CONSTANTS
  Tabs,         \* tabs of one browser: they share the cookie and localStorage
  Tokens,       \* refresh tokens the run may issue (bound), numbered
  Inactivity,   \* SESSION_INACTIVITY_HOURS, in ticks
  Absolute,     \* SESSION_ABSOLUTE_DAYS, in ticks
  SignInTokens, \* bound: the tokens a sign-in may issue
  MaxReloads    \* bound: page loads of a signed-in tab, cookies lost

ASSUME SessionAssumption ==
  /\ Tokens \subseteq Nat \ {0} /\ SignInTokens \subseteq Tokens
  /\ Inactivity \in Nat \ {0} /\ Absolute \in Nat \ {0}
  /\ MaxReloads \in Nat

NoToken == 0
Refreshers == {"api", "sse"}
Flights == Tabs \X Refreshers
Free == <<"nobody", "nobody">>

VARIABLES
  status,    \* refresh_tokens: "absent", "live", or "revoked" (revoked_at set)
  family,    \* family_id: the token the sign-in issued
  idle,      \* expires_at - now()
  left,      \* absolute_expires_at - now()
  holder,    \* which refresh transaction holds the row's lock
  reused,    \* families audited with 'auth.refresh.reuse'
  sweep,     \* rows a revoking UPDATE found and has not reached yet
  pc,        \* where a refresh stands
  token,     \* the refresh token it presented
  found,     \* the live rows its revoking UPDATE found
  answer,    \* the token it was answered, NoToken for an error
  heard,     \* its tab has not been reloaded since
  memory,    \* refreshToken of a tab's store; not persisted
  access,    \* family (sid) of a tab's access token, NoToken when signed out
  valid,     \* the access token has not expired (ACCESS_TOKEN_TTL)
  cookie,    \* the HttpOnly refresh cookie
  quiet,     \* time since 'higherpays.lastActivity'
  reloads    \* page loads so far

rowVars == <<status, family, idle, left, reused>>
flightVars == <<pc, token, found, answer, heard>>
tabVars == <<memory, access, valid, cookie, quiet, reloads>>
sessionVars == <<rowVars, holder, sweep, flightVars, tabVars>>

SessionTypeOK ==
  /\ status \in [Tokens -> {"absent", "live", "revoked"}]
  /\ family \in [Tokens -> Tokens \cup {NoToken}]
  /\ idle \in [Tokens -> 0..Inactivity]
  /\ left \in [Tokens -> 0..Absolute]
  /\ holder \in [Tokens -> Flights \cup {Free}]
  /\ reused \subseteq Tokens
  /\ sweep \subseteq Tokens
  /\ pc \in [Flights -> {"idle", "sent", "row", "family", "answered"}]
  /\ token \in [Flights -> Tokens \cup {NoToken}]
  /\ found \in [Flights -> SUBSET Tokens]
  /\ answer \in [Flights -> Tokens \cup {NoToken}]
  /\ heard \in [Flights -> BOOLEAN]
  /\ memory \in [Tabs -> Tokens \cup {NoToken}]
  /\ access \in [Tabs -> Tokens \cup {NoToken}]
  /\ valid \in [Tabs -> BOOLEAN]
  /\ cookie \in Tokens \cup {NoToken}
  /\ quiet \in 0..Inactivity
  /\ reloads \in Nat

SessionInit ==
  /\ status = [t \in Tokens |-> "absent"]
  /\ family = [t \in Tokens |-> NoToken]
  /\ idle = [t \in Tokens |-> 0]
  /\ left = [t \in Tokens |-> 0]
  /\ holder = [t \in Tokens |-> Free]
  /\ reused = {} /\ sweep = {}
  /\ pc = [f \in Flights |-> "idle"]
  /\ token = [f \in Flights |-> NoToken]
  /\ found = [f \in Flights |-> {}]
  /\ answer = [f \in Flights |-> NoToken]
  /\ heard = [f \in Flights |-> TRUE]
  /\ memory = [b \in Tabs |-> NoToken]
  /\ access = [b \in Tabs |-> NoToken]
  /\ valid = [b \in Tabs |-> FALSE]
  /\ cookie = NoToken
  /\ quiet = 0 /\ reloads = 0

-----------------------------------------------------------------------------
(* refresh_tokens *)

Rows(r) == {t \in Tokens : status[t] # "absent" /\ family[t] = r}
LiveRows(r) == {t \in Rows(r) : status[t] = "live"}
Dead(r) == LiveRows(r) = {}
Expired(t) == idle[t] = 0 \/ left[t] = 0

\* The session check of requireAuth: some row of the family is live and in time.
Authentic(b) ==
  /\ access[b] # NoToken /\ valid[b]
  /\ \E t \in LiveRows(access[b]) : ~Expired(t)

\* Tokens are drawn in order.
Unissued(t) == status[t] = "absent" /\ \A u \in Tokens : status[u] = "absent" => t <= u

Smaller(a, b) == IF a <= b THEN a ELSE b

\* The absolute limit a successor of t inherits.
AbsoluteOf(t) == left[t]

\* issueRefreshToken: a new row of family r within the absolute limit a.
Issue(t, r, a) ==
  /\ family' = [family EXCEPT ![t] = r]
  /\ left' = [left EXCEPT ![t] = a]
  /\ idle' = [idle EXCEPT ![t] = Smaller(Inactivity, a)]

\* UPDATE refresh_tokens SET revoked_at = now() for the rows S still live.
Revoked(S) == [t \in Tokens |-> IF t \in S /\ status[t] = "live"
                                THEN "revoked" ELSE status[t]]

Unlocked(S) == \A t \in S : holder[t] = Free

-----------------------------------------------------------------------------
(* POST /auth/refresh *)

\* Mutant: the rows of the family are read without waiting for their locks.
FamilyFreeAlways(f, r) == TRUE

\* SELECT ... WHERE family_id = $1 FOR UPDATE waits for every other holder.
FamilyFree(f, r) == \A t \in Rows(r) : holder[t] \in {Free, f}

\* The presented row is locked and read.
LockRow(f) ==
  /\ pc[f] = "sent" /\ token[f] # NoToken
  /\ holder[token[f]] = Free
  /\ holder' = [holder EXCEPT ![token[f]] = f]
  /\ pc' = [pc EXCEPT ![f] = "row"]
  /\ UNCHANGED <<rowVars, sweep, token, found, answer, heard, tabVars>>

\* Then its whole family; the next statement sees what is committed by now.
LockFamily(f) ==
  LET r == family[token[f]] IN
  /\ pc[f] = "row"
  /\ FamilyFree(f, r)
  /\ holder' = [t \in Tokens |-> IF t \in Rows(r) /\ holder[t] = Free
                                 THEN f ELSE holder[t]]
  /\ found' = [found EXCEPT ![f] = LiveRows(r)]
  /\ pc' = [pc EXCEPT ![f] = "family"]
  /\ UNCHANGED <<rowVars, sweep, token, answer, heard, tabVars>>

\* Mutant: an early return leaves the transaction open.
ReleasedKept(f, g) == g

\* COMMIT or ROLLBACK: the rows' next holder when f lets go of them.
Released(f, g) == IF g = f THEN Free ELSE g

Finish(f, t) ==
  /\ holder' = [u \in Tokens |-> Released(f, holder[u])]
  /\ answer' = [answer EXCEPT ![f] = t]
  /\ found' = [found EXCEPT ![f] = {}]
  /\ pc' = [pc EXCEPT ![f] = "answered"]
  /\ UNCHANGED <<token, heard>>

WasUsed(t) == status[t] = "revoked"

\* A token that was rotated or revoked ends its family: refresh_token_reused.
Reuse(f) ==
  LET t == token[f] IN
  /\ pc[f] = "family" /\ WasUsed(t)
  /\ \A u \in found[f] : holder[u] \in {Free, f}
  /\ status' = Revoked(found[f])
  /\ reused' = reused \cup {family[t]}
  /\ Finish(f, NoToken)
  /\ UNCHANGED <<family, idle, left, sweep, tabVars>>

\* session_expired.
Expire(f) ==
  LET t == token[f] IN
  /\ pc[f] = "family" /\ ~WasUsed(t) /\ Expired(t)
  /\ \A u \in found[f] : holder[u] \in {Free, f}
  /\ status' = Revoked(found[f])
  /\ Finish(f, NoToken)
  /\ UNCHANGED <<family, idle, left, reused, sweep, tabVars>>

\* Mutant: the presented row is not revoked.
RotatedKeepsOld(t, n) == [status EXCEPT ![n] = "live"]

RotatedRows(t, n) == [status EXCEPT ![t] = "revoked", ![n] = "live"]

\* Otherwise the presented row is revoked and its successor is issued.
Rotate(f) ==
  LET t == token[f] IN
  /\ pc[f] = "family" /\ ~WasUsed(t) /\ ~Expired(t)
  /\ \E n \in Tokens :
       /\ Unissued(n)
       /\ status' = RotatedRows(t, n)
       /\ Issue(n, family[t], AbsoluteOf(t))
       /\ Finish(f, n)
  /\ UNCHANGED <<reused, sweep, tabVars>>

\* The INSERT of the successor fails (here: the tokens of the run are used up):
\* the transaction is rolled back and the request answered 500.
RotateFails(f) ==
  /\ pc[f] = "family" /\ ~WasUsed(token[f]) /\ ~Expired(token[f])
  /\ \A n \in Tokens : ~Unissued(n)
  /\ Finish(f, NoToken)
  /\ UNCHANGED <<rowVars, sweep, tabVars>>

\* Two refreshes of one family that hold a row each wait for one another:
\* Postgres rolls one back and the request is answered 500.
Deadlocked(f, g) ==
  /\ f # g
  /\ pc[f] = "row" /\ pc[g] = "row"
  /\ family[token[f]] = family[token[g]]

BreakDeadlock(f) ==
  /\ \E g \in Flights : Deadlocked(f, g)
  /\ Finish(f, NoToken)
  /\ UNCHANGED <<rowVars, sweep, tabVars>>

\* No token at all is answered 400.
Missing(f) ==
  /\ pc[f] = "sent" /\ token[f] = NoToken
  /\ Finish(f, NoToken)
  /\ UNCHANGED <<rowVars, sweep, tabVars>>

-----------------------------------------------------------------------------
(* The browser *)

SignedOut(b) ==
  /\ memory' = [memory EXCEPT ![b] = NoToken]
  /\ access' = [access EXCEPT ![b] = NoToken]
  /\ valid' = [valid EXCEPT ![b] = FALSE]

\* setSession and setTokens: the tab is signed in on family r with token t.
SignedIn(b, t, r) ==
  /\ memory' = [memory EXCEPT ![b] = t]
  /\ access' = [access EXCEPT ![b] = r]
  /\ valid' = [valid EXCEPT ![b] = TRUE]

\* The page is loaded anew: what its refreshes are answered is not heard.
Unheard(b) == [f \in Flights |-> heard[f] /\ (f[1] # b \/ pc[f] = "idle")]

\* tryRefresh sends the token of the store when it has one, else the cookie;
\* the event stream always leaves it to the cookie.
Presented(f) ==
  IF f[2] = "api" /\ memory[f[1]] # NoToken THEN memory[f[1]] ELSE cookie

\* A 401 starts a refresh; refreshInFlight admits one at a time per refresher.
StartRefresh(f) ==
  /\ pc[f] = "idle"
  /\ access[f[1]] # NoToken /\ ~Authentic(f[1])
  /\ pc' = [pc EXCEPT ![f] = "sent"]
  /\ token' = [token EXCEPT ![f] = Presented(f)]
  /\ UNCHANGED <<rowVars, holder, sweep, found, answer, heard, tabVars>>

Landed(f) ==
  /\ pc' = [pc EXCEPT ![f] = "idle"]
  /\ token' = [token EXCEPT ![f] = NoToken]
  /\ answer' = [answer EXCEPT ![f] = NoToken]

\* A 200 sets the cookie, and the tokens of the tab that still listens.
ReceiveTokens(f) ==
  /\ pc[f] = "answered" /\ answer[f] # NoToken
  /\ Landed(f)
  /\ cookie' = answer[f]
  /\ heard' = [heard EXCEPT ![f] = TRUE]
  /\ IF heard[f] THEN SignedIn(f[1], answer[f], family[answer[f]])
                 ELSE UNCHANGED <<memory, access, valid>>
  /\ UNCHANGED <<rowVars, holder, sweep, found, quiet, reloads>>

\* Mutant: only the api refresher clears the tab.
ClearsApi(f) == heard[f] /\ f[2] = "api"

Clears(f) == heard[f]

\* Anything else, a lost answer included, clears the tab and loads /login.
ReceiveError(f) ==
  /\ pc[f] = "answered"
  /\ Landed(f)
  /\ IF Clears(f)
     THEN SignedOut(f[1]) /\ heard' = [Unheard(f[1]) EXCEPT ![f] = TRUE]
     ELSE UNCHANGED <<memory, access, valid>> /\ heard' = [heard EXCEPT ![f] = TRUE]
  /\ UNCHANGED <<rowVars, holder, sweep, found, cookie, quiet, reloads>>

\* Only the access token and what is shown are persisted.
Reload(b) ==
  /\ access[b] # NoToken /\ reloads < MaxReloads
  /\ reloads' = reloads + 1
  /\ memory' = [memory EXCEPT ![b] = NoToken]
  /\ heard' = Unheard(b)
  /\ UNCHANGED <<rowVars, holder, sweep, pc, token, found, answer, access, valid,
                 cookie, quiet>>

\* The browser forgets the cookie: Max-Age ran out, or its data was cleared.
LoseCookie ==
  /\ cookie # NoToken /\ reloads < MaxReloads
  /\ reloads' = reloads + 1
  /\ cookie' = NoToken
  /\ UNCHANGED <<rowVars, holder, sweep, flightVars, memory, access, valid, quiet>>

\* POST /auth/login with the right credentials starts a family.
SignIn(b) ==
  /\ access[b] = NoToken
  /\ \E t \in SignInTokens :
       /\ Unissued(t)
       /\ status' = [status EXCEPT ![t] = "live"]
       /\ Issue(t, t, Absolute)
       /\ SignedIn(b, t, t)
       /\ cookie' = t
  /\ quiet' = 0
  /\ UNCHANGED <<reused, holder, sweep, flightVars, reloads>>

\* Sign out: only a token the store still holds is sent to POST /auth/logout,
\* which revokes that row alone and clears the cookie.
Logout(b) ==
  /\ access[b] # NoToken
  /\ IF memory[b] = NoToken
     THEN UNCHANGED <<status, cookie>>
     ELSE /\ Unlocked({memory[b]})
          /\ status' = Revoked({memory[b]})
          /\ cookie' = NoToken
  /\ SignedOut(b)
  /\ UNCHANGED <<family, idle, left, reused, holder, sweep, flightVars, quiet, reloads>>

\* A user interaction, and the POST /auth/activity that follows it.
Activity(b) ==
  /\ access[b] # NoToken /\ quiet < Inactivity
  /\ quiet' = 0
  /\ idle' = [t \in Tokens |->
       IF Authentic(b) /\ t \in LiveRows(access[b]) /\ ~Expired(t)
       THEN Smaller(Inactivity, left[t]) ELSE idle[t]]
  /\ UNCHANGED <<status, family, left, reused, holder, sweep, flightVars, memory,
                 access, valid, cookie, reloads>>

\* The idle monitor: the cookie's row is revoked and the page goes to /login.
IdleSignOut(b) ==
  /\ access[b] # NoToken /\ quiet = Inactivity
  /\ Unlocked({cookie} \cap Tokens)
  /\ status' = Revoked({cookie})
  /\ cookie' = NoToken
  /\ SignedOut(b)
  /\ heard' = Unheard(b)
  /\ UNCHANGED <<family, idle, left, reused, holder, sweep, pc, token, found, answer,
                 quiet, reloads>>

-----------------------------------------------------------------------------
(* Revoking many rows at once *)

AllLive == {t \in Tokens : status[t] = "live"}

\* The rows an UPDATE finds: every session of the user (revokeUserSessions),
\* one session, or all but the one whose token the caller presents.
SweepTargets ==
  {AllLive} \cup {LiveRows(r) : r \in Tokens} \cup {AllLive \ LiveRows(r) : r \in Tokens}

Revoke ==
  /\ sweep = {}
  /\ \E S \in SweepTargets :
       /\ S # {} /\ Unlocked(S)
       /\ status' = Revoked(S)
  /\ UNCHANGED <<family, idle, left, reused, holder, sweep, flightVars, tabVars>>

\* One that meets a lock waits for it, and keeps the rows it has found.
BeginRevoke ==
  /\ sweep = {}
  /\ \E S \in SweepTargets : ~Unlocked(S) /\ sweep' = S
  /\ UNCHANGED <<rowVars, holder, flightVars, tabVars>>

EndRevoke ==
  /\ sweep # {}
  /\ Unlocked(sweep)
  /\ status' = Revoked(sweep)
  /\ sweep' = {}
  /\ UNCHANGED <<family, idle, left, reused, holder, flightVars, tabVars>>

\* Minutes pass.
AccessExpires(b) ==
  /\ valid[b]
  /\ valid' = [valid EXCEPT ![b] = FALSE]
  /\ UNCHANGED <<rowVars, holder, sweep, flightVars, memory, access, cookie, quiet, reloads>>

Less(n) == IF n = 0 THEN 0 ELSE n - 1

\* A tick is hours and no request takes as long.
Tick ==
  /\ \A f \in Flights : pc[f] = "idle"
  /\ sweep = {}
  /\ idle' = [t \in Tokens |-> Less(idle[t])]
  /\ left' = [t \in Tokens |-> Less(left[t])]
  /\ valid' = [b \in Tabs |-> FALSE]
  /\ quiet' = Smaller(quiet + 1, Inactivity)
  /\ UNCHANGED <<status, family, reused, holder, sweep, flightVars, memory, access,
                 cookie, reloads>>

-----------------------------------------------------------------------------

RefreshStep(f) ==
  \/ LockRow(f) \/ LockFamily(f) \/ Missing(f)
  \/ Reuse(f) \/ Expire(f) \/ Rotate(f) \/ RotateFails(f) \/ BreakDeadlock(f)

TabStep(b) ==
  \/ Reload(b) \/ SignIn(b) \/ Logout(b)
  \/ Activity(b) \/ IdleSignOut(b) \/ AccessExpires(b)

SessionNext ==
  \/ \E f \in Flights :
       RefreshStep(f) \/ StartRefresh(f) \/ ReceiveTokens(f) \/ ReceiveError(f)
  \/ \E b \in Tabs : TabStep(b)
  \/ Revoke \/ BeginRevoke \/ EndRevoke \/ LoseCookie \/ Tick

SessionSpec == SessionInit /\ [][SessionNext]_sessionVars

\* The database goes on, answers or errors reach the tab, time passes, and the
\* event stream reconnects when its access token ran out.
Fairness ==
  /\ \A f \in Flights : WF_sessionVars(RefreshStep(f)) /\ WF_sessionVars(ReceiveTokens(f) \/ ReceiveError(f))
  /\ \A b \in Tabs : WF_sessionVars(~valid[b] /\ StartRefresh(<<b, "sse">>))
  /\ WF_sessionVars(EndRevoke) /\ \A b \in Tabs : WF_sessionVars(AccessExpires(b))

FairSpec == SessionSpec /\ Fairness

-----------------------------------------------------------------------------
(* Properties *)

\* However refreshes, sign-outs and revocations interleave, a family never has
\* two usable refresh tokens.
OneLivePerFamily == \A r \in Tokens : Cardinality(LiveRows(r)) <= 1

\* A family whose rotated token was presented again stays unusable: a rotation
\* that overlaps the reuse cannot leave a successor behind.
ReuseEndsFamily == \A r \in reused : Dead(r)

\* Every refresh is answered: overlapping ones do not wait for each other.
RefreshAnswered ==
  \A f \in Flights : pc[f] \in {"sent", "row", "family"} ~> pc[f] \in {"answered", "idle"}

\* A tab whose session has ended does not go on showing the console.
EndedSessionLeavesConsole ==
  \A b \in Tabs : (access[b] # NoToken /\ Dead(access[b])) ~> 
                  (access[b] = NoToken \/ ~Dead(access[b]))
=============================================================================
