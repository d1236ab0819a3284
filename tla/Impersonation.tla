--------------------------- MODULE Impersonation ---------------------------
(***************************************************************************)
(* A platform operator who views the console as another user: the          *)
(* impersonation sessions of platform.routes.js and middleware/index.js,   *)
(* and the browser that swaps tokens, header, workspace and cached rows    *)
(* (Layout.tsx, store/auth.ts, store/session.ts, api/http.ts,              *)
(* useWorkspaceUpdates.ts, AuthGuard.tsx).  One tab; the target works in   *)
(* another workspace than the operator's.  Rows stand for the cached       *)
(* queries of the page on screen: whose token read them, in which          *)
(* workspace.  The operator's own session stays alive (see Sessions).      *)
(***************************************************************************)
EXTENDS Naturals

CONSTANTS
  Grants,     \* impersonation sessions the run may start (bound), numbered
  Nothing, Waiting

ASSUME GrantsAssumption == Grants \subseteq Nat \ {0}

Own == 0      \* the operator's access token; a grant stands for its token

VARIABLES
  grant,      \* impersonation_sessions: "absent", "live", "revoked", "expired"
  token,      \* accessToken of the auth store
  fresh,      \* the operator's access token has not expired
  memory,     \* refreshToken of the auth store; not persisted
  who,        \* user of the auth store: the name in the header
  saved,      \* originalSession # null; not persisted
  workspace,  \* activeWorkspaceId
  asked,      \* the start request: Nothing, Waiting, or the grant it was answered
  exiting,    \* the stop request: Nothing, "sent", "answered"
  refreshing, \* a refresh in flight, of a 401 or of the event stream
  rows,       \* rows on screen: [as, in]
  flight,     \* the fetch in flight: the token and workspace it was sent with
  adrift      \* identity or rows were changed without the other since they were last set together

grantVars == <<grant, token, fresh, memory, who, saved, workspace>>
callVars == <<asked, exiting, refreshing>>
screenVars == <<rows, flight, adrift>>
actVars == <<grantVars, callVars, screenVars>>

User(t) == IF t = Own THEN "operator" ELSE "target"

ActInit ==
  /\ grant = [g \in Grants |-> "absent"]
  /\ token = Own /\ fresh = TRUE /\ memory = TRUE
  /\ who = "operator" /\ saved = FALSE /\ workspace = "home"
  /\ asked = Nothing /\ exiting = Nothing /\ refreshing = FALSE
  /\ rows = Nothing /\ flight = Nothing /\ adrift = FALSE

-----------------------------------------------------------------------------
(* The server *)

\* requireAuth, and requireWorkspace for a grant's own workspace.
Authentic(t) == IF t = Own THEN fresh ELSE grant[t] = "live"
Admitted(t, w) == t = Own \/ w = "theirs"

\* POST /impersonation/start, requirePlatformAdmin.
Start(g) ==
  /\ asked = Waiting /\ token = Own /\ fresh
  /\ grant[g] = "absent" /\ \A h \in Grants : grant[h] = "absent" => g <= h
  /\ grant' = [grant EXCEPT ![g] = "live"]
  /\ asked' = g
  /\ UNCHANGED <<token, fresh, memory, who, saved, workspace, exiting, refreshing, screenVars>>

\* Fifteen minutes, for the row and for the token.
Expire(g) ==
  /\ grant[g] = "live"
  /\ grant' = [grant EXCEPT ![g] = "expired"]
  /\ UNCHANGED <<token, fresh, memory, who, saved, workspace, callVars, screenVars>>

OwnExpires ==
  /\ fresh
  /\ fresh' = FALSE
  /\ UNCHANGED <<grant, token, memory, who, saved, workspace, callVars, screenVars>>

-----------------------------------------------------------------------------
(* Rows *)

\* Mutant: the swap keeps the cached queries.
Kept == rows

\* queryClient.clear(): cached rows go, and fetches in flight answer nobody.
Cleared == Nothing

Fetch ==
  /\ flight = Nothing
  /\ flight' = [by |-> token, in |-> workspace]
  /\ UNCHANGED <<grantVars, callVars, rows, adrift>>

Answer ==
  /\ flight # Nothing
  /\ Authentic(flight.by)
  /\ rows' = IF Admitted(flight.by, flight.in) THEN [as |-> User(flight.by), in |-> flight.in] ELSE rows
  /\ flight' = Nothing
  /\ UNCHANGED <<grantVars, callVars, adrift>>

\* A 401 while a session is saved ends the impersonation; the event it
\* dispatches finds the session gone, so neither cache nor workspace follow.
\* Otherwise the call waits for a refresh.
SentBack ==
  \/ /\ saved
     /\ token' = Own /\ memory' = TRUE /\ who' = "operator" /\ saved' = FALSE
     /\ adrift' = TRUE
     /\ UNCHANGED refreshing
  \/ ~saved /\ refreshing' = TRUE /\ UNCHANGED <<token, memory, who, saved, adrift>>

Unauthorized ==
  /\ flight # Nothing
  /\ ~Authentic(flight.by)
  /\ flight' = Nothing
  /\ SentBack
  /\ UNCHANGED <<grant, fresh, workspace, asked, exiting, rows>>

\* The event stream answers 401, or ends with its token: it refreshes whoever
\* is in the header.
StreamUnauthorized ==
  /\ ~Authentic(token) /\ ~refreshing
  /\ refreshing' = TRUE
  /\ UNCHANGED <<grantVars, asked, exiting, screenVars>>

\* The refresh cookie is the operator's.  setTokens keeps user and workspaces.
Refreshed ==
  /\ refreshing
  /\ refreshing' = FALSE
  /\ token' = Own /\ fresh' = TRUE /\ memory' = TRUE
  /\ adrift' = (adrift \/ who = "target")
  /\ UNCHANGED <<grant, who, saved, workspace, asked, exiting, rows, flight>>

\* AuthGuard: auth-me is refetched, and the header takes its user.
MeAnswered ==
  /\ Authentic(token) /\ who # User(token)
  /\ who' = User(token)
  /\ UNCHANGED <<grant, token, fresh, memory, saved, workspace, callVars, screenVars>>

PickWorkspace(w) ==
  /\ who = "operator" /\ token = Own /\ ~saved /\ w # workspace
  /\ workspace' = w
  /\ rows' = Cleared /\ flight' = Nothing
  /\ adrift' = FALSE
  /\ UNCHANGED <<grant, token, fresh, memory, who, saved, callVars>>

-----------------------------------------------------------------------------
(* Beginning and ending *)

Ask ==
  /\ asked = Nothing /\ who = "operator" /\ ~saved
  /\ asked' = Waiting
  /\ UNCHANGED <<grantVars, exiting, refreshing, screenVars>>

AskRefused ==
  /\ asked = Waiting
  /\ asked' = Nothing
  /\ UNCHANGED <<grantVars, exiting, refreshing, screenVars>>

\* beginImpersonation: the operator's session is saved if the store holds its
\* refresh token, which a page load loses.
Begin ==
  /\ asked \in Grants
  /\ saved' = (saved \/ memory)
  /\ token' = asked /\ memory' = FALSE /\ who' = "target" /\ workspace' = "theirs"
  /\ asked' = Nothing
  /\ rows' = Cleared /\ flight' = Nothing
  /\ adrift' = FALSE
  /\ UNCHANGED <<grant, fresh, exiting, refreshing>>

\* restorePlatformSession, of the exit button and of the timer.
Restore ==
  /\ token' = (IF saved THEN Own ELSE token)
  /\ memory' = (saved \/ memory)
  /\ who' = (IF saved THEN "operator" ELSE who)
  /\ saved' = FALSE
  /\ workspace' = "home"
  /\ rows' = Cleared /\ flight' = Nothing
  /\ adrift' = (~saved /\ adrift /\ who # User(token))

\* The banner shows the button while a session is saved.
Exit ==
  /\ saved /\ exiting = Nothing
  /\ exiting' = "sent"
  /\ UNCHANGED <<grantVars, asked, refreshing, screenVars>>

\* POST /impersonation/stop with the token of the store: a call like any other.
\* The button's handler goes on whether it succeeds or not.
Stop ==
  /\ exiting = "sent" /\ Authentic(token)
  /\ exiting' = "answered"
  /\ grant' = IF token # Own THEN [grant EXCEPT ![token] = "revoked"] ELSE grant
  /\ UNCHANGED <<token, fresh, memory, who, saved, workspace, asked, refreshing, screenVars>>

StopUnauthorized ==
  /\ exiting = "sent" /\ ~Authentic(token)
  /\ exiting' = "answered"
  /\ SentBack
  /\ UNCHANGED <<grant, fresh, workspace, asked, rows, flight>>

StopLost ==
  /\ exiting = "sent"
  /\ exiting' = "answered"
  /\ UNCHANGED <<grantVars, asked, refreshing, screenVars>>

Exited ==
  /\ exiting = "answered"
  /\ exiting' = Nothing
  /\ Restore
  /\ UNCHANGED <<grant, fresh, asked, refreshing>>

\* The timer of impersonationExpiresAt, set while a session is saved.
TimedOut ==
  /\ saved /\ \E g \in Grants : grant[g] = "expired"
  /\ \A g \in Grants : grant[g] # "live"
  /\ Restore
  /\ UNCHANGED <<grant, fresh, callVars>>

\* A page load keeps token, user and workspace, and loses the rest.
Reload ==
  /\ memory' = FALSE /\ saved' = FALSE
  /\ asked' = Nothing /\ exiting' = Nothing /\ refreshing' = FALSE
  /\ rows' = Nothing /\ flight' = Nothing
  /\ UNCHANGED <<grant, token, fresh, who, workspace, adrift>>

ActNext ==
  \/ \E g \in Grants : Start(g) \/ Expire(g)
  \/ OwnExpires \/ Fetch \/ Answer \/ Unauthorized \/ StreamUnauthorized
  \/ Refreshed \/ MeAnswered \/ (\E w \in {"home", "theirs"} : PickWorkspace(w))
  \/ Ask \/ AskRefused \/ Begin \/ Exit \/ Stop \/ StopUnauthorized \/ StopLost \/ Exited \/ TimedOut \/ Reload

ActSpec == ActInit /\ [][ActNext]_actVars

-----------------------------------------------------------------------------
(* Rows on screen were read as the user in the header and in the active    *)
(* workspace, over every order of start, exit, timer, page load, refresh   *)
(* and late answer, unless a 401 or a refresh moved the identity alone.    *)
RowsMatchHeader ==
  rows # Nothing /\ ~adrift => rows.as = who /\ rows.in = workspace

\* "Every cached query is scoped to the agency that was active until now."
\* (Platform/index.tsx:73): rows never outlive the identity they were read as.
RowsAreTheirs == rows # Nothing => rows.as = who
=============================================================================
