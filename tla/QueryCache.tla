----------------------------- MODULE QueryCache -----------------------------
(***************************************************************************)
(* One entry of the console's query cache (lib/queryClient.ts) and what    *)
(* keeps it fresh: the page that observes it, the fetches and retries of   *)
(* the query library, the mutations of the pages, and the stream of        *)
(* workspace updates (useWorkspaceUpdates.ts, events.routes.js,            *)
(* middleware/workspaceUpdates.js).  An update names the workspace only    *)
(* and follows the response of the request that committed, so a page       *)
(* learns that something changed, never what.  Entries do not influence    *)
(* each other: a behaviour watches one key, chosen at the start.  The rows *)
(* of an entry are "current" or "behind" the committed tables; times       *)
(* (staleTime, gcTime, the poll of the bell) are a choice of when.         *)
(***************************************************************************)
EXTENDS Naturals

CONSTANTS
  Watched,    \* the keys a behaviour may watch
  Pages, Ops, \* pages of the console and their mutations
  Observes,   \* <<page, key>>: the page observes the key
  RunsOn,     \* <<op, page>>: the page runs the mutation
  Changes,    \* <<op, key>>: it writes a table the key shows
  Lists,      \* <<op, key>>: its onSuccess invalidates the key
  OutOfReach, \* keys without the workspace, which no update invalidates
  Retries,    \* retries of a failed query (2)
  MaxUnread,  \* bound: events written to the stream and not read
  None

\* A mutation of this page: how far its request is, and whether its answer is
\* older than a commit.
OwnMutations ==
  [op : Ops, step : {"sent", "committed", "finished"}, late : BOOLEAN]

ASSUME QueryCacheAssumption ==
  /\ "archive" \in Pages
  /\ Observes \subseteq Pages \X {read[2] : read \in Observes}
  /\ RunsOn \subseteq Ops \X Pages
  /\ Retries \in Nat /\ MaxUnread \in Nat \ {0}
  /\ None \notin OwnMutations

VARIABLES
  key,        \* the watched query key; never changes
  page,       \* the page on screen
  data,       \* the entry's rows: "none", "current", "behind"
  failed,     \* its last fetch failed
  invalid,    \* isInvalidated
  fetch,      \* "none", "sent", "read" (the server has read), "late" (and a commit followed)
  retries,    \* failures of this fetch so far
  missed,     \* a commit the rows lack was never announced to them
  own,        \* the mutation this page is running
  publishing, \* another client's commit whose response is not finished
  stream,     \* the event stream is open
  unread      \* events written to it

entryVars == <<data, failed, invalid, fetch, retries, missed>>
wireVars == <<publishing, stream, unread>>
cacheVars == <<key, page, entryVars, own, wireVars>>

Shown == <<page, key>> \in Observes

\* Saving the currencies answers the list itself, which replaces the rows.
AnswersRows == own # None /\ own.op = "currencies" /\ key = "workspace-currencies"
OldAnswer == AnswersRows /\ own.late
Lagging == data = "behind" \/ fetch = "late" \/ OldAnswer

CacheInit ==
  /\ key \in Watched
  /\ page = "archive"
  /\ data = "none" /\ failed = FALSE /\ invalid = FALSE
  /\ fetch = IF <<"archive", key>> \in Observes THEN "sent" ELSE "none"
  /\ retries = 0 /\ missed = FALSE
  /\ own = None /\ publishing = FALSE
  /\ stream = FALSE /\ unread = 0

-----------------------------------------------------------------------------
(* Queries *)

StartFetch == fetch' = "sent" /\ retries' = 0

\* A page mounts: rows that are missing or invalidated are fetched, rows past
\* staleTime may be; a fetch in flight is joined.
Navigate(p) ==
  /\ p # page /\ page' = p
  /\ LET mounts == <<p, key>> \in Observes /\ fetch = "none"
     IN \/ mounts /\ StartFetch
        \/ ~(mounts /\ ~Shown /\ (data = "none" \/ invalid)) /\ UNCHANGED <<fetch, retries>>
  /\ UNCHANGED <<key, data, failed, invalid, missed, own, wireVars>>

\* refetchInterval of the bell.
Poll ==
  /\ key = "notifications" /\ fetch = "none"
  /\ StartFetch
  /\ UNCHANGED <<key, page, data, failed, invalid, missed, own, wireVars>>

ServerReads ==
  /\ fetch = "sent"
  /\ fetch' = "read"
  /\ UNCHANGED <<key, page, data, failed, invalid, retries, missed, own, wireVars>>

Answered ==
  /\ fetch \in {"read", "late"}
  /\ data' = IF fetch = "read" THEN "current" ELSE "behind"
  /\ missed' = (missed /\ (fetch = "late" \/ OldAnswer))
  /\ failed' = FALSE /\ invalid' = FALSE
  /\ fetch' = "none" /\ retries' = 0
  /\ UNCHANGED <<key, page, own, wireVars>>

\* A network error or a 5xx is retried, a 4xx is not.
Fails ==
  /\ fetch # "none"
  /\ \/ retries < Retries /\ fetch' = "sent" /\ retries' = retries + 1
        /\ UNCHANGED <<failed, invalid>>
     \/ fetch' = "none" /\ retries' = 0 /\ failed' = TRUE /\ invalid' = (data # "none")
  /\ UNCHANGED <<key, page, data, missed, own, wireVars>>

\* gcTime: an entry nobody observes.
Forgotten ==
  /\ ~Shown /\ fetch = "none" /\ data # "none"
  /\ data' = "none" /\ failed' = FALSE /\ invalid' = FALSE
  /\ missed' = (missed /\ OldAnswer)
  /\ UNCHANGED <<key, page, fetch, retries, own, wireVars>>

\* Mutant: an invalidation joins whatever fetch is in flight.
JoinsAlways == fetch # "none"

\* invalidateQueries cancels the fetch in flight, but a first load, which has
\* no rows to fall back on, is joined.
Joins == fetch # "none" /\ data = "none"

\* invalidateQueries: the entry is marked, and refetched when observed.  What
\* an already read answer lacks then stays unannounced.
Invalidate ==
  /\ invalid' = (data # "none")
  /\ IF Shown /\ ~Joins THEN StartFetch ELSE UNCHANGED <<fetch, retries>>
  /\ missed' = (missed \/ OldAnswer \/ (fetch = "late" /\ (~Shown \/ data = "none")))

-----------------------------------------------------------------------------
(* Commits and the stream *)

\* A commit wrote a table behind the key.
Overtakes ==
  /\ data' = IF data = "current" THEN "behind" ELSE data
  /\ fetch' = IF fetch = "read" THEN "late" ELSE fetch

OwnOvertaken ==
  own' = IF AnswersRows /\ own.step # "sent" THEN [own EXCEPT !.late = TRUE] ELSE own

\* Another client, the provider's webhook or the reconciler commits.
OtherCommits ==
  /\ ~publishing
  /\ Overtakes
  /\ publishing' = TRUE
  /\ OwnOvertaken
  /\ UNCHANGED <<key, page, failed, invalid, retries, missed, stream, unread>>

\* A maintenance script commits, or a handler that answers no 2xx.
CommitsUnannounced ==
  /\ Overtakes
  /\ OwnOvertaken
  /\ UNCHANGED <<key, page, failed, invalid, retries, wireVars>>
  /\ missed' = (missed \/ Lagging')

\* The response has finished: subscribers of the workspace are told.
Announce ==
  IF stream /\ key \notin OutOfReach
  THEN unread < MaxUnread /\ unread' = unread + 1 /\ UNCHANGED missed
  ELSE missed' = (missed \/ Lagging) /\ UNCHANGED unread

OtherPublishes ==
  /\ publishing
  /\ publishing' = FALSE
  /\ Announce
  /\ UNCHANGED <<key, page, data, failed, invalid, fetch, retries, own, stream>>

EventRead ==
  /\ unread > 0
  /\ unread' = unread - 1
  /\ Invalidate
  /\ UNCHANGED <<key, page, data, failed, own, publishing, stream>>

\* The token expired, the connection broke or the server restarted.
StreamEnds ==
  /\ stream
  /\ stream' = FALSE /\ unread' = 0
  /\ missed' = (missed \/ (unread > 0 /\ Lagging))
  /\ UNCHANGED <<key, page, data, failed, invalid, fetch, retries, own, publishing>>

\* Reconnecting invalidates nothing.
StreamOpens ==
  /\ ~stream
  /\ stream' = TRUE
  /\ UNCHANGED <<key, page, entryVars, own, publishing, unread>>

-----------------------------------------------------------------------------
(* The page's own mutations *)

Submit(op) ==
  /\ own = None
  /\ <<op, page>> \in RunsOn /\ <<op, key>> \in Changes \cup Lists
  /\ own' = [op |-> op, step |-> "sent", late |-> FALSE]
  /\ UNCHANGED <<key, page, entryVars, wireVars>>

OwnCommits ==
  /\ own # None /\ own.step = "sent"
  /\ own' = [own EXCEPT !.step = "committed"]
  /\ IF <<own.op, key>> \in Changes THEN Overtakes ELSE UNCHANGED <<data, fetch>>
  /\ UNCHANGED <<key, page, failed, invalid, retries, missed, wireVars>>

OwnPublishes ==
  /\ own # None /\ own.step = "committed"
  /\ own' = [own EXCEPT !.step = "finished"]
  /\ Announce
  /\ UNCHANGED <<key, page, data, failed, invalid, fetch, retries, publishing, stream>>

\* onSuccess.  Saving the currencies stores the answered list instead.
OwnAnswered ==
  /\ own # None /\ own.step = "finished"
  /\ own' = None
  /\ \/ /\ AnswersRows
        /\ data' = IF own.late THEN "behind" ELSE "current"
        /\ failed' = FALSE /\ invalid' = FALSE
        /\ UNCHANGED <<fetch, retries>>
        /\ missed' = (missed /\ Lagging')
     \/ /\ <<own.op, key>> \in Lists
        /\ ~AnswersRows
        /\ Invalidate /\ UNCHANGED <<data, failed>>
     \/ <<own.op, key>> \notin Lists /\ UNCHANGED entryVars
  /\ UNCHANGED <<key, page, wireVars>>

\* A refusal, or a response that never arrives: onError lists nothing.
OwnFails ==
  /\ own # None /\ own.step \in {"sent", "finished"}
  /\ own' = None
  /\ UNCHANGED <<key, page, entryVars, wireVars>>

CacheNext ==
  \/ \E p \in Pages : Navigate(p)
  \/ Poll \/ ServerReads \/ Answered \/ Fails \/ Forgotten
  \/ OtherCommits \/ CommitsUnannounced \/ OtherPublishes
  \/ EventRead \/ StreamEnds \/ StreamOpens
  \/ \E op \in Ops : Submit(op)
  \/ OwnCommits \/ OwnPublishes \/ OwnAnswered \/ OwnFails

-----------------------------------------------------------------------------
(* Rows on screen that lack a committed change are being refetched, are    *)
(* about to be announced, show an error, or lack one nobody announced to   *)
(* them: invalidateQueries against fetches in flight, whichever of the     *)
(* response and the event comes first.                                     *)
ShownIsCaughtUp ==
  Shown /\ data = "behind" =>
    \/ failed \/ missed
    \/ fetch \in {"sent", "read"}
    \/ unread > 0 \/ publishing
    \/ own # None /\ own.step = "committed"

\* The same without the exception (useWorkspaceUpdates.ts exists to promise it):
\* a gap in the stream and a joined first load break it.
ShownFollowsCommits ==
  Shown /\ data = "behind" =>
    \/ failed
    \/ fetch \in {"sent", "read"}
    \/ unread > 0 \/ publishing
    \/ own # None /\ own.step = "committed"
=============================================================================
