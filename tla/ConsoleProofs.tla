--------------------------- MODULE ConsoleProofs ---------------------------
(***************************************************************************)
(* What the console shows.  QueryCache: rows on screen are caught up, or   *)
(* something is on its way.  Impersonation: rows and header agree.         *)
(* Editors: a dialog that reports success did what its form says.  For any *)
(* number of pages, sessions, partners, attempts and other clients.        *)
(***************************************************************************)
EXTENDS Console, TLAPS

(* Impersonation                                                            *)

(* Between two moves of one without the other, the token in use, the fetch in *)
(* flight and the rows on screen are all of the user in the header.           *)
InStep ==
  ~adrift =>
    /\ User(token) = who
    /\ flight # Nothing => User(flight.by) = who /\ flight.in = workspace
    /\ rows # Nothing => rows.as = who /\ rows.in = workspace

(* The inductive invariant. *)
ScreenInv == who \in {"operator", "target"} /\ InStep

-----------------------------------------------------------------------------
LEMMA ScreenInvStart == ActInit => ScreenInv
  BY DEF ActInit, ScreenInv, InStep, User

(* What the server does on its own, and what only the calls in flight see.    *)
LEMMA CallStep ==
  ASSUME ScreenInv,
         \/ \E g \in Grants : Start(g) \/ Expire(g)
         \/ OwnExpires \/ StreamUnauthorized \/ Ask \/ AskRefused \/ Exit \/ Stop \/ StopLost
  PROVE  ScreenInv'
<1>1. UNCHANGED <<token, who, workspace, screenVars>>
  BY DEF Start, Expire, OwnExpires, StreamUnauthorized, Ask, AskRefused, Exit, Stop, StopLost,
         grantVars
<1> QED
  BY <1>1 DEF ScreenInv, InStep, User, screenVars

(* An answer brings the rows of the fetch it answers, and of no other.        *)
LEMMA FetchStep ==
  ASSUME ScreenInv, Fetch \/ Answer \/ Unauthorized
  PROVE  ScreenInv'
<1>1. CASE Fetch
  BY <1>1 DEF Fetch, grantVars, ScreenInv, InStep, User
<1>2. CASE Answer
  <2>1. who' = who /\ token' = token /\ workspace' = workspace /\ adrift' = adrift /\ flight' = Nothing
    BY <1>2 DEF Answer, grantVars
  <2>2. CASE Admitted(flight.by, flight.in)
    <3>1. rows' = [as |-> User(flight.by), in |-> flight.in] /\ flight # Nothing
      BY <1>2, <2>2 DEF Answer
    <3>2. rows'.as = User(flight.by) /\ rows'.in = flight.in
      BY <3>1
    <3> QED
      BY <2>1, <3>1, <3>2 DEF ScreenInv, InStep, User
  <2>3. CASE ~Admitted(flight.by, flight.in)
    <3>1. rows' = rows
      BY <1>2, <2>3 DEF Answer
    <3> QED
      BY <2>1, <3>1 DEF ScreenInv, InStep, User
  <2> QED
    BY <2>2, <2>3
<1>3. CASE Unauthorized
  BY <1>3 DEF Unauthorized, SentBack, ScreenInv, InStep, User
<1> QED
  BY <1>1, <1>2, <1>3

(* The identity moves: alone, which leaves it adrift, or with the rows.       *)
LEMMA IdentityStep ==
  ASSUME ScreenInv,
         \/ Refreshed \/ MeAnswered \/ StopUnauthorized \/ Begin \/ Exited \/ TimedOut \/ Reload
         \/ \E w \in {"home", "theirs"} : PickWorkspace(w)
  PROVE  ScreenInv'
<1>1. CASE Refreshed
  BY <1>1 DEF Refreshed, ScreenInv, InStep, User
<1>2. CASE MeAnswered
  BY <1>2 DEF MeAnswered, screenVars, ScreenInv, InStep, User
<1>3. CASE Begin
  <2>1. asked # Own
    BY <1>3, GrantsAssumption DEF Begin, Own
  <2> QED
    BY <1>3, <2>1 DEF Begin, Cleared, ScreenInv, InStep, User
<1>4. CASE Exited \/ TimedOut
  <2>1. Restore
    BY <1>4 DEF Exited, TimedOut
  <2> QED
    BY <2>1 DEF Restore, Cleared, ScreenInv, InStep, User
<1>5. CASE Reload
  BY <1>5 DEF Reload, ScreenInv, InStep, User
<1>6. ASSUME NEW w \in {"home", "theirs"}, PickWorkspace(w)
      PROVE  ScreenInv'
  BY <1>6 DEF PickWorkspace, Cleared, ScreenInv, InStep, User
<1>7. CASE StopUnauthorized
  BY <1>7 DEF StopUnauthorized, SentBack, ScreenInv, InStep, User
<1> QED
  BY <1>1, <1>2, <1>3, <1>4, <1>5, <1>6, <1>7

LEMMA ScreenInvStep == ScreenInv /\ [ActNext]_actVars => ScreenInv'
<1> SUFFICES ASSUME ScreenInv, [ActNext]_actVars PROVE ScreenInv'
  OBVIOUS
<1>1. CASE ActNext
  BY <1>1, CallStep, FetchStep, IdentityStep DEF ActNext
<1>2. CASE UNCHANGED actVars
  BY <1>2 DEF actVars, grantVars, callVars, screenVars, ScreenInv, InStep, User
<1> QED
  BY <1>1, <1>2

(* Whatever operator and server do, and however late an answer is: the rows   *)
(* on screen were read as the user in the header and in the workspace in      *)
(* front, unless a 401 or a refresh moved the identity alone.                 *)
THEOREM RowsMatch == ActSpec => []RowsMatchHeader
<1>1. ActInit => ScreenInv
  BY ScreenInvStart
<1>2. ScreenInv /\ [ActNext]_actVars => ScreenInv'
  BY ScreenInvStep
<1>3. ScreenInv => RowsMatchHeader
  BY DEF ScreenInv, InStep, RowsMatchHeader
<1> QED
  BY <1>1, <1>2, <1>3, PTL DEF ActSpec

-----------------------------------------------------------------------------
(* QueryCache                                                               *)

CacheSpec == CacheInit /\ [][CacheNext]_cacheVars

(* A commit whose announcement is still to come.                              *)
Announced == unread > 0 \/ publishing \/ (own # None /\ own.step = "committed")

CacheTypes ==
  /\ fetch \in {"none", "sent", "read", "late"}
  /\ data \in {"none", "current", "behind"}
  /\ unread \in Nat
  /\ own \in OwnMutations \cup {None}

(* Whatever may become the rows on screen and lacks a commit: an answer that   *)
(* was read before it, the answer of our own mutation, and rows nobody shows.  *)
CacheInv ==
  /\ CacheTypes /\ ShownIsCaughtUp
  /\ fetch = "late" => missed \/ Announced
  /\ OldAnswer => missed \/ Announced
  /\ data = "behind" =>
       \/ failed \/ missed \/ invalid \/ Announced
       \/ fetch \in {"sent", "read"}

LEMMA CacheInvStart == CacheInit => CacheInv
  BY DEF CacheInit, CacheInv, CacheTypes, ShownIsCaughtUp, OldAnswer, AnswersRows

(* The mutation in flight is a record, and its parts move one at a time.      *)
LEMMA OwnMoves ==
  ASSUME own \in OwnMutations
  PROVE  /\ own # None
         /\ \A step \in {"sent", "committed", "finished"} :
              LET next == [own EXCEPT !.step = step] IN
              next \in OwnMutations /\ next.op = own.op /\ next.step = step /\ next.late = own.late
         /\ LET next == [own EXCEPT !.late = TRUE] IN
            next \in OwnMutations /\ next.op = own.op /\ next.step = own.step /\ next.late
<1>1. own # None
  BY QueryCacheAssumption
<1> QED
  BY <1>1 DEF OwnMutations

(* A page mounts, or the fetch in flight moves on.                            *)
LEMMA QueryStep ==
  ASSUME CacheInv,
         (\E p \in Pages : Navigate(p)) \/ Poll \/ ServerReads \/ Answered \/ Fails \/ Forgotten
  PROVE  CacheInv'
<1>1. own' = own /\ unread' = unread /\ publishing' = publishing /\ key' = key
  BY DEF Navigate, Poll, ServerReads, Answered, Fails, Forgotten, wireVars
<1>2. (Announced <=> Announced') /\ (OldAnswer <=> OldAnswer')
  BY <1>1 DEF Announced, OldAnswer, AnswersRows
<1>3. CASE \E p \in Pages : Navigate(p)
  BY <1>1, <1>2, <1>3
     DEF Navigate, StartFetch, wireVars, CacheInv, CacheTypes, ShownIsCaughtUp, Shown,
         Announced
<1>4. CASE Poll \/ ServerReads
  BY <1>1, <1>2, <1>4
     DEF Poll, ServerReads, StartFetch, wireVars, CacheInv, CacheTypes, ShownIsCaughtUp,
         Shown, Announced
<1>5. CASE Answered
  BY <1>1, <1>2, <1>5
     DEF Answered, wireVars, CacheInv, CacheTypes, ShownIsCaughtUp, Shown, Announced
<1>6. CASE Fails
  BY <1>1, <1>2, <1>6
     DEF Fails, wireVars, CacheInv, CacheTypes, ShownIsCaughtUp, Shown, Announced
<1>7. CASE Forgotten
  BY <1>1, <1>2, <1>7
     DEF Forgotten, wireVars, CacheInv, CacheTypes, ShownIsCaughtUp, Shown, Announced
<1> QED
  BY <1>3, <1>4, <1>5, <1>6, <1>7

(* A commit makes rows and answers lag; it is announced, or told to be missed. *)
LEMMA OvertakenStep ==
  ASSUME CacheInv, Overtakes, own' \in OwnMutations \cup {None},
         UNCHANGED <<key, page, failed, invalid>>, unread' = unread,
         missed => missed',
         Announced' \/ (missed' <=> missed \/ Lagging'),
         Announced => Announced',
         OldAnswer' => OldAnswer \/ Announced' \/ missed'
  PROVE  CacheInv'
<1>1. CacheTypes'
  BY DEF Overtakes, CacheInv, CacheTypes
<1>2. fetch' = "late" => missed' \/ Announced'
  BY DEF Lagging
<1>3. data' = "behind" => missed' \/ Announced'
  BY DEF Lagging
<1> QED
  BY <1>1, <1>2, <1>3 DEF CacheInv, ShownIsCaughtUp, Announced

LEMMA CommitStep ==
  ASSUME CacheInv, OtherCommits \/ CommitsUnannounced \/ OwnCommits
  PROVE  CacheInv'
<1>1. own # None => own \in OwnMutations
  BY DEF CacheInv, CacheTypes
<1>2. CASE OtherCommits
  <2>1. own' \in OwnMutations \cup {None}
    BY <1>1, <1>2, OwnMoves
       DEF OtherCommits, OwnOvertaken, AnswersRows, CacheInv, CacheTypes
  <2> QED
    BY <1>2, <2>1, OvertakenStep DEF OtherCommits, Announced
<1>3. CASE CommitsUnannounced
  <2>1. /\ own' \in OwnMutations \cup {None}
        /\ own # None /\ own.step = "committed" => own' # None /\ own'.step = "committed"
    BY <1>1, <1>3, OwnMoves, QueryCacheAssumption
       DEF CommitsUnannounced, OwnOvertaken, AnswersRows, CacheInv, CacheTypes
  <2>2. (missed' <=> missed \/ Lagging') /\ (OldAnswer' => missed')
    BY <1>3 DEF CommitsUnannounced, Lagging
  <2> QED
    BY <1>3, <2>1, <2>2, OvertakenStep DEF CommitsUnannounced, Announced, wireVars
<1>4. CASE OwnCommits
  <2>1. /\ own' \in OwnMutations /\ own'.step = "committed" /\ own' # None
        /\ own'.late = own.late /\ own'.op = own.op
    BY <1>1, <1>4, OwnMoves, QueryCacheAssumption DEF OwnCommits
  <2>2. Announced' /\ (OldAnswer' => OldAnswer)
    BY <1>4, <2>1 DEF OwnCommits, Announced, OldAnswer, AnswersRows
  <2>3. CASE <<own.op, key>> \in Changes
    BY <1>4, <2>1, <2>2, <2>3, OvertakenStep DEF OwnCommits, wireVars
  <2>4. CASE <<own.op, key>> \notin Changes
    BY <1>4, <2>1, <2>2, <2>4
       DEF OwnCommits, wireVars, CacheInv, CacheTypes, ShownIsCaughtUp, Announced
  <2> QED
    BY <2>3, <2>4
<1> QED
  BY <1>2, <1>3, <1>4

(* An announcement is written to the stream, or what lags has missed it.      *)
Unmoved == UNCHANGED <<key, page, data, failed, invalid, fetch>>

LEMMA AnnouncedStep ==
  ASSUME CacheInv, Unmoved, CacheTypes', Announced'
  PROVE  CacheInv'
  BY DEF Unmoved, CacheInv, ShownIsCaughtUp, Announced

LEMMA AnnounceTells ==
  ASSUME unread \in Nat, Announce
  PROVE  /\ unread' \in Nat
         /\ unread' > 0 \/ (unread' = unread /\ (missed \/ Lagging => missed'))
         /\ missed => missed'
<1>1. CASE stream /\ key \notin OutOfReach
  <2>1. unread' = unread + 1 /\ missed' = missed
    BY <1>1 DEF Announce
  <2> QED
    BY <2>1
<1>2. CASE ~(stream /\ key \notin OutOfReach)
  <2>1. missed' = (missed \/ Lagging) /\ unread' = unread
    BY <1>2, Zenon DEF Announce
  <2>2. missed \/ Lagging => missed'
    BY <2>1, Zenon
  <2> QED
    BY <2>1, <2>2
<1> QED
  BY <1>1, <1>2

LEMMA WireStep ==
  ASSUME CacheInv, OtherPublishes \/ OwnPublishes \/ StreamEnds \/ StreamOpens
  PROVE  CacheInv'
<1>1. own # None => own \in OwnMutations
  BY DEF CacheInv, CacheTypes
<1>2. CacheTypes /\ unread \in Nat
  BY DEF CacheInv, CacheTypes
<1>3. CASE OtherPublishes
  <2>1. /\ own' = own /\ Unmoved /\ Announce /\ (OldAnswer' => OldAnswer)
    BY <1>3 DEF OtherPublishes, OldAnswer, AnswersRows, Unmoved
  <2>2. CacheTypes'
    BY <1>2, <2>1, AnnounceTells DEF CacheTypes, Unmoved
  <2>3. unread' > 0 => Announced'
    BY DEF Announced
  <2>4. CASE ~(unread' > 0)
    <3>1. missed \/ Lagging => missed'
      BY <1>2, <2>1, <2>4, AnnounceTells
    <3> QED
      BY <2>1, <2>2, <3>1 DEF CacheInv, ShownIsCaughtUp, Unmoved, Shown, Lagging, Announced
  <2> QED
    BY <2>1, <2>2, <2>3, <2>4, AnnouncedStep
<1>4. CASE OwnPublishes
  <2>1. own' \in OwnMutations /\ own'.late = own.late /\ own'.op = own.op
    BY <1>1, <1>4, OwnMoves DEF OwnPublishes
  <2>2. Unmoved /\ Announce /\ (OldAnswer' => OldAnswer)
    BY <1>4, <2>1, <1>1 DEF OwnPublishes, OldAnswer, AnswersRows, Unmoved
  <2>3. CacheTypes'
    BY <1>2, <2>1, <2>2, AnnounceTells DEF CacheTypes, Unmoved
  <2>4. unread' > 0 => Announced'
    BY DEF Announced
  <2>5. CASE ~(unread' > 0)
    <3>1. missed \/ Lagging => missed'
      BY <1>2, <2>2, <2>5, AnnounceTells
    <3> QED
      BY <2>2, <2>3, <3>1 DEF CacheInv, ShownIsCaughtUp, Unmoved, Shown, Lagging, Announced
  <2> QED
    BY <2>2, <2>3, <2>4, <2>5, AnnouncedStep
<1>5. CASE StreamEnds
  <2>1. own' = own /\ unread' = 0 /\ publishing' = publishing /\ Unmoved /\ (OldAnswer' <=> OldAnswer)
    BY <1>5 DEF StreamEnds, OldAnswer, AnswersRows, Unmoved
  <2>2. CacheTypes'
    BY <1>2, <2>1 DEF CacheTypes, Unmoved
  <2>3. missed' <=> missed \/ (unread > 0 /\ Lagging)
    BY <1>5, Zenon DEF StreamEnds
  <2> QED
    BY <2>1, <2>2, <2>3 DEF CacheInv, ShownIsCaughtUp, Unmoved, Shown, Lagging, Announced
<1>6. CASE StreamOpens
  BY <1>6
     DEF StreamOpens, entryVars, CacheInv, CacheTypes, ShownIsCaughtUp, Shown, Announced,
         OldAnswer, AnswersRows
<1> QED
  BY <1>3, <1>4, <1>5, <1>6

(* invalidateQueries.  Rows on screen are fetched again; what stays behind     *)
(* because its fetch was joined, or because nobody shows it, is told.          *)
LEMMA InvalidateStep ==
  ASSUME CacheInv, Invalidate, UNCHANGED <<key, page, data, failed, publishing>>,
         unread' \in Nat, own' \in OwnMutations \cup {None}, OldAnswer' => OldAnswer
  PROVE  CacheInv'
<1>1. CacheTypes'
  BY DEF Invalidate, StartFetch, CacheInv, CacheTypes
<1>2. OldAnswer' => missed'
  BY DEF Invalidate
<1>3. fetch' = "late" => missed'
  BY DEF Invalidate, StartFetch, Joins
<1>4. data' = "behind" => invalid' /\ (Shown' => fetch' = "sent")
  BY DEF Invalidate, StartFetch, Joins, Shown
<1> QED
  BY <1>1, <1>2, <1>3, <1>4 DEF CacheInv, ShownIsCaughtUp

LEMMA EventStep == ASSUME CacheInv, EventRead PROVE CacheInv'
<1>1. unread' \in Nat
  BY DEF EventRead, CacheInv, CacheTypes
<1> QED
  BY <1>1, InvalidateStep DEF EventRead, CacheInv, CacheTypes, OldAnswer, AnswersRows

LEMMA OwnStep ==
  ASSUME CacheInv, (\E op \in Ops : Submit(op)) \/ OwnAnswered \/ OwnFails
  PROVE  CacheInv'
<1>1. unread \in Nat
  BY DEF CacheInv, CacheTypes
<1>2. CASE \E op \in Ops : Submit(op)
  <2>1. PICK op \in Ops : own' = [op |-> op, step |-> "sent", late |-> FALSE]
    BY <1>2 DEF Submit
  <2>2. own' \in OwnMutations /\ ~OldAnswer'
    BY <2>1 DEF OwnMutations, OldAnswer
  <2>3. ~Announced \/ Announced'
    BY <1>2 DEF Submit, Announced, wireVars
  <2> QED
    BY <1>1, <1>2, <2>2, <2>3
       DEF Submit, entryVars, wireVars, CacheInv, CacheTypes, ShownIsCaughtUp, Shown,
           Announced
<1>3. CASE OwnAnswered
  <2>1. own' = None /\ ~OldAnswer' /\ (Announced <=> Announced')
    BY <1>3 DEF OwnAnswered, OldAnswer, AnswersRows, Announced, wireVars
  <2>2. CASE <<own.op, key>> \in Lists /\ ~AnswersRows
    BY <1>1, <1>3, <2>1, <2>2, InvalidateStep DEF OwnAnswered, wireVars
  <2>3. CASE <<own.op, key>> \notin Lists /\ UNCHANGED entryVars
    BY <1>3, <2>1, <2>3
       DEF OwnAnswered, entryVars, wireVars, CacheInv, CacheTypes, ShownIsCaughtUp, Shown,
           Announced
  <2>4. CASE /\ AnswersRows
             /\ data' = IF own.late THEN "behind" ELSE "current"
             /\ UNCHANGED <<fetch, retries>> /\ missed' = (missed /\ Lagging')
    BY <1>1, <1>3, <2>1, <2>4
       DEF OwnAnswered, wireVars, CacheInv, CacheTypes, ShownIsCaughtUp, Shown, Lagging,
           OldAnswer, Announced
  <2> QED
    BY <1>3, <2>2, <2>3, <2>4 DEF OwnAnswered
<1>4. CASE OwnFails
  BY <1>4
     DEF OwnFails, entryVars, wireVars, CacheInv, CacheTypes, ShownIsCaughtUp, Shown,
         Announced, OldAnswer, AnswersRows
<1> QED
  BY <1>2, <1>3, <1>4

LEMMA CacheInvStep == CacheInv /\ [CacheNext]_cacheVars => CacheInv'
<1> SUFFICES ASSUME CacheInv, [CacheNext]_cacheVars PROVE CacheInv'
  OBVIOUS
<1>1. CASE UNCHANGED cacheVars
  BY <1>1
     DEF cacheVars, entryVars, wireVars, CacheInv, CacheTypes, ShownIsCaughtUp, Shown,
         Announced, OldAnswer, AnswersRows
<1> QED
  BY <1>1, QueryStep, CommitStep, WireStep, EventStep, OwnStep DEF CacheNext

(* Rows on screen that lack a committed change are fetched again, are about to *)
(* be announced, show an error, or lack one nobody announced to them: for any  *)
(* pages, keys and mutations, and however many events are unread.              *)
THEOREM CaughtUpHolds == CacheSpec => []ShownIsCaughtUp
<1>1. CacheInv => ShownIsCaughtUp
  BY DEF CacheInv
<1> QED
  BY <1>1, CacheInvStart, CacheInvStep, PTL DEF CacheSpec

-----------------------------------------------------------------------------
(* Editors                                                                  *)

EditorSpec == EditorInit /\ [][EditorNext]_editorVars

Dialogs ==
  [seen : Seats, picked : SUBSET Partners, role : Roles, status : Statuses, grants : PermissionStates]

EditorTypes ==
  /\ kind \in Kinds /\ wide \in BOOLEAN /\ exists \in BOOLEAN
  /\ roster \in SUBSET Partners /\ barred \in SUBSET Partners
  /\ seat \in Seats /\ listed \in Seats
  /\ cached = Empty \/ cached \in SUBSET Partners
  /\ dialog = Empty \/ dialog \in Dialogs
  /\ saving = Empty \/ saving \in Saves
  /\ dialog = Empty => saving = Empty
  /\ dialog # Empty /\ kind # "member" => cached # Empty
  /\ dialog # Empty /\ kind = "member" => dialog.role \in {"member", "workspace_admin"}

(* Assignments that the caller's read leaves out. *)
Hidden == IF kind = "creator" THEN barred ELSE {}

RosterChosen == dialog.picked \subseteq roster /\ (wide => roster \ dialog.picked \subseteq Hidden)

(* What a save still has to add and remove turns the roster into the chosen    *)
(* one, at every step between the comparison and the last call.                *)
Heading ==
  /\ dialog.picked \subseteq (roster \ saving.drop) \cup saving.add
  /\ wide => (roster \ saving.drop) \ dialog.picked \subseteq Hidden
  /\ saving.add \subseteq dialog.picked /\ saving.add \cap saving.drop = {}

RosterInv ==
  /\ ~exists => roster = {} /\ kind \in New
  /\ kind \in New => ~At("terms")
  /\ At("read") => kind = "creator"
  /\ At("assign") => exists
  /\ saving # Empty /\ kind # "member" /\ "roster" \notin stale =>
       /\ At("create") /\ ~exists => Heading
       /\ At("terms") /\ kind = "agent" => Heading
       /\ At("assign") => Heading
       /\ At("access") \/ At("status") \/ At("done") => RosterChosen

ChosenGrants ==
  IF kind = "member" /\ dialog.role = "workspace_admin" /\ ~GrantsSent
  THEN [roleKey |-> Empty, permissions |-> DefaultList["workspace_admin"]]
  ELSE dialog.grants

(* The seat on the way from the one listed to the one chosen. *)
SeatInv ==
  dialog # Empty /\ kind \notin New /\ manages /\ ~half /\ "seat" \notin stale =>
    /\ (saving = Empty \/ saving.step \notin {"status", "done"}) => seat = dialog.seen
    /\ At("status") \/ At("done") => seat.role = dialog.role /\ seat.grants = ChosenGrants
    /\ At("status") => seat.status = dialog.seen.status
    /\ At("done") => seat.status = IF dialog.seen.status = "removed" THEN "removed" ELSE dialog.status

EditorInv == EditorTypes /\ RosterInv /\ SeatInv

LEMMA DefaultStates ==
  /\ \A role \in Roles : [roleKey |-> Empty, permissions |-> DefaultList[role]] \in PermissionStates
  /\ \A row \in PermissionStates :
       [row EXCEPT !.roleKey = Empty] = [roleKey |-> Empty, permissions |-> row.permissions]
  /\ \A row \in PermissionStates : [roleKey |-> Empty, permissions |-> row.permissions] \in PermissionStates
<1>1. \A list \in PermissionLists : [roleKey |-> Empty, permissions |-> list] \in PermissionStates
  BY DEF PermissionStates
<1>2. \A row \in PermissionStates :
        /\ row = [roleKey |-> row.roleKey, permissions |-> row.permissions]
        /\ row.permissions \in PermissionLists
  BY EditorsAssumption DEF PermissionStates
<1>3. \A row \in PermissionStates :
        [row EXCEPT !.roleKey = Empty] = [roleKey |-> Empty, permissions |-> row.permissions]
  BY DEF PermissionStates
<1> QED
  BY <1>1, <1>2, <1>3, EditorsAssumption

LEMMA EditorInvStart == EditorInit => EditorInv
<1> SUFFICES ASSUME EditorInit PROVE EditorInv
  OBVIOUS
<1>1. SeatRoles \subseteq Roles /\ SeatStatuses \subseteq Statuses /\ NewSeat \in Seats
  BY DefaultStates DEF SeatRoles, SeatStatuses, NewSeat, Seats, Roles, Statuses
<1>2. seat \in Seats
  BY <1>1 DEF EditorInit, Seats
<1> QED
  BY <1>2, EditorsAssumption
     DEF EditorInit, EditorInv, EditorTypes, RosterInv, SeatInv, Kinds, New, At

-----------------------------------------------------------------------------
(* The dialog and the save are records, whose parts move one at a time.       *)
LEMMA SaveMoves ==
  ASSUME saving \in Saves
  PROVE  /\ \A step \in Steps :
              LET next == [saving EXCEPT !.step = step] IN
              next \in Saves /\ next.step = step /\ next.add = saving.add /\ next.drop = saving.drop
         /\ \A partner \in Partners :
              /\ LET next == [saving EXCEPT !.add = @ \ {partner}] IN
                 /\ next \in Saves /\ next.step = saving.step
                 /\ next.add = saving.add \ {partner} /\ next.drop = saving.drop
              /\ LET next == [saving EXCEPT !.drop = @ \ {partner}] IN
                 /\ next \in Saves /\ next.step = saving.step
                 /\ next.add = saving.add /\ next.drop = saving.drop \ {partner}
  BY DEF Saves

LEMMA SeatMoves ==
  ASSUME seat \in Seats
  PROVE  /\ \A role \in Roles, grants \in PermissionStates :
              LET next == [seat EXCEPT !.role = role, !.grants = grants] IN
              /\ next \in Seats /\ next.role = role
              /\ next.grants = grants /\ next.status = seat.status
         /\ \A status \in Statuses :
              LET next == [seat EXCEPT !.status = status] IN
              /\ next \in Seats /\ next.role = seat.role
              /\ next.grants = seat.grants /\ next.status = status
  BY DEF Seats

LEMMA DialogMoves ==
  ASSUME dialog \in Dialogs
  PROVE  /\ \A partner \in Partners :
              LET next == [dialog EXCEPT
                     !.picked = IF partner \in @ THEN @ \ {partner} ELSE @ \cup {partner}] IN
              next \in Dialogs /\ next.seen = dialog.seen /\ next.role = dialog.role
         /\ \A status \in Statuses :
              LET next == [dialog EXCEPT !.status = status] IN
              next \in Dialogs /\ next.seen = dialog.seen /\ next.role = dialog.role
         /\ \A grants \in PermissionStates :
              LET next == [dialog EXCEPT !.grants = grants] IN
              next \in Dialogs /\ next.seen = dialog.seen /\ next.role = dialog.role
         /\ \A role \in Roles, grants \in PermissionStates :
              LET next == [dialog EXCEPT !.role = role, !.grants = grants] IN
              next \in Dialogs /\ next.seen = dialog.seen /\ next.role = role
<1>1. ASSUME NEW partner \in Partners
      PROVE  LET next == [dialog EXCEPT
                     !.picked = IF partner \in @ THEN @ \ {partner} ELSE @ \cup {partner}] IN
             next \in Dialogs /\ next.seen = dialog.seen /\ next.role = dialog.role
  BY DEF Dialogs
<1>2. ASSUME NEW status \in Statuses
      PROVE  LET next == [dialog EXCEPT !.status = status] IN
             next \in Dialogs /\ next.seen = dialog.seen /\ next.role = dialog.role
  BY DEF Dialogs
<1>3. ASSUME NEW grants \in PermissionStates
      PROVE  LET next == [dialog EXCEPT !.grants = grants] IN
             next \in Dialogs /\ next.seen = dialog.seen /\ next.role = dialog.role
  BY DEF Dialogs
<1>4. ASSUME NEW role \in Roles, NEW grants \in PermissionStates
      PROVE  LET next == [dialog EXCEPT !.role = role, !.grants = grants] IN
             next \in Dialogs /\ next.seen = dialog.seen /\ next.role = role
  BY DEF Dialogs
<1> QED
  BY <1>1, <1>2, <1>3, <1>4

-----------------------------------------------------------------------------
(* What the page fetches or forgets is compared at the next opening or submit. *)
LEMMA FetchedStep ==
  ASSUME EditorInv, RosterFetched \/ RosterForgotten \/ TeamFetched
  PROVE  EditorInv'
<1>1. UNCHANGED <<callerVars, serverVars, dialog, saving, historyVars>>
  BY DEF RosterFetched, RosterForgotten, TeamFetched
<1>2. EditorTypes'
  BY <1>1, EditorsAssumption
     DEF RosterFetched, RosterForgotten, TeamFetched, ShownRoster, EditorInv, EditorTypes,
         callerVars, serverVars, New, Kinds
<1> QED
  BY <1>1, <1>2
     DEF EditorInv, RosterInv, RosterChosen, SeatInv, Heading, Hidden, ChosenGrants, GrantsSent,
         RoleMoved, GrantsDiffer, Detached, At, callerVars, serverVars, historyVars

(* While nothing is saved the form may change; it is seeded with the seat.    *)
LEMMA FormStep ==
  ASSUME EditorInv,
         \/ Open \/ Cancel
         \/ \E partner \in Partners : Pick(partner)
         \/ \E role \in Roles : ChooseRole(role)
         \/ \E grants \in PermissionStates : ChooseGrants(grants)
         \/ \E status \in {"active", "suspended"} : ChooseStatus(status)
  PROVE  EditorInv'
<1>1. saving = Empty /\ saving' = Empty /\ UNCHANGED <<callerVars, serverVars, cached, listed>>
  BY DEF Open, Cancel, Pick, Managing, ChooseRole, ChooseGrants, ChooseStatus, EditorInv, EditorTypes
<1>2. CASE Open
  <2>1. FormRole(listed.role) \in Roles /\ FormStatus(listed.status) \in Statuses /\ listed \in Seats
    BY DEF FormRole, FormStatus, Roles, Statuses, Seats, EditorInv, EditorTypes
  <2>2. dialog' \in Dialogs /\ dialog'.seen = listed /\ dialog'.role = FormRole(listed.role)
    BY <1>2, <2>1 DEF Open, Dialogs, EditorInv, EditorTypes, Seats
  <2>3. kind = "member" => FormRole(listed.role) \in {"member", "workspace_admin"}
    BY DEF FormRole
  <2>4. half' = FALSE /\ stale' = IF listed = seat THEN {} ELSE {"seat"}
    BY <1>2 DEF Open
  <2>5. EditorTypes'
    BY <1>1, <1>2, <2>2, <2>3 DEF Open, EditorInv, EditorTypes, callerVars, serverVars
  <2> QED
    BY <1>1, <2>2, <2>4, <2>5 DEF EditorInv, RosterInv, SeatInv, At, callerVars, serverVars
<1>3. CASE Cancel
  BY <1>1, <1>3
     DEF Cancel, EditorInv, EditorTypes, RosterInv, SeatInv, At, callerVars, serverVars, historyVars
<1>4. CASE \/ \E partner \in Partners : Pick(partner)
           \/ \E role \in Roles : ChooseRole(role)
           \/ \E grants \in PermissionStates : ChooseGrants(grants)
           \/ \E status \in {"active", "suspended"} : ChooseStatus(status)
  <2>1. dialog \in Dialogs /\ dialog # Empty /\ UNCHANGED historyVars
    BY <1>4 DEF Pick, Managing, ChooseRole, ChooseGrants, ChooseStatus, EditorInv, EditorTypes
  <2>2. /\ dialog' \in Dialogs /\ dialog'.seen = dialog.seen
        /\ kind = "member" => dialog'.role \in {"member", "workspace_admin"}
    <3>1. CASE \E partner \in Partners : Pick(partner)
      BY <2>1, <3>1, DialogMoves DEF Pick
    <3>2. CASE \E role \in Roles : ChooseRole(role)
      <4>1. PICK role \in Roles : ChooseRole(role)
        BY <3>2
      <4>2. DEFINE grants == [roleKey |-> Empty, permissions |-> DefaultList[role]]
      <4>3. grants \in PermissionStates
        BY DefaultStates
      <4>4. dialog' = [dialog EXCEPT !.role = role, !.grants = grants]
        BY <4>1 DEF ChooseRole
      <4>5. dialog' \in Dialogs /\ dialog'.seen = dialog.seen /\ dialog'.role = role
        BY <2>1, <4>3, <4>4, DialogMoves
      <4>6. kind = "member" => role \in {"member", "workspace_admin"}
        BY <4>1 DEF ChooseRole, SeatRoles
      <4> QED
        BY <4>5, <4>6
    <3>3. CASE \E grants \in PermissionStates : ChooseGrants(grants)
      <4>1. PICK grants \in PermissionStates : ChooseGrants(grants)
        BY <3>3
      <4>2. dialog' = [dialog EXCEPT !.grants = grants]
        BY <4>1 DEF ChooseGrants
      <4>3. dialog' \in Dialogs /\ dialog'.seen = dialog.seen /\ dialog'.role = dialog.role
        BY <2>1, <4>2, DialogMoves
      <4> QED
        BY <2>1, <4>3 DEF EditorInv, EditorTypes
    <3>4. CASE \E status \in {"active", "suspended"} : ChooseStatus(status)
      BY <2>1, <3>4, DialogMoves DEF ChooseStatus, Statuses, EditorInv, EditorTypes
    <3>5. \A partner : Pick(partner) => kind # "member"
      BY DEF Pick
    <3> QED
      BY <1>4, <3>1, <3>2, <3>3, <3>4, <3>5
  <2>3. EditorTypes'
    BY <1>1, <2>1, <2>2 DEF EditorInv, EditorTypes, callerVars, serverVars
  <2> QED
    BY <1>1, <2>1, <2>2, <2>3 DEF EditorInv, RosterInv, SeatInv, At, callerVars, serverVars, historyVars
<1> QED
  BY <1>2, <1>3, <1>4

LEMMA SubmitStep == ASSUME EditorInv, SubmitEditor PROVE EditorInv'
<1>1. /\ dialog # Empty /\ dialog \in Dialogs /\ saving = Empty
      /\ UNCHANGED <<callerVars, serverVars, cached, listed, dialog, half>>
  BY DEF SubmitEditor, EditorInv, EditorTypes
<1>2. "seat" \in stale' <=> "seat" \in stale
  BY DEF SubmitEditor
<1>3. EditorTypes'
  BY <1>1
     DEF SubmitEditor, Plan, CurrentRoster, EditorInv, EditorTypes, Saves, Steps, Dialogs,
         callerVars, serverVars, New
<1>4. saving'.step \in {"create", "terms", "access"}
  BY <1>1 DEF SubmitEditor, Plan
<1>5. SeatInv'
  BY <1>1, <1>2, <1>4 DEF EditorInv, SeatInv, At, callerVars, serverVars
<1>6. RosterInv'
  <2>1. CASE kind \in New
    <3>1. saving' = [step |-> "create", add |-> dialog.picked, drop |-> {}]
      <4>1. dialog.picked \ {} = dialog.picked /\ {} \ dialog.picked = {}
        OBVIOUS
      <4>2. saving' = Plan("create", {})
        BY <1>1, <2>1 DEF SubmitEditor, New
      <4> QED
        BY <4>1, <4>2 DEF Plan
    <3> QED
      BY <1>1, <2>1, <3>1 DEF EditorInv, RosterInv, Heading, Hidden, At, callerVars, serverVars
  <2>2. CASE kind = "agent"
    <3>1. saving' = [step |-> "terms", add |-> dialog.picked \ cached, drop |-> cached \ dialog.picked]
      BY <1>1, <2>2 DEF SubmitEditor, Plan, CurrentRoster, New
    <3>2. "roster" \notin stale' => cached = roster
      BY <2>2 DEF SubmitEditor
    <3> QED
      BY <1>1, <2>2, <3>1, <3>2 DEF EditorInv, RosterInv, Heading, Hidden, At, callerVars, serverVars, New
  <2>3. CASE kind = "creator"
    <3>1. saving' = [step |-> "terms", add |-> {}, drop |-> {}]
      BY <1>1, <2>3 DEF SubmitEditor, New
    <3> QED
      BY <1>1, <2>3, <3>1 DEF EditorInv, RosterInv, At, callerVars, serverVars, New
  <2>4. CASE kind = "member"
    BY <1>1, <1>4, <2>4 DEF SubmitEditor, EditorInv, RosterInv, At, callerVars, serverVars, New
  <2> QED
    BY <2>1, <2>2, <2>3, <2>4 DEF EditorInv, EditorTypes, Kinds, New
<1> QED
  BY <1>3, <1>5, <1>6 DEF EditorInv

(* A save that stops: the roster is what it is, and the seat is told of half.  *)
LEMMA StopStep ==
  ASSUME EditorInv, EditorTypes', saving' = Empty, half' = TRUE \/ dialog' = Empty, UNCHANGED kind,
         ~exists' => roster' = {} /\ kind' \in New
  PROVE  EditorInv'
  BY DEF EditorInv, RosterInv, SeatInv, At

(* What was chosen stays while form and rows do. *)
LEMMA SameForm ==
  ASSUME UNCHANGED <<kind, wide, barred, dialog>>
  PROVE  /\ ChosenGrants' = ChosenGrants /\ Hidden' = Hidden
         /\ UNCHANGED roster => (RosterChosen' <=> RosterChosen)
  BY DEF ChosenGrants, Hidden, RosterChosen, GrantsSent, RoleMoved, GrantsDiffer, Detached

LEMMA CreateStep == ASSUME EditorInv, Create PROVE EditorInv'
<1>1. saving \in Saves /\ UNCHANGED <<callerVars, cached, listed, dialog, roster, seat, barred, stale>> /\ exists' = TRUE
  BY DEF callerVars, Create, At, Unread, EditorInv, EditorTypes
<1>2. CASE saving' = Empty /\ half' = TRUE
  <2>1. EditorTypes'
    BY <1>1, <1>2 DEF callerVars, EditorInv, EditorTypes
  <2> QED
    BY <1>1, <1>2, <2>1, StopStep DEF callerVars
<1>3. CASE saving' = [saving EXCEPT !.step = "assign"] /\ half' = half
  <2>1. /\ saving' \in Saves /\ saving'.step = "assign"
        /\ saving'.add = saving.add /\ saving'.drop = saving.drop
    BY <1>1, <1>3, SaveMoves DEF Steps
  <2>2. EditorTypes'
    BY <1>1, <2>1 DEF callerVars, EditorInv, EditorTypes, Create, At
  <2> QED
    BY <1>1, <1>3, <2>1, <2>2, SameForm
       DEF callerVars, Create, At, EditorInv, RosterInv, SeatInv, Heading, EditorTypes
<1> QED
  BY <1>2, <1>3 DEF Create, Proceed

LEMMA TermsStep == ASSUME EditorInv, SaveTerms PROVE EditorInv'
<1>1. saving \in Saves /\ UNCHANGED <<callerVars, cached, listed, dialog, serverVars, stale>>
  BY DEF callerVars, SaveTerms, At, Unread, EditorInv, EditorTypes
<1>2. CASE saving' = Empty /\ half' = TRUE
  <2>1. EditorTypes'
    BY <1>1, <1>2 DEF callerVars, EditorInv, EditorTypes, serverVars
  <2> QED
    BY <1>1, <1>2, <2>1, StopStep DEF callerVars, EditorInv, RosterInv, serverVars
<1>3. CASE saving' = [saving EXCEPT !.step = IF kind = "creator" THEN "read" ELSE "assign"] /\ half' = half
  <2>1. /\ saving' \in Saves /\ saving'.step = IF kind = "creator" THEN "read" ELSE "assign"
        /\ saving'.add = saving.add /\ saving'.drop = saving.drop
    BY <1>1, <1>3, SaveMoves DEF Steps
  <2>2. EditorTypes'
    BY <1>1, <2>1 DEF callerVars, EditorInv, EditorTypes, SaveTerms, At, serverVars
  <2>3. At("terms") /\ kind \notin New /\ kind \in {"creator", "agent", "member"}
    BY DEF callerVars, SaveTerms, EditorInv, EditorTypes, RosterInv, New, Kinds
  <2>4. RosterInv'
    BY <1>1, <2>1, <2>3, SameForm DEF callerVars, At, EditorInv, RosterInv, Heading, serverVars, New
  <2>5. SeatInv'
    BY <1>1, <1>3, <2>1, <2>3 DEF callerVars, At, EditorInv, SeatInv, serverVars
  <2> QED
    BY <2>2, <2>4, <2>5 DEF EditorInv
<1> QED
  BY <1>2, <1>3 DEF SaveTerms, Proceed

LEMMA ReadStep == ASSUME EditorInv, ReadRoster PROVE EditorInv'
<1>1. saving \in Saves /\ dialog \in Dialogs /\ UNCHANGED <<callerVars, cached, listed, dialog, serverVars>>
  BY DEF callerVars, ReadRoster, At, Unread, EditorInv, EditorTypes
<1>2. CASE saving' = Empty /\ half' = TRUE
  <2>1. EditorTypes'
    BY <1>1, <1>2 DEF callerVars, EditorInv, EditorTypes, serverVars
  <2> QED
    BY <1>1, <1>2, <2>1, StopStep DEF callerVars, EditorInv, RosterInv, serverVars
<1>3. CASE saving' = Plan("assign", CurrentRoster) /\ half' = half
  <2>1. kind = "creator" /\ dialog # Empty /\ At("read") /\ stale' = stale \ {"roster"}
    BY DEF callerVars, ReadRoster, At, EditorInv, EditorTypes, RosterInv
  <2>2. /\ saving' = [step |-> "assign", add |-> dialog.picked \ ShownRoster, drop |-> ShownRoster \ dialog.picked]
        /\ roster \in SUBSET Partners /\ dialog.picked \in SUBSET Partners
        /\ ShownRoster = IF wide THEN roster \ Hidden ELSE {}
    BY <1>1, <1>3, <2>1 DEF Plan, CurrentRoster, ShownRoster, Hidden, EditorInv, EditorTypes, Dialogs
  <2>3. saving' \in Saves
    BY <2>2 DEF Saves, Steps
  <2>4. EditorTypes'
    BY <1>1, <2>1, <2>3 DEF callerVars, EditorInv, EditorTypes, serverVars
  <2>5. RosterInv'
    <3>1. Heading'
      BY <1>1, <2>2, SameForm DEF callerVars, Heading, serverVars
    <3> QED
      BY <1>1, <2>1, <2>2, <3>1 DEF callerVars, EditorInv, RosterInv, At, serverVars, New
  <2>6. SeatInv'
    BY <1>1, <1>3, <2>1, <2>2 DEF callerVars, EditorInv, SeatInv, At, serverVars
  <2> QED
    BY <2>4, <2>5, <2>6 DEF EditorInv
<1> QED
  BY <1>2, <1>3 DEF ReadRoster, Proceed

LEMMA AssignStep ==
  ASSUME EditorInv, NEW partner \in Partners, Assign(partner) \/ Unassign(partner)
  PROVE  EditorInv'
<1>1. /\ saving \in Saves /\ At("assign")
      /\ UNCHANGED <<callerVars, cached, listed, dialog, exists, seat, barred, stale>>
  BY DEF callerVars, Assign, Unassign, At, Unread, EditorInv, EditorTypes
<1>2. roster' \in SUBSET Partners /\ exists
  BY DEF callerVars, Assign, Unassign, EditorInv, EditorTypes, RosterInv, At
<1>3. CASE saving' = Empty /\ half' = TRUE
  <2>1. EditorTypes'
    BY <1>1, <1>2, <1>3 DEF callerVars, EditorInv, EditorTypes
  <2> QED
    BY <1>1, <1>2, <1>3, <2>1, StopStep DEF callerVars, EditorInv, RosterInv
<1>4. CASE Assign(partner) /\ saving' = [saving EXCEPT !.add = @ \ {partner}] /\ half' = half
  <2>1. /\ saving' \in Saves /\ saving'.step = "assign"
        /\ saving'.add = saving.add \ {partner} /\ saving'.drop = saving.drop
        /\ roster' = roster \cup {partner} /\ partner \in saving.add
    BY <1>1, <1>4, SaveMoves DEF Assign, At
  <2>2. EditorTypes'
    BY <1>1, <1>2, <2>1 DEF callerVars, EditorInv, EditorTypes, At
  <2>3. Heading => Heading'
    BY <1>1, <2>1, SameForm DEF Heading, callerVars
  <2> QED
    BY <1>1, <1>2, <1>4, <2>1, <2>2, <2>3 DEF callerVars, At, EditorInv, RosterInv, SeatInv
<1>5. CASE Unassign(partner) /\ saving' = [saving EXCEPT !.drop = @ \ {partner}] /\ half' = half
  <2>1. /\ saving' \in Saves /\ saving'.step = "assign"
        /\ saving'.add = saving.add /\ saving'.drop = saving.drop \ {partner}
        /\ roster' = roster \ {partner} /\ partner \in saving.drop /\ saving.add = {}
    BY <1>1, <1>5, SaveMoves DEF Unassign, At
  <2>2. EditorTypes'
    BY <1>1, <1>2, <2>1 DEF callerVars, EditorInv, EditorTypes, At
  <2>3. Heading => Heading'
    BY <1>1, <2>1, SameForm DEF Heading, callerVars
  <2> QED
    BY <1>1, <1>2, <1>5, <2>1, <2>2, <2>3 DEF callerVars, At, EditorInv, RosterInv, SeatInv
<1> QED
  BY <1>3, <1>4, <1>5 DEF Assign, Unassign, Proceed

LEMMA AssignedStep == ASSUME EditorInv, Assigned PROVE EditorInv'
<1>1. /\ saving \in Saves /\ At("assign") /\ saving.add = {} /\ saving.drop = {}
      /\ UNCHANGED <<callerVars, cached, listed, dialog, serverVars, half, stale>>
  BY DEF callerVars, Assigned, At, Unread, EditorInv, EditorTypes
<1>2. saving' \in Saves /\ saving'.step = IF kind \notin New /\ manages THEN "access" ELSE "done"
  BY <1>1, SaveMoves DEF Assigned, Steps
<1>3. EditorTypes'
  BY <1>1, <1>2 DEF callerVars, EditorInv, EditorTypes, At, serverVars
<1>4. RosterInv'
  <2>1. Heading => RosterChosen
    BY <1>1 DEF Heading, RosterChosen
  <2> QED
    BY <1>1, <1>2, <2>1, SameForm DEF callerVars, EditorInv, RosterInv, At, serverVars
<1>5. SeatInv'
  BY <1>1, <1>2 DEF callerVars, EditorInv, SeatInv, At, serverVars
<1> QED
  BY <1>3, <1>4, <1>5 DEF EditorInv

(* Type and permissions, then status, of a seat that is as it was listed.      *)
LEMMA AccessSaved ==
  ASSUME dialog \in Dialogs, seat = dialog.seen, kind = "member" => dialog.role \in {"member", "workspace_admin"}
  PROVE  GrantsSaved(seat) = ChosenGrants /\ (~RoleSent => seat.role = dialog.role)
<1>1. seat.grants \in PermissionStates /\ dialog.grants \in PermissionStates
  BY DEF Dialogs, Seats
<1>2. ~RoleSent => seat.role = dialog.role
  BY DEF RoleSent, RoleMoved
<1>3. CASE GrantsSent
  BY <1>2, <1>3 DEF GrantsSaved, ChosenGrants
<1>4. CASE RoleResets
  <2>1. ~GrantsSent /\ kind = "member" /\ dialog.role = "workspace_admin"
    BY <1>4 DEF RoleResets, RoleSent, GrantsSent
  <2> QED
    BY <1>2, <1>4, <2>1 DEF GrantsSaved, ChosenGrants
<1>5. CASE ~GrantsSent /\ ~RoleResets
  <2>1. ChosenGrants = dialog.grants
    BY <1>5 DEF ChosenGrants, RoleResets, RoleSent
  <2>2. CASE Detached
    <3>1. GrantsSaved(seat) = [seat.grants EXCEPT !.roleKey = Empty]
      BY <1>5, <2>2 DEF GrantsSaved
    <3>2. dialog.grants = [roleKey |-> Empty, permissions |-> seat.grants.permissions]
      <4>1. \A row \in PermissionStates : row = [roleKey |-> row.roleKey, permissions |-> row.permissions]
        BY DEF PermissionStates
      <4> QED
        BY <1>1, <2>2, <4>1 DEF Detached
    <3> QED
      BY <1>1, <1>2, <2>1, <3>1, <3>2, DefaultStates
  <2>3. CASE ~Detached
    <3>1. GrantsSaved(seat) = seat.grants
      BY <1>5, <2>3 DEF GrantsSaved
    <3>2. dialog.grants = dialog.seen.grants
      BY <1>5, <2>3 DEF GrantsSent, GrantsDiffer
    <3> QED
      BY <1>2, <2>1, <3>1, <3>2
  <2> QED
    BY <2>2, <2>3
<1> QED
  BY <1>3, <1>4, <1>5

LEMMA AccessTyped ==
  ASSUME dialog \in Dialogs, seat \in Seats
  PROVE  GrantsSaved(seat) \in PermissionStates
<1>1. seat.grants \in PermissionStates /\ dialog.grants \in PermissionStates /\ dialog.role \in Roles
  BY DEF Dialogs, Seats
<1>2. [seat.grants EXCEPT !.roleKey = Empty] \in PermissionStates
  BY <1>1, DefaultStates
<1>3. [roleKey |-> Empty, permissions |-> DefaultList[dialog.role]] \in PermissionStates
  BY <1>1, DefaultStates
<1>4. \/ GrantsSaved(seat) = dialog.grants \/ GrantsSaved(seat) = seat.grants
      \/ GrantsSaved(seat) = [seat.grants EXCEPT !.roleKey = Empty]
      \/ GrantsSaved(seat) = [roleKey |-> Empty, permissions |-> DefaultList[dialog.role]]
  <2>1. CASE GrantsSent
    BY <2>1 DEF GrantsSaved
  <2>2. CASE ~GrantsSent /\ RoleResets
    BY <2>2 DEF GrantsSaved
  <2>3. CASE ~GrantsSent /\ ~RoleResets
    BY <2>3 DEF GrantsSaved
  <2> QED
    BY <2>1, <2>2, <2>3
<1> QED
  BY <1>1, <1>2, <1>3, <1>4

LEMMA AccessStep == ASSUME EditorInv, SaveAccess \/ SaveStatus PROVE EditorInv'
<1>1. /\ saving \in Saves /\ dialog \in Dialogs /\ seat \in Seats /\ dialog # Empty
      /\ kind = "member" => dialog.role \in {"member", "workspace_admin"}
      /\ UNCHANGED <<kind, manages, wide, cached, listed, dialog, exists, roster, barred, stale>>
  BY DEF callerVars, SaveAccess, SaveStatus, At, Unread, EditorInv, EditorTypes
<1>2. /\ dialog.role \in Roles /\ dialog.status \in Statuses /\ dialog.seen \in Seats
      /\ dialog.grants \in PermissionStates /\ seat.role \in Roles /\ seat.status \in Statuses
      /\ GrantsSaved(seat) \in PermissionStates
  BY <1>1, AccessTyped DEF Dialogs, Seats
<1>3. ChosenGrants' = ChosenGrants /\ (RosterChosen' <=> RosterChosen)
  BY <1>1, SameForm
<1>4. /\ seat' \in Seats
      /\ SaveAccess => /\ seat'.status = seat.status
                       /\ seat'.role = IF RoleSent THEN dialog.role ELSE seat.role
                       /\ seat'.grants = GrantsSaved(seat)
      /\ SaveStatus => /\ seat'.grants = seat.grants /\ seat'.role = seat.role
                       /\ seat'.status = IF StatusDiffers THEN dialog.status ELSE seat.status
  <2>1. ~(SaveAccess /\ SaveStatus)
    BY DEF SaveAccess, SaveStatus, At
  <2>2. CASE SaveAccess
    <3>1. DEFINE role == IF RoleSent THEN dialog.role ELSE seat.role
    <3>2. role \in Roles
      BY <1>2
    <3>3. seat' = [seat EXCEPT !.role = role, !.grants = GrantsSaved(seat)]
      BY <1>1, <2>2 DEF SaveAccess, Seats
    <3> HIDE DEF role
    <3>4. /\ seat' \in Seats /\ seat'.role = role
          /\ seat'.grants = GrantsSaved(seat) /\ seat'.status = seat.status
      BY <1>1, <1>2, <3>2, <3>3, SeatMoves
    <3> QED
      BY <2>1, <2>2, <3>4 DEF role
  <2>3. CASE SaveStatus
    <3>1. DEFINE status == IF StatusDiffers THEN dialog.status ELSE seat.status
    <3>2. status \in Statuses
      BY <1>2
    <3>3. seat' = [seat EXCEPT !.status = status]
      BY <2>3 DEF SaveStatus
    <3> HIDE DEF status
    <3>4. /\ seat' \in Seats /\ seat'.role = seat.role
          /\ seat'.grants = seat.grants /\ seat'.status = status
      BY <1>1, <3>2, <3>3, SeatMoves
    <3> QED
      BY <2>1, <2>3, <3>4 DEF status
  <2> QED
    BY <2>2, <2>3
<1>5. CASE saving' = Empty /\ half' = TRUE
  <2>1. EditorTypes'
    BY <1>1, <1>4, <1>5 DEF EditorInv, EditorTypes
  <2> QED
    BY <1>1, <1>5, <2>1, StopStep DEF EditorInv, RosterInv
<1>6. CASE saving' = [saving EXCEPT !.step = IF SaveAccess THEN "status" ELSE "done"] /\ half' = half
  <2>1. /\ saving' \in Saves /\ saving'.step = IF SaveAccess THEN "status" ELSE "done"
        /\ saving # Empty /\ saving.step = IF SaveAccess THEN "access" ELSE "status"
    BY <1>1, <1>6, SaveMoves DEF Steps, SaveAccess, SaveStatus, At
  <2>2. EditorTypes'
    BY <1>1, <1>4, <2>1 DEF EditorInv, EditorTypes
  <2>3. RosterInv'
    BY <1>1, <1>3, <2>1 DEF EditorInv, RosterInv, At
  <2>4. SeatInv'
    <3>1. CASE SaveAccess
      <4>1. SUFFICES ASSUME kind \notin New, manages, ~half, "seat" \notin stale
                     PROVE  /\ seat'.role = dialog.role /\ seat'.grants = ChosenGrants
                            /\ seat'.status = dialog.seen.status
        BY <1>1, <1>3, <1>6, <2>1, <3>1, EditorsAssumption DEF SeatInv, At
      <4>2. seat = dialog.seen
        BY <1>1, <2>1, <3>1, <4>1 DEF EditorInv, SeatInv
      <4> QED
        BY <1>1, <1>4, <3>1, <4>2, AccessSaved
    <3>2. CASE SaveStatus /\ ~SaveAccess
      <4>1. SUFFICES ASSUME kind \notin New, manages, ~half, "seat" \notin stale
                     PROVE  /\ seat'.role = dialog.role /\ seat'.grants = ChosenGrants
                            /\ seat'.status = IF dialog.seen.status = "removed" THEN "removed" ELSE dialog.status
        BY <1>1, <1>3, <1>6, <2>1, <3>2, EditorsAssumption DEF SeatInv, At
      <4>2. /\ seat.role = dialog.role /\ seat.grants = ChosenGrants
            /\ seat.status = dialog.seen.status
        BY <1>1, <2>1, <3>2, <4>1 DEF EditorInv, SeatInv, At
      <4> QED
        BY <1>4, <3>2, <4>2 DEF StatusDiffers
    <3> QED
      BY <3>1, <3>2
  <2> QED
    BY <2>2, <2>3, <2>4 DEF EditorInv
<1>7. SaveStatus => ~SaveAccess
  BY DEF SaveStatus, SaveAccess, At
<1> QED
  BY <1>5, <1>6, <1>7 DEF SaveAccess, SaveStatus, Proceed

LEMMA EndStep == ASSUME EditorInv, SaveFails \/ Saved PROVE EditorInv'
<1>1. /\ UNCHANGED <<callerVars, cached, listed, serverVars>> /\ saving' = Empty
      /\ (half' = TRUE /\ dialog' = dialog) \/ dialog' = Empty
  BY DEF callerVars, SaveFails, Saved, Unread
<1>2. EditorTypes'
  BY <1>1 DEF callerVars, EditorInv, EditorTypes, serverVars
<1> QED
  BY <1>1, <1>2, StopStep DEF callerVars, EditorInv, RosterInv, serverVars

LEMMA OthersStep == ASSUME EditorInv, Others PROVE EditorInv'
<1>1. UNCHANGED <<kind, manages, wide, exists, cached, listed, dialog, saving, half>>
  BY DEF Others, callerVars
<1>2. ChosenGrants' = ChosenGrants
  BY <1>1 DEF ChosenGrants, GrantsSent, RoleMoved, GrantsDiffer, Detached
<1>3. CASE \E partner \in Partners : OthersAssign(partner)
  <2>1. /\ roster' \in SUBSET Partners /\ seat' = seat /\ barred' = barred /\ exists
        /\ stale' = stale \cup {"roster"}
    BY <1>3 DEF OthersAssign, EditorInv, EditorTypes
  <2>2. EditorTypes'
    BY <1>1, <2>1 DEF EditorInv, EditorTypes
  <2> QED
    BY <1>1, <1>2, <2>1, <2>2 DEF EditorInv, RosterInv, SeatInv, At
<1>4. CASE OthersSetSeat
  <2>1. seat' \in Seats
    <3>1. SeatRoles \subseteq Roles /\ SeatStatuses \subseteq Statuses
      BY DEF SeatRoles, SeatStatuses, Roles, Statuses
    <3>2. seat \in Seats
      BY DEF EditorInv, EditorTypes
    <3>3. CASE \E status \in SeatStatuses : seat' = [seat EXCEPT !.status = status]
      BY <3>1, <3>2, <3>3, SeatMoves
    <3>4. CASE \E role \in SeatRoles, grants \in PermissionStates :
                 seat' = [seat EXCEPT !.role = role, !.grants = grants]
      <4>1. PICK role \in SeatRoles, grants \in PermissionStates :
                   seat' = [seat EXCEPT !.role = role, !.grants = grants]
        BY <3>4
      <4>2. role \in Roles
        BY <3>1
      <4> QED
        BY <3>2, <4>1, <4>2, SeatMoves
    <3> QED
      BY <1>4, <3>3, <3>4 DEF OthersSetSeat
  <2>2. UNCHANGED <<roster, barred>> /\ stale' = stale \cup {"seat"}
    BY <1>4 DEF OthersSetSeat
  <2>3. EditorTypes'
    BY <1>1, <2>1, <2>2 DEF EditorInv, EditorTypes
  <2> QED
    BY <1>1, <2>2, <2>3, SameForm DEF EditorInv, RosterInv, SeatInv, Heading, At
<1>5. CASE \E partner \in Partners : OthersSetPartner(partner)
  <2>1. /\ UNCHANGED <<roster, seat>> /\ barred' \in SUBSET Partners
        /\ stale' = IF kind = "creator" THEN stale \cup {"roster"} ELSE stale
    BY <1>5 DEF OthersSetPartner, EditorInv, EditorTypes
  <2>2. EditorTypes'
    BY <1>1, <2>1 DEF EditorInv, EditorTypes
  <2>3. RosterInv'
    BY <1>1, <2>1 DEF EditorInv, RosterInv, RosterChosen, Heading, Hidden, At
  <2>4. SeatInv'
    BY <1>1, <1>2, <2>1 DEF EditorInv, SeatInv, At
  <2> QED
    BY <2>2, <2>3, <2>4 DEF EditorInv
<1> QED
  BY <1>3, <1>4, <1>5 DEF Others

LEMMA EditorInvStep == EditorInv /\ [EditorNext]_editorVars => EditorInv'
<1> SUFFICES ASSUME EditorInv, [EditorNext]_editorVars PROVE EditorInv'
  OBVIOUS
<1>1. CASE UNCHANGED editorVars
  <2>1. /\ UNCHANGED <<kind, manages, wide, exists, roster, seat, barred, cached, listed>>
        /\ UNCHANGED <<dialog, saving, half, stale>>
    BY <1>1 DEF editorVars, callerVars, serverVars, historyVars
  <2>2. EditorTypes'
    BY <2>1 DEF EditorInv, EditorTypes
  <2> QED
    BY <2>1, <2>2, SameForm DEF EditorInv, RosterInv, SeatInv, Heading, At
<1> QED
  BY <1>1, FetchedStep, FormStep, SubmitStep, CreateStep, TermsStep, ReadStep, AssignStep, AssignedStep,
     AccessStep, EndStep, OthersStep
     DEF EditorNext

LEMMA EditorInvAlways == EditorSpec => []EditorInv
  BY EditorInvStart, EditorInvStep, PTL DEF EditorSpec

(* A dialog that reports success has assigned what its form picked and nothing  *)
(* else its caller could see, for any partners, any number of failed attempts   *)
(* and of other clients' writes, unless the roster changed since the save       *)
(* compared it or differed from the list a salesperson's was compared with.     *)
THEOREM RosterHolds == EditorSpec => []RosterAsChosen
<1>1. EditorInv => RosterAsChosen
  BY DEF EditorInv, RosterInv, RosterChosen, Hidden, RosterAsChosen, At
<1> QED
  BY <1>1, EditorInvAlways, PTL

(* ... and, at the first attempt, the type, status and permissions of its form, *)
(* but for a removed seat and an admin whose permissions are not sent, for any  *)
(* lists of permissions, custom roles and defaults.                             *)
THEOREM SeatHolds == EditorSpec => []SeatAsChosen
<1>1. EditorInv => SeatAsChosen
  BY DEF EditorInv, EditorTypes, SeatInv, ChosenGrants, SeatAsChosen, At
<1> QED
  BY <1>1, EditorInvAlways, PTL

-----------------------------------------------------------------------------
(* Each part of Console behaves as if it were alone, so what is proved of a    *)
(* part holds in the composition.                                             *)
THEOREM PartsStandAlone == Spec => CacheSpec /\ ActSpec /\ EditorSpec
<1>1. Init => CacheInit /\ ActInit /\ EditorInit
  BY DEF Init
<1>2. [Next]_vars => [CacheNext]_cacheVars
  BY DEF Next, vars
<1>3. [Next]_vars => [ActNext]_actVars
  BY DEF Next, vars
<1>4. [Next]_vars => [EditorNext]_editorVars
  BY DEF Next, vars
<1> QED
  BY <1>1, <1>2, <1>3, <1>4, PTL DEF Spec, CacheSpec, ActSpec, EditorSpec
=============================================================================
