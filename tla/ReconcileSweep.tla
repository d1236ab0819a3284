--------------------------- MODULE ReconcileSweep ---------------------------
(***************************************************************************)
(* The reconciler of one workspace (services/links.service.js), the safety *)
(* net for a webhook that never arrived: one transaction asks the provider *)
(* about every active link, then about a batch of closed ones, oldest      *)
(* check first, and holds the rows it updates until the last answer.  It   *)
(* runs on a timer, beside webhooks, cancellations and restarts; a run on  *)
(* demand is the same transaction, and overlapping runs are left out.      *)
(* Single-use links older than the grace period and younger than 45 days,  *)
(* one attempt each; what an outcome posts is PaymentLedger's.             *)
(***************************************************************************)
EXTENDS Naturals, FiniteSets

CONSTANTS
  Links,
  Batch,     \* LATE_APPROVAL_BATCH
  Disagree,  \* links whose settled answer names another amount
  MaxStops,  \* bound: restarts
  None

ASSUME ReconcileSweepAssumption ==
  /\ Batch \in Nat \ {0} /\ Disagree \subseteq Links /\ MaxStops \in Nat
  /\ None \notin Links

VARIABLES
  row,      \* payment_links and its payment: [status, paid, check]
  timeline, \* links with an 'expired' event
  archived, \* links an operator took away
  answer,   \* what the provider says: "open" (asked, it names a new attempt), "declined", "approved"
  overdue,  \* links past expires_at
  run,      \* None, or the transaction: [pass, todo, expired, asked, said, draft, events]
  stops     \* restarts so far

linkVars == <<row, timeline>>
vars == <<linkVars, archived, answer, overdue, run, stops>>

Settled == {"approved", "declined"}
Closed == {"expired", "cancelled"}

\* check is late_check_at in the order of commits, 0 for NULL and for paid links.
Init ==
  /\ row \in [Links -> {[status |-> s, paid |-> FALSE, check |-> 0] : s \in {"active", "cancelled"}}]
  /\ timeline = {}
  /\ archived = {}
  /\ answer = [l \in Links |-> "open"]
  /\ overdue = {}
  /\ run = None
  /\ stops = 0

-----------------------------------------------------------------------------
(* The transaction: its drafts are the rows it holds *)

Held == IF run = None THEN {} ELSE DOMAIN run.draft
View(l) == IF l \in Held THEN run.draft[l] ELSE row[l]

Fresh == Cardinality(Links) + 1

\* Checks renumbered: equal stay equal, older stay smaller.
Ranked(rows) ==
  LET stamps == {rows[l].check : l \in Links} \cup {0}
  IN [l \in Links |-> [rows[l] EXCEPT !.check = Cardinality({s \in stamps : s < rows[l].check})]]

Asking == run # None /\ run.asked # None
Idle(pass) == run # None /\ run.pass = pass /\ run.asked = None /\ run.todo = {}

\* The active links, and which of them had expired, as the run starts.
Begin ==
  /\ run = None
  /\ LET stuck == {l \in Links \ archived : row[l].status = "active"}
     IN run' = [pass |-> "open", todo |-> stuck, expired |-> stuck \cap overdue,
                asked |-> None, said |-> None, draft |-> <<>>, events |-> {}]
  /\ UNCHANGED <<linkVars, archived, answer, overdue, stops>>

\* getPaymentStatus: the answer is acted on later.
Asked(l, said) ==
  /\ run # None /\ run.asked = None /\ l \in run.todo
  /\ run' = [run EXCEPT !.todo = @ \ {l}, !.asked = l, !.said = said]
  /\ UNCHANGED <<linkVars, archived, answer, overdue, stops>>

AskAnswered(l) == Asked(l, answer[l])
AskFails(l) == Asked(l, "error")

\* The run goes on to its next question.
Skips == run' = [run EXCEPT !.asked = None, !.said = None]
Writes(l, new, events) ==
  run' = [run EXCEPT !.asked = None, !.said = None, !.events = @ \cup events,
    !.draft = [x \in Held \cup {l} |-> IF x = l THEN new ELSE run.draft[x]]]

\* recordPaymentOutcome: a paid single-use link waits for its details.
Recorded(old) ==
  IF run.said = "approved"
  THEN [old EXCEPT !.paid = TRUE, !.status = "pending", !.check = 0]
  ELSE old

\* Mutant: UPDATE ... SET status='expired' without its guard.
WrittenOffAny(old) == [old EXCEPT !.status = "expired"]

\* UPDATE ... SET status='expired' WHERE status='active'
WrittenOff(old) == IF old.status = "active" THEN [old EXCEPT !.status = "expired"] ELSE old

Disagrees == run.asked \in Disagree /\ run.said \in Settled

\* Every answer updates its link, an approval apart an expired one is written off
\* and its timeline says so.
HandleOpen ==
  /\ Asking /\ run.pass = "open"
  /\ LET l == run.asked
     IN \/ run.said = "error" /\ Skips
        \/ /\ run.said # "error" /\ ~Disagrees
           /\ IF run.said # "approved" /\ l \in run.expired
              THEN Writes(l, WrittenOff(Recorded(View(l))), {l})
              ELSE Writes(l, Recorded(View(l)), {})
  /\ UNCHANGED <<linkVars, archived, answer, overdue, stops>>

\* Mutant: the batch without ORDER BY.
InTurnAny(due, batch) == TRUE

\* ORDER BY late_check_at NULLS FIRST
InTurn(due, batch) ==
  \A l \in batch, other \in due \ batch : View(l).check <= View(other).check

\* sweepLateApprovals: stamped before the polling.
BeginLate ==
  /\ Idle("open")
  /\ LET due == {l \in Links \ archived : View(l).status \in Closed /\ ~View(l).paid}
         size == IF Cardinality(due) < Batch THEN Cardinality(due) ELSE Batch
     IN \E batch \in {b \in SUBSET due : Cardinality(b) = size} :
          /\ InTurn(due, batch)
          /\ run' = [run EXCEPT !.pass = "late", !.todo = batch,
               !.draft = [l \in Held \cup batch |->
                            IF l \in batch THEN [View(l) EXCEPT !.check = Fresh] ELSE run.draft[l]]]
  /\ UNCHANGED <<linkVars, archived, answer, overdue, stops>>

\* Only an approval is acted on.
HandleLate ==
  /\ Asking /\ run.pass = "late"
  /\ \/ run.said # "approved" /\ Skips
     \/ run.said = "approved" /\ ~Disagrees /\ Writes(run.asked, Recorded(View(run.asked)), {})
  /\ UNCHANGED <<linkVars, archived, answer, overdue, stops>>

Commit ==
  /\ Idle("late")
  /\ row' = Ranked([l \in Links |-> View(l)])
  /\ timeline' = timeline \cup run.events
  /\ run' = None
  /\ UNCHANGED <<archived, answer, overdue, stops>>

\* validateProviderMoney throws: the whole run rolls back, its stamps too.
Throws ==
  /\ Asking /\ Disagrees
  /\ run.pass = "open" \/ run.said = "approved"
  /\ run' = None
  /\ UNCHANGED <<linkVars, archived, answer, overdue, stops>>

\* The process or the database stops.
Restart ==
  /\ stops < MaxStops /\ run # None
  /\ stops' = stops + 1
  /\ run' = None
  /\ UNCHANGED <<linkVars, archived, answer, overdue>>

-----------------------------------------------------------------------------
(* Around it *)

\* The provider approves an order days after it closed, a declined one too.
Settle(l, said) ==
  /\ answer[l] # "approved" /\ said # answer[l]
  /\ answer' = [answer EXCEPT ![l] = said]
  /\ UNCHANGED <<linkVars, archived, overdue, run, stops>>

PassDeadline(l) ==
  /\ l \notin overdue
  /\ overdue' = overdue \cup {l}
  /\ UNCHANGED <<linkVars, archived, answer, run, stops>>

\* The webhook of an approval; it waits for a run that holds the link.
Webhook(l) ==
  /\ answer[l] = "approved" /\ l \notin Disagree /\ ~row[l].paid /\ l \notin Held
  /\ row' = Ranked([row EXCEPT ![l] = [status |-> "pending", paid |-> TRUE, check |-> 0]])
  /\ UNCHANGED <<timeline, archived, answer, overdue, run, stops>>

\* POST /links/:id/cancel
Cancel(l) ==
  /\ row[l].status = "active" /\ l \notin Held
  /\ row' = [row EXCEPT ![l].status = "cancelled"]
  /\ UNCHANGED <<timeline, archived, answer, overdue, run, stops>>

\* POST /links/:id/archive and /reactivate, used on a link that stops the runs.
Archive(l) ==
  /\ l \in Disagree /\ l \notin Held
  /\ archived' = IF l \in archived THEN archived \ {l} ELSE archived \cup {l}
  /\ UNCHANGED <<linkVars, answer, overdue, run, stops>>

Works ==
  \/ HandleOpen \/ BeginLate \/ HandleLate \/ Commit \/ Throws
  \/ \E l \in Links : AskAnswered(l) \/ AskFails(l)

Next ==
  \/ Begin \/ Works \/ Restart
  \/ \E l \in Links : PassDeadline(l) \/ Webhook(l) \/ Cancel(l) \/ Archive(l) \/ \E said \in Settled : Settle(l, said)

Spec == Init /\ [][Next]_vars

\* The timer keeps starting runs and a started run goes on; the provider answers
\* a question asked again and again.
FairSpec ==
  /\ Spec
  /\ WF_vars(Begin) /\ WF_vars(Works)
  /\ \A l \in Links : SF_vars(AskAnswered(l))

-----------------------------------------------------------------------------
(* A link the provider approved is eventually paid here, though its        *)
(* webhook never arrives, calls fail and the server restarts, however long *)
(* after the link closed: the batch rotates.  A settled link whose amount  *)
(* disagrees must first be archived for good.                              *)
ApprovalIsFound ==
  (\A d \in Disagree : <>[](d \in archived \/ answer[d] = "open"))
    => \A l \in Links \ Disagree : answer[l] = "approved" ~> row[l].paid

\* The same without that condition: one bad link holds up no other.
OthersAreFound == \A l \in Links \ Disagree : answer[l] = "approved" ~> row[l].paid

\* A run that read "declined" or an expiry before a payment landed does not
\* write the link off: money keeps its link in every commit.
PaidIsNotWrittenOff == \A l \in Links : row[l].paid => row[l].status = "pending"

\* The timeline gains an expiry only with a link that expired.
ExpiryIsTrue ==
  [][\A l \in timeline' \ timeline : row'[l].status = "expired"]_vars
=============================================================================
