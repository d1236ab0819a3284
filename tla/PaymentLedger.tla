--------------------------- MODULE PaymentLedger ---------------------------
(***************************************************************************)
(* Payment links, the payment attempts MantaPay reports on them and the    *)
(* ledger entries those attempts post: services/payments.service.js, the   *)
(* reconciler of services/links.service.js and the console routes that     *)
(* change the same rows.                                                   *)
(*                                                                         *)
(* One action is one committed database transaction, or the part of one    *)
(* that runs under the row lock of a link.  recordPaymentOutcome locks the *)
(* link first, so two outcomes of one order never interleave.  What is NOT *)
(* under a lock is a separate step: the reconciler's list of links, and    *)
(* the reads a console request makes before its writes.  A transaction     *)
(* that rolls back is a behaviour in which its actions did not occur.      *)
(***************************************************************************)
EXTENDS Naturals, FiniteSets

CONSTANTS
  Links,        \* payment links
  SingleUse,    \* the links of type 'single_use'; the others are 'reusable'
  Attempts,     \* provider transaction ids
  LinkOf,       \* the link whose reference a provider transaction echoes
  Creators,     \* accounts a link, a payment or a ledger entry belongs to
  None,         \* "no row yet"
  MaxRequests,  \* bound: console requests between their read and their write
  ReserveOn,    \* values of workspaces.rolling_reserve_enabled met by a sale
  NotifyOk      \* whether the notification SAVEPOINT may be released

ASSUME LedgerAssumption ==
  /\ SingleUse \subseteq Links
  /\ LinkOf \in [Attempts -> Links]
  /\ None \notin Creators
  /\ ReserveOn \subseteq BOOLEAN
  /\ NotifyOk \subseteq BOOLEAN

VARIABLES
  linkStatus,    \* payment_links.status ("absent" before, "deleted" after)
  overdue,       \* expires_at < now()
  linkArchived,  \* payment_links.archived_at is set
  linkOwner,     \* payment_links.account_id
  timeline,      \* link-level rows of payment_link_events
  payStatus,     \* payments.status
  review,        \* payments.review_reason is set
  payArchived,   \* payments.archived_at is set
  payOwner,      \* payments.account_id
  completed,     \* payments with their details (category) filled in
  txStatus,      \* transactions.status of the row of type 'payment'
  seen,          \* provider_<status> rows of payment_link_events
  saleOf,        \* account_id of the sale entry, None before it is posted
  reversalOf,    \* account_id of the refund or chargeback entry
  reserve,       \* rolling_reserve_entries of the sale
  notices,       \* notifications, by their event key
  polling,       \* what a reconcile run that holds the link read about it
  inflight       \* console requests between their read and their write

linkVars == <<linkStatus, overdue, linkArchived, linkOwner, timeline>>
payVars == <<payStatus, review, payArchived, payOwner, completed>>
ledgerVars == <<txStatus, seen, saleOf, reversalOf, reserve, notices>>
vars == <<linkVars, payVars, ledgerVars, polling, inflight>>

Settled == {"approved", "declined"}
Observed == Settled \cup {"pending"}
Reopenable == {"active", "expired", "cancelled"}

Requests ==
  [op: {"details"}, id: Attempts]
    \cup [op: {"movePayment"}, id: Attempts, to: Creators]
    \cup [op: {"moveLink"}, id: Links, to: Creators]

TypeOK ==
  /\ linkStatus \in [Links -> {"absent", "active", "pending", "done", "expired",
                               "cancelled", "refunded", "deleted"}]
  /\ overdue \in [Links -> BOOLEAN]
  /\ linkArchived \in [Links -> BOOLEAN]
  /\ linkOwner \in [Links -> Creators]
  /\ timeline \in [Links -> SUBSET {"created", "cancelled", "expired"}]
  /\ payStatus \in [Attempts -> {"absent", "pending", "paid", "failed",
                                 "refunded", "superseded"}]
  /\ review \in [Attempts -> BOOLEAN]
  /\ payArchived \in [Attempts -> BOOLEAN]
  /\ payOwner \in [Attempts -> Creators \cup {None}]
  /\ completed \subseteq Attempts
  /\ txStatus \in [Attempts -> {"absent"} \cup Observed]
  /\ seen \in [Attempts -> SUBSET Observed]
  /\ saleOf \in [Attempts -> Creators \cup {None}]
  /\ reversalOf \in [Attempts -> Creators \cup {None}]
  /\ reserve \in [Attempts -> {"none", "held", "reversed"}]
  /\ notices \subseteq {"paid", "failed", "reversed"} \X Attempts
  /\ polling \in [Links -> {"no", "open", "overdue", "closed"}]
  /\ inflight \subseteq Requests

Init ==
  /\ linkStatus = [l \in Links |-> "absent"]
  /\ overdue = [l \in Links |-> FALSE]
  /\ linkArchived = [l \in Links |-> FALSE]
  /\ linkOwner \in [Links -> Creators]
  /\ timeline = [l \in Links |-> {}]
  /\ payStatus = [a \in Attempts |-> "absent"]
  /\ review = [a \in Attempts |-> FALSE]
  /\ payArchived = [a \in Attempts |-> FALSE]
  /\ payOwner = [a \in Attempts |-> None]
  /\ completed = {}
  /\ txStatus = [a \in Attempts |-> "absent"]
  /\ seen = [a \in Attempts |-> {}]
  /\ saleOf = [a \in Attempts |-> None]
  /\ reversalOf = [a \in Attempts |-> None]
  /\ reserve = [a \in Attempts |-> "none"]
  /\ notices = {}
  /\ polling = [l \in Links |-> "no"]
  /\ inflight = {}

-----------------------------------------------------------------------------
(* recordPaymentOutcome: the merges of the two upserts, the one-winner      *)
(* check, and what a won order does to its link and to its other attempts.  *)

OnLink(l) == {a \in Attempts : LinkOf[a] = l}
Recorded(a) == payStatus[a] # "absent"
Live(a) == Recorded(a) /\ ~payArchived[a]
Exists(l) == linkStatus[l] \notin {"absent", "deleted"}

PaymentStatus(st) ==
  CASE st = "approved" -> "paid"
    [] st = "declined" -> "failed"
    [] OTHER -> "pending"

\* Mutant: a repeated approval turns a refunded payment back to paid.
MergePaymentUnrefunds(old, new) ==
  CASE old = "paid" \/ new = "paid" -> "paid"
    [] old = "failed" /\ new # "paid" -> "failed"
    [] OTHER -> new

\* ON CONFLICT (workspace_id, provider_payment_id) DO UPDATE SET status
MergePayment(old, new) ==
  CASE old = "refunded" -> "refunded"
    [] old # "refunded" /\ (old = "paid" \/ new = "paid") -> "paid"
    [] old = "failed" /\ new # "paid" -> "failed"
    [] OTHER -> new

\* Mutant: the last observation wins.
MergeTransactionLast(old, new) == new

\* ON CONFLICT (workspace_id, provider_transaction_id) DO UPDATE SET status
MergeTransaction(old, new) ==
  CASE old = "approved" \/ new = "approved" -> "approved"
    [] old = "declined" /\ new # "approved" -> "declined"
    [] OTHER -> new

\* Mutant: a refunded sale no longer counts as the winner.
WinnersUnreversed(l) ==
  {w \in OnLink(l) : saleOf[w] # None /\ ~payArchived[w] /\ reversalOf[w] = None}

\* The payments the winner query may return; it takes one of them (LIMIT 1).
Winners(l) == {w \in OnLink(l) : saleOf[w] # None /\ ~payArchived[w]}

\* Whether this observation of a flags it as a duplicate charge.
Flags(a, st) ==
  IF st = "approved" /\ LinkOf[a] \in SingleUse /\ Winners(LinkOf[a]) # {}
    THEN {w # a : w \in Winners(LinkOf[a])}
    ELSE {FALSE}

\* Mutant: the link type is not checked.
ClaimAnyLink(l, won) ==
  IF won /\ linkStatus[l] \in Reopenable THEN "pending" ELSE linkStatus[l]

\* A paid, unflagged payment closes its single-use link, whatever closed it before.
ClaimLink(l, won) ==
  IF won /\ l \in SingleUse /\ linkStatus[l] \in Reopenable
    THEN "pending" ELSE linkStatus[l]

\* ... and beats the other attempts on it.
Beaten(b, a, won) ==
  /\ won /\ LinkOf[a] \in SingleUse
  /\ b # a /\ LinkOf[b] = LinkOf[a]
  /\ payStatus[b] \in {"pending", "failed"} /\ ~payArchived[b]

\* Mutant: the sale is posted only when the payment row is new.
PostsOnInsert(a, tx, flagged) == tx = "approved" /\ ~flagged /\ ~Recorded(a)

\* The sale is posted once the transaction is approved, unless it is flagged.
Posts(a, tx, flagged) == tx = "approved" /\ ~flagged /\ saleOf[a] = None

\* Mutant: the notice follows the observation and not the merged rows.
AnnouncesObserved(a, st, pay, tx) ==
  CASE st = "approved" -> {<<"paid", a>>}
    [] st = "declined" -> {<<"failed", a>>}
    [] OTHER -> {}

\* payment.paid / payment.failed, when the rows agree with the observation.
Announces(a, st, pay, tx) ==
  IF st = "approved" /\ pay = "paid" /\ tx = "approved" THEN {<<"paid", a>>}
  ELSE IF st = "declined" /\ pay = "failed" /\ tx = "declined" THEN {<<"failed", a>>}
  ELSE {}

\* The writes of the service call, given whether the observation is flagged, the
\* reserve setting it meets and whether its notice is kept.  expire: the
\* reconciler's guarded UPDATE to 'expired' and its link event follow in the same
\* transaction.
Outcome(a, st, expire, flag, on, ok) ==
  LET l == LinkOf[a]
      pay == MergePayment(payStatus[a], PaymentStatus(st))
      tx == MergeTransaction(txStatus[a], st)
      flagged == review[a] \/ flag
      won == pay = "paid" /\ ~flagged
      posts == Posts(a, tx, flagged)
      claimed == ClaimLink(l, won)
  IN
  /\ review' = [review EXCEPT ![a] = flagged]
  /\ payStatus' = [b \in Attempts |->
                     IF b = a THEN pay
                     ELSE IF Beaten(b, a, won) THEN "superseded" ELSE payStatus[b]]
  /\ payOwner' = [payOwner EXCEPT ![a] = IF Recorded(a) THEN @ ELSE linkOwner[l]]
  /\ txStatus' = [txStatus EXCEPT ![a] = tx]
  /\ seen' = [seen EXCEPT ![a] = @ \cup {st}]
  /\ linkStatus' = [linkStatus EXCEPT ![l] =
                      IF expire /\ claimed = "active" THEN "expired" ELSE claimed]
  /\ timeline' = [timeline EXCEPT ![l] = IF expire THEN @ \cup {"expired"} ELSE @]
  /\ saleOf' = [saleOf EXCEPT ![a] = IF posts THEN payOwner'[a] ELSE @]
  /\ reserve' = [reserve EXCEPT ![a] = IF posts /\ on THEN "held" ELSE @]
  /\ notices' = IF ok THEN notices \cup Announces(a, st, pay, tx) ELSE notices
  /\ UNCHANGED <<overdue, linkArchived, linkOwner, payArchived, completed, reversalOf, inflight>>

\* recordPaymentOutcome: no link with this reference, no change.
RecordOutcome(a, st, expire) ==
  /\ Exists(LinkOf[a])
  /\ \E flag \in Flags(a, st), on \in ReserveOn, ok \in NotifyOk :
       Outcome(a, st, expire, flag, on, ok)

\* A signed provider notification: any order, any number of times.
Webhook(a, st) ==
  /\ RecordOutcome(a, st, FALSE)
  /\ UNCHANGED polling

-----------------------------------------------------------------------------
(* The reconciler.  A run lists the open links once and the closed ones     *)
(* once, then asks the provider about each: what it listed may be stale.    *)

ListOpen(l) ==
  /\ linkStatus[l] = "active" /\ ~linkArchived[l] /\ polling[l] = "no"
  /\ polling' = [polling EXCEPT ![l] = IF overdue[l] THEN "overdue" ELSE "open"]
  /\ UNCHANGED <<linkVars, payVars, ledgerVars, inflight>>

ListClosed(l) ==
  /\ l \in SingleUse /\ linkStatus[l] \in {"expired", "cancelled"} /\ ~linkArchived[l]
  /\ ~ \E a \in OnLink(l) : payStatus[a] \in {"paid", "refunded"} /\ ~payArchived[a]
  /\ polling[l] = "no"
  /\ polling' = [polling EXCEPT ![l] = "closed"]
  /\ UNCHANGED <<linkVars, payVars, ledgerVars, inflight>>

Polled(l) == polling' = [polling EXCEPT ![l] = "no"]

\* A provider error, an answer that changes nothing, or a run that rolled back.
PollSkipped(l) ==
  /\ polling[l] # "no"
  /\ Polled(l)
  /\ UNCHANGED <<linkVars, payVars, ledgerVars, inflight>>

\* A single-use link the provider has settled.
PollSettled(a, st) ==
  /\ LinkOf[a] \in SingleUse /\ polling[LinkOf[a]] \in {"open", "overdue"}
  /\ RecordOutcome(a, st, st = "declined" /\ polling[LinkOf[a]] = "overdue")
  /\ Polled(LinkOf[a])

\* Mutant: the UPDATE does not require the link to be active still.
WriteOffAlways(l) == "expired"

\* The UPDATE that writes a link off still requires it to be active.
WriteOff(l) == IF linkStatus[l] = "active" THEN "expired" ELSE linkStatus[l]

\* A single-use link with no settled attempt, past its deadline.
PollExpired(l) ==
  /\ l \in SingleUse /\ polling[l] = "overdue" /\ Exists(l)
  /\ linkStatus' = [linkStatus EXCEPT ![l] = WriteOff(l)]
  /\ timeline' = [timeline EXCEPT ![l] = @ \cup {"expired"}]
  /\ Polled(l)
  /\ UNCHANGED <<overdue, linkArchived, linkOwner, payVars, ledgerVars, inflight>>

\* A reusable link: each settled transaction of the answer in turn.
PollReusable(a, st) ==
  /\ LinkOf[a] \notin SingleUse /\ polling[LinkOf[a]] = "open"
  /\ RecordOutcome(a, st, FALSE)
  /\ UNCHANGED polling

\* The late-approval sweep believes only an approval.
PollLate(a) ==
  /\ polling[LinkOf[a]] = "closed"
  /\ RecordOutcome(a, "approved", FALSE)
  /\ Polled(LinkOf[a])

-----------------------------------------------------------------------------
(* Refund and chargeback: recordPaymentReversal.  The kind only changes a   *)
(* fee and some wording.                                                    *)

\* The request gets past the notFound, noSale and already answers.
Reversible(a) ==
  Live(a) /\ txStatus[a] = "approved" /\ reversalOf[a] = None

\* fn_post_reversal raises when there is no sale entry to mirror.
Reverse(a) ==
  LET l == LinkOf[a] IN
  /\ Reversible(a) /\ saleOf[a] # None
  /\ reversalOf' = [reversalOf EXCEPT ![a] = saleOf[a]]
  /\ reserve' = [reserve EXCEPT ![a] = IF @ = "held" THEN "reversed" ELSE @]
  /\ payStatus' = [payStatus EXCEPT ![a] = "refunded"]
  /\ linkStatus' = [linkStatus EXCEPT ![l] = IF l \in SingleUse THEN "refunded" ELSE @]
  /\ \E ok \in NotifyOk :
       notices' = IF ok THEN notices \cup {<<"reversed", a>>} ELSE notices
  /\ UNCHANGED <<overdue, linkArchived, linkOwner, timeline, review, payArchived, payOwner,
                 completed, txStatus, seen, saleOf, polling, inflight>>

-----------------------------------------------------------------------------
(* The console: links, the archive, and the requests that read first and    *)
(* write later without a lock in between.                                   *)

CreateLink(l) ==
  /\ linkStatus[l] = "absent"
  /\ linkStatus' = [linkStatus EXCEPT ![l] = "active"]
  /\ timeline' = [timeline EXCEPT ![l] = {"created"}]
  /\ UNCHANGED <<overdue, linkArchived, linkOwner, payVars, ledgerVars, polling, inflight>>

\* Only a single-use link has a deadline.
DeadlinePasses(l) ==
  /\ l \in SingleUse /\ Exists(l) /\ ~overdue[l]
  /\ overdue' = [overdue EXCEPT ![l] = TRUE]
  /\ UNCHANGED <<linkStatus, linkArchived, linkOwner, timeline, payVars, ledgerVars,
                 polling, inflight>>

CancelLink(l) ==
  /\ linkStatus[l] = "active"
  /\ linkStatus' = [linkStatus EXCEPT ![l] = "cancelled"]
  /\ timeline' = [timeline EXCEPT ![l] = @ \cup {"cancelled"}]
  /\ UNCHANGED <<overdue, linkArchived, linkOwner, payVars, ledgerVars, polling, inflight>>

DeleteLink(l) ==
  /\ linkStatus[l] = "cancelled"
  /\ \A a \in OnLink(l) : ~Recorded(a)
  /\ linkStatus' = [linkStatus EXCEPT ![l] = "deleted"]
  /\ timeline' = [timeline EXCEPT ![l] = {}]
  /\ UNCHANGED <<overdue, linkArchived, linkOwner, payVars, ledgerVars, polling, inflight>>

ArchiveLink(l) ==
  /\ Exists(l)
  /\ linkArchived' = [linkArchived EXCEPT ![l] = ~@]
  /\ UNCHANGED <<linkStatus, overdue, linkOwner, timeline, payVars, ledgerVars,
                 polling, inflight>>

\* Archive, and reactivate or restore: the ledger is left as it is.
ArchivePayment(a) ==
  /\ Recorded(a)
  /\ payArchived' = [payArchived EXCEPT ![a] = ~@]
  /\ UNCHANGED <<linkVars, payStatus, review, payOwner, completed, ledgerVars,
                 polling, inflight>>

Begin(r) ==
  /\ Cardinality(inflight) < MaxRequests
  /\ inflight' = inflight \cup {r}
  /\ UNCHANGED <<linkVars, payVars, ledgerVars, polling>>

End(r) == r \in inflight /\ inflight' = inflight \ {r}

\* The request fails, or the process stops, before its writes commit.
Abandon(r) ==
  /\ End(r)
  /\ UNCHANGED <<linkVars, payVars, ledgerVars, polling>>

DetailsReq(a) == [op |-> "details", id |-> a]
MovePaymentReq(a, c) == [op |-> "movePayment", id |-> a, to |-> c]
MoveLinkReq(l, c) == [op |-> "moveLink", id |-> l, to |-> c]

BeginDetails(a) ==
  /\ Live(a) /\ payStatus[a] = "paid" /\ ~review[a]
  /\ Begin(DetailsReq(a))

\* Mutant: the link is finished whatever its status has become.
FinishAlways(l) == IF l \in SingleUse THEN "done" ELSE linkStatus[l]

\* The write finishes the link only if it is still waiting for its details.
Finish(l) == IF l \in SingleUse /\ linkStatus[l] = "pending" THEN "done" ELSE linkStatus[l]

CompleteDetails(a) ==
  /\ End(DetailsReq(a))
  /\ completed' = completed \cup {a}
  /\ linkStatus' = [linkStatus EXCEPT ![LinkOf[a]] = Finish(LinkOf[a])]
  /\ UNCHANGED <<overdue, linkArchived, linkOwner, timeline, payStatus, review, payArchived,
                 payOwner, ledgerVars, polling>>

\* Mutant: every sale is deleted, only those of paid payments are posted again.
RepostPaid(moved, c) ==
  saleOf' = [a \in Attempts |->
               IF a \in moved /\ txStatus[a] = "approved"
               THEN IF payStatus[a] = "paid" THEN c ELSE None
               ELSE saleOf[a]]

\* repostSales: delete and re-post the sale of every approved transaction.
Repost(moved, c) ==
  saleOf' = [a \in Attempts |->
               IF a \in moved /\ txStatus[a] = "approved" THEN c ELSE saleOf[a]]

Move(moved, c) ==
  /\ payOwner' = [a \in Attempts |-> IF a \in moved THEN c ELSE payOwner[a]]
  /\ Repost(moved, c)

\* The payments of an order that follow it to another creator.
Movable(l) == {a \in OnLink(l) : Live(a) /\ ~review[a]}

BeginMovePayment(a, c) ==
  /\ Live(a) /\ ~review[a] /\ payStatus[a] # "refunded"
  /\ Begin(MovePaymentReq(a, c))

MovePayment(a, c) ==
  LET l == LinkOf[a] IN
  /\ End(MovePaymentReq(a, c))
  /\ Move(IF l \in SingleUse THEN Movable(l) ELSE {a}, c)
  /\ linkOwner' = [linkOwner EXCEPT ![l] = IF l \in SingleUse THEN c ELSE @]
  /\ UNCHANGED <<linkStatus, overdue, linkArchived, timeline, payStatus, review, payArchived,
                 completed, txStatus, seen, reversalOf, reserve, notices, polling>>

BeginMoveLink(l, c) ==
  /\ Exists(l)
  /\ ~ \E a \in OnLink(l) : payStatus[a] = "refunded" /\ ~payArchived[a]
  /\ Begin(MoveLinkReq(l, c))

MoveLink(l, c) ==
  /\ End(MoveLinkReq(l, c))
  /\ Exists(l)
  /\ Move(Movable(l), c)
  /\ linkOwner' = [linkOwner EXCEPT ![l] = c]
  /\ UNCHANGED <<linkStatus, overdue, linkArchived, timeline, payStatus, review, payArchived,
                 completed, txStatus, seen, reversalOf, reserve, notices, polling>>

-----------------------------------------------------------------------------
ProviderNext ==
  \E a \in Attempts :
    \/ \E st \in Observed : Webhook(a, st)
    \/ \E st \in Settled : PollSettled(a, st) \/ PollReusable(a, st)
    \/ PollLate(a)
    \/ Reverse(a)

LinkNext ==
  \E l \in Links :
    \/ CreateLink(l) \/ DeadlinePasses(l) \/ CancelLink(l) \/ DeleteLink(l) \/ ArchiveLink(l)
    \/ ListOpen(l) \/ ListClosed(l) \/ PollSkipped(l) \/ PollExpired(l)

ConsoleNext ==
  \/ \E r \in inflight : Abandon(r)
  \/ \E a \in Attempts : BeginDetails(a) \/ CompleteDetails(a)
  \/ \E a \in Attempts, c \in Creators : BeginMovePayment(a, c) \/ MovePayment(a, c)
  \/ \E l \in Links, c \in Creators : BeginMoveLink(l, c) \/ MoveLink(l, c)

\* Everything but the archive of payments.
KeptNext == ProviderNext \/ LinkNext \/ ConsoleNext

Next == KeptNext \/ \E a \in Attempts : ArchivePayment(a)

Spec == Init /\ [][Next]_vars

\* An agency that archives no payment.
KeptSpec == Init /\ [][KeptNext]_vars

-----------------------------------------------------------------------------
(* Properties of every behaviour *)

(* The rows are a merge of the evidence and not of its order: whatever the    *)
(* order and repetition of webhooks and polls, a transaction is approved if   *)
(* an approval was ever observed, else declined if a decline was, and its     *)
(* payment is paid or refunded exactly when it is approved.                   *)
EvidenceMerge ==
  \A a \in Attempts :
    /\ txStatus[a] = IF "approved" \in seen[a] THEN "approved"
                     ELSE IF "declined" \in seen[a] THEN "declined"
                     ELSE IF "pending" \in seen[a] THEN "pending" ELSE "absent"
    /\ payStatus[a] \in {"paid", "refunded"} <=> "approved" \in seen[a]
    /\ payStatus[a] = "absent" <=> seen[a] = {}

(* Money that arrived closes its order: no webhook, late approval, cancel or  *)
(* stale reconcile run leaves a single-use link with an unflagged paid        *)
(* payment open, expired, cancelled or deleted.                               *)
PaidClosesLink ==
  \A a \in Attempts :
    LinkOf[a] \in SingleUse /\ payStatus[a] = "paid" /\ ~review[a] =>
      linkStatus[LinkOf[a]] \in {"pending", "done", "refunded"}

(* Approved money is in the ledger: an approved, unflagged transaction has    *)
(* its sale entry, even when its notification failed; and nothing but an      *)
(* approval puts one there.                                                   *)
ApprovedIsPosted ==
  \A a \in Attempts :
    /\ txStatus[a] = "approved" /\ ~review[a] => saleOf[a] # None
    /\ saleOf[a] # None => txStatus[a] = "approved"

(* A link that waits for details, or has them, holds a paid payment; a link   *)
(* that reads refunded holds a refunded one: a details request that read the  *)
(* payment before a refund does not turn the link back to done.               *)
LinkTellsPayment ==
  \A l \in Links :
    /\ linkStatus[l] \in {"pending", "done"} =>
         \E a \in OnLink(l) : payStatus[a] = "paid" /\ saleOf[a] # None
    /\ linkStatus[l] = "refunded" =>
         \E a \in OnLink(l) : payStatus[a] = "refunded"

(* A reversal mirrors a posted sale, is what makes a payment refunded, and    *)
(* leaves no reserve held for it; reserve is held for posted sales only.      *)
ReversalSettles ==
  \A a \in Attempts :
    /\ reversalOf[a] # None <=> payStatus[a] = "refunded"
    /\ reversalOf[a] # None => saleOf[a] # None /\ reserve[a] # "held"
    /\ reserve[a] # "none" => saleOf[a] # None

(* What the provider settled stays settled: a step never takes back a         *)
(* refund, an approval, a posted sale, a recorded reversal or a review flag.  *)
MoneySticks ==
  [][\A a \in Attempts :
       /\ payStatus[a] = "refunded" => payStatus'[a] = "refunded"
       /\ payStatus[a] = "paid" => payStatus'[a] \in {"paid", "refunded"}
       /\ txStatus[a] = "approved" => txStatus'[a] = "approved"
       /\ saleOf[a] # None => saleOf'[a] # None
       /\ reversalOf[a] # None => reversalOf'[a] = reversalOf[a]
       /\ review[a] => review'[a]]_vars

(* A late or repeated observation never announces a failure, or a success,    *)
(* for a charge whose money was already recorded: no payment.failed notice    *)
(* for an approved transaction, no payment.paid notice after the reversal.    *)
NoStaleNotice ==
  [][\A a \in Attempts :
       /\ txStatus[a] = "approved" /\ <<"failed", a>> \in notices' =>
            <<"failed", a>> \in notices
       /\ payStatus[a] = "refunded" /\ <<"paid", a>> \in notices' =>
            <<"paid", a>> \in notices]_vars

(* A reusable link takes any number of orders: no outcome on one of them      *)
(* closes the link, and none of its attempts is flagged or beaten.            *)
ReusableStaysOpen ==
  /\ \A l \in Links \ SingleUse : linkStatus[l] \in {"absent", "active", "cancelled", "deleted"}
  /\ \A a \in Attempts : LinkOf[a] \notin SingleUse =>
       ~review[a] /\ payStatus[a] # "superseded"

-----------------------------------------------------------------------------
(* Properties while no payment is archived (KeptSpec) *)

(* One winner: a single-use order has at most one sale entry, ever, whoever   *)
(* observed the approvals and in whatever order, and a charge flagged as a    *)
(* duplicate never has one.                                                   *)
OneSalePerOrder ==
  /\ \A a, b \in Attempts :
       LinkOf[a] = LinkOf[b] /\ LinkOf[a] \in SingleUse /\ saleOf[a] # None /\ saleOf[b] # None
         => a = b
  /\ \A a \in Attempts : review[a] => saleOf[a] = None

(* A duplicate charge is told from the sale: an approved attempt is either    *)
(* the order's sale or flagged while another attempt is.                      *)
DuplicateHasWinner ==
  \A a \in Attempts : review[a] =>
    /\ txStatus[a] = "approved"
    /\ \E b \in OnLink(LinkOf[a]) : b # a /\ saleOf[b] # None

-----------------------------------------------------------------------------
(* What the repository says and the code does not do: each has a              *)
(* counterexample.                                                            *)

(* payments.service.js:52-53: with the link locked, a second attempt of a     *)
(* single-use order "cannot post another sale".                               *)
SecondAttemptPostsNothing ==
  \A a, b \in Attempts :
    LinkOf[a] = LinkOf[b] /\ LinkOf[a] \in SingleUse /\ saleOf[a] # None /\ saleOf[b] # None
      => a = b

(* payments.service.js:256 tells the agency to refund a duplicate charge in   *)
(* MantaPay, and payments.routes.js:961-962 records "a refund issued in       *)
(* MantaPay's dashboard": a reversal that passes the service's own checks     *)
(* finds the sale entry it mirrors.                                           *)
RefundIsRecordable ==
  \A a \in Attempts : Reversible(a) => saleOf[a] # None

(* payments.routes.js:852-853: "A reversed sale cannot be moved: only its     *)
(* sale entry would be re-posted": a move that passes the route's checks      *)
(* finds no refunded payment among those it is about to re-post.              *)
ReversedOrderIsRefused ==
  [][\A a \in Attempts, c \in Creators :
       LinkOf[a] \in SingleUse /\ BeginMovePayment(a, c) =>
         \A b \in Movable(LinkOf[a]) : payStatus[b] # "refunded"]_vars

(* attribution.js:32-34: "A reversed sale is refused before this": a sale and *)
(* the refund that mirrors it belong to the same creator.                     *)
PairShareCreator ==
  \A a \in Attempts : reversalOf[a] # None => reversalOf[a] = saleOf[a]

=============================================================================
