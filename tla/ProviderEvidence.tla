-------------------------- MODULE ProviderEvidence --------------------------
(***************************************************************************)
(* What HigherPays keeps of what MantaPay said about one attempt of a      *)
(* single-use order: why it was declined, and what it cost.                *)
(*                                                                         *)
(* Four writers touch the same row without a lock of their own: the signed *)
(* notification and the status poll through the upsert of                  *)
(* services/payments.service.js, scripts/                                  *)
(* backfill-mantapay-decline-reasons.js, which reads every declined row,   *)
(* asks the provider and assigns its answer in a later transaction, and    *)
(* services/feeReconciliation.js, which replaces the estimated fee of a    *)
(* sale by the one the Search API reports while payments.routes.js may be  *)
(* posting the sale again.                                                 *)
(*                                                                         *)
(* A code and a description are abstracted to who supplied them, kept      *)
(* apart from the label the row carries, so that a label can be wrong.     *)
(***************************************************************************)
EXTENDS Naturals

CONSTANTS
  FeeRuns,    \* bound: fee reconciliations under way at once
  Fees,       \* fees the Search API may report, zero among them
  Null,       \* SQL NULL
  RateCard,   \* the fee psp_cost_breakdown expects of a sale
  MaxReposts  \* bound: moves of the payment to another creator

ASSUME EvidenceAssumption ==
  /\ Fees \subseteq Nat
  /\ {Null, RateCard} \cap Nat = {} /\ Null # RateCard
  /\ Null \notin {"signed", "webhook", "status", "raw", "derived"}
  /\ MaxReposts \in Nat

VARIABLES
  provider,  \* MantaPay's own state of the attempt
  attemptStatus, \* transactions.status
  decline,   \* the four provider_decline_* columns
  raw,       \* what readRawDecline finds in transactions.raw_payload
  failed,    \* payments.status = 'failed'
  script,    \* the update a backfill run has computed and not yet applied
  fee,       \* transactions.fee, with fee_is_estimate
  entry,     \* revenue_entries.psp_fee of the sale
  charged,   \* fee the Search API reports now
  session,   \* the cached Search API session
  search,    \* per fee reconciliation, where it is
  repost,    \* a move has deleted the sale entry and not yet committed
  reposts    \* moves so far

(* The decline evidence of the attempt's row. *)
attempt == <<provider, attemptStatus, decline, raw, failed, script>>
(* The sale the attempt posted and its cost. *)
sale == <<fee, entry, charged, session, search, repost, reposts>>
evidenceVars == <<attempt, sale>>

(* DECLINE_SOURCE: "signed" and "webhook" label the two parts of a         *)
(* notification, "status" a lookup, "raw" a stored payload and "derived"   *)
(* the wording of HigherPays itself.                                       *)
CodeSources == {"signed", "status", "raw"}
ReasonSources == {"webhook", "status", "raw", "derived"}

Estimate == [value |-> 0, estimate |-> TRUE]

(* SQL COALESCE, and JavaScript's || on texts. *)
Or(x, y) == IF x # Null THEN x ELSE y

(* mapReplyCode; an abandoned or unknown answer records nothing. *)
Answers == {"pending", "declined", "approved"}

Silent == [code |-> Null, codeSource |-> Null, reason |-> Null, reasonSource |-> Null]

-----------------------------------------------------------------------------
(* declineFields: a declined attempt always carries a readable reason. *)
DeclineFields(st, codeFrom, reasonFrom) ==
  IF st # "declined" THEN Silent
  ELSE [code |-> codeFrom, codeSource |-> codeFrom,
        reason |-> Or(reasonFrom, "derived"), reasonSource |-> Or(reasonFrom, "derived")]

MergedStatus(st) ==
  IF "approved" \in {attemptStatus, st} THEN "approved"
  ELSE IF attemptStatus = "declined" THEN "declined" ELSE st

(* A signed code replaces any other and is replaced by no unsigned one. *)
MergedCode(new) ==
  CASE new.codeSource = "signed" -> new.code
    [] new.codeSource # "signed" /\ decline.codeSource = "signed" -> decline.code
    [] OTHER -> Or(new.code, decline.code)

MergedCodeSource(new) ==
  CASE new.codeSource = "signed" /\ new.code # Null -> new.codeSource
    [] new.codeSource # "signed" /\ decline.codeSource = "signed" -> decline.codeSource
    [] OTHER -> IF new.code # Null THEN new.codeSource ELSE decline.codeSource

(* Provider text outranks a derived reason, the notification's any other. *)
Outranks(new) ==
  /\ new.reason # Null
  /\ \/ new.reasonSource = "webhook"
     \/ decline.reasonSource = "derived" /\ new.reasonSource # "derived"

MergedReason(new) ==
  IF Outranks(new) THEN new.reason ELSE Or(decline.reason, new.reason)

(* A slip the source avoids: the label follows the old row. *)
MergedReasonSourceOld(new) ==
  IF decline.reason # Null THEN decline.reasonSource ELSE new.reasonSource

MergedReasonSource(new) ==
  IF Outranks(new) THEN new.reasonSource
  ELSE IF decline.reason # Null THEN decline.reasonSource ELSE new.reasonSource

MergedDecline(st, new) ==
  IF st # "declined" THEN decline
  ELSE [code |-> MergedCode(new), codeSource |-> MergedCodeSource(new),
        reason |-> MergedReason(new), reasonSource |-> MergedReasonSource(new)]

-----------------------------------------------------------------------------
(* A row from before the decline columns existed has none of them. *)
EvidenceInit ==
  /\ provider = "pending"
  /\ \/ attemptStatus = "absent" /\ raw = {} /\ failed = FALSE
     \/ attemptStatus = "declined" /\ raw \in {{}, {"code"}, {"code", "reason"}} /\ failed = TRUE
  /\ decline = Silent
  /\ script = Null
  /\ fee = Estimate
  /\ entry = Null
  /\ charged \in Fees
  /\ session = "none"
  /\ search = [r \in FeeRuns |-> [at |-> "idle"]]
  /\ repost = "no"
  /\ reposts = 0

(* MantaPay settles the attempt; it has approved declined ones days later. *)
Settle ==
  /\ provider # "approved"
  /\ provider' \in {"declined", "approved"}
  /\ UNCHANGED <<attemptStatus, decline, raw, failed, script, sale>>

(* recordPaymentOutcome on the attempt: the upsert with its merged columns *)
(* and, for the first approval, fn_post_sale with the rate card's fee.     *)
Upsert(st, new, payload) ==
  /\ attemptStatus' = MergedStatus(st)
  /\ decline' = IF attemptStatus = "absent" THEN new ELSE MergedDecline(st, new)
  /\ raw' = payload
  /\ failed' = ("approved" \notin {attemptStatus, st} /\ (failed \/ st = "declined"))
  /\ entry' = IF MergedStatus(st) = "approved" /\ entry = Null /\ repost = "no"
              THEN IF fee.value > 0 THEN fee.value ELSE RateCard
              ELSE entry
  /\ UNCHANGED <<provider, script, fee, charged, session, search, repost, reposts>>

(* parseWebhook: the reply code is signed, its wording is not and is often *)
(* empty; the form is what readRawDecline reads later.                     *)
Notified(st, reasonFrom) == DeclineFields(st, "signed", reasonFrom)
NotifiedPayload(st, reasonFrom) ==
  IF st # "declined" THEN {}
  ELSE IF reasonFrom = Null THEN {"code"} ELSE {"code", "reason"}

(* A notification, late or repeated. *)
Webhook(st, reasonFrom) ==
  /\ st = "pending" \/ st = provider \/ (st = "declined" /\ provider = "approved")
  /\ reasonFrom \in {Null, "webhook"}
  /\ repost = "no"
  /\ Upsert(st, Notified(st, reasonFrom), NotifiedPayload(st, reasonFrom))

(* getPaymentStatus: for a single-use link the summary of                  *)
(* resolveOrderOutcome, whose names readRawDecline does not know, for a    *)
(* reusable one the transaction itself.                                    *)
Polled(reasonFrom) == DeclineFields(provider, "status", reasonFrom)
PolledPayloads(reasonFrom) == {{}, NotifiedPayload(provider, reasonFrom)}

(* The reconciler's poll by order: only a settled answer is recorded.      *)
Poll(reasonFrom) ==
  /\ provider # "pending"
  /\ reasonFrom \in {Null, "status"}
  /\ repost = "no"
  /\ \E payload \in PolledPayloads(reasonFrom) :
       Upsert(provider, Polled(reasonFrom), payload)

(* A sibling attempt of the order was approved. *)
Supersede ==
  /\ attemptStatus \in {"pending", "declined"} /\ failed
  /\ failed' = FALSE
  /\ UNCHANGED <<provider, attemptStatus, decline, raw, script, sale>>

-----------------------------------------------------------------------------
(* readRawDecline first, readStatusDecline for what it lacks. *)
Supplier(part, lookup) ==
  IF part \in raw THEN "raw" ELSE IF part \in lookup THEN "status" ELSE Null

Candidate(lookup) ==
  [code |-> Supplier("code", lookup), codeSource |-> Supplier("code", lookup),
   reason |-> Supplier("reason", lookup), reasonSource |-> Supplier("reason", lookup)]

(* getStatusById: a lookup may fail or be silent, and one that no longer   *)
(* answers "declined" says nothing.                                        *)
Lookups ==
  IF raw = {"code", "reason"} \/ provider # "declined" THEN {{}}
  ELSE {{}, {"code"}, {"code", "reason"}}

(* A slip the source avoids: the candidate's wording under the row's label. *)
MergeDeclineLabel(candidate) ==
  [code |-> Or(decline.code, candidate.code),
   codeSource |-> Or(decline.codeSource, candidate.codeSource),
   reason |-> Or(IF decline.reasonSource = "derived" THEN Null ELSE decline.reason, candidate.reason),
   reasonSource |-> Or(decline.reasonSource, candidate.reasonSource)]

MergeDecline(candidate) ==
  LET stored == IF decline.reasonSource = "derived" THEN Null ELSE decline.reason
  IN  [code |-> Or(decline.code, candidate.code),
       codeSource |-> Or(decline.codeSource, candidate.codeSource),
       reason |-> Or(stored, candidate.reason),
       reasonSource |-> IF stored # Null THEN decline.reasonSource ELSE candidate.reasonSource]

(* A slip the source avoids: the wording is left empty. *)
ExplainedNot(details) == details

(* A code without any description gets HigherPays' own wording. *)
Explained(details) ==
  IF details.reason # Null THEN details
  ELSE [details EXCEPT !.reason = "derived", !.reasonSource = "derived"]

(* backfill reads the row and asks the provider... *)
BackfillRead(lookup) ==
  LET details == MergeDecline(Candidate(lookup))
  IN  /\ script = Null
      /\ attemptStatus = "declined" /\ failed
      /\ lookup \in Lookups
      /\ details.code # Null \/ details.reason # Null
      /\ Explained(details) # decline
      /\ script' = Explained(details)
      /\ UNCHANGED <<provider, attemptStatus, decline, raw, failed, sale>>

(* ... and assigns what it computed, whatever the row holds by then. *)
BackfillApply ==
  /\ script # Null
  /\ decline' = script
  /\ script' = Null
  /\ UNCHANGED <<provider, attemptStatus, raw, failed, sale>>

-----------------------------------------------------------------------------
(* The provider's charge for the sale grows: a chargeback, a clarification. *)
ChargeMore ==
  /\ attemptStatus = "approved"
  /\ charged' \in {f \in Fees : f > charged}
  /\ UNCHANGED <<attempt, fee, entry, session, search, repost, reposts>>

(* The cached session times out at the provider before it does here. *)
SessionExpires ==
  /\ session = "live"
  /\ session' = "stale"
  /\ UNCHANGED <<attempt, fee, entry, charged, search, repost, reposts>>

(* getSession: the cached session, or else a login, which may fail.        *)
LoggedIn(login) == session = "live" \/ login

(* searchTransactions: a stale session is dropped and the search tried     *)
(* once more with a fresh login.                                           *)
Search(r, login) ==
  /\ search[r].at = "idle"
  /\ attemptStatus = "approved"
  /\ session' = IF LoggedIn(login) THEN "live" ELSE "none"
  /\ search' = IF LoggedIn(login)
               THEN [search EXCEPT ![r] = [at |-> "answered", fee |-> charged]]
               ELSE search
  /\ UNCHANGED <<attempt, fee, entry, charged, repost, reposts>>

(* reconcileWorkspaceFees reads the row without a lock; a row whose fee is *)
(* known is skipped.                                                       *)
FeeRead(r) ==
  /\ search[r].at = "answered"
  /\ search' = [search EXCEPT ![r] =
       IF fee.estimate THEN [@ EXCEPT !.at = "read"] ELSE [at |-> "idle"]]
  /\ UNCHANGED <<attempt, fee, entry, charged, session, repost, reposts>>

(* A slip the source avoids: the last search wins. *)
FeeWrittenAlways(f) == [value |-> f, estimate |-> FALSE]

(* The guarded UPDATE of transactions. *)
FeeWritten(f) ==
  IF fee.estimate THEN [value |-> f, estimate |-> FALSE] ELSE fee

(* The two UPDATEs and the commit, when nobody holds the entry. *)
FeeWrite(r) ==
  /\ search[r].at = "read"
  /\ repost = "no"
  /\ fee' = FeeWritten(search[r].fee)
  /\ entry' = IF entry = Null THEN Null ELSE search[r].fee
  /\ search' = [search EXCEPT ![r] = [at |-> "idle"]]
  /\ UNCHANGED <<attempt, charged, session, repost, reposts>>

(* The UPDATE of the entry waits for the move that deleted it... *)
FeeWaits(r) ==
  /\ search[r].at = "read"
  /\ repost = "deleted"
  /\ search' = [search EXCEPT ![r].at = "blind"]
  /\ UNCHANGED <<attempt, fee, entry, charged, session, repost, reposts>>

(* ... and then finds no row: the entry posted since is not the one it saw. *)
FeeWriteBlind(r) ==
  /\ search[r].at = "blind"
  /\ repost = "no"
  /\ fee' = FeeWritten(search[r].fee)
  /\ search' = [search EXCEPT ![r] = [at |-> "idle"]]
  /\ UNCHANGED <<attempt, entry, charged, session, repost, reposts>>

(* repostSales deletes the sale entry... *)
RepostDelete ==
  /\ entry # Null /\ repost = "no" /\ reposts < MaxReposts
  /\ \A r \in FeeRuns : search[r].at # "blind"
  /\ repost' = "deleted"
  /\ reposts' = reposts + 1
  /\ UNCHANGED <<attempt, fee, entry, charged, session, search>>

(* A slip the source avoids: the estimate's placeholder is taken for a fee. *)
PostedFeeAny == fee.value

(* fn_post_sale's psp_fee: the recorded fee when it is more than zero. *)
PostedFee == IF fee.value > 0 THEN fee.value ELSE RateCard

(* ... and posts it again from the committed transaction. *)
RepostPost ==
  /\ repost = "deleted"
  /\ entry' = PostedFee
  /\ repost' = "no"
  /\ UNCHANGED <<attempt, fee, charged, session, search, reposts>>

-----------------------------------------------------------------------------
EvidenceNext ==
  \/ Settle
  \/ \E st \in Answers, from \in {Null, "webhook"} : Webhook(st, from)
  \/ \E from \in {Null, "status"} : Poll(from)
  \/ Supersede
  \/ \E lookup \in SUBSET {"code", "reason"} : BackfillRead(lookup)
  \/ BackfillApply
  \/ ChargeMore
  \/ SessionExpires
  \/ \E r \in FeeRuns, login \in BOOLEAN : Search(r, login)
  \/ \E r \in FeeRuns : FeeRead(r) \/ FeeWrite(r) \/ FeeWaits(r) \/ FeeWriteBlind(r)
  \/ RepostDelete
  \/ RepostPost

-----------------------------------------------------------------------------
Evidence ==
  [code : CodeSources \cup {Null}, codeSource : CodeSources \cup {Null},
   reason : ReasonSources \cup {Null}, reasonSource : ReasonSources \cup {Null}]

(* Every variable keeps its type. *)
EvidenceTypeOK ==
  /\ provider \in Answers
  /\ attemptStatus \in Answers \cup {"absent"}
  /\ decline \in Evidence
  /\ raw \in SUBSET {"code", "reason"}
  /\ failed \in BOOLEAN
  /\ script \in Evidence \cup {Null}
  /\ fee \in [value : Fees \cup {0}, estimate : BOOLEAN]
  /\ entry \in Fees \cup {Null, RateCard}
  /\ charged \in Fees
  /\ session \in {"none", "live", "stale"}
  /\ search \in [FeeRuns -> [at : {"idle"}]
                    \cup [at : {"answered", "read", "blind"}, fee : Fees]]
  /\ repost \in {"no", "deleted"}
  /\ reposts \in 0..MaxReposts

(* The value and its label are chosen by four separate CASE expressions    *)
(* and a script: the label always names who supplied the value.            *)
SourceIsHonest ==
  /\ decline.code = decline.codeSource
  /\ decline.reason = decline.reasonSource

(* "A declined attempt always carries a readable reason": once a declined  *)
(* row has one, no late notification, poll or stale backfill empties it,   *)
(* and only a row from before the columns existed lacks it.                *)
StaysExplained ==
  [][/\ decline.reason # Null => decline'.reason # Null
     /\ attemptStatus # "declined" /\ attemptStatus' = "declined" => decline'.reason # Null]_evidenceVars

(* A fee MantaPay reported is never replaced by another run's, and an      *)
(* entry never shows a reported fee while the transaction is an estimate.  *)
ReportedFeeStands ==
  [][/\ ~fee.estimate => fee' = fee
     /\ entry' \in Fees => ~fee'.estimate]_evidenceVars

-----------------------------------------------------------------------------
(* mantapay.js: "reconciliation later replaces the estimate with the       *)
(* provider's actual figure". A run that waited for a move, or that lost   *)
(* to another run, leaves the entry with a figure its transaction has not. *)
EntryCarriesFee ==
  (~fee.estimate /\ fee.value > 0 /\ entry # Null /\ repost = "no") => entry = fee.value

(* backfill-mantapay-decline-reasons.js: "the same precedence the upsert   *)
(* applies". The wording of a notification that came between its read and  *)
(* its write is overwritten.                                               *)
NotificationWordingKept ==
  [][decline.reasonSource = "webhook" => decline'.reasonSource = "webhook"]_evidenceVars

=============================================================================
