------------------------- MODULE MarketplaceOutbox -------------------------
(***************************************************************************)
(* The outbox that tells the marketplace what became of its orders:        *)
(* routes/marketplace.routes.js, the handlers that enqueue into it and the *)
(* process it runs in.                                                     *)
(*                                                                         *)
(* A drain reads one batch and works through it without a lock: one starts *)
(* every 30 seconds, one after every enqueue and one when the process      *)
(* boots, so several overlap.  An error a drain does not catch is an       *)
(* unhandled rejection, and it ends the process.                           *)
(***************************************************************************)
EXTENDS Integers, FiniteSets

CONSTANTS
  Sales,        \* payments of marketplace orders
  Drains,       \* drains that may overlap
  Refused,      \* events the marketplace never accepts
  Limit,        \* LIMIT of the drain's query (20)
  IntBits,      \* width of a Postgres int (32)
  MaxFailures,  \* bound: sends of other events that fail
  MaxCrashes    \* bound: the process stops for another reason

\* "reversed" stands for what the console records, a refund or a chargeback, and
\* "chargeback" for the provider's notification: their provider ids differ.
Kinds == {"approved", "reversed", "chargeback"}

\* The key of a row: order, event type and the provider id it is about.
Events == Sales \X Kinds

ASSUME OutboxAssumption ==
  /\ Refused \subseteq Events
  /\ Limit \in Nat \ {0}
  /\ IntBits \in Nat \ {0}
  /\ MaxFailures \in Nat
  /\ MaxCrashes \in Nat

VARIABLES
  sale,       \* what the ledger says of the payment
  created,    \* created_at of an outbox row, as a rank; 0 before it is inserted
  delivered,  \* delivered_at is set
  attempts,   \* column attempts
  due,        \* next_attempt_at <= now()
  batch,      \* rows a drain has read and not dealt with
  answer,     \* what the fetch of a drain's current row came to
  received,   \* events that reached the marketplace and that it accepted
  up,         \* the API process runs
  failures,   \* sends that failed, Refused events aside
  crashes     \* crashes that no drain caused

rowVars == <<created, delivered, attempts, due>>
drainVars == <<batch, answer>>
budget == <<failures, crashes>>
vars == <<sale, rowVars, drainVars, received, up, budget>>

Rows == {e \in Events : created[e] # 0}
Older(e, f) == created[e] < created[f]

\* Mutant: a row that failed is not offered again.
PendingUntried == {e \in Rows : e \notin delivered /\ attempts[e] = 0}

\* WHERE delivered_at IS NULL AND next_attempt_at <= now()
Pending == {e \in Rows : e \notin delivered /\ e \in due}

\* ORDER BY created_at LIMIT 20
OldestPending == {e \in Pending : Cardinality({f \in Pending : Older(f, e)}) < Limit}

TypeOK ==
  /\ sale \in [Sales -> {"unpaid", "paid", "reversed"}]
  /\ created \in [Events -> Nat]
  /\ delivered \subseteq Events
  /\ attempts \in [Events -> Nat]
  /\ due \subseteq Events
  /\ batch \in [Drains -> SUBSET Events]
  /\ \A d \in Drains : Cardinality(batch[d]) <= Limit
  /\ answer \in [Drains -> {"none", "accepted", "failed"}]
  /\ received \subseteq Events
  /\ up \in BOOLEAN
  /\ failures \in 0..MaxFailures
  /\ crashes \in 0..MaxCrashes

Init ==
  /\ sale = [s \in Sales |-> "unpaid"]
  /\ created = [e \in Events |-> 0]
  /\ delivered = {}
  /\ attempts = [e \in Events |-> 0]
  /\ due = {}
  /\ batch = [d \in Drains |-> {}]
  /\ answer = [d \in Drains |-> "none"]
  /\ received = {}
  /\ up = TRUE
  /\ failures = 0
  /\ crashes = 0

-----------------------------------------------------------------------------
(* Who writes the outbox *)

\* Mutant: the provider id is not part of the key: one row for an order.
EnqueueOnce(e) ==
  LET known == \E f \in Rows : f[1] = e[1] IN
  /\ created' = [created EXCEPT ![e] = IF known THEN @ ELSE Cardinality(Rows) + 1]
  /\ due' = IF known THEN due ELSE due \cup {e}
  /\ UNCHANGED <<delivered, attempts>>

\* INSERT ... ON CONFLICT DO NOTHING, in the transaction that changes the ledger.
Enqueue(e) ==
  /\ created' = [created EXCEPT ![e] = IF @ = 0 THEN Cardinality(Rows) + 1 ELSE @]
  /\ due' = IF e \in Rows THEN due ELSE due \cup {e}
  /\ UNCHANGED <<delivered, attempts>>

\* A signed notification of an approval, or its repetition by the provider.
WebhookApproved(s) ==
  /\ up
  /\ sale' = [sale EXCEPT ![s] = IF @ = "unpaid" THEN "paid" ELSE @]
  /\ Enqueue(<<s, "approved">>)
  /\ UNCHANGED <<drainVars, received, up, budget>>

\* The reconciler records the approval and tells nobody.
PollApproved(s) ==
  /\ up /\ sale[s] = "unpaid"
  /\ sale' = [sale EXCEPT ![s] = "paid"]
  /\ UNCHANGED <<rowVars, drainVars, received, up, budget>>

\* The console's reversal; the second enqueue it makes has the same key.
ConsoleReverse(s) ==
  /\ up /\ sale[s] = "paid"
  /\ sale' = [sale EXCEPT ![s] = "reversed"]
  /\ Enqueue(<<s, "reversed">>)
  /\ UNCHANGED <<drainVars, received, up, budget>>

\* A chargeback notification.  One already recorded is queued all the same; one
\* whose payment is unknown is answered 422.
WebhookChargeback(s) ==
  /\ up /\ sale[s] # "unpaid"
  /\ sale' = [sale EXCEPT ![s] = "reversed"]
  /\ Enqueue(<<s, "chargeback">>)
  /\ UNCHANGED <<drainVars, received, up, budget>>

-----------------------------------------------------------------------------
(* drainMarketplaceOutbox *)

\* The row a drain is at: the oldest it has not dealt with.
At(d, e) == e \in batch[d] /\ \A f \in batch[d] \ {e} : Older(e, f)

StartDrain(d) ==
  /\ up /\ batch[d] = {} /\ Pending # {}
  /\ batch' = [batch EXCEPT ![d] = OldestPending]
  /\ UNCHANGED <<sale, rowVars, answer, received, up, budget>>

Sending(d, e) == up /\ At(d, e) /\ answer[d] = "none"

SendAccepted(d, e) ==
  /\ Sending(d, e) /\ e \notin Refused
  /\ received' = received \cup {e}
  /\ answer' = [answer EXCEPT ![d] = "accepted"]
  /\ UNCHANGED <<sale, rowVars, batch, up, budget>>

\* The marketplace is away, its acceptance came after the timeout, or the UPDATE
\* that marks the row failed: the catch block treats them alike.
SendFailed(d, e) ==
  /\ Sending(d, e) /\ e \notin Refused
  /\ failures < MaxFailures
  /\ failures' = failures + 1
  /\ received' \in {received, received \cup {e}}
  /\ answer' = [answer EXCEPT ![d] = "failed"]
  /\ UNCHANGED <<sale, rowVars, batch, up, crashes>>

SendRefused(d, e) ==
  /\ Sending(d, e) /\ e \in Refused
  /\ answer' = [answer EXCEPT ![d] = "failed"]
  /\ UNCHANGED <<sale, rowVars, batch, received, up, budget>>

Forward(d, e) ==
  /\ batch' = [batch EXCEPT ![d] = @ \ {e}]
  /\ answer' = [answer EXCEPT ![d] = "none"]
  /\ attempts' = [attempts EXCEPT ![e] = @ + 1]

\* Mutant: the response is not checked.
OkAny(d) == answer[d] # "none"

\* response.ok
Ok(d) == answer[d] = "accepted"

MarkDelivered(d, e) ==
  /\ up /\ At(d, e) /\ Ok(d)
  /\ delivered' = delivered \cup {e}
  /\ Forward(d, e)
  /\ UNCHANGED <<sale, created, due, received, up, budget>>

\* power(2, attempts + 1)::int
FitsInt(n) == 2^(n + 1) < 2^(IntBits - 1)

\* The retry is scheduled after a backoff: next_attempt_at is in the future.
MarkFailed(d, e) ==
  /\ up /\ At(d, e) /\ answer[d] = "failed" /\ FitsInt(attempts[e])
  /\ due' = due \ {e}
  /\ Forward(d, e)
  /\ UNCHANGED <<sale, created, delivered, received, up, budget>>

BackoffEnds(e) ==
  /\ e \in Rows \ due
  /\ due' = due \cup {e}
  /\ UNCHANGED <<sale, created, delivered, attempts, drainVars, received, up, budget>>

-----------------------------------------------------------------------------
(* The process *)

Stop ==
  /\ up' = FALSE
  /\ batch' = [d \in Drains |-> {}]
  /\ answer' = [d \in Drains |-> "none"]
  /\ UNCHANGED <<sale, rowVars, received>>

\* The retry's UPDATE raises "integer out of range" inside the catch block.
OverflowStops(d, e) ==
  /\ up /\ At(d, e) /\ answer[d] = "failed" /\ ~FitsInt(attempts[e])
  /\ Stop
  /\ UNCHANGED budget

\* A deploy, or a query of a drain that fails.
Crash ==
  /\ up /\ crashes < MaxCrashes
  /\ crashes' = crashes + 1
  /\ Stop
  /\ UNCHANGED failures

Restart ==
  /\ ~up
  /\ up' = TRUE
  /\ UNCHANGED <<sale, rowVars, drainVars, received, budget>>

DrainNext(d) ==
  \/ StartDrain(d)
  \/ \E e \in batch[d] :
       \/ SendAccepted(d, e) \/ SendFailed(d, e) \/ SendRefused(d, e)
       \/ MarkDelivered(d, e) \/ MarkFailed(d, e) \/ OverflowStops(d, e)

Next ==
  \/ \E s \in Sales :
       WebhookApproved(s) \/ PollApproved(s) \/ ConsoleReverse(s) \/ WebhookChargeback(s)
  \/ \E d \in Drains : DrainNext(d)
  \/ \E e \in Events : BackoffEnds(e)
  \/ Crash \/ Restart

Spec == Init /\ [][Next]_vars

\* The timer starts drains, a drain goes on, time passes, docker restarts the process.
Fairness ==
  /\ \A d \in Drains : WF_vars(DrainNext(d))
  /\ \A e \in Events : WF_vars(BackoffEnds(e))
  /\ WF_vars(Restart)

FairSpec == Spec /\ Fairness

-----------------------------------------------------------------------------
Delivery == INSTANCE LifecycleDelivery
              WITH owed <- Rows, received <- received, acked <- delivered

(* The outbox implements at-least-once delivery: with overlapping drains,     *)
(* crashes between a send and its mark, timeouts and repeated enqueues, a row *)
(* is never lost, marked only after the marketplace accepted its event, and   *)
(* never unmarked.                                                            *)
ImplementsDelivery == Delivery!Spec

(* Every row is delivered in the end when the marketplace refuses none, even  *)
(* after an outage long enough to overflow the backoff and stop the process.  *)
EveryRowDelivered == Delivery!EveryEventAcknowledged

(* A reversal is told: whoever recorded it, the console or a chargeback       *)
(* notification, an event that revokes the order is delivered in the end.     *)
ReversalIsTold ==
  \A s \in Sales : sale[s] = "reversed" ~>
    \E kind \in Kinds \ {"approved"} : <<s, kind>> \in delivered

-----------------------------------------------------------------------------
(* What the repository says and the code does not do *)

(* marketplace-integration.md:34-35: the outbox "retries lifecycle delivery   *)
(* with exponential backoff until the marketplace acknowledges it": a refused *)
(* event costs no other event its delivery.                                   *)
AcceptableRowsDelivered ==
  \A e \in Events \ Refused : e \in Rows ~> e \in delivered

(* 028_marketplace_cart_sales.sql:24-25: "retries therefore cannot lose       *)
(* fulfillment when either service is unavailable": a sale in the ledger      *)
(* reaches the marketplace.                                                   *)
PaidIsFulfilled ==
  \A s \in Sales : sale[s] = "paid" ~> <<s, "approved">> \in received

=============================================================================
