---------------------------- MODULE WebhookInbox ----------------------------
(***************************************************************************)
(* The inbox of provider notifications: POST /webhooks/payment/:endpoint   *)
(* of routes/webhooks.routes.js.  A handler commits the event's row, runs  *)
(* the ledger call in a transaction of its own that locks the row again,   *)
(* and answers; the provider repeats a notification until it is answered   *)
(* 200, and may repeat it after that.  Deliveries of one event overlap.    *)
(***************************************************************************)
EXTENDS Naturals

CONSTANTS
  Charges,      \* provider transaction ids
  Deliveries,   \* bound: deliveries handled at the same time
  Refused,      \* events the ledger never accepts: unknown link, wrong amount
  None,         \* no event
  MaxFailures,  \* bound: queries that fail
  MaxCrashes    \* bound: stops of the API process

\* An event is an event type and a provider event id.  "approved" stands for every
\* status the ledger records, "abandoned" for those it does not.
Final == {"approved", "chargeback"}
Events == (Final \cup {"abandoned"}) \X Charges

\* The keys of the table: those of events, and the ids made up for rejected ones.
Keys == Events \cup ({"rejected"} \X Charges)

ASSUME InboxAssumption ==
  /\ Refused \subseteq Events
  /\ None \notin Events
  /\ MaxFailures \in Nat
  /\ MaxCrashes \in Nat

VARIABLES
  sent,      \* events the provider has to tell
  acked,     \* events the provider saw answered 200
  row,       \* webhook_events by key: absent, stored, processed
  errors,    \* keys with a processing_error
  handled,   \* ledger transactions committed for an event
  ledger,    \* charges with an approved transaction in the ledger
  at,        \* where a delivery is in the handler
  of,        \* the event it delivers, None when idle
  up,        \* the API process runs
  failures, crashes

vars == <<sent, acked, row, errors, handled, ledger, at, of, up, failures, crashes>>

TypeOK ==
  /\ sent \subseteq Events
  /\ acked \subseteq sent
  /\ row \in [Keys -> {"absent", "stored", "processed"}]
  /\ errors \subseteq {k \in Keys : row[k] # "absent"}
  /\ handled \in [Events -> Nat]
  /\ ledger \subseteq Charges
  /\ at \in [Deliveries -> {"idle", "received", "ignoring", "processing", "failing", "answering"}]
  /\ of \in [Deliveries -> Events \cup {None}]
  /\ up \in BOOLEAN
  /\ failures \in 0..MaxFailures
  /\ crashes \in 0..MaxCrashes

Init ==
  /\ sent = {} /\ acked = {}
  /\ row = [k \in Keys |-> "absent"]
  /\ errors = {}
  /\ handled = [e \in Events |-> 0]
  /\ ledger = {}
  /\ at = [d \in Deliveries |-> "idle"]
  /\ of = [d \in Deliveries |-> None]
  /\ up = TRUE
  /\ failures = 0 /\ crashes = 0

IsFinal(e) == e[1] \in Final

\* Something happens at the provider; a chargeback follows its approval.
Occurs(e) ==
  /\ e \notin sent
  /\ e[1] = "chargeback" => <<"approved", e[2]>> \in sent
  /\ sent' = sent \cup {e}
  /\ UNCHANGED <<acked, row, errors, handled, ledger, at, of, up, failures, crashes>>

-----------------------------------------------------------------------------
(* The handler *)

\* A delivery that passes the signature and the merchant check.
Arrive(d, e) ==
  /\ up /\ at[d] = "idle" /\ e \in sent
  /\ at' = [at EXCEPT ![d] = "received"]
  /\ of' = [of EXCEPT ![d] = e]
  /\ UNCHANGED <<sent, acked, row, errors, handled, ledger, up, failures, crashes>>

RejectKey(e) == <<"rejected", e[2]>>

\* A forged one is stored under an id of its own and answered 400 or 401.
Reject(e) ==
  /\ up
  /\ row' = [row EXCEPT ![RejectKey(e)] = "processed"]
  /\ errors' = errors \cup {RejectKey(e)}
  /\ UNCHANGED <<sent, acked, handled, ledger, at, of, up, failures, crashes>>

Go(d, pc) == at' = [at EXCEPT ![d] = pc] /\ UNCHANGED of

Leave(d) ==
  /\ at' = [at EXCEPT ![d] = "idle"]
  /\ of' = [of EXCEPT ![d] = None]

\* The provider reads the answer; only 200 ends its retries.
Answer200(d) == acked' = acked \cup {of[d]} /\ Leave(d)

Inserted(e) == IF row[e] = "absent" THEN "stored" ELSE row[e]

\* Mutant: a delivery is a duplicate as soon as an earlier one was stored.
DuplicateSeen(e) == row[e] # "absent"

Duplicate(e) == row[e] = "processed"

\* INSERT ... ON CONFLICT ... RETURNING processed, committed on its own.
Upsert(d) ==
  LET e == of[d] IN
  /\ up /\ at[d] = "received"
  /\ row' = [row EXCEPT ![e] = Inserted(e)]
  /\ \/ Duplicate(e) /\ Answer200(d)
     \/ ~Duplicate(e) /\ Go(d, IF IsFinal(e) THEN "processing" ELSE "ignoring")
          /\ UNCHANGED acked
  /\ UNCHANGED <<sent, errors, handled, ledger, up, failures, crashes>>

\* A status the ledger does not record: the event is marked and acknowledged.
Ignore(d) ==
  /\ up /\ at[d] = "ignoring"
  /\ row' = [row EXCEPT ![of[d]] = "processed"]
  /\ Go(d, "answering")
  /\ UNCHANGED <<sent, acked, errors, handled, ledger, up, failures, crashes>>

\* Mutant: an event that failed once is refused.
AcceptsClean(e) == e \notin errors

\* Whether the ledger call goes through: a chargeback needs its sale.
Accepts(e) ==
  /\ e \notin Refused
  /\ e[1] = "chargeback" => e[2] \in ledger

\* Mutant: the locked row is not read again.
AlreadyUnchecked(e) == FALSE

\* SELECT processed ... FOR UPDATE, in the transaction.
Already(e) == row[e] = "processed"

\* Another delivery processed the event since the upsert.
ProcessDuplicate(d) ==
  /\ up /\ at[d] = "processing" /\ Already(of[d])
  /\ Go(d, "answering")
  /\ UNCHANGED <<sent, acked, row, errors, handled, ledger, up, failures, crashes>>

\* The ledger call and the mark commit together; the answer to COMMIT may be lost.
Process(d) ==
  LET e == of[d] IN
  /\ up /\ at[d] = "processing" /\ ~Already(e) /\ Accepts(e)
  /\ handled' = [handled EXCEPT ![e] = @ + 1]
  /\ ledger' = ledger \cup {e[2]}
  /\ row' = [row EXCEPT ![e] = "processed"]
  /\ errors' = errors \ {e}
  /\ \/ Go(d, "answering") /\ UNCHANGED failures
     \/ failures < MaxFailures /\ failures' = failures + 1 /\ Go(d, "failing")
  /\ UNCHANGED <<sent, acked, up, crashes>>

\* The transaction throws and rolls back.
ProcessFails(d) ==
  /\ up /\ at[d] = "processing"
  /\ \/ ~Already(of[d]) /\ ~Accepts(of[d]) /\ UNCHANGED failures
     \/ failures < MaxFailures /\ failures' = failures + 1
  /\ Go(d, "failing")
  /\ UNCHANGED <<sent, acked, row, errors, handled, ledger, up, crashes>>

\* The error is noted after the rollback, without a lock; the answer is 4xx or 5xx.
NoteError(d) ==
  /\ up /\ at[d] = "failing"
  /\ errors' = errors \cup {of[d]}
  /\ Leave(d)
  /\ UNCHANGED <<sent, acked, row, handled, ledger, up, failures, crashes>>

\* Any other query of the handler fails: the answer is 500.
QueryFails(d) ==
  /\ up /\ at[d] \in {"received", "ignoring", "failing"}
  /\ failures < MaxFailures
  /\ failures' = failures + 1
  /\ Leave(d)
  /\ UNCHANGED <<sent, acked, row, errors, handled, ledger, up, crashes>>

Answer(d) ==
  /\ up /\ at[d] = "answering"
  /\ Answer200(d)
  /\ UNCHANGED <<sent, row, errors, handled, ledger, up, failures, crashes>>

-----------------------------------------------------------------------------
(* The rest of the process *)

\* The reconciler records an approval it asked the provider about.
Reconcile(c) ==
  /\ up /\ <<"approved", c>> \in sent /\ <<"approved", c>> \notin Refused
  /\ ledger' = ledger \cup {c}
  /\ UNCHANGED <<sent, acked, row, errors, handled, at, of, up, failures, crashes>>

\* Handlers and their transactions end with the process; the rows stay.
Crash ==
  /\ up /\ crashes < MaxCrashes
  /\ crashes' = crashes + 1
  /\ up' = FALSE
  /\ at' = [d \in Deliveries |-> "idle"]
  /\ of' = [d \in Deliveries |-> None]
  /\ UNCHANGED <<sent, acked, row, errors, handled, ledger, failures>>

Restart ==
  /\ ~up /\ up' = TRUE
  /\ UNCHANGED <<sent, acked, row, errors, handled, ledger, at, of, failures, crashes>>

Handle(d) ==
  \/ Upsert(d) \/ Ignore(d) \/ ProcessDuplicate(d) \/ Process(d)
  \/ ProcessFails(d) \/ NoteError(d) \/ QueryFails(d) \/ Answer(d)

Next ==
  \/ \E e \in Events : Occurs(e) \/ Reject(e) \/ \E d \in Deliveries : Arrive(d, e)
  \/ \E d \in Deliveries : Handle(d)
  \/ \E c \in Charges : Reconcile(c)
  \/ Crash \/ Restart

Spec == Init /\ [][Next]_vars

\* The provider repeats what was not answered 200 ("the provider's retry is our second
\* chance"), a handler goes on, and docker restarts the process.
Retry(e) == e \notin acked /\ \E d \in Deliveries : Arrive(d, e)

Fairness ==
  /\ \A e \in Events : SF_vars(Retry(e))
  /\ \A d \in Deliveries : WF_vars(Handle(d))
  /\ WF_vars(Restart)

FairSpec == Spec /\ Fairness

-----------------------------------------------------------------------------
(* However many deliveries of an event overlap, fail, crash or are repeated,  *)
(* its ledger transaction commits once, and exactly when its row is marked.   *)
AppliedOnce ==
  \A e \in Events : IsFinal(e) => handled[e] = IF row[e] = "processed" THEN 1 ELSE 0

(* The provider is told 200, and so stops repeating, only what is done: an    *)
(* outcome or a chargeback is in the ledger.  A forged delivery answers for   *)
(* nothing.                                                                   *)
AckedIsHandled ==
  \A e \in acked : row[e] = "processed" /\ (IsFinal(e) => handled[e] > 0 /\ e[2] \in ledger)

(* A notification that failed or crashed anywhere in the handler is handled   *)
(* in the end, a chargeback that overtook its approval included.              *)
EventuallyHandled ==
  \A e \in Events : e \in sent ~> (row[e] = "processed" /\ (IsFinal(e) => handled[e] = 1))

-----------------------------------------------------------------------------
(* What the repository says and the code does not do *)

(* server.js:84-86: an approved notification left unprocessed "means money    *)
(* exists at the provider and not in the ledger".                             *)
StaleMeansMissing ==
  \A c \in Charges :
    row[<<"approved", c>>] = "stored" /\ (\A d \in Deliveries : at[d] = "idle") => c \notin ledger

=============================================================================
