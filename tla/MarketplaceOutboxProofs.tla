----------------------- MODULE MarketplaceOutboxProofs -----------------------
(***************************************************************************)
(* At-least-once delivery, proved for any number of sales and drains, any  *)
(* LIMIT, any width of an int, and any number of failures and crashes.     *)
(***************************************************************************)
EXTENDS MarketplaceOutbox, FiniteSetTheorems, TLAPS

(* What the refinement needs to know of a drain in the middle of its batch:   *)
(* it only holds rows, and an accepted answer is the marketplace's.           *)
DInv ==
  /\ created \in [Events -> Int]
  /\ IsFiniteSet(Rows)
  /\ batch \in [Drains -> SUBSET Rows]
  /\ answer \in [Drains -> {"none", "accepted", "failed"}]
  /\ received \subseteq Rows
  /\ delivered \subseteq received
  /\ \A d \in Drains : batch[d] = {} => answer[d] = "none"
  /\ \A d \in Drains : \A e \in Events :
       answer[d] = "accepted" /\ At(d, e) => e \in received

-----------------------------------------------------------------------------
(* An insert gives a new row a rank that is not 0 and leaves the others alone. *)
LEMMA EnqueueRows ==
  ASSUME DInv, NEW x \in Events, Enqueue(x)
  PROVE  /\ created' \in [Events -> Int]
         /\ Rows' = Rows \cup {x}
         /\ IsFiniteSet(Rows')
         /\ \A e \in Rows : created'[e] = created[e]
<1>0. Cardinality(Rows) \in Nat
  BY FS_CardinalityType DEF DInv
<1>1. created' \in [Events -> Int]
  BY <1>0 DEF DInv, Enqueue
<1>2. \A e \in Events : created'[e] = IF e = x /\ created[e] = 0
                                      THEN Cardinality(Rows) + 1 ELSE created[e]
  BY DEF DInv, Enqueue
<1>3. \A e \in Rows : created'[e] = created[e]
  BY <1>2 DEF Rows
<1>4. \A e \in Events : created'[e] # 0 <=> (created[e] # 0 \/ e = x)
  BY <1>0, <1>2
<1>5. Rows' = Rows \cup {x}
  BY <1>4 DEF Rows
<1>6. IsFiniteSet(Rows')
  BY <1>5, FS_AddElement DEF DInv
<1> QED
  BY <1>1, <1>3, <1>5, <1>6

(* The rows a drain is at do not change under an insert. *)
LEMMA EnqueueKeeps ==
  ASSUME DInv, NEW x \in Events, Enqueue(x), UNCHANGED <<drainVars, received>>
  PROVE  DInv'
<1>1. /\ created' \in [Events -> Int]
      /\ Rows' = Rows \cup {x}
      /\ IsFiniteSet(Rows')
      /\ \A e \in Rows : created'[e] = created[e]
  BY EnqueueRows
<1>2. /\ batch' = batch /\ answer' = answer
      /\ received' = received /\ delivered' = delivered
  BY DEF Enqueue, drainVars
<1>3. batch' \in [Drains -> SUBSET Rows']
  BY <1>1, <1>2 DEF DInv
<1>4. \A d \in Drains : \A e \in Events : At(d, e)' => At(d, e)
  <2> SUFFICES ASSUME NEW d \in Drains, NEW e \in Events, At(d, e)'
               PROVE  At(d, e)
    OBVIOUS
  <2>1. batch[d] \subseteq Rows
    BY DEF DInv
  <2>2. \A f \in batch[d] : created'[f] = created[f]
    BY <1>1, <2>1
  <2> QED
    BY <1>2, <2>2 DEF At, Older
<1> QED
  BY <1>1, <1>2, <1>3, <1>4 DEF DInv

(* A crash empties every drain. *)
LEMMA StopKeeps ==
  ASSUME DInv, Stop
  PROVE  DInv'
<1>1. /\ created' = created /\ delivered' = delivered /\ received' = received
      /\ batch' = [d \in Drains |-> {}]
      /\ answer' = [d \in Drains |-> "none"]
  BY DEF Stop, rowVars
<1>2. Rows' = Rows
  BY <1>1 DEF Rows
<1> QED
  BY <1>1, <1>2 DEF DInv

(* The answers a drain may get for the row it is at. *)
LEMMA SendKeeps ==
  ASSUME DInv, NEW d \in Drains, NEW e \in batch[d],
         SendAccepted(d, e) \/ SendFailed(d, e) \/ SendRefused(d, e)
  PROVE  DInv'
<1>1. At(d, e) /\ e \in Rows
  BY DEF DInv, SendAccepted, SendFailed, SendRefused, Sending
<1>2. /\ created' = created /\ delivered' = delivered /\ batch' = batch
      /\ received \subseteq received' /\ received' \subseteq received \cup {e}
      /\ \/ answer' = [answer EXCEPT ![d] = "accepted"] /\ e \in received'
         \/ answer' = [answer EXCEPT ![d] = "failed"]
  BY DEF SendAccepted, SendFailed, SendRefused, rowVars
<1>3. Rows' = Rows
  BY <1>2 DEF Rows
<1>4. ASSUME NEW x \in Drains, NEW f \in Events, answer'[x] = "accepted", At(x, f)'
      PROVE  f \in received'
  <2>1. At(x, f)
    BY <1>2, <1>4 DEF At, Older
  <2>2. CASE x # d
    BY <1>2, <1>4, <2>1, <2>2 DEF DInv
  <2>3. CASE x = d
    <3>1. e = f
      <4> SUFFICES ASSUME e # f PROVE FALSE
        OBVIOUS
      <4>1. created[e] < created[f] /\ created[f] < created[e]
        BY <1>1, <2>1, <2>3 DEF At, Older
      <4> QED
        BY <4>1, <1>1, <2>1, <2>3 DEF DInv, Rows
    <3>2. answer'[d] = "accepted"
      BY <1>4, <2>3
    <3> QED
      BY <1>2, <3>1, <3>2 DEF DInv
  <2> QED
    BY <2>2, <2>3
<1> QED
  BY <1>1, <1>2, <1>3, <1>4 DEF DInv

(* Going on to the next row, after a mark or a scheduled retry. *)
LEMMA ForwardKeeps ==
  ASSUME DInv, NEW d \in Drains, NEW e \in batch[d],
         MarkDelivered(d, e) \/ MarkFailed(d, e)
  PROVE  DInv'
<1>1. /\ created' = created /\ received' = received
      /\ batch' = [batch EXCEPT ![d] = @ \ {e}]
      /\ answer' = [answer EXCEPT ![d] = "none"]
  BY DEF MarkDelivered, MarkFailed, Forward
<1>2. Rows' = Rows
  BY <1>1 DEF Rows
<1>3. delivered' \subseteq received'
  <2>1. e \in Events
    BY DEF DInv, Rows
  <2>2. CASE MarkDelivered(d, e)
    BY <1>1, <2>1, <2>2 DEF DInv, MarkDelivered, Ok
  <2>3. CASE MarkFailed(d, e)
    BY <1>1, <2>3 DEF DInv, MarkFailed
  <2> QED
    BY <2>2, <2>3
<1>4. ASSUME NEW x \in Drains, NEW f \in Events, answer'[x] = "accepted", At(x, f)'
      PROVE  f \in received'
  <2>1. x # d /\ answer[x] = "accepted" /\ batch'[x] = batch[x]
    BY <1>1, <1>4 DEF DInv
  <2>2. At(x, f)
    BY <1>1, <1>4, <2>1 DEF At, Older
  <2> QED
    BY <1>1, <2>1, <2>2 DEF DInv
<1>5. batch' \in [Drains -> SUBSET Rows'] /\ answer' \in [Drains -> {"none", "accepted", "failed"}]
  BY <1>1, <1>2 DEF DInv
<1> QED
  BY <1>1, <1>2, <1>3, <1>4, <1>5 DEF DInv

-----------------------------------------------------------------------------
LEMMA DInvStart == Init => DInv
<1> SUFFICES ASSUME Init PROVE DInv
  OBVIOUS
<1>1. Rows = {}
  BY DEF Init, Rows
<1>2. IsFiniteSet(Rows)
  BY <1>1, FS_EmptySet
<1> QED
  BY <1>1, <1>2 DEF Init, DInv

LEMMA DInvStep == DInv /\ [Next]_vars => DInv'
<1> SUFFICES ASSUME DInv, [Next]_vars PROVE DInv'
  OBVIOUS
<1>1. ASSUME NEW s \in Sales, NEW kind \in Kinds, Enqueue(<<s, kind>>),
             UNCHANGED <<drainVars, received>>
      PROVE  DInv'
  BY <1>1, EnqueueKeeps DEF Events
<1>2. ASSUME NEW s \in Sales, WebhookApproved(s) PROVE DInv'
  BY <1>1, <1>2 DEF WebhookApproved, Kinds
<1>3. ASSUME NEW s \in Sales, WebhookChargeback(s) PROVE DInv'
  BY <1>1, <1>3 DEF WebhookChargeback, Kinds
<1>4. ASSUME NEW s \in Sales, ConsoleReverse(s) PROVE DInv'
  BY <1>1, <1>4 DEF ConsoleReverse, Kinds
<1>5. ASSUME UNCHANGED <<created, delivered, batch, answer, received>> PROVE DInv'
  BY <1>5 DEF DInv, Rows, At, Older
<1>6. ASSUME NEW d \in Drains, StartDrain(d) PROVE DInv'
  <2>1. /\ created' = created /\ delivered' = delivered /\ received' = received
        /\ answer' = answer /\ batch[d] = {}
        /\ batch' = [batch EXCEPT ![d] = OldestPending]
    BY <1>6 DEF StartDrain, rowVars
  <2>2. Rows' = Rows
    BY <2>1 DEF Rows
  <2>3. OldestPending \subseteq Rows
    BY DEF OldestPending, Pending
  <2>4. ASSUME NEW x \in Drains, NEW f \in Events, answer'[x] = "accepted", At(x, f)'
        PROVE  f \in received'
    <3>1. CASE x # d
      BY <2>1, <2>4, <3>1 DEF DInv, At, Older
    <3>2. CASE x = d
      \* An idle drain has no answer.
      <4>1. answer[d] = "none"
        BY <2>1 DEF DInv
      <4> QED
        BY <2>1, <2>4, <3>2, <4>1
    <3> QED
      BY <3>1, <3>2
  <2> QED
    BY <2>1, <2>2, <2>3, <2>4 DEF DInv
<1>7. ASSUME NEW d \in Drains, NEW e \in batch[d], OverflowStops(d, e) PROVE DInv'
  BY <1>7, StopKeeps DEF OverflowStops
<1>8. CASE Crash
  BY <1>8, StopKeeps DEF Crash
<1>9. ASSUME NEW s \in Sales, PollApproved(s) PROVE DInv'
  BY <1>5, <1>9 DEF PollApproved, rowVars, drainVars
<1>10. CASE Restart \/ (\E e \in Events : BackoffEnds(e)) \/ UNCHANGED vars
  BY <1>5, <1>10 DEF Restart, BackoffEnds, vars, rowVars, drainVars
<1>11. ASSUME NEW d \in Drains, DrainNext(d) PROVE DInv'
  BY <1>6, <1>7, <1>11, SendKeeps, ForwardKeeps DEF DrainNext
<1> QED
  BY <1>2, <1>3, <1>4, <1>8, <1>9, <1>10, <1>11 DEF Next

-----------------------------------------------------------------------------
(* The inductive invariant holds in every behaviour. *)
THEOREM DrainsSafe == Spec => []DInv
<1> QED
  BY DInvStart, DInvStep, PTL DEF Spec

(* A row is marked delivered only after the marketplace accepted its event,   *)
(* and only rows are sent: no crash, timeout or overlap of drains breaks it.  *)
THEOREM MarkedWasReceived == Spec => []Delivery!TypeOK
<1>1. DInv => Delivery!TypeOK
  BY DEF DInv, Delivery!TypeOK, Rows
<1> QED
  BY <1>1, DrainsSafe, PTL

(* The outbox implements at-least-once delivery: every insert, send and mark  *)
(* is a step of the abstract specification or leaves it alone.                *)
THEOREM OutboxImplementsDelivery == Spec => ImplementsDelivery
<1> DEFINE abstract == <<Rows, received, delivered>>
<1>1. Init => Delivery!Init
  BY DEF Init, Delivery!Init, Rows
<1>2. DInv /\ DInv' /\ [Next]_vars => [Delivery!Next]_abstract
  <2> SUFFICES ASSUME DInv, DInv', [Next]_vars
               PROVE  [Delivery!Next]_abstract
    OBVIOUS
  <2>1. ASSUME NEW s \in Sales, NEW kind \in Kinds, Enqueue(<<s, kind>>), UNCHANGED received
        PROVE  Delivery!Next
    <3>1. <<s, kind>> \in Events
      BY DEF Events
    <3>2. Rows' = Rows \cup {<<s, kind>>} /\ delivered' = delivered
      BY <2>1, <3>1, EnqueueRows DEF Enqueue
    <3>3. Delivery!Owe(<<s, kind>>)
      BY <2>1, <3>2 DEF Delivery!Owe
    <3> QED
      BY <3>1, <3>3 DEF Delivery!Next
  <2>2. ASSUME NEW s \in Sales,
               WebhookApproved(s) \/ WebhookChargeback(s) \/ ConsoleReverse(s)
        PROVE  Delivery!Next
    BY <2>1, <2>2 DEF WebhookApproved, WebhookChargeback, ConsoleReverse, Kinds
  <2>3. ASSUME UNCHANGED <<created, received, delivered>>
        PROVE  UNCHANGED abstract
    BY <2>3 DEF Rows
  <2>4. ASSUME NEW d \in Drains, NEW e \in batch[d],
               SendAccepted(d, e) \/ SendFailed(d, e) \/ SendRefused(d, e)
        PROVE  [Delivery!Next]_abstract
    <3>1. e \in Rows /\ e \in Events
      BY DEF DInv, Rows
    <3>2. created' = created /\ delivered' = delivered
      BY <2>4 DEF SendAccepted, SendFailed, SendRefused, rowVars
    <3>3. Rows' = Rows
      BY <3>2 DEF Rows
    <3>4. received' = received \/ received' = received \cup {e}
      BY <2>4 DEF SendAccepted, SendFailed, SendRefused
    <3>5. CASE received' = received \cup {e}
      <4>1. Delivery!Deliver(e)
        BY <3>1, <3>2, <3>3, <3>5 DEF Delivery!Deliver
      <4> QED
        BY <3>1, <4>1 DEF Delivery!Next
    <3> QED
      BY <2>3, <3>2, <3>4, <3>5
  <2>5. ASSUME NEW d \in Drains, NEW e \in batch[d], MarkDelivered(d, e)
        PROVE  Delivery!Next
    <3>1. e \in Events /\ e \in received
      BY <2>5 DEF DInv, Rows, MarkDelivered, Ok
    <3>2. created' = created /\ received' = received /\ delivered' = delivered \cup {e}
      BY <2>5 DEF MarkDelivered
    <3>3. Rows' = Rows
      BY <3>2 DEF Rows
    <3>4. Delivery!Acknowledge(e)
      BY <3>1, <3>2, <3>3 DEF Delivery!Acknowledge
    <3> QED
      BY <3>1, <3>4 DEF Delivery!Next
  <2>6. ASSUME NEW d \in Drains, NEW e \in batch[d], MarkFailed(d, e) \/ OverflowStops(d, e)
        PROVE  UNCHANGED abstract
    BY <2>3, <2>6 DEF MarkFailed, OverflowStops, Stop, rowVars
  <2>7. ASSUME NEW d \in Drains, DrainNext(d)
        PROVE  [Delivery!Next]_abstract
    <3>1. CASE StartDrain(d)
      BY <2>3, <3>1 DEF StartDrain, rowVars
    <3> QED
      BY <2>4, <2>5, <2>6, <2>7, <3>1 DEF DrainNext
  <2>8. ASSUME \/ Crash \/ Restart \/ UNCHANGED vars
               \/ \E e \in Events : BackoffEnds(e)
               \/ \E s \in Sales : PollApproved(s)
        PROVE  UNCHANGED abstract
    BY <2>3, <2>8 DEF Crash, Stop, Restart, BackoffEnds, PollApproved, vars, rowVars
  <2> QED
    BY <2>2, <2>7, <2>8 DEF Next
<1> QED
  BY <1>1, <1>2, DrainsSafe, PTL DEF Spec, ImplementsDelivery, Delivery!Spec

=============================================================================
