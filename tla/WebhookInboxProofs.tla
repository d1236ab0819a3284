------------------------- MODULE WebhookInboxProofs -------------------------
(***************************************************************************)
(* Exactly-once processing of notifications, proved for any set of charges *)
(* and overlapping deliveries, and any number of failures and crashes.     *)
(***************************************************************************)
EXTENDS WebhookInbox, TLAPS

(* A delivery past the insert works on a stored row; one that is about to     *)
(* answer 200 works on a processed one.                                       *)
Progress ==
  \A d \in Deliveries :
    /\ at[d] \in {"ignoring", "processing", "failing", "answering"} => row[of[d]] # "absent"
    /\ at[d] = "answering" => row[of[d]] = "processed"
    /\ at[d] \in {"processing", "failing"} => IsFinal(of[d])
    /\ at[d] = "ignoring" => ~IsFinal(of[d])
    /\ at[d] # "idle" => of[d] \in sent /\ of[d] \in Events

(* What is processed was handled: its charge is in the ledger. *)
Posted == \A e \in Events : IsFinal(e) /\ row[e] = "processed" => e[2] \in ledger

(* The inductive invariant. *)
IInv == TypeOK /\ Progress /\ Posted /\ AppliedOnce /\ AckedIsHandled

-----------------------------------------------------------------------------
LEMMA EventKeys ==
  /\ \A e \in Events : e \in Keys /\ e[2] \in Charges
  /\ \A e \in Events : RejectKey(e) \in Keys /\ RejectKey(e) \notin Events
<1>1. ASSUME NEW e \in Events
      PROVE  e \in Keys /\ e[2] \in Charges /\ RejectKey(e) \in Keys /\ RejectKey(e) \notin Events
  <2>1. PICK t \in Final \cup {"abandoned"}, c \in Charges : e = <<t, c>>
    BY DEF Events
  <2>2. RejectKey(e) = <<"rejected", c>>
    BY <2>1 DEF RejectKey
  <2> QED
    BY <2>1, <2>2 DEF Keys, Events, Final
<1> QED
  BY <1>1

LEMMA IInvStart == Init => IInv
<1> SUFFICES ASSUME Init PROVE IInv
  OBVIOUS
<1>1. TypeOK
  BY EventKeys, InboxAssumption DEF Init, TypeOK
<1>2. Progress /\ Posted /\ AppliedOnce /\ AckedIsHandled
  BY EventKeys DEF Init, Progress, Posted, AppliedOnce, AckedIsHandled
<1> QED
  BY <1>1, <1>2 DEF IInv

LEMMA IInvStep == IInv /\ [Next]_vars => IInv'
<1> SUFFICES ASSUME IInv, [Next]_vars PROVE IInv'
  OBVIOUS
<1> USE InboxAssumption, EventKeys DEF IInv, TypeOK, IsFinal
<1>1. ASSUME NEW e \in Events, Occurs(e) PROVE IInv'
  BY <1>1 DEF Progress, Posted, AppliedOnce, AckedIsHandled, Occurs
<1>2. ASSUME NEW e \in Events, Reject(e) PROVE IInv'
  BY <1>2 DEF Progress, Posted, AppliedOnce, AckedIsHandled, Reject
<1>3. ASSUME NEW d \in Deliveries, NEW e \in Events, Arrive(d, e) PROVE IInv'
  BY <1>3 DEF Progress, Posted, AppliedOnce, AckedIsHandled, Arrive
<1>4. ASSUME NEW d \in Deliveries, Upsert(d) PROVE IInv'
  BY <1>4 DEF Progress, Posted, AppliedOnce, AckedIsHandled, Upsert, Inserted, Duplicate, Answer200, Go, Leave
<1>5. ASSUME NEW d \in Deliveries, Ignore(d) PROVE IInv'
  BY <1>5 DEF Progress, Posted, AppliedOnce, AckedIsHandled, Ignore, Go, Leave
<1>6. ASSUME NEW d \in Deliveries, ProcessDuplicate(d) PROVE IInv'
  BY <1>6 DEF Progress, Posted, AppliedOnce, AckedIsHandled, ProcessDuplicate, Already, Go, Leave
<1>7. ASSUME NEW d \in Deliveries, Process(d) PROVE IInv'
  BY <1>7 DEF Progress, Posted, AppliedOnce, AckedIsHandled, Process, Already, Accepts, Go, Leave
<1>8. ASSUME NEW d \in Deliveries, ProcessFails(d) PROVE IInv'
  BY <1>8 DEF Progress, Posted, AppliedOnce, AckedIsHandled, ProcessFails, Go, Leave
<1>9. ASSUME NEW d \in Deliveries, NoteError(d) PROVE IInv'
  BY <1>9 DEF Progress, Posted, AppliedOnce, AckedIsHandled, NoteError, Go, Leave
<1>10. ASSUME NEW d \in Deliveries, QueryFails(d) PROVE IInv'
  BY <1>10 DEF Progress, Posted, AppliedOnce, AckedIsHandled, QueryFails, Go, Leave
<1>11. ASSUME NEW d \in Deliveries, Answer(d) PROVE IInv'
  BY <1>11 DEF Progress, Posted, AppliedOnce, AckedIsHandled, Answer, Answer200, Go, Leave
<1>12. ASSUME NEW c \in Charges, Reconcile(c) PROVE IInv'
  BY <1>12 DEF Progress, Posted, AppliedOnce, AckedIsHandled, Reconcile
<1>13. ASSUME Crash PROVE IInv'
  <2>1. /\ at' \in [Deliveries -> {"idle", "received", "ignoring", "processing",
                                 "failing", "answering"}]
        /\ \A d \in Deliveries : at'[d] = "idle"
        /\ of' \in [Deliveries -> Events \cup {None}]
        /\ crashes' \in 0..MaxCrashes
    BY <1>13 DEF Crash
  <2>2. UNCHANGED <<sent, acked, row, errors, handled, ledger, failures>> /\ up' = FALSE
    BY <1>13 DEF Crash
  <2> QED
    BY <2>1, <2>2 DEF Progress, Posted, AppliedOnce, AckedIsHandled
<1>14. ASSUME Restart PROVE IInv'
  BY <1>14 DEF Progress, Posted, AppliedOnce, AckedIsHandled, Restart
<1>15. ASSUME UNCHANGED vars PROVE IInv'
  BY <1>15 DEF Progress, Posted, AppliedOnce, AckedIsHandled, vars
<1> QED
  BY <1>1, <1>2, <1>3, <1>4, <1>5, <1>6, <1>7, <1>8, <1>9, <1>10, <1>11, <1>12, <1>13, <1>14, <1>15 DEF Next, Handle

-----------------------------------------------------------------------------
(* The inductive invariant holds in every behaviour. *)
THEOREM InboxSafe == Spec => []IInv
<1> QED
  BY IInvStart, IInvStep, PTL DEF Spec

(* The type invariant. *)
THEOREM TypeCorrect == Spec => []TypeOK
<1>1. IInv => TypeOK
  BY DEF IInv
<1> QED
  BY <1>1, InboxSafe, PTL

(* One committed ledger transaction for each processed outcome or chargeback, *)
(* none for any other, whatever overlaps, fails or crashes.                   *)
THEOREM AppliedOnceHolds == Spec => []AppliedOnce
<1>1. IInv => AppliedOnce
  BY DEF IInv
<1> QED
  BY <1>1, InboxSafe, PTL

(* The provider stops repeating a notification only once it is handled. *)
THEOREM AckedIsHandledHolds == Spec => []AckedIsHandled
<1>1. IInv => AckedIsHandled
  BY DEF IInv
<1> QED
  BY <1>1, InboxSafe, PTL

=============================================================================
