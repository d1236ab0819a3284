----------------------- MODULE PaymentLedgerProofs -----------------------
(* Theorems about PaymentLedger, for every set of links, attempts and       *)
(* creators and every interleaving of webhooks, reconcile runs and console  *)
(* requests.                                                                *)
EXTENDS PaymentLedger, TLAPS

LinkStates == {"absent", "active", "pending", "done", "expired", "cancelled",
               "refunded", "deleted"}
PayStates == {"absent", "pending", "paid", "failed", "refunded", "superseded"}
PollStates == {"no", "open", "overdue", "closed"}

-----------------------------------------------------------------------------
(* Type correctness *)

(* The two upserts only ever write statuses their tables allow. *)
LEMMA MergeTypes ==
  ASSUME NEW st \in Observed, NEW p \in PayStates, NEW t \in {"absent"} \cup Observed
  PROVE  /\ MergePayment(p, PaymentStatus(st)) \in {"pending", "paid", "failed", "refunded"}
         /\ MergeTransaction(t, st) \in Observed
  BY DEF MergePayment, MergeTransaction, PaymentStatus, Observed, Settled, PayStates

(* One observed outcome keeps every row well-typed, whoever observed it. *)
LEMMA OutcomeTypes ==
  ASSUME TypeOK, NEW a \in Attempts, NEW st \in Observed, NEW expire \in BOOLEAN,
         RecordOutcome(a, st, expire), polling' \in [Links -> PollStates]
  PROVE  TypeOK'
<1> DEFINE l == LinkOf[a]
           pay == MergePayment(payStatus[a], PaymentStatus(st))
           tx == MergeTransaction(txStatus[a], st)
<1> USE LedgerAssumption
<1>1. PICK flag \in Flags(a, st), on \in ReserveOn, ok \in NotifyOk :
        Outcome(a, st, expire, flag, on, ok)
  BY DEF RecordOutcome
<1> DEFINE won == pay = "paid" /\ ~(review[a] \/ flag)
<1>2. /\ l \in Links
      /\ pay \in {"pending", "paid", "failed", "refunded"}
      /\ tx \in Observed
      /\ flag \in BOOLEAN
  <2>1. payStatus[a] \in PayStates /\ txStatus[a] \in {"absent"} \cup Observed
    BY DEF TypeOK, PayStates
  <2>2. QED
    BY <2>1, MergeTypes DEF Flags
<1>3. review' \in [Attempts -> BOOLEAN]
  BY <1>1, <1>2 DEF TypeOK, Outcome
<1>4. payStatus' \in [Attempts -> PayStates]
  BY <1>1, <1>2 DEF TypeOK, Outcome, PayStates
<1>5. payOwner' \in [Attempts -> Creators \cup {None}]
  BY <1>1, <1>2 DEF TypeOK, Outcome
<1>6. txStatus' \in [Attempts -> {"absent"} \cup Observed] /\ seen' \in [Attempts -> SUBSET Observed]
  BY <1>1, <1>2 DEF TypeOK, Outcome
<1>7. linkStatus' \in [Links -> LinkStates]
  <2>1. ClaimLink(l, won) \in LinkStates
    BY <1>2 DEF ClaimLink, TypeOK, LinkStates
  <2>2. QED
    BY <1>1, <1>2, <2>1 DEF TypeOK, Outcome, LinkStates
<1>8. timeline' \in [Links -> SUBSET {"created", "cancelled", "expired"}]
  BY <1>1, <1>2 DEF TypeOK, Outcome
<1>9. saleOf' \in [Attempts -> Creators \cup {None}]
  BY <1>1, <1>5 DEF TypeOK, Outcome
<1>10. reserve' \in [Attempts -> {"none", "held", "reversed"}]
  BY <1>1 DEF TypeOK, Outcome
<1>11. notices' \subseteq {"paid", "failed", "reversed"} \X Attempts
  <2>1. Announces(a, st, pay, tx) \subseteq {"paid", "failed", "reversed"} \X Attempts
    BY DEF Announces
  <2>2. QED
    BY <1>1, <2>1 DEF TypeOK, Outcome
<1>12. UNCHANGED <<overdue, linkArchived, linkOwner, payArchived, completed, reversalOf, inflight>>
  BY <1>1 DEF Outcome
<1>13. QED
  BY <1>3, <1>4, <1>5, <1>6, <1>7, <1>8, <1>9, <1>10, <1>11, <1>12
     DEF TypeOK, LinkStates, PayStates, PollStates

(* Every step keeps the types: one step per action. *)
LEMMA TypeNext ==
  ASSUME TypeOK, [Next]_vars
  PROVE  TypeOK'
<1> USE LedgerAssumption
<1> USE DEF LinkStates, PayStates, PollStates, linkVars, payVars, ledgerVars, OnLink,
            Exists, Recorded, Live
<1>1. ASSUME NEW a \in Attempts, NEW st \in Observed, Webhook(a, st)
      PROVE  TypeOK'
  BY <1>1, OutcomeTypes DEF Webhook, TypeOK
<1>2. ASSUME NEW a \in Attempts, NEW st \in Settled,
             PollSettled(a, st) \/ PollReusable(a, st)
      PROVE  TypeOK'
  <2>1. st \in Observed
    BY DEF Observed
  <2>2. CASE PollSettled(a, st)
    BY <2>1, <2>2, OutcomeTypes DEF PollSettled, Polled, TypeOK
  <2>3. CASE PollReusable(a, st)
    BY <2>1, <2>3, OutcomeTypes DEF PollReusable, TypeOK
  <2>4. QED
    BY <1>2, <2>2, <2>3
<1>3. ASSUME NEW a \in Attempts, PollLate(a)
      PROVE  TypeOK'
  <2>1. "approved" \in Observed
    BY DEF Observed, Settled
  <2>2. QED
    BY <1>3, <2>1, OutcomeTypes DEF PollLate, Polled, TypeOK
<1>4. ASSUME NEW a \in Attempts, Reverse(a)
      PROVE  TypeOK'
  BY <1>4 DEF Reverse, TypeOK
<1>5. ASSUME NEW l \in Links,
             CreateLink(l) \/ DeadlinePasses(l) \/ CancelLink(l) \/ DeleteLink(l) \/ ArchiveLink(l)
      PROVE  TypeOK'
  <2>1. CASE CreateLink(l)
    BY <2>1 DEF CreateLink, TypeOK
  <2>2. CASE DeadlinePasses(l)
    BY <2>2 DEF DeadlinePasses, TypeOK
  <2>3. CASE CancelLink(l)
    BY <2>3 DEF CancelLink, TypeOK
  <2>4. CASE DeleteLink(l)
    BY <2>4 DEF DeleteLink, TypeOK
  <2>5. CASE ArchiveLink(l)
    BY <2>5 DEF ArchiveLink, TypeOK
  <2>6. QED
    BY <1>5, <2>1, <2>2, <2>3, <2>4, <2>5
<1>6. ASSUME NEW l \in Links, ListOpen(l) \/ ListClosed(l) \/ PollSkipped(l) \/ PollExpired(l)
      PROVE  TypeOK'
  BY <1>6 DEF ListOpen, ListClosed, PollSkipped, PollExpired, Polled, WriteOff, TypeOK
<1>7. ASSUME NEW r \in inflight, Abandon(r)
      PROVE  TypeOK'
  BY <1>7 DEF Abandon, End, TypeOK
<1>8. ASSUME NEW a \in Attempts, BeginDetails(a) \/ CompleteDetails(a)
      PROVE  TypeOK'
  <2>1. DetailsReq(a) \in Requests
    BY DEF DetailsReq, Requests
  <2>2. CASE BeginDetails(a)
    BY <2>1, <2>2 DEF BeginDetails, Begin, TypeOK
  <2>3. CASE CompleteDetails(a)
    BY <2>3 DEF CompleteDetails, End, Finish, TypeOK
  <2>4. QED
    BY <1>8, <2>2, <2>3
<1>9. ASSUME NEW a \in Attempts, NEW c \in Creators, BeginMovePayment(a, c) \/ MovePayment(a, c)
      PROVE  TypeOK'
  <2>1. MovePaymentReq(a, c) \in Requests
    BY DEF MovePaymentReq, Requests
  <2>2. CASE BeginMovePayment(a, c)
    BY <2>1, <2>2 DEF BeginMovePayment, Begin, TypeOK
  <2>3. CASE MovePayment(a, c)
    BY <2>3 DEF MovePayment, Move, Repost, End, TypeOK
  <2>4. QED
    BY <1>9, <2>2, <2>3
<1>10. ASSUME NEW l \in Links, NEW c \in Creators, BeginMoveLink(l, c) \/ MoveLink(l, c)
       PROVE  TypeOK'
  <2>1. MoveLinkReq(l, c) \in Requests
    BY DEF MoveLinkReq, Requests
  <2>2. CASE BeginMoveLink(l, c)
    BY <2>1, <2>2 DEF BeginMoveLink, Begin, TypeOK
  <2>3. CASE MoveLink(l, c)
    BY <2>3 DEF MoveLink, Move, Repost, End, TypeOK
  <2>4. QED
    BY <1>10, <2>2, <2>3
<1>11. ASSUME NEW a \in Attempts, ArchivePayment(a)
       PROVE  TypeOK'
  BY <1>11 DEF ArchivePayment, TypeOK
<1>12. CASE UNCHANGED vars
  BY <1>12 DEF vars, TypeOK
<1>13. QED
  BY <1>1, <1>2, <1>3, <1>4, <1>5, <1>6, <1>7, <1>8, <1>9, <1>10, <1>11, <1>12
     DEF Next, KeptNext, ProviderNext, LinkNext, ConsoleNext

(* Every table keeps to the statuses and owners its columns allow, whatever   *)
(* webhooks, reconcile runs and console requests interleave.                  *)
THEOREM TypeCorrect == Spec => []TypeOK
<1>1. Init => TypeOK
  BY LedgerAssumption DEF Init, TypeOK
<1>2. TypeOK /\ [Next]_vars => TypeOK'
  BY TypeNext
<1>3. QED
  BY <1>1, <1>2, PTL DEF Spec

-----------------------------------------------------------------------------
(* The inductive invariant *)

(* A recorded payment has an owner, so a sale posted for it has one too. *)
Owned == \A a \in Attempts : Recorded(a) => payOwner[a] # None

IInv ==
  /\ TypeOK
  /\ Owned
  /\ EvidenceMerge
  /\ ApprovedIsPosted
  /\ ReversalSettles
  /\ PaidClosesLink
  /\ LinkTellsPayment
  /\ ReusableStaysOpen

(* What one observed outcome leaves in the rows of its own attempt: the facts *)
(* the invariant needs, without the expressions that compute them.            *)
LEMMA OutcomeOwnRow ==
  ASSUME IInv, NEW a \in Attempts, NEW st \in Observed, NEW expire \in BOOLEAN,
         RecordOutcome(a, st, expire)
  PROVE  /\ seen'[a] = seen[a] \cup {st}
         /\ txStatus'[a] = MergeTransaction(txStatus[a], st)
         /\ payStatus'[a] = MergePayment(payStatus[a], PaymentStatus(st))
         /\ payOwner'[a] \in Creators
         /\ review[a] => review'[a]
         /\ saleOf[a] # None => saleOf'[a] = saleOf[a] /\ reserve'[a] = reserve[a]
         /\ saleOf'[a] # None <=> saleOf[a] # None \/ (txStatus'[a] = "approved" /\ ~review'[a])
         /\ saleOf'[a] = None => reserve'[a] = reserve[a]
         /\ review'[a] /\ ~review[a] => st = "approved" /\ LinkOf[a] \in SingleUse
         /\ reversalOf' = reversalOf
<1> USE LedgerAssumption
<1>1. PICK flag \in Flags(a, st), on \in ReserveOn, ok \in NotifyOk :
        Outcome(a, st, expire, flag, on, ok)
  BY DEF RecordOutcome
<1>2. flag \in BOOLEAN /\ (flag => st = "approved" /\ LinkOf[a] \in SingleUse)
  BY DEF Flags
<1>3. TypeOK /\ Owned
  BY DEF IInv
<1>4. payOwner'[a] \in Creators
  BY <1>1, <1>3 DEF Outcome, TypeOK, Owned, Recorded
<1>5. /\ seen'[a] = seen[a] \cup {st}
      /\ txStatus'[a] = MergeTransaction(txStatus[a], st)
      /\ payStatus'[a] = MergePayment(payStatus[a], PaymentStatus(st))
      /\ review'[a] = (review[a] \/ flag)
      /\ reversalOf' = reversalOf
  BY <1>1, <1>3 DEF Outcome, TypeOK
<1> DEFINE posts == Posts(a, txStatus'[a], review'[a])
<1>6. /\ saleOf'[a] = IF posts THEN payOwner'[a] ELSE saleOf[a]
      /\ reserve'[a] = IF posts /\ on THEN "held" ELSE reserve[a]
  BY <1>1, <1>3, <1>5 DEF Outcome, TypeOK
<1>7. QED
  BY <1>2, <1>4, <1>5, <1>6 DEF Posts

(* What it leaves in the rows of the other attempts and in the links. *)
LEMMA OutcomeOtherRows ==
  ASSUME IInv, NEW a \in Attempts, NEW st \in Observed, NEW expire \in BOOLEAN,
         RecordOutcome(a, st, expire)
  PROVE  /\ \A b \in Attempts \ {a} :
              /\ seen'[b] = seen[b] /\ txStatus'[b] = txStatus[b] /\ review'[b] = review[b]
              /\ payOwner'[b] = payOwner[b] /\ saleOf'[b] = saleOf[b]
              /\ reserve'[b] = reserve[b]
              /\ \/ payStatus'[b] = payStatus[b]
                 \/ /\ payStatus'[b] = "superseded" /\ payStatus[b] \in {"pending", "failed"}
                    /\ LinkOf[b] \in SingleUse
         /\ \A k \in Links \ {LinkOf[a]} : linkStatus'[k] = linkStatus[k]
         /\ linkStatus[LinkOf[a]] \notin {"absent", "deleted"}
         /\ IF payStatus'[a] = "paid" /\ ~review'[a] /\ LinkOf[a] \in SingleUse
               THEN linkStatus'[LinkOf[a]] =
                      IF linkStatus[LinkOf[a]] \in Reopenable THEN "pending"
                      ELSE linkStatus[LinkOf[a]]
               ELSE \/ linkStatus'[LinkOf[a]] = linkStatus[LinkOf[a]]
                    \/ /\ expire /\ linkStatus[LinkOf[a]] = "active"
                       /\ linkStatus'[LinkOf[a]] = "expired"
<1> USE LedgerAssumption
<1> DEFINE l == LinkOf[a]
<1>1. PICK flag \in Flags(a, st), on \in ReserveOn, ok \in NotifyOk :
        Outcome(a, st, expire, flag, on, ok)
  BY DEF RecordOutcome
<1>2. TypeOK /\ l \in Links
  BY DEF IInv
<1> DEFINE pay == MergePayment(payStatus[a], PaymentStatus(st))
           won == pay = "paid" /\ ~(review[a] \/ flag)
<1>3. payStatus'[a] = pay /\ review'[a] = (review[a] \/ flag)
  BY <1>1, <1>2 DEF Outcome, TypeOK
<1>4. \A b \in Attempts \ {a} :
        /\ seen'[b] = seen[b] /\ txStatus'[b] = txStatus[b] /\ review'[b] = review[b]
        /\ payOwner'[b] = payOwner[b] /\ saleOf'[b] = saleOf[b] /\ reserve'[b] = reserve[b]
  BY <1>1, <1>2 DEF Outcome, TypeOK
<1>5. \A b \in Attempts \ {a} :
        \/ payStatus'[b] = payStatus[b]
        \/ /\ payStatus'[b] = "superseded" /\ payStatus[b] \in {"pending", "failed"}
           /\ LinkOf[b] \in SingleUse
  BY <1>1, <1>2 DEF Outcome, Beaten
<1>6. linkStatus' = [linkStatus EXCEPT ![l] =
                       IF expire /\ ClaimLink(l, won) = "active" THEN "expired"
                       ELSE ClaimLink(l, won)]
  BY <1>1 DEF Outcome
<1>7. /\ \A k \in Links \ {l} : linkStatus'[k] = linkStatus[k]
      /\ linkStatus'[l] = IF expire /\ ClaimLink(l, won) = "active" THEN "expired"
                          ELSE ClaimLink(l, won)
  BY <1>2, <1>6 DEF TypeOK
<1>8. linkStatus[l] \notin {"absent", "deleted"}
  BY DEF RecordOutcome, Exists
<1>9. won <=> payStatus'[a] = "paid" /\ ~review'[a]
  BY <1>3
<1>10. IF won /\ l \in SingleUse
         THEN linkStatus'[l] = IF linkStatus[l] \in Reopenable THEN "pending" ELSE linkStatus[l]
         ELSE \/ linkStatus'[l] = linkStatus[l]
              \/ expire /\ linkStatus[l] = "active" /\ linkStatus'[l] = "expired"
  BY <1>7 DEF ClaimLink, Reopenable
<1>11. QED
  BY <1>4, <1>5, <1>7, <1>8, <1>9, <1>10

(* One observed outcome keeps every part of the invariant but the types. *)
LEMMA OutcomeKeeps ==
  ASSUME IInv, NEW a \in Attempts, NEW st \in Observed, NEW expire \in BOOLEAN,
         expire => LinkOf[a] \in SingleUse,
         RecordOutcome(a, st, expire), TypeOK'
  PROVE  IInv'
<1> USE LedgerAssumption
<1> DEFINE l == LinkOf[a]
<1>1. /\ seen'[a] = seen[a] \cup {st}
      /\ txStatus'[a] = MergeTransaction(txStatus[a], st)
      /\ payStatus'[a] = MergePayment(payStatus[a], PaymentStatus(st))
      /\ payOwner'[a] \in Creators
      /\ review[a] => review'[a]
      /\ saleOf[a] # None => saleOf'[a] = saleOf[a] /\ reserve'[a] = reserve[a]
      /\ saleOf'[a] # None <=> saleOf[a] # None \/ (txStatus'[a] = "approved" /\ ~review'[a])
      /\ saleOf'[a] = None => reserve'[a] = reserve[a]
      /\ review'[a] /\ ~review[a] => st = "approved" /\ LinkOf[a] \in SingleUse
      /\ reversalOf' = reversalOf
  BY OutcomeOwnRow
<1>2. \A b \in Attempts \ {a} :
        /\ seen'[b] = seen[b] /\ txStatus'[b] = txStatus[b] /\ review'[b] = review[b]
        /\ payOwner'[b] = payOwner[b] /\ saleOf'[b] = saleOf[b] /\ reserve'[b] = reserve[b]
        /\ \/ payStatus'[b] = payStatus[b]
           \/ /\ payStatus'[b] = "superseded" /\ payStatus[b] \in {"pending", "failed"}
              /\ LinkOf[b] \in SingleUse
  BY OutcomeOtherRows
<1>3. /\ \A k \in Links \ {l} : linkStatus'[k] = linkStatus[k]
      /\ linkStatus[l] \notin {"absent", "deleted"}
      /\ IF payStatus'[a] = "paid" /\ ~review'[a] /\ l \in SingleUse
           THEN linkStatus'[l] = IF linkStatus[l] \in Reopenable THEN "pending" ELSE linkStatus[l]
           ELSE \/ linkStatus'[l] = linkStatus[l]
                \/ expire /\ linkStatus[l] = "active" /\ linkStatus'[l] = "expired"
  BY OutcomeOtherRows
<1>4. /\ l \in Links
      /\ \A b \in Attempts : LinkOf[b] \in Links /\ seen[b] \subseteq Observed
      /\ \A k \in Links : linkStatus[k] \in LinkStates
      /\ \A b \in Attempts : payStatus[b] \in PayStates
  BY DEF IInv, TypeOK, LinkStates, PayStates
<1>5. Owned'
  BY <1>1, <1>2 DEF IInv, Owned, Recorded
<1>6. EvidenceMerge'
  <2>1. ASSUME NEW b \in Attempts
        PROVE  /\ txStatus'[b] = IF "approved" \in seen'[b] THEN "approved"
                                 ELSE IF "declined" \in seen'[b] THEN "declined"
                                 ELSE IF "pending" \in seen'[b] THEN "pending" ELSE "absent"
               /\ payStatus'[b] \in {"paid", "refunded"} <=> "approved" \in seen'[b]
               /\ payStatus'[b] = "absent" <=> seen'[b] = {}
    <3>0. /\ txStatus[b] = IF "approved" \in seen[b] THEN "approved"
                           ELSE IF "declined" \in seen[b] THEN "declined"
                           ELSE IF "pending" \in seen[b] THEN "pending" ELSE "absent"
          /\ payStatus[b] \in {"paid", "refunded"} <=> "approved" \in seen[b]
          /\ payStatus[b] = "absent" <=> seen[b] = {}
      BY DEF IInv, EvidenceMerge
    <3>1. CASE b = a
      <4>1. txStatus'[b] = IF "approved" \in seen'[b] THEN "approved"
                           ELSE IF "declined" \in seen'[b] THEN "declined"
                           ELSE IF "pending" \in seen'[b] THEN "pending" ELSE "absent"
        BY <1>1, <3>0, <3>1 DEF MergeTransaction, Observed, Settled
      <4>2. payStatus'[b] \in {"paid", "refunded"} <=> "approved" \in seen'[b]
        BY <1>1, <3>0, <3>1 DEF MergePayment, PaymentStatus, Observed, Settled
      <4>3. payStatus'[b] # "absent"
        BY <1>1, <3>1 DEF MergePayment, PaymentStatus, Observed, Settled
      <4>4. QED
        BY <1>1, <3>1, <4>1, <4>2, <4>3
    <3>2. CASE b # a
      BY <1>2, <3>0, <3>2
    <3>3. QED
      BY <3>1, <3>2
  <2>2. QED
    BY <2>1 DEF EvidenceMerge
<1>7. ApprovedIsPosted'
  <2>1. ASSUME NEW b \in Attempts
        PROVE  /\ txStatus'[b] = "approved" /\ ~review'[b] => saleOf'[b] # None
               /\ saleOf'[b] # None => txStatus'[b] = "approved"
    <3>1. CASE b = a
      <4>1. saleOf[a] # None => txStatus'[a] = "approved"
        BY <1>1 DEF IInv, ApprovedIsPosted, MergeTransaction
      <4>2. QED
        BY <1>1, <3>1, <4>1
    <3>2. CASE b # a
      BY <1>2, <3>2 DEF IInv, ApprovedIsPosted
    <3>3. QED
      BY <3>1, <3>2
  <2>2. QED
    BY <2>1 DEF ApprovedIsPosted
<1>8. ReversalSettles'
  <2>1. ASSUME NEW b \in Attempts
        PROVE  /\ reversalOf'[b] # None <=> payStatus'[b] = "refunded"
               /\ reversalOf'[b] # None => saleOf'[b] # None /\ reserve'[b] # "held"
               /\ reserve'[b] # "none" => saleOf'[b] # None
    <3>1. /\ reversalOf[b] # None <=> payStatus[b] = "refunded"
          /\ reversalOf[b] # None => saleOf[b] # None /\ reserve[b] # "held"
          /\ reserve[b] # "none" => saleOf[b] # None
      BY DEF IInv, ReversalSettles
    <3>2. payStatus'[b] = "refunded" <=> payStatus[b] = "refunded"
      BY <1>1, <1>2 DEF MergePayment, PaymentStatus
    <3>3. QED
      BY <1>1, <1>2, <3>1, <3>2
  <2>2. QED
    BY <2>1 DEF ReversalSettles
<1>9. PaidClosesLink'
  <2>1. ASSUME NEW b \in Attempts, LinkOf[b] \in SingleUse, payStatus'[b] = "paid", ~review'[b]
        PROVE  linkStatus'[LinkOf[b]] \in {"pending", "done", "refunded"}
    <3>1. CASE b = a
      BY <1>3, <1>4, <2>1, <3>1 DEF Reopenable, LinkStates
    <3>2. CASE b # a
      <4>1. linkStatus[LinkOf[b]] \in {"pending", "done", "refunded"}
        BY <1>2, <2>1, <3>2 DEF IInv, PaidClosesLink
      <4>2. QED
        BY <1>3, <1>4, <4>1 DEF Reopenable
    <3>3. QED
      BY <3>1, <3>2
  <2>2. QED
    BY <2>1 DEF PaidClosesLink
<1>10. LinkTellsPayment'
  <2>1. ASSUME NEW b \in Attempts
        PROVE  /\ payStatus[b] = "paid" /\ saleOf[b] # None =>
                    payStatus'[b] = "paid" /\ saleOf'[b] # None
               /\ payStatus[b] = "refunded" => payStatus'[b] = "refunded"
    BY <1>1, <1>2 DEF MergePayment, PaymentStatus
  <2>2. payStatus'[a] = "paid" /\ ~review'[a] => saleOf'[a] # None
    BY <1>6, <1>7 DEF EvidenceMerge, ApprovedIsPosted
  <2>3. ASSUME NEW k \in Links
        PROVE  /\ linkStatus'[k] \in {"pending", "done"} =>
                    \E b \in OnLink(k) : payStatus'[b] = "paid" /\ saleOf'[b] # None
               /\ linkStatus'[k] = "refunded" => \E b \in OnLink(k) : payStatus'[b] = "refunded"
    <3>1. /\ linkStatus[k] \in {"pending", "done"} =>
               \E b \in OnLink(k) : payStatus[b] = "paid" /\ saleOf[b] # None
          /\ linkStatus[k] = "refunded" => \E b \in OnLink(k) : payStatus[b] = "refunded"
      BY DEF IInv, LinkTellsPayment
    <3>2. CASE linkStatus'[k] = linkStatus[k]
      BY <2>1, <3>1, <3>2 DEF OnLink
    <3>3. CASE linkStatus'[k] # linkStatus[k]
      <4>1. \/ linkStatus'[k] = "expired"
            \/ linkStatus'[k] = "pending" /\ k = l /\ payStatus'[a] = "paid" /\ ~review'[a]
        BY <1>3, <3>3
      <4>2. QED
        BY <2>2, <4>1 DEF OnLink
    <3>4. QED
      BY <3>2, <3>3
  <2>4. QED
    BY <2>3 DEF LinkTellsPayment, OnLink
<1>11. ReusableStaysOpen'
  <2>1. ASSUME NEW k \in Links \ SingleUse
        PROVE  linkStatus'[k] \in {"absent", "active", "cancelled", "deleted"}
    BY <1>3 DEF IInv, ReusableStaysOpen
  <2>2. ASSUME NEW b \in Attempts, LinkOf[b] \notin SingleUse
        PROVE  ~review'[b] /\ payStatus'[b] # "superseded"
    <3>1. ~review[b] /\ payStatus[b] # "superseded"
      BY <2>2 DEF IInv, ReusableStaysOpen
    <3>2. CASE b = a
      <4>1. payStatus'[a] # "superseded"
        BY <1>1 DEF MergePayment, PaymentStatus
      <4>2. QED
        BY <1>1, <2>2, <3>1, <3>2, <4>1
    <3>3. CASE b # a
      BY <1>2, <2>2, <3>1, <3>3
    <3>4. QED
      BY <3>2, <3>3
  <2>3. QED
    BY <2>1, <2>2 DEF ReusableStaysOpen
<1>12. QED
  BY <1>5, <1>6, <1>7, <1>8, <1>9, <1>10, <1>11 DEF IInv

(* The rows the invariant is about, the status of the links excepted. *)
MoneyRows == <<payStatus, review, payOwner, txStatus, seen, saleOf, reversalOf, reserve>>

(* A step that changes no money row and only opens, cancels, deletes, writes  *)
(* off or finishes links, keeps the invariant.                                *)
LEMMA LinkStepKeeps ==
  ASSUME IInv, TypeOK', UNCHANGED MoneyRows,
         \A k \in Links :
           \/ linkStatus'[k] = linkStatus[k]
           \/ linkStatus[k] = "absent" /\ linkStatus'[k] = "active"
           \/ linkStatus[k] = "active" /\ linkStatus'[k] = "cancelled"
           \/ linkStatus[k] = "cancelled" /\ linkStatus'[k] = "deleted"
           \/ linkStatus[k] = "active" /\ linkStatus'[k] = "expired" /\ k \in SingleUse
           \/ linkStatus[k] = "pending" /\ linkStatus'[k] = "done"
  PROVE  IInv'
<1> USE LedgerAssumption
<1>1. /\ payStatus' = payStatus /\ review' = review /\ payOwner' = payOwner
      /\ txStatus' = txStatus /\ seen' = seen /\ saleOf' = saleOf
      /\ reversalOf' = reversalOf /\ reserve' = reserve
  BY DEF MoneyRows
<1>2. \A b \in Attempts : LinkOf[b] \in Links
  OBVIOUS
<1>3. Owned' /\ EvidenceMerge' /\ ApprovedIsPosted' /\ ReversalSettles'
  BY <1>1 DEF IInv, Owned, Recorded, EvidenceMerge, ApprovedIsPosted, ReversalSettles
<1>4. PaidClosesLink'
  <2>1. ASSUME NEW b \in Attempts, LinkOf[b] \in SingleUse, payStatus'[b] = "paid", ~review'[b]
        PROVE  linkStatus'[LinkOf[b]] \in {"pending", "done", "refunded"}
    <3>1. linkStatus[LinkOf[b]] \in {"pending", "done", "refunded"}
      BY <1>1, <2>1 DEF IInv, PaidClosesLink
    <3>2. QED
      BY <1>2, <3>1
  <2>2. QED
    BY <2>1 DEF PaidClosesLink
<1>5. LinkTellsPayment'
  <2>1. ASSUME NEW k \in Links
        PROVE  /\ linkStatus'[k] \in {"pending", "done"} =>
                    \E b \in OnLink(k) : payStatus[b] = "paid" /\ saleOf[b] # None
               /\ linkStatus'[k] = "refunded" => \E b \in OnLink(k) : payStatus[b] = "refunded"
    <3>1. linkStatus'[k] \in {"pending", "done"} => linkStatus[k] \in {"pending", "done"}
      OBVIOUS
    <3>2. linkStatus'[k] = "refunded" => linkStatus[k] = "refunded"
      OBVIOUS
    <3>3. QED
      BY <3>1, <3>2 DEF IInv, LinkTellsPayment
  <2>2. QED
    BY <1>1, <2>1 DEF LinkTellsPayment, OnLink
<1>6. ReusableStaysOpen'
  <2>1. ASSUME NEW k \in Links \ SingleUse
        PROVE  linkStatus'[k] \in {"absent", "active", "cancelled", "deleted"}
    BY DEF IInv, ReusableStaysOpen
  <2>2. QED
    BY <1>1, <2>1 DEF IInv, ReusableStaysOpen
<1>7. QED
  BY <1>3, <1>4, <1>5, <1>6 DEF IInv

(* A refund or chargeback keeps the invariant. *)
LEMMA ReverseKeeps ==
  ASSUME IInv, TypeOK', NEW a \in Attempts, Reverse(a)
  PROVE  IInv'
<1> USE LedgerAssumption
<1> DEFINE l == LinkOf[a]
<1>1. /\ TypeOK /\ l \in Links
      /\ \A b \in Attempts : LinkOf[b] \in Links
  BY DEF IInv
<1>2. /\ review' = review /\ payOwner' = payOwner /\ txStatus' = txStatus
      /\ seen' = seen /\ saleOf' = saleOf
      /\ saleOf[a] # None /\ txStatus[a] = "approved"
  BY DEF Reverse, Reversible
<1>3. /\ payStatus'[a] = "refunded"
      /\ \A b \in Attempts \ {a} : payStatus'[b] = payStatus[b]
  BY <1>1 DEF Reverse, TypeOK
<1>4. /\ reversalOf'[a] = saleOf[a]
      /\ \A b \in Attempts \ {a} : reversalOf'[b] = reversalOf[b]
  BY <1>1 DEF Reverse, TypeOK
<1>5. /\ reserve'[a] = IF reserve[a] = "held" THEN "reversed" ELSE reserve[a]
      /\ \A b \in Attempts \ {a} : reserve'[b] = reserve[b]
  BY <1>1 DEF Reverse, TypeOK
<1>6. /\ linkStatus'[l] = IF l \in SingleUse THEN "refunded" ELSE linkStatus[l]
      /\ \A k \in Links \ {l} : linkStatus'[k] = linkStatus[k]
  BY <1>1 DEF Reverse, TypeOK
<1>7. "approved" \in seen[a] /\ payStatus[a] \in {"paid", "refunded"}
  <2>1. txStatus[a] = IF "approved" \in seen[a] THEN "approved"
                      ELSE IF "declined" \in seen[a] THEN "declined"
                      ELSE IF "pending" \in seen[a] THEN "pending" ELSE "absent"
    BY DEF IInv, EvidenceMerge
  <2>2. "approved" \in seen[a]
    BY <1>2, <2>1
  <2>3. QED
    BY <2>2 DEF IInv, EvidenceMerge
<1>8. Owned'
  BY <1>2, <1>3, <1>7 DEF IInv, Owned, Recorded
<1>9. EvidenceMerge'
  BY <1>2, <1>3, <1>7 DEF IInv, EvidenceMerge
<1>10. ApprovedIsPosted'
  BY <1>2 DEF IInv, ApprovedIsPosted
<1>11. ReversalSettles'
  BY <1>2, <1>3, <1>4, <1>5 DEF IInv, ReversalSettles
<1>12. PaidClosesLink'
  BY <1>1, <1>2, <1>3, <1>6 DEF IInv, PaidClosesLink
<1>13. LinkTellsPayment'
  <2>1. ASSUME NEW k \in Links
        PROVE  /\ linkStatus'[k] \in {"pending", "done"} =>
                    \E b \in OnLink(k) : payStatus'[b] = "paid" /\ saleOf'[b] # None
               /\ linkStatus'[k] = "refunded" => \E b \in OnLink(k) : payStatus'[b] = "refunded"
    <3>1. CASE k = l
      BY <1>3, <1>6, <3>1 DEF IInv, ReusableStaysOpen, OnLink
    <3>2. CASE k # l
      <4>1. \A b \in OnLink(k) : payStatus'[b] = payStatus[b] /\ saleOf'[b] = saleOf[b]
        BY <1>2, <1>3, <3>2 DEF OnLink
      <4>2. linkStatus'[k] = linkStatus[k]
        BY <1>6, <3>2
      <4>3. QED
        BY <4>1, <4>2 DEF IInv, LinkTellsPayment
    <3>3. QED
      BY <3>1, <3>2
  <2>2. QED
    BY <2>1 DEF LinkTellsPayment, OnLink
<1>14. ReusableStaysOpen'
  BY <1>1, <1>2, <1>3, <1>6 DEF IInv, ReusableStaysOpen
<1>15. QED
  BY <1>8, <1>9, <1>10, <1>11, <1>12, <1>13, <1>14 DEF IInv

(* Moving payments to another creator re-posts sales and creates none for a   *)
(* transaction that is not approved.                                          *)
LEMMA MoveKeeps ==
  ASSUME IInv, TypeOK', NEW moved, NEW c \in Creators, Move(moved, c),
         UNCHANGED <<linkStatus, payStatus, review, txStatus, seen, reversalOf, reserve>>
  PROVE  IInv'
<1> USE LedgerAssumption
<1>1. \A b \in Attempts :
        /\ payOwner'[b] = payOwner[b] \/ payOwner'[b] = c
        /\ saleOf'[b] = saleOf[b] \/ (saleOf'[b] = c /\ txStatus[b] = "approved")
  BY DEF Move, Repost
<1>2. c # None
  OBVIOUS
<1>3. Owned' /\ EvidenceMerge' /\ ReusableStaysOpen'
  BY <1>1, <1>2 DEF IInv, Owned, Recorded, EvidenceMerge, ReusableStaysOpen
<1>4. ApprovedIsPosted' /\ ReversalSettles' /\ PaidClosesLink'
  BY <1>1, <1>2 DEF IInv, ApprovedIsPosted, ReversalSettles, PaidClosesLink
<1>5. LinkTellsPayment'
  <2>1. \A b \in Attempts : saleOf[b] # None => saleOf'[b] # None
    BY <1>1, <1>2
  <2>2. QED
    BY <2>1 DEF IInv, LinkTellsPayment, OnLink
<1>6. QED
  BY <1>3, <1>4, <1>5 DEF IInv

(* Every step keeps the invariant: one step per kind of action. *)
LEMMA IInvNext ==
  ASSUME IInv, [Next]_vars
  PROVE  IInv'
<1> USE LedgerAssumption
<1> USE DEF linkVars, payVars, ledgerVars
<1>0. TypeOK /\ TypeOK'
  BY TypeNext DEF IInv
<1>1. ASSUME NEW a \in Attempts, NEW st \in Observed, Webhook(a, st)
      PROVE  IInv'
  BY <1>0, <1>1, OutcomeKeeps DEF Webhook
<1>2. ASSUME NEW a \in Attempts, NEW st \in Settled, PollSettled(a, st)
      PROVE  IInv'
  BY <1>0, <1>2, OutcomeKeeps DEF PollSettled, Observed
<1>3. ASSUME NEW a \in Attempts, NEW st \in Settled, PollReusable(a, st)
      PROVE  IInv'
  BY <1>0, <1>3, OutcomeKeeps DEF PollReusable, Observed
<1>4. ASSUME NEW a \in Attempts, PollLate(a)
      PROVE  IInv'
  BY <1>0, <1>4, OutcomeKeeps DEF PollLate, Observed, Settled
<1>5. ASSUME NEW a \in Attempts, Reverse(a)
      PROVE  IInv'
  BY <1>0, <1>5, ReverseKeeps
<1>6. ASSUME NEW a \in Attempts, CompleteDetails(a)
      PROVE  IInv'
  <2>1. \A k \in Links : linkStatus'[k] = linkStatus[k]
                           \/ (linkStatus[k] = "pending" /\ linkStatus'[k] = "done")
    BY <1>0, <1>6 DEF CompleteDetails, Finish, TypeOK
  <2>2. UNCHANGED MoneyRows
    BY <1>6 DEF CompleteDetails, MoneyRows
  <2>3. QED
    BY <1>0, <2>1, <2>2, LinkStepKeeps
<1>7. ASSUME NEW k \in Links,
             CreateLink(k) \/ CancelLink(k) \/ DeleteLink(k) \/ PollExpired(k)
      PROVE  IInv'
  <2>1. UNCHANGED MoneyRows
    BY <1>7 DEF CreateLink, CancelLink, DeleteLink, PollExpired, MoneyRows
  <2>2. CASE CreateLink(k)
    BY <1>0, <2>1, <2>2, LinkStepKeeps DEF CreateLink, TypeOK
  <2>3. CASE CancelLink(k)
    BY <1>0, <2>1, <2>3, LinkStepKeeps DEF CancelLink, TypeOK
  <2>4. CASE DeleteLink(k)
    BY <1>0, <2>1, <2>4, LinkStepKeeps DEF DeleteLink, TypeOK
  <2>5. CASE PollExpired(k)
    <3>1. \A m \in Links :
            linkStatus'[m] = linkStatus[m]
              \/ (linkStatus[m] = "active" /\ linkStatus'[m] = "expired" /\ m \in SingleUse)
      BY <1>0, <2>5 DEF PollExpired, WriteOff, TypeOK
    <3>2. QED
      BY <1>0, <2>1, <3>1, LinkStepKeeps
  <2>6. QED
    BY <1>7, <2>2, <2>3, <2>4, <2>5
<1>8. ASSUME NEW a \in Attempts, NEW c \in Creators, MovePayment(a, c)
      PROVE  IInv'
  <2> DEFINE moved == IF LinkOf[a] \in SingleUse THEN Movable(LinkOf[a]) ELSE {a}
  <2>1. /\ Move(moved, c)
        /\ UNCHANGED <<linkStatus, payStatus, review, txStatus, seen, reversalOf, reserve>>
    BY <1>8 DEF MovePayment
  <2>2. QED
    BY <1>0, <2>1, MoveKeeps
<1>9. ASSUME NEW k \in Links, NEW c \in Creators, MoveLink(k, c)
      PROVE  IInv'
  <2>1. /\ Move(Movable(k), c)
        /\ UNCHANGED <<linkStatus, payStatus, review, txStatus, seen, reversalOf, reserve>>
    BY <1>9 DEF MoveLink
  <2>2. QED
    BY <1>0, <2>1, MoveKeeps
<1>10. ASSUME UNCHANGED linkStatus, UNCHANGED MoneyRows
       PROVE  IInv'
  BY <1>0, <1>10, LinkStepKeeps
<1>11. ASSUME NEW k \in Links,
              DeadlinePasses(k) \/ ArchiveLink(k) \/ ListOpen(k) \/ ListClosed(k) \/ PollSkipped(k)
       PROVE  IInv'
  BY <1>10, <1>11 DEF DeadlinePasses, ArchiveLink, ListOpen, ListClosed, PollSkipped, MoneyRows
<1>12. ASSUME NEW r \in inflight, Abandon(r)
       PROVE  IInv'
  BY <1>10, <1>12 DEF Abandon, MoneyRows
<1>13. ASSUME NEW a \in Attempts, NEW c \in Creators, BeginMovePayment(a, c)
       PROVE  IInv'
  BY <1>10, <1>13 DEF BeginMovePayment, Begin, MoneyRows
<1>14. ASSUME NEW k \in Links, NEW c \in Creators, BeginMoveLink(k, c)
       PROVE  IInv'
  BY <1>10, <1>14 DEF BeginMoveLink, Begin, MoneyRows
<1>15. CASE UNCHANGED vars
  BY <1>10, <1>15 DEF vars, MoneyRows
<1>16. ASSUME NEW a \in Attempts, BeginDetails(a) \/ ArchivePayment(a)
       PROVE  IInv'
  BY <1>10, <1>16 DEF BeginDetails, ArchivePayment, Begin, MoneyRows
<1>17. QED
  BY <1>1, <1>2, <1>3, <1>4, <1>5, <1>6, <1>7, <1>8, <1>9, <1>11, <1>12, <1>13, <1>14,
     <1>15, <1>16
     DEF Next, KeptNext, ProviderNext, LinkNext, ConsoleNext

(* The empty database satisfies it. *)
LEMMA IInvInit == Init => IInv
<1>1. Init => TypeOK
  BY LedgerAssumption DEF Init, TypeOK
<1>2. Init => Owned /\ EvidenceMerge /\ ApprovedIsPosted /\ ReversalSettles
  BY DEF Init, Owned, Recorded, EvidenceMerge, ApprovedIsPosted, ReversalSettles
<1>3. Init => PaidClosesLink /\ LinkTellsPayment /\ ReusableStaysOpen
  BY LedgerAssumption DEF Init, PaidClosesLink, LinkTellsPayment, ReusableStaysOpen
<1>4. QED
  BY <1>1, <1>2, <1>3 DEF IInv

(* The ledger is safe however webhooks, reconcile runs, refunds, moves and    *)
(* console requests interleave: every part of the invariant always holds.     *)
THEOREM LedgerSafe == Spec => []IInv
<1>1. Init => IInv
  BY IInvInit
<1>2. IInv /\ [Next]_vars => IInv'
  BY IInvNext
<1>3. QED
  BY <1>1, <1>2, PTL DEF Spec

(* The statuses are a function of the evidence, not of its order. *)
THEOREM EvidenceMergeHolds == Spec => []EvidenceMerge
<1>1. IInv => EvidenceMerge
  BY DEF IInv
<1>2. QED
  BY <1>1, LedgerSafe, PTL

(* An approved, unflagged charge always has its sale entry, and no other does. *)
THEOREM ApprovedIsPostedHolds == Spec => []ApprovedIsPosted
<1>1. IInv => ApprovedIsPosted
  BY DEF IInv
<1>2. QED
  BY <1>1, LedgerSafe, PTL

(* A refund mirrors a posted sale and leaves no reserve held for it. *)
THEOREM ReversalSettlesHolds == Spec => []ReversalSettles
<1>1. IInv => ReversalSettles
  BY DEF IInv
<1>2. QED
  BY <1>1, LedgerSafe, PTL

(* Money that arrived closes its single-use link. *)
THEOREM PaidClosesLinkHolds == Spec => []PaidClosesLink
<1>1. IInv => PaidClosesLink
  BY DEF IInv
<1>2. QED
  BY <1>1, LedgerSafe, PTL

(* A link never reads done, or refunded, without the payment it speaks of. *)
THEOREM LinkTellsPaymentHolds == Spec => []LinkTellsPayment
<1>1. IInv => LinkTellsPayment
  BY DEF IInv
<1>2. QED
  BY <1>1, LedgerSafe, PTL

(* No outcome closes a reusable link, flags its charges or beats them. *)
THEOREM ReusableStaysOpenHolds == Spec => []ReusableStaysOpen
<1>1. IInv => ReusableStaysOpen
  BY DEF IInv
<1>2. QED
  BY <1>1, LedgerSafe, PTL

-----------------------------------------------------------------------------
(* What a step may never do *)

(* No step takes back money that was recorded. *)
LEMMA MoneySticksNext ==
  ASSUME IInv, [Next]_vars, NEW b \in Attempts
  PROVE  /\ payStatus[b] = "refunded" => payStatus'[b] = "refunded"
         /\ payStatus[b] = "paid" => payStatus'[b] \in {"paid", "refunded"}
         /\ txStatus[b] = "approved" => txStatus'[b] = "approved"
         /\ saleOf[b] # None => saleOf'[b] # None
         /\ reversalOf[b] # None => reversalOf'[b] = reversalOf[b]
         /\ review[b] => review'[b]
<1> DEFINE Kept == /\ payStatus[b] = "refunded" => payStatus'[b] = "refunded"
                   /\ payStatus[b] = "paid" => payStatus'[b] \in {"paid", "refunded"}
                   /\ txStatus[b] = "approved" => txStatus'[b] = "approved"
                   /\ saleOf[b] # None => saleOf'[b] # None
                   /\ reversalOf[b] # None => reversalOf'[b] = reversalOf[b]
                   /\ review[b] => review'[b]
<1> USE LedgerAssumption
<1> USE DEF payVars, ledgerVars
<1>1. ASSUME NEW a \in Attempts, NEW st \in Observed, NEW expire \in BOOLEAN,
             RecordOutcome(a, st, expire)
      PROVE  Kept
  <2>1. CASE b = a
    BY <1>1, <2>1, OutcomeOwnRow DEF MergePayment, MergeTransaction, PaymentStatus
  <2>2. CASE b # a
    <3>1. /\ review'[b] = review[b] /\ txStatus'[b] = txStatus[b] /\ saleOf'[b] = saleOf[b]
          /\ payStatus'[b] = payStatus[b] \/ payStatus[b] \in {"pending", "failed"}
      BY <1>1, <2>2, OutcomeOtherRows
    <3>2. reversalOf' = reversalOf
      BY <1>1, OutcomeOwnRow
    <3>3. QED
      BY <3>1, <3>2
  <2>3. QED
    BY <2>1, <2>2
<1>2. ASSUME NEW a \in Attempts, Reverse(a)
      PROVE  Kept
  BY <1>2 DEF IInv, TypeOK, Reverse, Reversible
<1>3. ASSUME NEW moved, NEW c \in Creators, Move(moved, c),
             UNCHANGED <<payStatus, review, txStatus, reversalOf>>
      PROVE  Kept
  BY <1>3 DEF Move, Repost
<1>4. ASSUME UNCHANGED <<payStatus, review, txStatus, saleOf, reversalOf>>
      PROVE  Kept
  BY <1>4
<1>5. ASSUME NEW a \in Attempts, NEW st \in Observed, Webhook(a, st)
      PROVE  Kept
  BY <1>1, <1>5 DEF Webhook
<1>6. ASSUME NEW a \in Attempts, NEW st \in Settled, PollSettled(a, st) \/ PollReusable(a, st)
      PROVE  Kept
  BY <1>1, <1>6 DEF PollSettled, PollReusable, Observed
<1>7. ASSUME NEW a \in Attempts, PollLate(a)
      PROVE  Kept
  BY <1>1, <1>7 DEF PollLate, Observed, Settled
<1>8. ASSUME NEW k \in Links,
             \/ CreateLink(k) \/ DeadlinePasses(k) \/ CancelLink(k) \/ DeleteLink(k)
             \/ ArchiveLink(k)
             \/ ListOpen(k) \/ ListClosed(k) \/ PollSkipped(k) \/ PollExpired(k)
      PROVE  Kept
  BY <1>4, <1>8 DEF CreateLink, DeadlinePasses, CancelLink, DeleteLink, ArchiveLink,
                    ListOpen, ListClosed, PollSkipped, PollExpired
<1>9. ASSUME NEW r \in inflight, Abandon(r)
      PROVE  Kept
  BY <1>4, <1>9 DEF Abandon
<1>10. ASSUME NEW a \in Attempts, BeginDetails(a) \/ CompleteDetails(a) \/ ArchivePayment(a)
       PROVE  Kept
  BY <1>4, <1>10 DEF BeginDetails, CompleteDetails, ArchivePayment, Begin
<1>11. ASSUME NEW a \in Attempts, NEW c \in Creators, BeginMovePayment(a, c) \/ MovePayment(a, c)
       PROVE  Kept
  BY <1>3, <1>4, <1>11 DEF BeginMovePayment, MovePayment, Begin
<1>12. ASSUME NEW k \in Links, NEW c \in Creators, BeginMoveLink(k, c) \/ MoveLink(k, c)
       PROVE  Kept
  BY <1>3, <1>4, <1>12 DEF BeginMoveLink, MoveLink, Begin
<1>13. CASE UNCHANGED vars
  BY <1>4, <1>13 DEF vars
<1>14. Kept
  BY <1>2, <1>5, <1>6, <1>7, <1>8, <1>9, <1>10, <1>11, <1>12, <1>13
     DEF Next, KeptNext, ProviderNext, LinkNext, ConsoleNext
<1>15. QED
  BY <1>14

(* What the provider settled stays settled. *)
THEOREM MoneySticksHolds == Spec => MoneySticks
<1>1. IInv /\ [Next]_vars =>
        [\A a \in Attempts :
           /\ payStatus[a] = "refunded" => payStatus'[a] = "refunded"
           /\ payStatus[a] = "paid" => payStatus'[a] \in {"paid", "refunded"}
           /\ txStatus[a] = "approved" => txStatus'[a] = "approved"
           /\ saleOf[a] # None => saleOf'[a] # None
           /\ reversalOf[a] # None => reversalOf'[a] = reversalOf[a]
           /\ review[a] => review'[a]]_vars
  BY MoneySticksNext
<1>2. QED
  BY <1>1, LedgerSafe, PTL DEF Spec, MoneySticks

(* One observed outcome announces what the merged rows say and nothing else. *)
LEMMA OutcomeAnnounces ==
  ASSUME IInv, NEW a \in Attempts, NEW st \in Observed, NEW expire \in BOOLEAN,
         RecordOutcome(a, st, expire), NEW b \in Attempts
  PROVE  /\ txStatus[b] = "approved" /\ <<"failed", b>> \in notices' =>
              <<"failed", b>> \in notices
         /\ payStatus[b] = "refunded" /\ <<"paid", b>> \in notices' =>
              <<"paid", b>> \in notices
<1> DEFINE pay == MergePayment(payStatus[a], PaymentStatus(st))
           tx == MergeTransaction(txStatus[a], st)
<1>1. PICK flag \in Flags(a, st), on \in ReserveOn, ok \in NotifyOk :
        Outcome(a, st, expire, flag, on, ok)
  BY DEF RecordOutcome
<1>2. notices' \subseteq notices \cup Announces(a, st, pay, tx)
  BY <1>1 DEF Outcome
<1>3. txStatus[a] = "approved" => tx = "approved"
  BY DEF MergeTransaction
<1>4. payStatus[a] = "refunded" => pay = "refunded"
  BY DEF MergePayment
<1>5. \A n \in Announces(a, st, pay, tx) :
        \/ n = <<"paid", a>> /\ pay = "paid"
        \/ n = <<"failed", a>> /\ tx = "declined"
  BY DEF Announces
<1>6. QED
  BY <1>2, <1>3, <1>4, <1>5

(* A late or repeated observation announces nothing the rows contradict. *)
THEOREM NoStaleNoticeHolds == Spec => NoStaleNotice
<1> DEFINE Quiet(b) == /\ txStatus[b] = "approved" /\ <<"failed", b>> \in notices' =>
                            <<"failed", b>> \in notices
                       /\ payStatus[b] = "refunded" /\ <<"paid", b>> \in notices' =>
                            <<"paid", b>> \in notices
<1>1. ASSUME IInv, [Next]_vars, NEW b \in Attempts
      PROVE  Quiet(b)
  <2> USE <1>1 DEF payVars, ledgerVars
  <2>1. ASSUME NEW a \in Attempts, NEW st \in Observed, NEW expire \in BOOLEAN,
               RecordOutcome(a, st, expire)
        PROVE  Quiet(b)
    BY <2>1, OutcomeAnnounces
  <2>2. ASSUME UNCHANGED notices
        PROVE  Quiet(b)
    BY <2>2
  <2>3. ASSUME NEW a \in Attempts, Reverse(a)
        PROVE  Quiet(b)
    <3>1. notices' \subseteq notices \cup {<<"reversed", a>>}
      BY <2>3 DEF Reverse
    <3>2. QED
      BY <3>1
  <2>4. ASSUME NEW a \in Attempts, NEW st \in Observed, Webhook(a, st)
        PROVE  Quiet(b)
    BY <2>1, <2>4 DEF Webhook
  <2>5. ASSUME NEW a \in Attempts, NEW st \in Settled, PollSettled(a, st) \/ PollReusable(a, st)
        PROVE  Quiet(b)
    BY <2>1, <2>5 DEF PollSettled, PollReusable, Observed
  <2>6. ASSUME NEW a \in Attempts, PollLate(a)
        PROVE  Quiet(b)
    BY <2>1, <2>6 DEF PollLate, Observed, Settled
  <2>7. ASSUME LinkNext
        PROVE  UNCHANGED notices
    BY <2>7 DEF LinkNext, CreateLink, DeadlinePasses, CancelLink, DeleteLink, ArchiveLink,
                ListOpen, ListClosed, PollSkipped, PollExpired
  <2>8. ASSUME ConsoleNext
        PROVE  UNCHANGED notices
    BY <2>8 DEF ConsoleNext, Abandon, BeginDetails, CompleteDetails, BeginMovePayment,
                MovePayment, BeginMoveLink, MoveLink, Begin
  <2>9. ASSUME NEW a \in Attempts, ArchivePayment(a)
        PROVE  UNCHANGED notices
    BY <2>9 DEF ArchivePayment
  <2>10. CASE UNCHANGED vars
    BY <2>2, <2>10 DEF vars
  <2>11. QED
    BY <2>2, <2>3, <2>4, <2>5, <2>6, <2>7, <2>8, <2>9, <2>10 DEF Next, KeptNext, ProviderNext
<1>2. IInv /\ [Next]_vars =>
        [\A a \in Attempts :
           /\ txStatus[a] = "approved" /\ <<"failed", a>> \in notices' =>
                <<"failed", a>> \in notices
           /\ payStatus[a] = "refunded" /\ <<"paid", a>> \in notices' =>
                <<"paid", a>> \in notices]_vars
  BY <1>1
<1>3. QED
  BY <1>2, LedgerSafe, PTL DEF Spec, NoStaleNotice

-----------------------------------------------------------------------------
(* One winner, while no payment is archived *)

KeptInv ==
  /\ IInv
  /\ \A a \in Attempts : ~payArchived[a]
  /\ OneSalePerOrder
  /\ DuplicateHasWinner

(* An approval flags its charge exactly when another attempt has the sale. *)
LEMMA OutcomeFlags ==
  ASSUME KeptInv, NEW a \in Attempts, NEW st \in Observed, NEW expire \in BOOLEAN,
         RecordOutcome(a, st, expire)
  PROVE  /\ payArchived' = payArchived
         /\ review'[a] <=>
              \/ review[a]
              \/ /\ st = "approved" /\ LinkOf[a] \in SingleUse
                 /\ \E b \in OnLink(LinkOf[a]) \ {a} : saleOf[b] # None
<1> USE LedgerAssumption
<1>1. PICK flag \in Flags(a, st), on \in ReserveOn, ok \in NotifyOk :
        Outcome(a, st, expire, flag, on, ok)
  BY DEF RecordOutcome
<1>2. /\ payArchived' = payArchived
      /\ review'[a] = (review[a] \/ flag)
  <2>1. review' = [review EXCEPT ![a] = review[a] \/ flag] /\ payArchived' = payArchived
    BY <1>1 DEF Outcome
  <2>2. review \in [Attempts -> BOOLEAN]
    BY DEF KeptInv, IInv, TypeOK
  <2>3. QED
    BY <2>1, <2>2
<1>3. Winners(LinkOf[a]) = {w \in OnLink(LinkOf[a]) : saleOf[w] # None}
  BY DEF Winners, KeptInv, OnLink
<1>4. flag <=> /\ st = "approved" /\ LinkOf[a] \in SingleUse
               /\ \E b \in OnLink(LinkOf[a]) \ {a} : saleOf[b] # None
  <2>1. CASE st = "approved" /\ LinkOf[a] \in SingleUse
                /\ \E b \in OnLink(LinkOf[a]) \ {a} : saleOf[b] # None
    <3>1. PICK b \in OnLink(LinkOf[a]) \ {a} : saleOf[b] # None
      BY <2>1
    <3>2. \A w \in Winners(LinkOf[a]) : w = b
      BY <1>3, <2>1, <3>1 DEF KeptInv, OneSalePerOrder, OnLink
    <3>3. Flags(a, st) = {TRUE}
      BY <1>3, <2>1, <3>1, <3>2 DEF Flags
    <3>4. QED
      BY <2>1, <3>3
  <2>2. CASE ~ (st = "approved" /\ LinkOf[a] \in SingleUse
                  /\ \E b \in OnLink(LinkOf[a]) \ {a} : saleOf[b] # None)
    BY <1>3, <2>2 DEF Flags
  <2>3. QED
    BY <2>1, <2>2
<1>5. QED
  BY <1>2, <1>4

(* One observed outcome keeps the order's one winner. *)
LEMMA OutcomeKeepsWinner ==
  ASSUME KeptInv, NEW a \in Attempts, NEW st \in Observed, NEW expire \in BOOLEAN,
         RecordOutcome(a, st, expire)
  PROVE  /\ \A b \in Attempts : ~payArchived'[b]
         /\ OneSalePerOrder'
         /\ DuplicateHasWinner'
<1> DEFINE Rival == \E b \in OnLink(LinkOf[a]) \ {a} : saleOf[b] # None
<1>1. IInv /\ OneSalePerOrder /\ DuplicateHasWinner
  BY DEF KeptInv
<1>2. /\ txStatus'[a] = MergeTransaction(txStatus[a], st)
      /\ review[a] => review'[a]
      /\ saleOf[a] # None => saleOf'[a] = saleOf[a]
      /\ saleOf'[a] # None <=> saleOf[a] # None \/ (txStatus'[a] = "approved" /\ ~review'[a])
  BY <1>1, OutcomeOwnRow
<1>3. \A b \in Attempts \ {a} :
        review'[b] = review[b] /\ txStatus'[b] = txStatus[b] /\ saleOf'[b] = saleOf[b]
  BY <1>1, OutcomeOtherRows
<1>4. /\ payArchived' = payArchived
      /\ review'[a] <=> review[a] \/ (st = "approved" /\ LinkOf[a] \in SingleUse /\ Rival)
  BY OutcomeFlags
<1>5. LinkOf[a] \in SingleUse /\ saleOf'[a] # None => ~Rival
  <2> SUFFICES ASSUME LinkOf[a] \in SingleUse, saleOf'[a] # None, Rival PROVE FALSE
    OBVIOUS
  <2>1. CASE saleOf[a] # None
    BY <1>1, <2>1 DEF OneSalePerOrder, OnLink
  <2>2. CASE saleOf[a] = None
    <3>1. txStatus'[a] = "approved" /\ ~review'[a]
      BY <1>2, <2>2
    <3>2. st # "approved"
      BY <1>4, <3>1
    <3>3. txStatus[a] = "approved" /\ ~review[a]
      BY <1>2, <3>1, <3>2 DEF MergeTransaction
    <3>4. QED
      BY <1>1, <2>2, <3>3 DEF IInv, ApprovedIsPosted
  <2>3. QED
    BY <2>1, <2>2
<1>6. OneSalePerOrder'
  <2>1. ASSUME NEW x \in Attempts, NEW y \in Attempts, LinkOf[x] = LinkOf[y],
               LinkOf[x] \in SingleUse, saleOf'[x] # None, saleOf'[y] # None
        PROVE  x = y
    BY <1>1, <1>3, <1>5, <2>1 DEF OneSalePerOrder, OnLink
  <2>2. ASSUME NEW x \in Attempts, review'[x]
        PROVE  saleOf'[x] = None
    <3>1. CASE x = a
      <4>1. saleOf[a] = None
        BY <1>1, <1>4, <2>2, <3>1 DEF OneSalePerOrder, OnLink
      <4>2. QED
        BY <1>2, <2>2, <3>1, <4>1
    <3>2. CASE x # a
      BY <1>1, <1>3, <2>2, <3>2 DEF OneSalePerOrder
    <3>3. QED
      BY <3>1, <3>2
  <2>3. QED
    BY <2>1, <2>2 DEF OneSalePerOrder
<1>7. DuplicateHasWinner'
  <2>1. \A b \in Attempts : saleOf[b] # None => saleOf'[b] # None
    BY <1>2, <1>3
  <2>2. ASSUME NEW x \in Attempts, review'[x]
        PROVE  /\ txStatus'[x] = "approved"
               /\ \E b \in OnLink(LinkOf[x]) : b # x /\ saleOf'[b] # None
    <3>1. CASE review[x]
      <4>1. txStatus'[x] = "approved"
        BY <1>1, <1>2, <1>3, <3>1 DEF DuplicateHasWinner, MergeTransaction
      <4>2. QED
        BY <1>1, <2>1, <3>1, <4>1 DEF DuplicateHasWinner, OnLink
    <3>2. CASE ~review[x]
      <4>1. x = a /\ st = "approved" /\ Rival
        BY <1>3, <1>4, <2>2, <3>2
      <4>2. txStatus'[a] = "approved"
        BY <1>2, <4>1 DEF MergeTransaction
      <4>3. QED
        BY <2>1, <4>1, <4>2 DEF OnLink
    <3>3. QED
      BY <3>1, <3>2
  <2>3. QED
    BY <2>2 DEF DuplicateHasWinner, OnLink
<1>8. QED
  BY <1>4, <1>6, <1>7 DEF KeptInv

(* Moving unflagged payments to another creator posts no further sale. *)
LEMMA MoveKeepsWinner ==
  ASSUME KeptInv, NEW moved, NEW c \in Creators, Move(moved, c),
         \A b \in moved : b \in Attempts /\ ~review[b],
         UNCHANGED <<payArchived, review, txStatus>>
  PROVE  /\ \A b \in Attempts : ~payArchived'[b]
         /\ OneSalePerOrder'
         /\ DuplicateHasWinner'
<1>1. \A b \in Attempts : saleOf'[b] # None <=> saleOf[b] # None
  <2>1. ASSUME NEW b \in Attempts
        PROVE  saleOf'[b] # None <=> saleOf[b] # None
    <3>1. saleOf'[b] = IF b \in moved /\ txStatus[b] = "approved" THEN c ELSE saleOf[b]
      BY DEF Move, Repost
    <3>2. c # None
      BY LedgerAssumption
    <3>3. b \in moved /\ txStatus[b] = "approved" => saleOf[b] # None
      BY DEF KeptInv, IInv, ApprovedIsPosted
    <3>4. QED
      BY <3>1, <3>2, <3>3
  <2>2. QED
    BY <2>1
<1>2. QED
  BY <1>1 DEF KeptInv, OneSalePerOrder, DuplicateHasWinner, OnLink

(* Every step without the archive keeps one winner per order. *)
LEMMA KeptNextKeeps ==
  ASSUME KeptInv, [KeptNext]_vars
  PROVE  KeptInv'
<1> DEFINE Won == /\ \A b \in Attempts : ~payArchived[b]
                  /\ OneSalePerOrder
                  /\ DuplicateHasWinner
<1> USE DEF payVars, ledgerVars
<1>1. IInv'
  <2>1. [Next]_vars
    BY DEF Next
  <2>2. QED
    BY <2>1, IInvNext DEF KeptInv
<1>2. ASSUME UNCHANGED <<payArchived, review, txStatus, saleOf>>
      PROVE  Won'
  BY <1>2 DEF KeptInv, OneSalePerOrder, DuplicateHasWinner, OnLink
<1>3. ASSUME NEW a \in Attempts, NEW st \in Observed, Webhook(a, st)
      PROVE  Won'
  BY <1>3, OutcomeKeepsWinner DEF Webhook
<1>4. ASSUME NEW a \in Attempts, NEW st \in Settled, PollSettled(a, st) \/ PollReusable(a, st)
      PROVE  Won'
  BY <1>4, OutcomeKeepsWinner DEF PollSettled, PollReusable, Observed
<1>5. ASSUME NEW a \in Attempts, PollLate(a)
      PROVE  Won'
  BY <1>5, OutcomeKeepsWinner DEF PollLate, Observed, Settled
<1>6. ASSUME NEW a \in Attempts, Reverse(a)
      PROVE  Won'
  BY <1>2, <1>6 DEF Reverse
<1>7. ASSUME LinkNext
      PROVE  Won'
  BY <1>2, <1>7 DEF LinkNext, CreateLink, DeadlinePasses, CancelLink, DeleteLink, ArchiveLink,
                    ListOpen, ListClosed, PollSkipped, PollExpired
<1>8. ASSUME NEW a \in Attempts, NEW c \in Creators, MovePayment(a, c)
      PROVE  Won'
  <2> DEFINE moved == IF LinkOf[a] \in SingleUse THEN Movable(LinkOf[a]) ELSE {a}
  <2>1. Move(moved, c) /\ UNCHANGED <<payArchived, review, txStatus>>
    BY <1>8 DEF MovePayment
  <2>2. \A b \in moved : b \in Attempts /\ ~review[b]
    BY DEF Movable, OnLink, KeptInv, IInv, ReusableStaysOpen
  <2>3. QED
    BY <2>1, <2>2, MoveKeepsWinner
<1>9. ASSUME NEW k \in Links, NEW c \in Creators, MoveLink(k, c)
      PROVE  Won'
  <2>1. Move(Movable(k), c) /\ UNCHANGED <<payArchived, review, txStatus>>
    BY <1>9 DEF MoveLink
  <2>2. \A b \in Movable(k) : b \in Attempts /\ ~review[b]
    BY DEF Movable, OnLink
  <2>3. QED
    BY <2>1, <2>2, MoveKeepsWinner
<1>10. ASSUME NEW r \in inflight, Abandon(r)
       PROVE  Won'
  BY <1>2, <1>10 DEF Abandon
<1>11. ASSUME NEW a \in Attempts, BeginDetails(a) \/ CompleteDetails(a)
       PROVE  Won'
  BY <1>2, <1>11 DEF BeginDetails, CompleteDetails, Begin
<1>12. ASSUME NEW a \in Attempts, NEW c \in Creators, BeginMovePayment(a, c)
       PROVE  Won'
  BY <1>2, <1>12 DEF BeginMovePayment, Begin
<1>13. ASSUME NEW k \in Links, NEW c \in Creators, BeginMoveLink(k, c)
       PROVE  Won'
  BY <1>2, <1>13 DEF BeginMoveLink, Begin
<1>14. ASSUME UNCHANGED vars
       PROVE  Won'
  BY <1>2, <1>14 DEF vars
<1>15. Won'
  BY <1>3, <1>4, <1>5, <1>6, <1>7, <1>8, <1>9, <1>10, <1>11, <1>12, <1>13, <1>14
     DEF KeptNext, ProviderNext, ConsoleNext
<1>16. QED
  BY <1>1, <1>15 DEF KeptInv

(* Whoever observes the approvals of a single-use order, and in whatever      *)
(* order, one of them is posted as its sale and the others are flagged, as    *)
(* long as no payment is archived.                                            *)
THEOREM OneWinner == KeptSpec => [](OneSalePerOrder /\ DuplicateHasWinner)
<1>1. Init => KeptInv
  <2>1. ASSUME Init
        PROVE  \A a \in Attempts : ~payArchived[a] /\ saleOf[a] = None /\ ~review[a]
    BY <2>1 DEF Init
  <2>2. QED
    BY <2>1, IInvInit DEF KeptInv, OneSalePerOrder, DuplicateHasWinner
<1>2. KeptInv /\ [KeptNext]_vars => KeptInv'
  BY KeptNextKeeps
<1>3. KeptInv => OneSalePerOrder /\ DuplicateHasWinner
  BY DEF KeptInv
<1>4. QED
  BY <1>1, <1>2, <1>3, PTL DEF KeptSpec

=============================================================================
