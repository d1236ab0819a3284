------------------------- MODULE CorrectionsProofs -------------------------
(***************************************************************************)
(* What is put right after the fact.  ProviderEvidence: a label names the  *)
(* supplier of the value beside it, a decline keeps its reason and a       *)
(* reported fee stands.  LegacyRecovery: what a run imported is told once  *)
(* and under one account.  For any number of notifications, polls,         *)
(* backfills, fee runs and runs of the import.                             *)
(***************************************************************************)
EXTENDS Corrections, TLAPS, FiniteSetTheorems

Honest(d) == d.code = d.codeSource /\ d.reason = d.reasonSource

(* The inductive invariant: what a backfill has computed and not yet applied *)
(* is as honest as the row it will overwrite.                                *)
LabelInv == Honest(decline) /\ (script # Null => Honest(script))

EvidenceSpec == EvidenceInit /\ [][EvidenceNext]_evidenceVars

-----------------------------------------------------------------------------
(* Two CASE expressions choose a code and its label; they choose alike.      *)
LEMMA CodesMatch ==
  ASSUME Honest(decline), NEW new, Honest(new)
  PROVE  MergedCode(new) = MergedCodeSource(new)
<1>1. "signed" # Null
  BY EvidenceAssumption
<1>2. CASE new.codeSource = "signed"
  BY <1>1, <1>2 DEF MergedCode, MergedCodeSource, Honest
<1>3. CASE new.codeSource # "signed" /\ decline.codeSource = "signed"
  BY <1>3 DEF MergedCode, MergedCodeSource, Honest
<1>4. CASE new.codeSource # "signed" /\ decline.codeSource # "signed"
  <2>1. MergedCode(new) = Or(new.code, decline.code)
    BY <1>4 DEF MergedCode
  <2>2. MergedCodeSource(new) = IF new.code # Null THEN new.codeSource ELSE decline.codeSource
    BY <1>4 DEF MergedCodeSource
  <2> QED
    BY <2>1, <2>2 DEF Or, Honest
<1> QED
  BY <1>2, <1>3, <1>4

LEMMA ReasonsMatch ==
  ASSUME Honest(decline), NEW new, Honest(new)
  PROVE  MergedReason(new) = MergedReasonSource(new)
  BY DEF MergedReason, MergedReasonSource, Or, Honest

LEMMA MergeHonest ==
  ASSUME Honest(decline), NEW new, Honest(new), NEW st
  PROVE  Honest(MergedDecline(st, new))
  BY CodesMatch, ReasonsMatch DEF MergedDecline, Honest

LEMMA FieldsHonest == ASSUME NEW st, NEW code, NEW reason PROVE Honest(DeclineFields(st, code, reason))
  BY DEF DeclineFields, Silent, Honest

(* The script keeps the label of a wording it keeps, and labels its own.     *)
LEMMA ScriptHonest ==
  ASSUME Honest(decline), NEW lookup
  PROVE  Honest(Explained(MergeDecline(Candidate(lookup))))
<1> DEFINE candidate == Candidate(lookup)
           merged == MergeDecline(candidate)
<1>1. Honest(candidate)
  BY DEF Candidate, Honest
<1>2. Honest(merged)
  <2> HIDE DEF candidate
  <2> QED
    BY <1>1 DEF MergeDecline, Or, Honest
<1>3. merged = [code |-> merged.code, codeSource |-> merged.codeSource,
                reason |-> merged.reason, reasonSource |-> merged.reasonSource]
  BY DEF MergeDecline
<1> HIDE DEF merged
<1>4. CASE merged.reason = Null
  <2>1. Explained(merged) = [code |-> merged.code, codeSource |-> merged.codeSource,
                             reason |-> "derived", reasonSource |-> "derived"]
    BY <1>3, <1>4 DEF Explained
  <2> QED
    BY <1>2, <2>1 DEF Honest, merged
<1> QED
  BY <1>2, <1>4 DEF Explained, merged

-----------------------------------------------------------------------------
LEMMA UpsertStep ==
  ASSUME LabelInv, NEW st, NEW new, Honest(new), NEW payload, Upsert(st, new, payload)
  PROVE  LabelInv'
<1>1. script' = script /\ decline' = IF attemptStatus = "absent" THEN new ELSE MergedDecline(st, new)
  BY DEF Upsert
<1>2. Honest(decline')
  BY <1>1, MergeHonest DEF LabelInv
<1> QED
  BY <1>1, <1>2 DEF LabelInv, Honest

LEMMA LabelInvStep == LabelInv /\ [EvidenceNext]_evidenceVars => LabelInv'
<1> SUFFICES ASSUME LabelInv, [EvidenceNext]_evidenceVars PROVE LabelInv'
  OBVIOUS
<1>1. ASSUME NEW st, NEW from, Webhook(st, from) PROVE LabelInv'
  BY <1>1, UpsertStep, FieldsHonest DEF Webhook, Notified
<1>2. ASSUME NEW from, Poll(from) PROVE LabelInv'
  BY <1>2, UpsertStep, FieldsHonest DEF Poll, Polled
<1>3. ASSUME NEW lookup, BackfillRead(lookup) PROVE LabelInv'
  <2>1. decline' = decline /\ script' = Explained(MergeDecline(Candidate(lookup)))
    BY <1>3 DEF BackfillRead
  <2> QED
    BY <2>1, ScriptHonest DEF LabelInv, Honest
<1>4. CASE BackfillApply
  BY <1>4 DEF BackfillApply, LabelInv, Honest
<1>5. CASE UNCHANGED <<decline, script>>
  BY <1>5 DEF LabelInv, Honest
<1>6. CASE \/ Settle \/ Supersede \/ ChargeMore \/ SessionExpires
           \/ \E r \in FeeRuns, login \in BOOLEAN : Search(r, login)
           \/ \E r \in FeeRuns : FeeRead(r) \/ FeeWrite(r) \/ FeeWaits(r) \/ FeeWriteBlind(r)
           \/ RepostDelete \/ RepostPost
  BY <1>5, <1>6
     DEF Settle, Supersede, ChargeMore, SessionExpires, Search, FeeRead, FeeWrite,
     FeeWaits, FeeWriteBlind, RepostDelete, RepostPost, attempt
<1>7. CASE UNCHANGED evidenceVars
  BY <1>5, <1>7 DEF evidenceVars, attempt
<1> QED
  BY <1>1, <1>2, <1>3, <1>4, <1>6, <1>7 DEF EvidenceNext

(* Whatever order notifications, polls and backfills land in, a decline code  *)
(* or wording stands beside the name of the party that supplied it.           *)
THEOREM LabelsAreTrue == EvidenceSpec => []SourceIsHonest
<1>1. EvidenceInit => LabelInv
  BY DEF EvidenceInit, LabelInv, Honest, Silent
<1>2. LabelInv /\ [EvidenceNext]_evidenceVars => LabelInv'
  BY LabelInvStep
<1>3. LabelInv => SourceIsHonest
  BY DEF LabelInv, Honest, SourceIsHonest
<1> QED
  BY <1>1, <1>2, <1>3, PTL DEF EvidenceSpec

-----------------------------------------------------------------------------
(* The reason of a decline.  Only a row without evidence is absent, and what *)
(* a backfill will assign has a reason.                                      *)
ReasonInv ==
  /\ provider \in Answers
  /\ attemptStatus = "absent" => decline.reason = Null
  /\ script # Null => attemptStatus # "absent" /\ script.reason # Null

LEMMA WordsAreTexts == "derived" # Null
  BY EvidenceAssumption

LEMMA FieldsExplain ==
  ASSUME NEW code, NEW reason
  PROVE  DeclineFields("declined", code, reason).reason # Null
  BY WordsAreTexts DEF DeclineFields, Or

(* One outcome: the row keeps a reason it has, and gets one with a decline.   *)
LEMMA UpsertExplains ==
  ASSUME ReasonInv, NEW st \in Answers, NEW new, st = "declined" => new.reason # Null, NEW payload,
         Upsert(st, new, payload)
  PROVE  /\ ReasonInv'
         /\ decline.reason # Null => decline'.reason # Null
         /\ attemptStatus # "declined" /\ attemptStatus' = "declined" => decline'.reason # Null
<1>1. /\ attemptStatus' = MergedStatus(st) /\ script' = script
      /\ decline' = IF attemptStatus = "absent" THEN new ELSE MergedDecline(st, new)
  BY DEF Upsert
<1>2. decline.reason # Null => MergedDecline(st, new).reason # Null
  BY DEF MergedDecline, MergedReason, Outranks, Or
<1>3. st = "declined" => MergedDecline(st, new).reason # Null
  BY DEF MergedDecline, MergedReason, Outranks, Or
<1>4. attemptStatus # "declined" /\ MergedStatus(st) = "declined" => st = "declined"
  BY DEF MergedStatus
<1>5. MergedStatus(st) # "absent"
  BY DEF MergedStatus, Answers
<1>6. provider' = provider
  BY DEF Upsert
<1> QED
  BY <1>1, <1>2, <1>3, <1>4, <1>5, <1>6 DEF ReasonInv

LEMMA ReasonStep ==
  ASSUME ReasonInv, [EvidenceNext]_evidenceVars
  PROVE  /\ ReasonInv'
         /\ decline.reason # Null => decline'.reason # Null
         /\ attemptStatus # "declined" /\ attemptStatus' = "declined" => decline'.reason # Null
<1> DEFINE Explains ==
      /\ ReasonInv'
      /\ decline.reason # Null => decline'.reason # Null
      /\ attemptStatus # "declined" /\ attemptStatus' = "declined" => decline'.reason # Null
<1> SUFFICES Explains
  OBVIOUS
<1>1. ASSUME NEW st \in Answers, NEW from, Webhook(st, from) PROVE Explains
  <2>1. st = "declined" => Notified(st, from).reason # Null
    BY FieldsExplain DEF Notified
  <2>2. Upsert(st, Notified(st, from), NotifiedPayload(st, from))
    BY <1>1 DEF Webhook
  <2> QED
    BY <2>1, <2>2, UpsertExplains
<1>2. ASSUME NEW from, Poll(from) PROVE Explains
  <2>1. provider = "declined" => Polled(from).reason # Null
    BY FieldsExplain DEF Polled
  <2>2. PICK payload \in PolledPayloads(from) : Upsert(provider, Polled(from), payload)
    BY <1>2 DEF Poll
  <2> QED
    BY <2>1, <2>2, UpsertExplains DEF ReasonInv
<1>3. ASSUME NEW lookup, BackfillRead(lookup) PROVE Explains
  <2> DEFINE details == MergeDecline(Candidate(lookup))
  <2>1. /\ UNCHANGED <<provider, attemptStatus, decline>> /\ attemptStatus = "declined"
        /\ script' = Explained(details)
    BY <1>3 DEF BackfillRead
  <2>2. Explained(details).reason # Null
    BY WordsAreTexts DEF Explained, MergeDecline
  <2> QED
    BY <2>1, <2>2 DEF ReasonInv
<1>4. CASE BackfillApply
  BY <1>4 DEF BackfillApply, ReasonInv
<1>5. CASE UNCHANGED <<provider, attemptStatus, decline, script>>
  BY <1>5 DEF ReasonInv
<1>6. CASE Settle \/ Supersede
  BY <1>6 DEF Settle, Supersede, ReasonInv, Answers
<1>7. CASE \/ ChargeMore \/ SessionExpires
           \/ \E r \in FeeRuns, login \in BOOLEAN : Search(r, login)
           \/ \E r \in FeeRuns : FeeRead(r) \/ FeeWrite(r) \/ FeeWaits(r) \/ FeeWriteBlind(r)
           \/ RepostDelete \/ RepostPost
  BY <1>5, <1>7 DEF ChargeMore, SessionExpires, Search, FeeRead, FeeWrite,
     FeeWaits, FeeWriteBlind, RepostDelete, RepostPost, attempt
<1>8. CASE UNCHANGED evidenceVars
  BY <1>5, <1>8 DEF evidenceVars, attempt
<1> HIDE DEF Explains
<1> QED
  BY <1>1, <1>2, <1>3, <1>4, <1>6, <1>7, <1>8 DEF EvidenceNext

(* A declined attempt carries a readable reason from its decline on, whatever *)
(* notifications, polls and stale backfills come after it.                    *)
THEOREM ReasonsStay == EvidenceSpec => StaysExplained
<1>1. EvidenceInit => ReasonInv
  BY DEF EvidenceInit, ReasonInv, Silent, Answers
<1>2. ReasonInv /\ [EvidenceNext]_evidenceVars => ReasonInv'
  BY ReasonStep
<1>3. ReasonInv /\ [EvidenceNext]_evidenceVars =>
        [/\ decline.reason # Null => decline'.reason # Null
         /\ attemptStatus # "declined" /\ attemptStatus' = "declined" =>
              decline'.reason # Null]_evidenceVars
  BY ReasonStep
<1> QED
  BY <1>1, <1>2, <1>3, PTL DEF EvidenceSpec, StaysExplained

-----------------------------------------------------------------------------
Searches == [at : {"idle"}] \cup [at : {"answered", "read", "blind"}, fee : Fees]

(* The cost of a sale.  An estimate is zero, and no entry shows a reported    *)
(* fee while the transaction holds one.                                       *)
FeeInv ==
  /\ fee = Estimate \/ fee \in [value : Fees, estimate : {FALSE}]
  /\ entry \in Fees => ~fee.estimate
  /\ charged \in Fees
  /\ search \in [FeeRuns -> Searches]

LEMMA PlaceholdersAreNoFees == RateCard \notin Fees /\ Null \notin Fees /\ Fees \subseteq Nat
  BY EvidenceAssumption

(* What a run writes is a reported fee, or was one already.                  *)
LEMMA WrittenIsReported ==
  ASSUME FeeInv, NEW f \in Fees
  PROVE  /\ FeeWritten(f) \in [value : Fees, estimate : {FALSE}]
         /\ ~fee.estimate => FeeWritten(f) = fee
<1>1. CASE fee = Estimate
  <2>1. fee.estimate
    BY <1>1 DEF Estimate
  <2> QED
    BY <2>1 DEF FeeWritten
<1>2. CASE fee \in [value : Fees, estimate : {FALSE}]
  <2>1. ~fee.estimate
    BY <1>2
  <2> QED
    BY <1>2, <2>1 DEF FeeWritten
<1> QED
  BY <1>1, <1>2 DEF FeeInv

(* What a sale is posted with is no reported fee while there is none.        *)
LEMMA EstimatePosts ==
  ASSUME FeeInv
  PROVE  (IF fee.value > 0 THEN fee.value ELSE RateCard) \in Fees => ~fee.estimate
<1>1. CASE fee = Estimate
  <2>1. fee.value = 0
    BY <1>1 DEF Estimate
  <2> QED
    BY <2>1, PlaceholdersAreNoFees
<1>2. CASE fee \in [value : Fees, estimate : {FALSE}]
  BY <1>2
<1> QED
  BY <1>1, <1>2 DEF FeeInv

LEMMA FeeStep ==
  ASSUME FeeInv, [EvidenceNext]_evidenceVars
  PROVE  /\ FeeInv'
         /\ ~fee.estimate => fee' = fee
         /\ entry' \in Fees => ~fee'.estimate
<1> DEFINE Stands == FeeInv' /\ (~fee.estimate => fee' = fee) /\ (entry' \in Fees => ~fee'.estimate)
<1> SUFFICES Stands
  OBVIOUS
<1>1. ASSUME NEW st, NEW new, NEW payload, Upsert(st, new, payload) PROVE Stands
  <2>1. UNCHANGED <<fee, charged, search>>
    BY <1>1 DEF Upsert
  <2>2. entry' = entry \/ entry' = IF fee.value > 0 THEN fee.value ELSE RateCard
    BY <1>1 DEF Upsert
  <2> QED
    BY <2>1, <2>2, EstimatePosts DEF FeeInv
<1>2. ASSUME NEW r \in FeeRuns, NEW login \in BOOLEAN, Search(r, login) PROVE Stands
  BY <1>2 DEF Search, FeeInv, Searches
<1>3. ASSUME NEW r \in FeeRuns, FeeRead(r) \/ FeeWaits(r) PROVE Stands
  <2>1. UNCHANGED <<fee, entry, charged>>
    BY <1>3 DEF FeeRead, FeeWaits
  <2>2. search[r] \in [at : {"answered", "read", "blind"}, fee : Fees]
    BY <1>3 DEF FeeRead, FeeWaits, FeeInv, Searches
  <2>3. search' \in [FeeRuns -> Searches]
    BY <1>3, <2>2 DEF FeeRead, FeeWaits, FeeInv, Searches
  <2> QED
    BY <2>1, <2>3 DEF FeeInv
<1>4. ASSUME NEW r \in FeeRuns, FeeWrite(r) \/ FeeWriteBlind(r) PROVE Stands
  <2>1. search[r].fee \in Fees
    BY <1>4 DEF FeeWrite, FeeWriteBlind, FeeInv, Searches
  <2>2. fee' = FeeWritten(search[r].fee) /\ charged' = charged /\ search' \in [FeeRuns -> Searches]
    BY <1>4 DEF FeeWrite, FeeWriteBlind, FeeInv, Searches
  <2> QED
    BY <2>1, <2>2, WrittenIsReported DEF FeeInv
<1>5. CASE ChargeMore
  BY <1>5 DEF ChargeMore, FeeInv
<1>6. CASE RepostPost
  BY <1>6, EstimatePosts DEF RepostPost, PostedFee, FeeInv
<1>7. CASE UNCHANGED <<fee, entry, charged, search>>
  BY <1>7 DEF FeeInv
<1>8. CASE Settle \/ Supersede \/ BackfillApply \/ SessionExpires \/ RepostDelete
           \/ \E lookup \in SUBSET {"code", "reason"} : BackfillRead(lookup)
  BY <1>7, <1>8
     DEF Settle, Supersede, BackfillApply, SessionExpires, RepostDelete, BackfillRead, sale
<1>9. CASE UNCHANGED evidenceVars
  BY <1>7, <1>9 DEF evidenceVars, sale
<1>10. CASE \/ \E st \in Answers, from \in {Null, "webhook"} : Webhook(st, from)
            \/ \E from \in {Null, "status"} : Poll(from)
  BY <1>1, <1>10 DEF Webhook, Poll
<1> HIDE DEF Stands
<1> QED
  BY <1>2, <1>3, <1>4, <1>5, <1>6, <1>8, <1>9, <1>10 DEF EvidenceNext

(* A fee MantaPay reported is never replaced, however runs overlap with one   *)
(* another and with moves, and no entry shows one that is not recorded.       *)
THEOREM FeesStand == EvidenceSpec => ReportedFeeStands
<1>1. EvidenceInit => FeeInv
  BY PlaceholdersAreNoFees DEF EvidenceInit, FeeInv, Searches
<1>2. FeeInv /\ [EvidenceNext]_evidenceVars => FeeInv'
  BY FeeStep
<1>3. FeeInv /\ [EvidenceNext]_evidenceVars =>
        [/\ ~fee.estimate => fee' = fee
         /\ entry' \in Fees => ~fee'.estimate]_evidenceVars
  BY FeeStep
<1> QED
  BY <1>1, <1>2, <1>3, PTL DEF EvidenceSpec, ReportedFeeStands

-----------------------------------------------------------------------------
(* The import of the old database. *)

LegacySpec == LegacyInit /\ [][LegacyNext]_legacyVars

Resolutions == Accounts \cup {Blocked, Irrelevant}

(* A run's plan: rows the target did not have when it was listed, each under  *)
(* an account, a transaction only with its payment there or beside it.        *)
PlanFits(k) ==
  /\ known[k] \subseteq {r \in Rows : target[r] # None}
  /\ DOMAIN prepared[k] \subseteq Rows \ known[k]
  /\ \A r \in DOMAIN prepared[k] : prepared[k][r] # None
  /\ \A t \in DOMAIN prepared[k] :
       Table[t] = "transaction" => Parent[t] \in known[k] \cup DOMAIN prepared[k]

RunTypes ==
  /\ DOMAIN phase = Runs /\ DOMAIN report = Runs
  /\ DOMAIN prepared = Runs /\ DOMAIN known = Runs
  /\ accountOf \in [Runs -> [SourceAccounts -> Resolutions]]
  /\ DOMAIN target = Rows /\ DOMAIN importedBy = Rows

(* What is imported is told once: by the run that has inserted it, which is    *)
(* committed and tells nothing before that.                                    *)
Told ==
  /\ \A r \in Rows : importedBy[r] \in Runs \cup {None}
  /\ \A r \in Rows : importedBy[r] = None <=> target[r] = None
  /\ \A k \in Runs : report[k] \subseteq Rows
  /\ \A k \in Runs, r \in Rows : r \in report[k] <=> importedBy[r] = k
  /\ \A k \in Runs : phase[k] # "committed" => report[k] = {}

(* A transaction is never without its payment, which is why a run that still   *)
(* misses the payment also misses the transaction.                             *)
Hung == \A t \in Rows :
          Table[t] = "transaction" /\ target[t] # None =>
            Parent[t] \in Rows /\ target[Parent[t]] # None

ImportInv ==
  /\ RunTypes /\ Told /\ Hung
  /\ \A k \in Runs : phase[k] = "listed" => PlanFits(k)

-----------------------------------------------------------------------------
LEMMA NoRowIsNone ==
  /\ None \notin Runs /\ None \notin Resolutions /\ Unknown # None /\ NoAccount # None
  BY RecoveryAssumption DEF Resolutions

LEMMA ResolvedTypes == ASSUME NEW s \in SourceAccounts PROVE Resolved(s) \in Resolutions
<1>1. Named(CanonicalName[s]) \subseteq Accounts
  BY DEF Named, Present
<1>2. ASSUME NEW S, S \subseteq Accounts PROVE Single(S) \in Resolutions
  <2>1. CASE Cardinality(S) = 1
    <3>1. S # {}
      BY <2>1, FS_EmptySet
    <3> QED
      BY <2>1, <3>1, <1>2 DEF Single, Resolutions
  <2> QED
    BY <2>1 DEF Single, Resolutions
<1>3. SameLogin[s] \in Present => SameLogin[s] \in Accounts
  BY DEF Present
<1> QED
  BY <1>1, <1>2, <1>3 DEF Resolved, Matched, Resolutions

(* prepareRows: only rows that are missing, each with an account.             *)
LEMMA ReadyAreMissing == ASSUME NEW k, NEW ids PROVE Ready(k, ids) \subseteq Rows \ ids
  BY DEF Ready, ReadyLinks, ReadyPayments, ReadyTransactions, ReadyEntries, Missing

LEMMA AccountedTypes ==
  ASSUME NEW k \in Runs, NEW ids, accountOf \in [Runs -> [SourceAccounts -> Resolutions]]
  PROVE  LET plan == Accounted(k, ids) IN
         /\ DOMAIN plan = Ready(k, ids)
         /\ \A r \in Ready(k, ids) : plan[r] # None
<1>1. DOMAIN Accounted(k, ids) = Ready(k, ids)
  BY DEF Accounted
<1>2. ASSUME NEW r \in Ready(k, ids) PROVE Accounted(k, ids)[r] # None
  <2>1. r \in Rows
    BY ReadyAreMissing
  <2>2. Owner[r] # None => accountOf[k][Owner[r]] # None
    BY <2>1, RecoveryAssumption, NoRowIsNone
  <2> QED
    BY <2>2, NoRowIsNone DEF Accounted
<1> QED
  BY <1>1, <1>2

LEMMA ReadyHang ==
  ASSUME NEW k, NEW ids, NEW t \in Ready(k, ids), Table[t] = "transaction"
  PROVE  Parent[t] \in ids \cup Ready(k, ids)
<1>1. t \in ReadyTransactions(k, ids)
  BY DEF Ready, ReadyLinks, ReadyPayments, ReadyEntries, Missing
<1> QED
  BY <1>1 DEF ReadyTransactions, Ready

LEMMA ImportInvStart == LegacyInit => ImportInv
  BY NoRowIsNone
     DEF LegacyInit, RecoveryInit, ImportInv, RunTypes, Told, Hung, PlanFits, Resolutions

(* A step of a run that imports nothing.                                      *)
LEMMA QuietStep ==
  ASSUME ImportInv, NEW k \in Runs, UNCHANGED importVars,
         DOMAIN phase' = Runs, \A j \in Runs \ {k} : phase'[j] = phase[j],
         phase[k] # "committed",
         DOMAIN known' = Runs, \A j \in Runs \ {k} : known'[j] = known[j],
         DOMAIN prepared' = Runs, \A j \in Runs \ {k} : prepared'[j] = prepared[j],
         accountOf' \in [Runs -> [SourceAccounts -> Resolutions]],
         phase'[k] = "listed" => PlanFits(k)'
  PROVE  ImportInv'
<1>1. RunTypes' /\ Told' /\ Hung'
  BY DEF ImportInv, RunTypes, Told, Hung, importVars
<1>2. ASSUME NEW j \in Runs \ {k} PROVE phase'[j] = "listed" => PlanFits(j)'
  BY DEF ImportInv, PlanFits, importVars
<1> QED
  BY <1>1, <1>2 DEF ImportInv

LEMMA ResolveStep == ASSUME ImportInv, NEW k \in Runs, Resolve(k) PROVE ImportInv'
<1>1. [s \in SourceAccounts |-> Resolved(s)] \in [SourceAccounts -> Resolutions]
  BY ResolvedTypes
<1>2. accountOf' \in [Runs -> [SourceAccounts -> Resolutions]]
  BY <1>1 DEF Resolve, ImportInv, RunTypes
<1> QED
  BY <1>2, QuietStep DEF Resolve, MoveTo, ImportInv, RunTypes

LEMMA ListStep == ASSUME ImportInv, NEW k \in Runs, List(k) PROVE ImportInv'
<1> DEFINE ids == {r \in Rows : target[r] # None}
<1>1. known'[k] = ids /\ prepared'[k] = Accounted(k, ids) /\ target' = target
  BY DEF List, ImportInv, RunTypes, importVars
<1>2. accountOf \in [Runs -> [SourceAccounts -> Resolutions]]
  BY DEF ImportInv, RunTypes
<1>3. PlanFits(k)'
  BY <1>1, <1>2, AccountedTypes, ReadyAreMissing, ReadyHang DEF PlanFits
<1> QED
  BY <1>2, <1>3, QuietStep DEF List, MoveTo, ImportInv, RunTypes

(* What COMMIT makes visible: every planned row, and no other.                *)
LEMMA ApplyImports ==
  ASSUME ImportInv, NEW k \in Runs, Apply(k)
  PROVE  /\ PlanFits(k) /\ report[k] = {} /\ known[k] \subseteq Rows
         /\ DOMAIN prepared[k] \subseteq Rows
         /\ \A r \in DOMAIN prepared[k] :
              /\ target[r] = None /\ importedBy[r] = None
              /\ target'[r] = prepared[k][r] /\ importedBy'[r] = k
         /\ \A r \in Rows \ DOMAIN prepared[k] : target'[r] = target[r] /\ importedBy'[r] = importedBy[r]
         /\ report'[k] = DOMAIN prepared[k]
         /\ \A j \in Runs \ {k} : report'[j] = report[j]
<1>1. PlanFits(k) /\ report[k] = {} /\ DOMAIN report = Runs
  BY DEF Apply, ImportInv, Told, RunTypes
<1>2. DOMAIN prepared[k] \subseteq Rows /\ known[k] \subseteq Rows
  BY <1>1 DEF PlanFits
<1>3. \A r \in DOMAIN prepared[k] : target[r] = None /\ importedBy[r] = None
  BY <1>2 DEF Apply, Collides, ImportInv, Told
<1>4. /\ target' = [r \in Rows |-> IF r \in DOMAIN prepared[k] THEN prepared[k][r] ELSE target[r]]
      /\ importedBy' = [r \in Rows |-> IF r \in DOMAIN prepared[k] THEN k ELSE importedBy[r]]
  BY <1>3 DEF Apply
<1>5. report' = [report EXCEPT ![k] = DOMAIN prepared[k]]
  BY DEF Apply
<1> QED
  BY <1>1, <1>2, <1>3, <1>4, <1>5

LEMMA ApplyStep == ASSUME ImportInv, NEW k \in Runs, Apply(k) PROVE ImportInv'
<1> USE ApplyImports
<1>1. RunTypes'
  BY DEF Apply, MoveTo, ImportInv, RunTypes
<1>2. Told'
  <2>1. \A r \in Rows : importedBy'[r] \in Runs \cup {None} /\ (importedBy'[r] = None <=> target'[r] = None)
    BY NoRowIsNone DEF ImportInv, Told, PlanFits
  <2>2. \A j \in Runs, r \in Rows : r \in report'[j] <=> importedBy'[r] = j
    BY NoRowIsNone DEF ImportInv, Told
  <2>3. \A j \in Runs : report'[j] \subseteq Rows
    BY DEF ImportInv, Told
  <2>4. \A j \in Runs : phase'[j] # "committed" => report'[j] = {}
    BY DEF Apply, MoveTo, ImportInv, Told, RunTypes
  <2> QED
    BY <2>1, <2>2, <2>3, <2>4 DEF Told
<1>3. \A r \in Rows : target[r] # None => target'[r] # None
  OBVIOUS
<1>4. Hung'
  <2>1. SUFFICES ASSUME NEW t \in Rows, Table[t] = "transaction", target'[t] # None
                 PROVE  Parent[t] \in Rows /\ target'[Parent[t]] # None
    BY DEF Hung
  <2>2. CASE t \in DOMAIN prepared[k]
    <3>1. Parent[t] \in known[k] \cup DOMAIN prepared[k]
      BY <2>1, <2>2 DEF PlanFits
    <3> QED
      BY <1>3, <3>1 DEF PlanFits
  <2>3. CASE t \notin DOMAIN prepared[k]
    BY <1>3, <2>1, <2>3 DEF ImportInv, Hung
  <2> QED
    BY <2>2, <2>3
<1>5. ASSUME NEW j \in Runs, phase'[j] = "listed" PROVE PlanFits(j)'
  <2>1. j # k /\ phase[j] = "listed" /\ known' = known /\ prepared' = prepared
    BY <1>5 DEF Apply, MoveTo, ImportInv, RunTypes
  <2>2. PlanFits(j)
    BY <2>1 DEF ImportInv
  <2> QED
    BY <1>3, <2>1, <2>2 DEF PlanFits
<1> QED
  BY <1>1, <1>2, <1>4, <1>5 DEF ImportInv

LEMMA StoppedStep == ASSUME ImportInv, NEW k \in Runs, ApplyFails(k) \/ DryRun(k) PROVE ImportInv'
  BY QuietStep DEF ApplyFails, DryRun, MoveTo, ImportInv, RunTypes

LEMMA ImportInvStep == ImportInv /\ [LegacyNext]_legacyVars => ImportInv'
<1> SUFFICES ASSUME ImportInv, [LegacyNext]_legacyVars PROVE ImportInv'
  OBVIOUS
<1>1. CASE UNCHANGED recoveryVars
  BY <1>1 DEF recoveryVars, importVars, runVars, ImportInv, RunTypes, Told, Hung, PlanFits
<1>2. CASE \E k \in Runs : Resolve(k) \/ List(k) \/ Apply(k) \/ ApplyFails(k) \/ DryRun(k)
  BY <1>2, ResolveStep, ListStep, ApplyStep, StoppedStep
<1> QED
  BY <1>1, <1>2 DEF LegacyNext, AgencyNext, legacyVars

LEMMA ImportInvAlways == LegacySpec => []ImportInv
  BY ImportInvStart, ImportInvStep, PTL DEF LegacySpec

(* However many runs overlap, fail and start again, each imported row is in    *)
(* the report of one committed run, the one that inserted it.                  *)
THEOREM CountedOnceHolds == LegacySpec => []CountedOnce
<1>1. ImportInv => CountedOnce
  BY NoRowIsNone DEF ImportInv, Told, CountedOnce
<1> QED
  BY <1>1, ImportInvAlways, PTL

-----------------------------------------------------------------------------
(* One sale in one run.  A plan that holds both puts a payment and its entry   *)
(* under one account: the entry of a payment that loses its label is found     *)
(* through the transaction, which is missing because the payment is.           *)
LEMMA AccountedAgrees ==
  ASSUME SalesPosted, ImportInv, NEW k \in Runs, NEW ids, ids = {r \in Rows : target[r] # None},
         NEW e \in Ready(k, ids), Table[e] = "entry", Owner[e] # None,
         PaymentOf(e) \in Ready(k, ids)
  PROVE  Accounted(k, ids)[e] = Accounted(k, ids)[PaymentOf(e)]
<1> DEFINE p == PaymentOf(e)
           t == Parent[e]
<1>1. /\ e \in Rows \ ids /\ p \in Rows \ ids
      /\ t \in Rows /\ Table[t] = "transaction" /\ Parent[t] = p
      /\ Table[p] = "payment" /\ Owner[p] = Owner[e]
  BY ReadyAreMissing DEF SalesPosted, PaymentOf
<1>2. t \in Missing(k, ids, "transaction")
  <2>1. target[t] = None
    BY <1>1 DEF ImportInv, Hung
  <2> QED
    BY <1>1, <2>1 DEF Missing
<1>3. e \in ReadyEntries(k, ids) /\ p \in ReadyPayments(k, ids)
  BY <1>1 DEF Ready, ReadyLinks, ReadyPayments, ReadyTransactions, ReadyEntries, Missing
<1>4. p \in Missing(k, ids, "payment") /\ p \notin Irrelevants(k, ids, "payment")
  BY <1>3 DEF ReadyPayments, ExcludedPayments
<1>5. /\ p \in Unattributed(k, ids) <=> p \in Labelled
      /\ e \in UnattributedEntries(k, ids) <=> p \in Unattributed(k, ids)
  BY <1>1, <1>2, <1>3, <1>4 DEF Unattributed, UnattributedEntries
<1>6. /\ p \notin UnattributedLinks(k, ids) /\ p \notin UnattributedEntries(k, ids)
      /\ e \notin UnattributedLinks(k, ids) /\ e \notin Unattributed(k, ids)
  BY <1>1
     DEF Unattributed, UnattributedLinks, UnattributedEntries, ReadyLinks, ReadyEntries,
         Missing
<1> QED
  BY <1>1, <1>5, <1>6 DEF Accounted

SaleInv ==
  /\ ImportInv /\ AttributionAgrees
  /\ \A k \in Runs :
       phase[k] = "listed" =>
         \A e \in DOMAIN prepared[k] :
           Table[e] = "entry" /\ Owner[e] # None /\ PaymentOf(e) \in DOMAIN prepared[k] =>
             prepared[k][e] = prepared[k][PaymentOf(e)]

LEMMA SaleInvStart == SalesPosted /\ LegacyInit => SaleInv
<1>1. LegacyInit => \A r \in Rows : target[r] = None
  BY DEF LegacyInit, RecoveryInit
<1>2. LegacyInit => \A k \in Runs : phase[k] # "listed"
  BY DEF LegacyInit, RecoveryInit
<1> QED
  BY <1>1, <1>2, ImportInvStart DEF SaleInv, AttributionAgrees

LEMMA AttributionStep ==
  ASSUME SalesPosted, SaleInv, NEW k \in Runs, Apply(k)
  PROVE  AttributionAgrees'
<1> USE ApplyImports DEF SaleInv
<1>1. SUFFICES ASSUME NEW e \in Rows, Table[e] = "entry", Owner[e] # None, target'[e] # None,
                      importedBy'[e] = importedBy'[PaymentOf(e)]
               PROVE  target'[e] = target'[PaymentOf(e)]
  BY DEF AttributionAgrees, PaymentOf
<1>2. PaymentOf(e) \in Rows
  BY <1>1 DEF SalesPosted
<1>3. \A r \in Rows : importedBy[r] # k
  BY DEF ImportInv, Told
<1>4. CASE e \in DOMAIN prepared[k]
  <2>1. PaymentOf(e) \in DOMAIN prepared[k]
    BY <1>1, <1>2, <1>3, <1>4
  <2>2. phase[k] = "listed"
    BY DEF Apply
  <2> QED
    BY <1>1, <1>4, <2>1, <2>2
<1>5. CASE e \notin DOMAIN prepared[k]
  <2>1. PaymentOf(e) \notin DOMAIN prepared[k]
    BY <1>1, <1>2, <1>3, <1>5
  <2> QED
    BY <1>1, <1>2, <1>5, <2>1 DEF AttributionAgrees
<1> QED
  BY <1>4, <1>5

LEMMA PlanAgreesStep ==
  ASSUME SalesPosted, SaleInv, NEW k \in Runs, NEW i \in Runs,
         Resolve(i) \/ List(i) \/ Apply(i) \/ ApplyFails(i) \/ DryRun(i),
         phase'[k] = "listed",
         NEW e \in DOMAIN prepared'[k], Table[e] = "entry", Owner[e] # None,
         PaymentOf(e) \in DOMAIN prepared'[k]
  PROVE  prepared'[k][e] = prepared'[k][PaymentOf(e)]
<1>1. CASE List(i) /\ i = k
  <2> DEFINE ids == {r \in Rows : target[r] # None}
  <2>1. prepared'[k] = Accounted(k, ids)
    BY <1>1 DEF List, SaleInv, ImportInv, RunTypes
  <2>2. DOMAIN Accounted(k, ids) = Ready(k, ids)
    BY DEF Accounted
  <2> QED
    BY <2>1, <2>2, AccountedAgrees DEF SaleInv
<1>2. CASE ~(List(i) /\ i = k)
  <2>1. phase[k] = "listed" /\ prepared'[k] = prepared[k]
    BY <1>2
       DEF Resolve, List, Apply, ApplyFails, DryRun, MoveTo, SaleInv, ImportInv, RunTypes
  <2> QED
    BY <2>1 DEF SaleInv
<1> QED
  BY <1>1, <1>2

LEMMA SaleInvStep == SalesPosted /\ SaleInv /\ [LegacyNext]_legacyVars => SaleInv'
<1> SUFFICES ASSUME SalesPosted, SaleInv, [LegacyNext]_legacyVars PROVE SaleInv'
  OBVIOUS
<1>1. ImportInv'
  BY ImportInvStep DEF SaleInv
<1>2. CASE UNCHANGED recoveryVars
  BY <1>1, <1>2 DEF recoveryVars, importVars, runVars, SaleInv, AttributionAgrees, PaymentOf
<1>3. ASSUME NEW i \in Runs, Resolve(i) \/ List(i) \/ Apply(i) \/ ApplyFails(i) \/ DryRun(i)
      PROVE  SaleInv'
  <2>1. AttributionAgrees'
    <3>1. CASE Apply(i)
      BY <3>1, AttributionStep
    <3>2. CASE ~Apply(i)
      BY <1>3, <3>2
         DEF Resolve, List, ApplyFails, DryRun, importVars, SaleInv, AttributionAgrees,
             PaymentOf
    <3> QED
      BY <3>1, <3>2
  <2> QED
    BY <1>1, <1>3, <2>1, PlanAgreesStep DEF SaleInv, PaymentOf
<1> QED
  BY <1>2, <1>3 DEF LegacyNext, AgencyNext, legacyVars

(* A payment and the entry of its sale that one run imported are under one     *)
(* account, whatever the agency renames, archives or creates between the reads *)
(* of the run, provided the old database posted its sales as ours does.        *)
THEOREM AttributionHolds == SalesPosted => (LegacySpec => []AttributionAgrees)
<1> SUFFICES ASSUME SalesPosted PROVE LegacySpec => []AttributionAgrees
  OBVIOUS
<1>1. LegacyInit => SaleInv
  BY SaleInvStart
<1>2. SaleInv /\ [LegacyNext]_legacyVars => SaleInv'
  BY SaleInvStep
<1>3. SaleInv => AttributionAgrees
  BY DEF SaleInv
<1> QED
  BY <1>1, <1>2, <1>3, PTL DEF LegacySpec

-----------------------------------------------------------------------------
(* Each part of Corrections behaves as if it were alone, so what is proved of *)
(* a part holds in the composition.                                           *)
THEOREM PartsStandAlone == Spec => EvidenceSpec /\ LegacySpec
<1>1. Init => EvidenceInit /\ LegacyInit
  BY DEF Init
<1>2. [Next]_vars => [EvidenceNext]_evidenceVars
  BY DEF Next, vars
<1>3. [Next]_vars => [LegacyNext]_legacyVars
  BY DEF Next, vars
<1> QED
  BY <1>1, <1>2, <1>3, PTL DEF Spec, EvidenceSpec, LegacySpec
=============================================================================
