------------------------ MODULE ReconcileSweepProofs ------------------------
(***************************************************************************)
(* Money keeps its link, proved for any number of links, any batch and any *)
(* number of restarts: in every commit, and in the rows a run has updated  *)
(* and not yet committed.                                                  *)
(***************************************************************************)
EXTENDS ReconcileSweep, TLAPS

(* A row whose money, if it has any, keeps it waiting for its details. *)
Sound(r) ==
  /\ r = [status |-> r.status, paid |-> r.paid, check |-> r.check]
  /\ r.paid => r.status = "pending"

IsRun(r) ==
  /\ r = [pass |-> r.pass, todo |-> r.todo, expired |-> r.expired, asked |-> r.asked,
          said |-> r.said, draft |-> r.draft, events |-> r.events]
  /\ r.todo \subseteq Links /\ r.asked \in Links \cup {None}

(* The inductive invariant: the drafts become rows, and rows become drafts. *)
SweepInv ==
  /\ row = [l \in Links |-> row[l]]
  /\ \A l \in Links : Sound(row[l])
  /\ run # None => IsRun(run) /\ \A l \in DOMAIN run.draft : Sound(run.draft[l])

-----------------------------------------------------------------------------
LEMMA ViewSound == ASSUME SweepInv, NEW l \in Links PROVE Sound(View(l))
  BY DEF SweepInv, View, Held

(* Ranked touches no status and no payment. *)
LEMMA RankedSound ==
  ASSUME NEW rows, \A l \in Links : Sound(rows[l])
  PROVE  /\ Ranked(rows) = [l \in Links |-> Ranked(rows)[l]]
         /\ \A l \in Links : Sound(Ranked(rows)[l])
<1> DEFINE stamps == {rows[l].check : l \in Links} \cup {0}
           rank(l) == Cardinality({s \in stamps : s < rows[l].check})
<1>1. Ranked(rows) = [l \in Links |-> [rows[l] EXCEPT !.check = rank(l)]]
  BY DEF Ranked
<1> HIDE DEF rank
<1>2. ASSUME NEW l \in Links PROVE Sound([rows[l] EXCEPT !.check = rank(l)])
  <2> DEFINE old == rows[l]
  <2>1. old = [status |-> old.status, paid |-> old.paid, check |-> old.check] /\ Sound(old)
    BY DEF Sound
  <2>2. [old EXCEPT !.check = rank(l)] = [status |-> old.status, paid |-> old.paid, check |-> rank(l)]
    BY <2>1
  <2> QED
    BY <2>1, <2>2 DEF Sound
<1> QED
  BY <1>1, <1>2

(* An outcome pays a link and sets it waiting; a write-off takes no paid one. *)
LEMMA RecordedSound == ASSUME NEW old, Sound(old) PROVE Sound(Recorded(old))
  BY DEF Sound, Recorded

LEMMA WrittenOffSound == ASSUME NEW old, Sound(old) PROVE Sound(WrittenOff(old))
  BY DEF Sound, WrittenOff

(* A run that goes on, with or without one more draft. *)
LEMMA SkipStep ==
  ASSUME SweepInv, run # None, Skips, UNCHANGED row
  PROVE  SweepInv'
  BY DEF SweepInv, IsRun, Skips

LEMMA WriteStep ==
  ASSUME SweepInv, run # None, NEW l \in Links, NEW new, Sound(new), NEW events,
         Writes(l, new, events), UNCHANGED row
  PROVE  SweepInv'
<1> DEFINE draft == [x \in Held \cup {l} |-> IF x = l THEN new ELSE run.draft[x]]
<1>1. run' = [run EXCEPT !.asked = None, !.said = None, !.events = @ \cup events, !.draft = draft]
  BY DEF Writes
<1>2. IsRun(run)
  BY DEF SweepInv
<1>3. \A x \in DOMAIN draft : Sound(draft[x])
  BY DEF SweepInv, Held
<1> HIDE DEF draft
<1>4. run'.draft = draft /\ IsRun(run')
  BY <1>1, <1>2 DEF IsRun
<1> QED
  BY <1>3, <1>4 DEF SweepInv

-----------------------------------------------------------------------------
LEMMA SweepInvStart == Init => SweepInv
<1> SUFFICES ASSUME Init PROVE SweepInv
  OBVIOUS
<1>1. PICK f \in [Links -> {[status |-> s, paid |-> FALSE, check |-> 0] : s \in {"active", "cancelled"}}] :
        row = f
  BY DEF Init
<1>2. ASSUME NEW l \in Links PROVE Sound(row[l])
  <2>1. PICK s \in {"active", "cancelled"} : row[l] = [status |-> s, paid |-> FALSE, check |-> 0]
    BY <1>1
  <2> QED
    BY <2>1 DEF Sound
<1> QED
  BY <1>1, <1>2 DEF SweepInv, Init

LEMMA OpenStep == ASSUME SweepInv, HandleOpen PROVE SweepInv'
<1>1. run # None /\ run.asked \in Links /\ UNCHANGED row
  BY DEF HandleOpen, Asking, SweepInv, IsRun, linkVars
<1>2. Sound(Recorded(View(run.asked))) /\ Sound(WrittenOff(Recorded(View(run.asked))))
  BY <1>1, ViewSound, RecordedSound, WrittenOffSound
<1>3. \/ Skips
      \/ Writes(run.asked, WrittenOff(Recorded(View(run.asked))), {run.asked})
      \/ Writes(run.asked, Recorded(View(run.asked)), {})
  BY DEF HandleOpen
<1> QED
  BY <1>1, <1>2, <1>3, SkipStep, WriteStep

LEMMA LateStep == ASSUME SweepInv, HandleLate PROVE SweepInv'
<1>1. run # None /\ run.asked \in Links /\ UNCHANGED row
  BY DEF HandleLate, Asking, SweepInv, IsRun, linkVars
<1>2. Sound(Recorded(View(run.asked)))
  BY <1>1, ViewSound, RecordedSound
<1>3. Skips \/ Writes(run.asked, Recorded(View(run.asked)), {})
  BY DEF HandleLate
<1> QED
  BY <1>1, <1>2, <1>3, SkipStep, WriteStep

LEMMA BatchStep == ASSUME SweepInv, BeginLate PROVE SweepInv'
<1>1. run # None /\ UNCHANGED row /\ IsRun(run)
  BY DEF BeginLate, Idle, SweepInv, linkVars
<1>2. PICK batch \in SUBSET Links :
        run' = [run EXCEPT !.pass = "late", !.todo = batch,
                  !.draft = [l \in Held \cup batch |->
                     IF l \in batch THEN [View(l) EXCEPT !.check = Fresh] ELSE run.draft[l]]]
  BY DEF BeginLate
<1> DEFINE draft == [l \in Held \cup batch |->
                       IF l \in batch THEN [View(l) EXCEPT !.check = Fresh] ELSE run.draft[l]]
<1>3. ASSUME NEW l \in batch PROVE Sound([View(l) EXCEPT !.check = Fresh])
  <2>1. Sound(View(l))
    BY ViewSound
  <2> QED
    BY <2>1 DEF Sound
<1>4. \A l \in DOMAIN draft : Sound(draft[l])
  BY <1>1, <1>3 DEF SweepInv, Held
<1> HIDE DEF draft
<1>5. run'.draft = draft /\ IsRun(run')
  BY <1>1, <1>2 DEF IsRun, draft
<1> QED
  BY <1>1, <1>4, <1>5 DEF SweepInv

(* What commits: the drafts of a run, a webhook, a cancellation. *)
LEMMA CommitStep ==
  ASSUME SweepInv, Commit \/ \E l \in Links : Webhook(l) \/ Cancel(l)
  PROVE  SweepInv'
<1>1. CASE Commit
  <2> DEFINE view == [l \in Links |-> View(l)]
  <2>1. row' = Ranked(view) /\ run' = None
    BY <1>1 DEF Commit
  <2>2. \A l \in Links : Sound(view[l])
    BY ViewSound
  <2> HIDE DEF view
  <2> QED
    BY <2>1, <2>2, RankedSound DEF SweepInv
<1>2. ASSUME NEW l \in Links, Webhook(l) PROVE SweepInv'
  <2> DEFINE rows == [row EXCEPT ![l] = [status |-> "pending", paid |-> TRUE, check |-> 0]]
  <2>1. row' = Ranked(rows) /\ UNCHANGED run
    BY <1>2 DEF Webhook
  <2>2. \A x \in Links : Sound(rows[x])
    BY DEF SweepInv, Sound
  <2> HIDE DEF rows
  <2> QED
    BY <2>1, <2>2, RankedSound DEF SweepInv
<1>3. ASSUME NEW l \in Links, Cancel(l) PROVE SweepInv'
  <2>1. row' = [row EXCEPT ![l].status = "cancelled"] /\ row[l].status = "active" /\ UNCHANGED run
    BY <1>3 DEF Cancel
  <2>2. Sound(row[l])
    BY DEF SweepInv
  <2>3. Sound([row[l] EXCEPT !.status = "cancelled"])
    BY <2>1, <2>2 DEF Sound
  <2> QED
    BY <2>1, <2>3 DEF SweepInv
<1> QED
  BY <1>1, <1>2, <1>3

LEMMA SweepInvStep == SweepInv /\ [Next]_vars => SweepInv'
<1> SUFFICES ASSUME SweepInv, [Next]_vars PROVE SweepInv'
  OBVIOUS
<1>1. CASE Begin
  <2>1. row' = row /\ run'.draft = <<>> /\ IsRun(run')
    BY <1>1 DEF Begin, IsRun, linkVars
  <2> QED
    BY <2>1 DEF SweepInv
<1>2. ASSUME NEW l \in Links, AskAnswered(l) \/ AskFails(l) PROVE SweepInv'
  <2>1. PICK said : Asked(l, said)
    BY <1>2 DEF AskAnswered, AskFails
  <2> QED
    BY <2>1 DEF Asked, SweepInv, IsRun, linkVars
<1>3. CASE Throws \/ Restart
  BY <1>3 DEF Throws, Restart, SweepInv, linkVars
<1>4. ASSUME NEW l \in Links,
             PassDeadline(l) \/ Archive(l) \/ \E said \in Settled : Settle(l, said)
      PROVE  SweepInv'
  BY <1>4 DEF PassDeadline, Archive, Settle, SweepInv, linkVars
<1>5. CASE UNCHANGED vars
  BY <1>5 DEF vars, linkVars, SweepInv
<1> QED
  BY <1>1, <1>2, <1>3, <1>4, <1>5, OpenStep, LateStep, BatchStep, CommitStep DEF Next, Works

(* A run that read "open", "declined" or an expiry before a payment landed,   *)
(* and one that holds the payment in its draft, leave every paid link waiting *)
(* for its details: no interleaving writes money off.                         *)
THEOREM MoneyKeepsItsLink == Spec => []PaidIsNotWrittenOff
<1>1. Init => SweepInv
  BY SweepInvStart
<1>2. SweepInv /\ [Next]_vars => SweepInv'
  BY SweepInvStep
<1>3. SweepInv => PaidIsNotWrittenOff
  BY DEF SweepInv, Sound, PaidIsNotWrittenOff
<1> QED
  BY <1>1, <1>2, <1>3, PTL DEF Spec
=============================================================================
