------------------------- MODULE DisbursementsProofs -------------------------
(***************************************************************************)
(* What is paid out is paid once, and what is held is given back once,     *)
(* oldest first: proved for any number of sales, payees, runs, releases    *)
(* and settings requests, and for any amounts.  The reserve comes first,   *)
(* then the payouts.                                                       *)
(***************************************************************************)
EXTENDS Disbursements, FiniteSetTheorems, SequenceTheorems, TLAPS

(* The amounts are integers, and so is what a hold is computed from.         *)
Typed ==
  /\ pct \in Rates
  /\ edits \subseteq ([field: {"enabled"}, to: BOOLEAN] \cup [field: {"pct"}, to: Rates])
  /\ sale \in [Charges -> {"none", "posting", "posted", "reversed"}]
  /\ hold \in [Charges -> Int] /\ released \in [Charges -> Int] /\ reversal \in [Charges -> Int]
  /\ clock \in Int /\ began \in [Charges -> Int] /\ first \in [Charges -> Int]
  /\ since \in [Releasers -> Int]

(* A sale that is not posted has no entry, and only a refund books a reversal. *)
Entries ==
  \A s \in Charges :
    /\ Available(s) >= 0 /\ released[s] >= 0
    /\ sale[s] \in {"none", "posting"} => hold[s] = 0 /\ released[s] = 0
    /\ sale[s] # "reversed" => reversal[s] = 0
    /\ sale[s] = "reversed" => Available(s) = 0

Plans == [todo: SUBSET Charges, free: [Charges -> Int], left: Int, parts: [Charges -> Int]]

(* A release that holds the row works on the balances as they are now, gives  *)
(* no sale more than its balance, and has what it still may give untouched.   *)
Covers(w) ==
  /\ w \in Plans /\ w.left >= 0
  /\ \A s \in Charges : w.free[s] = Available(s) /\ 0 <= w.parts[s] /\ w.parts[s] <= w.free[s]

(* The inductive invariant: the row has one release at a time.                *)
ReserveInv ==
  /\ Typed /\ Entries
  /\ work = [r \in Releasers |-> work[r]]
  /\ \A r \in Releasers : work[r] # NotRunning =>
       Covers(work[r]) /\ \A q \in Releasers : work[q] # NotRunning => q = r

ReserveSpec == ReserveInit /\ [][ReserveNext]_reserveVars

-----------------------------------------------------------------------------
LEMMA AvailableIsInt == ASSUME Typed, NEW s \in Charges PROVE Available(s) \in Int
  BY DEF Typed, Available

LEMMA HoldAmountIsInt == ASSUME Typed, NEW s \in Charges PROVE HoldAmount(s) \in Int
<1>1. Gross[s] \in Int /\ pct \in Int
  BY ReserveAssumption DEF Typed
<1>2. Gross[s] * pct \in Int
  BY <1>1
<1> QED
  BY <1>2 DEF HoldAmount

LEMMA ReserveInvStart == ReserveInit => ReserveInv
  BY DEF ReserveInit, ReserveInv, Typed, Entries, Available, Zero

-----------------------------------------------------------------------------
(* A settings request moves no money.                                         *)
LEMMA SettingsStep == ASSUME ReserveInv, SettingsNext PROVE ReserveInv'
<1>1. UNCHANGED <<clock, began, since, sale, entries, work>>
  BY DEF SettingsNext, BeginEnable, BeginRate, SaveSetting
<1>2. Typed'
  <2>1. CASE \E b \in BOOLEAN : BeginEnable(b)
    BY <1>1, <2>1 DEF ReserveInv, Typed, BeginEnable, entries
  <2>2. CASE \E p \in Rates : BeginRate(p)
    BY <1>1, <2>2 DEF ReserveInv, Typed, BeginRate, entries
  <2>3. CASE \E e \in edits : SaveSetting(e)
    BY <1>1, <2>3 DEF ReserveInv, Typed, SaveSetting, entries
  <2> QED
    BY <2>1, <2>2, <2>3 DEF SettingsNext
<1> QED
  BY <1>1, <1>2 DEF ReserveInv, Entries, Available, Covers, entries

(* What changes one sale while nobody holds the row.                          *)
LEMMA SaleStep ==
  ASSUME ReserveInv, NEW s \in Charges, UNCHANGED <<pct, edits, released, work>>,
         Typed', Entries',
         \A t \in Charges \ {s} : hold'[t] = hold[t] /\ reversal'[t] = reversal[t],
         RowFree \/ (hold'[s] = hold[s] /\ reversal'[s] = reversal[s])
  PROVE  ReserveInv'
<1>1. CASE RowFree
  BY <1>1 DEF RowFree, ReserveInv
<1>2. CASE \A t \in Charges : hold'[t] = hold[t] /\ reversal'[t] = reversal[t]
  BY <1>2 DEF ReserveInv, Covers, Available
<1> QED
  BY <1>1, <1>2

LEMMA SalesStep == ASSUME ReserveInv, SaleNext PROVE ReserveInv'
<1>1. ASSUME NEW s \in Charges, BeginSale(s) \/ SaleRollsBack(s) PROVE ReserveInv'
  <2>1. UNCHANGED <<pct, edits, since, entries, work>>
    BY <1>1 DEF BeginSale, SaleRollsBack, settings
  <2>2. clock' \in Int /\ began' \in [Charges -> Int]
    BY <1>1 DEF BeginSale, SaleRollsBack, Begins, ReserveInv, Typed
  <2>3. Typed' /\ Entries'
    BY <1>1, <2>1, <2>2 DEF BeginSale, SaleRollsBack, ReserveInv, Typed, Entries, Available, entries
  <2> QED
    BY <2>1, <2>3, SaleStep DEF entries
<1>2. ASSUME NEW s \in Charges, HoldSale(s) PROVE ReserveInv'
  <2>1. UNCHANGED <<pct, edits, released, reversal, work>> /\ RowFree /\ sale[s] = "posting"
    BY <1>2 DEF HoldSale, settings
  <2> DEFINE amount == IF Reserving THEN HoldAmount(s) ELSE 0
  <2>2. amount \in Int /\ amount >= 0 /\ hold' = [hold EXCEPT ![s] = amount]
    <3>1. HoldAmount(s) \in Int /\ (Reserving => HoldAmount(s) > 0)
      BY <1>2, HoldAmountIsInt DEF HoldSale, ReserveInv
    <3> QED
      BY <1>2, <3>1 DEF HoldSale
  <2> HIDE DEF amount
  <2>3. Typed' /\ Entries'
    BY <1>2, <2>1, <2>2 DEF HoldSale, ReserveInv, Typed, Entries, Available
  <2> QED
    BY <2>1, <2>2, <2>3, SaleStep DEF ReserveInv, Typed
<1>3. ASSUME NEW s \in Charges, ReverseSale(s) PROVE ReserveInv'
  <2>1. UNCHANGED <<pct, edits, hold, released, work>> /\ reversal[s] = 0 /\ sale[s] = "posted"
    BY <1>3 DEF ReverseSale, settings, ReserveInv, Entries
  <2>2. reversal' = [reversal EXCEPT ![s] = Available(s)] /\ Available(s) \in Int
    <3>1. Available(s) \in Int /\ Available(s) >= 0
      BY AvailableIsInt DEF ReserveInv, Entries
    <3>2. StillHeld(s) = Available(s)
      BY <3>1 DEF StillHeld
    <3> QED
      BY <1>3, <3>1, <3>2 DEF ReverseSale
  <2>3. Typed' /\ Entries'
    BY <1>3, <2>1, <2>2 DEF ReverseSale, ReserveInv, Typed, Entries, Available
  <2>4. RowFree \/ reversal'[s] = reversal[s]
    <3>1. CASE hold[s] > 0
      BY <1>3, <3>1 DEF ReverseSale
    <3>2. CASE ~(hold[s] > 0)
      <4>1. hold[s] \in Int /\ released[s] \in Int /\ released[s] >= 0 /\ Available(s) >= 0
        BY DEF ReserveInv, Typed, Entries
      <4>2. Available(s) = 0
        BY <2>1, <3>2, <4>1 DEF Available
      <4> QED
        BY <2>1, <2>2, <4>2 DEF ReserveInv, Typed
    <3> QED
      BY <3>1, <3>2
  <2> QED
    BY <2>1, <2>2, <2>3, <2>4, SaleStep DEF ReserveInv, Typed
<1> QED
  BY <1>1, <1>2, <1>3 DEF SaleNext

-----------------------------------------------------------------------------
(* A release that did not hold the row before holds it now, alone.            *)
LEMMA ReleaseStep ==
  ASSUME ReserveInv, NEW r \in Releasers, NEW w, Covers(w),
         work' = [work EXCEPT ![r] = w], UNCHANGED <<pct, edits, clock, began, since, sale, entries>>,
         \A q \in Releasers : work[q] # NotRunning => q = r
  PROVE  ReserveInv'
<1>1. \A q \in Releasers : work'[q] # NotRunning => q = r /\ work'[q] = w
  BY DEF ReserveInv
<1>2. Covers(w)'
  BY DEF Covers, Available, entries
<1>3. Typed' /\ Entries'
  BY DEF ReserveInv, Typed, Entries, Available, entries
<1> QED
  BY <1>1, <1>2, <1>3 DEF ReserveInv

(* A release that ends leaves the row to the next.                            *)
LEMMA EndStep ==
  ASSUME ReserveInv, NEW r \in Releasers, work[r] # NotRunning,
         work' = [work EXCEPT ![r] = NotRunning], UNCHANGED <<pct, edits, sale>>, Typed', Entries'
  PROVE  ReserveInv'
<1>1. \A q \in Releasers : work'[q] = NotRunning
  BY DEF ReserveInv
<1> QED
  BY <1>1 DEF ReserveInv

(* A request that has read nothing yet begins, or ends.                       *)
LEMMA WaitStep ==
  ASSUME ReserveInv, UNCHANGED <<pct, edits, began, sale, entries, work>>,
         clock' \in Int, since' \in [Releasers -> Int]
  PROVE  ReserveInv'
<1>1. Typed' /\ Entries'
  BY DEF ReserveInv, Typed, Entries, Available, entries
<1> QED
  BY <1>1 DEF ReserveInv, Covers, Available, entries

LEMMA ReleasesStep == ASSUME ReserveInv, ReleaseNext PROVE ReserveInv'
<1>0. ASSUME NEW r \in Releasers, BeginRelease(r) PROVE ReserveInv'
  <2>1. clock' \in Int /\ since' \in [Releasers -> Int]
    BY <1>0 DEF BeginRelease, Begins, ReserveInv, Typed
  <2> QED
    BY <1>0, <2>1, WaitStep DEF BeginRelease, settings
<1>1. ASSUME NEW r \in Releasers, NEW amount \in Requested, LockRelease(r, amount) PROVE ReserveInv'
  <2> DEFINE w == [todo |-> HeldSales, free |-> [s \in Charges |-> Available(s)],
                   left |-> amount, parts |-> Zero]
  <2>1. amount \in Int /\ amount >= 0
    BY ReserveAssumption
  <2>2. \A s \in Charges : Available(s) \in Int /\ Available(s) >= 0
    BY AvailableIsInt DEF ReserveInv, Entries
  <2>3. Covers(w)
    BY <2>1, <2>2 DEF Covers, Plans, HeldSales, Zero
  <2>4. /\ work' = [work EXCEPT ![r] = w] /\ RowFree
        /\ UNCHANGED <<pct, edits, clock, began, since, sale, entries>>
    BY <1>1 DEF LockRelease, settings
  <2> HIDE DEF w
  <2> QED
    BY <2>3, <2>4, ReleaseStep DEF RowFree
<1>2. ASSUME NEW r \in Releasers, InsertPart(r) PROVE ReserveInv'
  <2> DEFINE w == work[r]
  <2>1. work[r] # NotRunning /\ w.left > 0 /\ UNCHANGED <<pct, edits, clock, began, since, sale, entries>>
    BY <1>2 DEF InsertPart, settings
  <2>2. Covers(w) /\ \A q \in Releasers : work[q] # NotRunning => q = r
    BY <2>1 DEF ReserveInv
  <2>3. PICK s \in w.todo :
          work' = [work EXCEPT ![r] =
            [todo |-> w.todo \ {s}, free |-> w.free, left |-> w.left - Lower(w.left, w.free[s]),
             parts |-> [w.parts EXCEPT ![s] = Lower(w.left, w.free[s])]]]
    BY <1>2 DEF InsertPart
  <2> DEFINE part == Lower(w.left, w.free[s])
             new == [todo |-> w.todo \ {s}, free |-> w.free, left |-> w.left - part,
                     parts |-> [w.parts EXCEPT ![s] = part]]
  <2>4. s \in Charges /\ w.free[s] = Available(s) /\ w.free[s] \in Int /\ w.left \in Int
    BY <2>2, <2>3 DEF Covers, Plans
  <2>5. part \in Int /\ 0 <= part /\ part <= w.left /\ part <= w.free[s]
    <3>1. Available(s) >= 0
      BY <2>4 DEF ReserveInv, Entries
    <3> QED
      BY <2>1, <2>4, <3>1 DEF Lower
  <2>6. work' = [work EXCEPT ![r] = new]
    BY <2>3
  <2> HIDE DEF part
  <2>7. Covers(new)
    BY <2>2, <2>4, <2>5 DEF Covers, Plans
  <2> HIDE DEF w, new
  <2> QED
    BY <2>1, <2>2, <2>6, <2>7, ReleaseStep
<1>3. ASSUME NEW r \in Releasers, CommitRelease(r) PROVE ReserveInv'
  <2> DEFINE w == work[r]
  <2>1. /\ work[r] # NotRunning /\ work' = [work EXCEPT ![r] = NotRunning]
        /\ UNCHANGED <<pct, edits, clock, began, sale, hold, reversal>>
        /\ released' = [s \in Charges |-> released[s] + w.parts[s]]
        /\ first' = [s \in Charges |-> IF w.parts[s] > 0 THEN Lower(first[s], since[r]) ELSE first[s]]
        /\ since' = [since EXCEPT ![r] = 0]
    BY <1>3 DEF CommitRelease, Finish, settings
  <2>2. \A s \in Charges : /\ w.parts[s] \in Int /\ 0 <= w.parts[s] /\ w.parts[s] <= Available(s)
    BY <2>1 DEF ReserveInv, Covers, Plans
  <2> HIDE DEF w
  <2>3. Typed'
    <3>1. first' \in [Charges -> Int] /\ since' \in [Releasers -> Int]
      BY <2>1 DEF Lower, ReserveInv, Typed
    <3> QED
      BY <2>1, <2>2, <3>1 DEF ReserveInv, Typed
  <2>4. ASSUME NEW s \in Charges PROVE Available(s)' = Available(s) - w.parts[s] /\ Available(s) \in Int
    BY <2>1, <2>2 DEF ReserveInv, Typed, Available
  <2>5. Entries'
    <3> SUFFICES ASSUME NEW s \in Charges
                 PROVE  /\ Available(s)' >= 0 /\ released'[s] >= 0
                        /\ sale'[s] \in {"none", "posting"} => hold'[s] = 0 /\ released'[s] = 0
                        /\ sale'[s] # "reversed" => reversal'[s] = 0
                        /\ sale'[s] = "reversed" => Available(s)' = 0
      BY DEF Entries, Available
    <3>1. released'[s] = released[s] + w.parts[s] /\ released[s] \in Int /\ released[s] >= 0 /\ hold[s] \in Int
      BY <2>1 DEF ReserveInv, Typed, Entries
    <3>2. CASE sale[s] \in {"none", "posting"}
      <4>1. Available(s) = 0
        BY <3>2 DEF ReserveInv, Entries, Available
      <4> QED
        BY <2>1, <2>2, <2>4, <3>1, <3>2, <4>1 DEF ReserveInv, Entries
    <3>3. CASE sale[s] \notin {"none", "posting"}
      BY <2>1, <2>2, <2>4, <3>1, <3>3 DEF ReserveInv, Entries
    <3> QED
      BY <3>2, <3>3
  <2> QED
    BY <2>1, <2>3, <2>5, EndStep
<1>4. ASSUME NEW r \in Releasers, AbortRelease(r) PROVE ReserveInv'
  <2>1. /\ work' = [work EXCEPT ![r] = NotRunning] /\ since' = [since EXCEPT ![r] = 0]
        /\ UNCHANGED <<pct, edits, clock, began, sale, entries>>
    BY <1>4 DEF AbortRelease, Finish, settings
  <2>2. Typed' /\ Entries'
    BY <2>1 DEF ReserveInv, Typed, Entries, Available, entries
  <2>3. CASE work[r] # NotRunning
    BY <2>1, <2>2, <2>3, EndStep
  <2>4. CASE work[r] = NotRunning
    <3>1. UNCHANGED work
      BY <2>1, <2>4 DEF ReserveInv
    <3>2. clock' \in Int /\ since' \in [Releasers -> Int]
      BY <2>2 DEF Typed
    <3> QED
      BY <2>1, <3>1, <3>2, WaitStep
  <2> QED
    BY <2>3, <2>4
<1> QED
  BY <1>0, <1>1, <1>2, <1>3, <1>4 DEF ReleaseNext

-----------------------------------------------------------------------------
LEMMA ReserveInvStep == ReserveInv /\ [ReserveNext]_reserveVars => ReserveInv'
<1> SUFFICES ASSUME ReserveInv, [ReserveNext]_reserveVars PROVE ReserveInv'
  OBVIOUS
<1>1. CASE UNCHANGED reserveVars
  BY <1>1 DEF reserveVars, settings, entries, ReserveInv, Typed, Entries, Covers, Available
<1> QED
  BY <1>1, SettingsStep, SalesStep, ReleasesStep DEF ReserveNext

LEMMA ReserveInvAlways == ReserveSpec => []ReserveInv
<1>1. ReserveInit => ReserveInv
  BY ReserveInvStart
<1>2. ReserveInv /\ [ReserveNext]_reserveVars => ReserveInv'
  BY ReserveInvStep
<1> QED
  BY <1>1, <1>2, PTL DEF ReserveSpec

(* However many releases are requested at once, beside refunds, new sales and *)
(* settings, no sale gives back more than was held for it.                    *)
THEOREM HeldOnce == ReserveSpec => []NeverOverdrawn
<1>1. ReserveInv => NeverOverdrawn
  BY DEF ReserveInv, Typed, Entries, Available, NeverOverdrawn
<1> QED
  BY <1>1, ReserveInvAlways, PTL

(* Nothing of a refunded sale stays in the reserve, whatever part of it was   *)
(* released before the refund.                                                *)
THEOREM RefundEmpties == ReserveSpec => []ReversedHoldsNothing
<1>1. ReserveInv => ReversedHoldsNothing
  BY DEF ReserveInv, Entries, ReversedHoldsNothing
<1> QED
  BY <1>1, ReserveInvAlways, PTL

-----------------------------------------------------------------------------
(* The order of the entries.  A hold with money left has an entry as old as    *)
(* its sale; and a release that still has money to give has emptied what it    *)
(* is done with, the sale with the oldest entry first.                         *)
Dated == \A s \in Charges : Available(s) > 0 => first[s] <= began[s]

Fronted(w) ==
  /\ w.left > 0 => \A s \in Charges \ w.todo : w.parts[s] = w.free[s]
  /\ \A s, t \in Charges :
       w.parts[t] > 0 /\ Available(s) > 0 /\ first[s] < first[t] =>
         s \notin w.todo /\ w.parts[s] = w.free[s]

OrderInv ==
  /\ Dated
  /\ \A r \in Releasers : work[r] # NotRunning => Fronted(work[r])

(* What leaves the balances and their dates alone.                            *)
LEMMA OrderKept ==
  ASSUME ReserveInv, OrderInv, UNCHANGED first,
         \A s \in Charges : Available(s)' = Available(s),
         \A s \in Charges : Available(s) > 0 => began'[s] = began[s],
         \A r \in Releasers : work'[r] # NotRunning => work'[r] = work[r]
  PROVE  OrderInv'
<1>1. Dated'
  BY DEF OrderInv, Dated
<1>2. \A w : Fronted(w) => Fronted(w)'
  BY DEF Fronted
<1> QED
  BY <1>1, <1>2 DEF OrderInv

(* A sale that is held or refunded while no release holds the row.            *)
LEMMA RowFreeOrder ==
  ASSUME OrderInv, RowFree, UNCHANGED <<work, began>>, NEW s \in Charges,
         \A t \in Charges \ {s} : Available(t)' = Available(t) /\ first'[t] = first[t],
         Available(s)' > 0 => first'[s] <= began[s]
  PROVE  OrderInv'
<1>1. \A r \in Releasers : work'[r] = NotRunning
  BY DEF RowFree
<1> QED
  BY <1>1 DEF OrderInv, Dated

LEMMA SalesKeepOrder == ASSUME ReserveInv, OrderInv, SaleNext PROVE OrderInv'
<1>1. ASSUME NEW s \in Charges, BeginSale(s) \/ SaleRollsBack(s) PROVE OrderInv'
  <2>1. UNCHANGED <<entries, work>> /\ \A t \in Charges \ {s} : began'[t] = began[t]
    BY <1>1 DEF BeginSale, SaleRollsBack, ReserveInv, Typed
  <2>2. Available(s) = 0
    BY <1>1 DEF BeginSale, SaleRollsBack, ReserveInv, Typed, Entries, Available
  <2>3. \A t \in Charges : Available(t)' = Available(t)
    BY <2>1 DEF Available, entries
  <2> QED
    BY <2>1, <2>2, <2>3, OrderKept DEF entries
<1>2. ASSUME NEW s \in Charges, HoldSale(s) PROVE OrderInv'
  <2>1. /\ RowFree /\ UNCHANGED <<work, began, released, reversal>> /\ sale[s] = "posting"
        /\ hold' = [hold EXCEPT ![s] = IF Reserving THEN HoldAmount(s) ELSE 0]
        /\ first' = [first EXCEPT ![s] = IF Reserving THEN began[s] ELSE 0]
    BY <1>2 DEF HoldSale
  <2>2. \A t \in Charges \ {s} : Available(t)' = Available(t) /\ first'[t] = first[t]
    BY <2>1 DEF Available, ReserveInv, Typed
  <2>3. released[s] = 0 /\ reversal[s] = 0 /\ began[s] \in Int
    BY <2>1 DEF ReserveInv, Entries, Typed
  <2>4. Available(s)' > 0 => first'[s] <= began[s]
    <3>1. CASE Reserving
      <4>1. first'[s] = began[s]
        BY <2>1, <3>1 DEF ReserveInv, Typed
      <4> QED
        BY <2>3, <4>1
    <3>2. CASE ~Reserving
      <4>1. hold'[s] = 0
        BY <2>1, <3>2 DEF ReserveInv, Typed
      <4> QED
        BY <2>1, <2>3, <4>1 DEF Available
    <3> QED
      BY <3>1, <3>2
  <2> QED
    BY <2>1, <2>2, <2>4, RowFreeOrder
<1>3. ASSUME NEW s \in Charges, ReverseSale(s) PROVE OrderInv'
  <2>1. /\ UNCHANGED <<work, began, hold, released, first>> /\ sale[s] = "posted"
        /\ reversal' = [reversal EXCEPT ![s] = StillHeld(s)] /\ (hold[s] > 0 => RowFree)
    BY <1>3 DEF ReverseSale
  <2>2. \A t \in Charges \ {s} : Available(t)' = Available(t) /\ first'[t] = first[t]
    BY <2>1 DEF Available, ReserveInv, Typed
  <2>3. /\ Available(s) \in Int /\ Available(s) >= 0 /\ reversal[s] = 0 /\ released[s] >= 0
        /\ hold[s] \in Int /\ released[s] \in Int
    BY <2>1, AvailableIsInt DEF ReserveInv, Entries, Typed
  <2>4. StillHeld(s) = Available(s) /\ reversal'[s] = StillHeld(s)
    BY <2>1, <2>3 DEF StillHeld, ReserveInv, Typed
  <2>5. Available(s)' = 0
    BY <2>1, <2>3, <2>4 DEF Available
  <2>6. CASE RowFree
    BY <2>1, <2>2, <2>5, <2>6, RowFreeOrder
  <2>7. CASE hold[s] <= 0
    <3>1. Available(s) = 0
      BY <2>3, <2>7 DEF Available
    <3> QED
      BY <2>1, <2>2, <2>5, <3>1, OrderKept
  <2> QED
    BY <2>1, <2>3, <2>6, <2>7
<1> QED
  BY <1>1, <1>2, <1>3 DEF SaleNext

(* One turn of the loop: the oldest is taken, and whole unless it is the last. *)
LEMMA PartKeepsFront ==
  ASSUME ReserveInv, OrderInv, NEW r \in Releasers, InsertPart(r)
  PROVE  Fronted(work'[r])
<1> DEFINE w == work[r]
<1>1. /\ w # NotRunning /\ w.left > 0
      /\ Covers(w) /\ Fronted(w)
  BY DEF InsertPart, ReserveInv, OrderInv
<1>2. PICK s \in w.todo :
        /\ OldestOf(s, w.todo)
        /\ work' = [work EXCEPT ![r] =
             [todo |-> w.todo \ {s}, free |-> w.free, left |-> w.left - Lower(w.left, w.free[s]),
              parts |-> [w.parts EXCEPT ![s] = Lower(w.left, w.free[s])]]]
  BY DEF InsertPart
<1> DEFINE part == Lower(w.left, w.free[s])
           new == [todo |-> w.todo \ {s}, free |-> w.free, left |-> w.left - part,
                   parts |-> [w.parts EXCEPT ![s] = part]]
<1>3. work'[r] = new
  BY <1>2 DEF ReserveInv
<1>4. w \in Plans /\ s \in Charges /\ w.todo \subseteq Charges
  BY <1>1, <1>2 DEF Covers, Plans
<1>5. w.free[s] \in Int /\ w.left \in Int /\ part \in Int /\ (w.left - part > 0 => part = w.free[s])
  BY <1>4 DEF Lower, Plans
<1> HIDE DEF part
<1>6. /\ new.todo = w.todo \ {s} /\ new.free = w.free /\ new.left = w.left - part
      /\ new.parts[s] = part /\ \A t \in Charges \ {s} : new.parts[t] = w.parts[t]
  BY <1>4 DEF Plans
<1> HIDE DEF new
<1>7. \A t \in Charges \ w.todo : w.parts[t] = w.free[t]
  BY <1>1 DEF Fronted
<1>8. ASSUME NEW t \in Charges, NEW u \in Charges,
             new.parts[t] > 0, Available(u) > 0, first[u] < first[t]
      PROVE  u \notin new.todo /\ new.parts[u] = new.free[u]
  <2>1. CASE t = s
    <3>1. u # t /\ first[u] \in Int /\ first[t] \in Int
      BY <1>8 DEF ReserveInv, Typed
    <3>2. u \notin w.todo
      BY <1>2, <1>8, <2>1, <3>1 DEF OldestOf
    <3> QED
      BY <1>6, <1>7, <2>1, <3>1, <3>2
  <2>2. CASE t # s
    <3>1. u \notin w.todo /\ w.parts[u] = w.free[u]
      BY <1>1, <1>6, <1>8, <2>2 DEF Fronted
    <3> QED
      BY <1>2, <1>6, <3>1
  <2> QED
    BY <2>1, <2>2
<1>9. ASSUME new.left > 0, NEW t \in Charges \ new.todo PROVE new.parts[t] = new.free[t]
  <2>1. CASE t = s
    BY <1>5, <1>6, <1>9, <2>1
  <2>2. CASE t # s
    BY <1>6, <1>7, <1>9, <2>2
  <2> QED
    BY <2>1, <2>2
<1> HIDE DEF w
<1> QED
  BY <1>3, <1>8, <1>9 DEF Fronted

LEMMA CommitKeepsOrder ==
  ASSUME ReserveInv, OrderInv, NEW r \in Releasers, CommitRelease(r)
  PROVE  OrderInv'
<1>1. /\ work[r] # NotRunning /\ UNCHANGED <<began, hold, reversal>>
      /\ work' = [work EXCEPT ![r] = NotRunning]
      /\ released' = [s \in Charges |-> released[s] + work[r].parts[s]]
      /\ first' = [s \in Charges |->
                     IF work[r].parts[s] > 0 THEN Lower(first[s], since[r]) ELSE first[s]]
  BY DEF CommitRelease, Finish
<1>2. \A q \in Releasers : work'[q] = NotRunning
  BY <1>1 DEF ReserveInv
<1>3. ASSUME NEW s \in Charges, Available(s)' > 0 PROVE first'[s] <= began[s]
  <2>1. work[r].parts[s] \in Int /\ 0 <= work[r].parts[s]
    BY <1>1 DEF ReserveInv, Covers, Plans
  <2>2. hold[s] \in Int /\ released[s] \in Int /\ reversal[s] \in Int
    BY DEF ReserveInv, Typed
  <2>3. Available(s) > 0
    BY <1>1, <1>3, <2>1, <2>2 DEF Available
  <2>4. first[s] <= began[s] /\ first[s] \in Int /\ since[r] \in Int /\ began[s] \in Int
    BY <2>3 DEF OrderInv, Dated, ReserveInv, Typed
  <2> QED
    BY <1>1, <2>4 DEF Lower
<1> QED
  BY <1>1, <1>2, <1>3 DEF OrderInv, Dated

LEMMA ReleasesKeepOrder == ASSUME ReserveInv, OrderInv, ReleaseNext PROVE OrderInv'
<1>1. PICK r \in Releasers :
        \/ BeginRelease(r) \/ \E amount \in Requested : LockRelease(r, amount)
        \/ InsertPart(r) \/ CommitRelease(r) \/ AbortRelease(r)
  BY DEF ReleaseNext
<1>2. CASE BeginRelease(r) \/ AbortRelease(r)
  <2>1. /\ UNCHANGED <<began, entries>>
        /\ \A q \in Releasers : work'[q] # NotRunning => work'[q] = work[q]
    BY <1>2 DEF BeginRelease, AbortRelease, Finish, ReserveInv
  <2>2. \A s \in Charges : Available(s)' = Available(s)
    BY <2>1 DEF Available, entries
  <2> QED
    BY <2>1, <2>2, OrderKept DEF entries
<1>3. ASSUME \/ \E amount \in Requested : LockRelease(r, amount)
             \/ InsertPart(r)
      PROVE  OrderInv'
  <2>1. UNCHANGED <<began, entries>> /\ \A q \in Releasers \ {r} : work'[q] = work[q]
    BY <1>3 DEF LockRelease, InsertPart, ReserveInv
  <2>2. Dated' /\ \A w : Fronted(w) => Fronted(w)'
    BY <2>1 DEF OrderInv, Dated, Fronted, Available, entries
  <2>3. Fronted(work'[r])
    <3>1. ASSUME NEW amount \in Requested, LockRelease(r, amount) PROVE Fronted(work'[r])
      <4> DEFINE w == [todo |-> HeldSales, free |-> [s \in Charges |-> Available(s)],
                       left |-> amount, parts |-> Zero]
      <4>1. work'[r] = w
        BY <3>1 DEF LockRelease, ReserveInv
      <4>2. \A s \in Charges : w.parts[s] = 0
        BY DEF Zero
      <4>3. \A s \in Charges \ w.todo : w.free[s] = 0
        BY AvailableIsInt DEF HeldSales, ReserveInv, Entries
      <4> HIDE DEF w
      <4> QED
        BY <4>1, <4>2, <4>3 DEF Fronted
    <3> QED
      BY <1>3, <3>1, PartKeepsFront
  <2> QED
    BY <2>1, <2>2, <2>3 DEF OrderInv
<1> QED
  BY <1>1, <1>2, <1>3, CommitKeepsOrder

LEMMA OrderStep == ReserveInv /\ OrderInv /\ [ReserveNext]_reserveVars => OrderInv'
<1> SUFFICES ASSUME ReserveInv, OrderInv, [ReserveNext]_reserveVars PROVE OrderInv'
  OBVIOUS
<1>1. CASE SettingsNext \/ UNCHANGED reserveVars
  <2>1. UNCHANGED <<began, entries, work>>
    BY <1>1 DEF SettingsNext, BeginEnable, BeginRate, SaveSetting, reserveVars
  <2>2. \A s \in Charges : Available(s)' = Available(s)
    BY <2>1 DEF Available, entries
  <2> QED
    BY <2>1, <2>2, OrderKept DEF entries
<1> QED
  BY <1>1, SalesKeepOrder, ReleasesKeepOrder DEF ReserveNext

(* A release that commits has used up every sale whose hold is older than the *)
(* oldest entry of one it gave from.                                          *)
LEMMA CommitInOrder ==
  ASSUME ReserveInv, OrderInv, NEW r \in Releasers, CommitRelease(r),
         NEW s \in Charges, NEW t \in Charges, began[s] < first[t], released'[t] > released[t]
  PROVE  Available(s)' = 0
<1>1. /\ work[r] # NotRunning /\ UNCHANGED <<hold, reversal>>
      /\ released' = [u \in Charges |-> released[u] + work[r].parts[u]]
  BY DEF CommitRelease
<1>2. Covers(work[r]) /\ Fronted(work[r])
  BY <1>1 DEF ReserveInv, OrderInv
<1>3. \A u \in Charges : /\ work[r].parts[u] \in Int /\ 0 <= work[r].parts[u]
                        /\ work[r].parts[u] <= Available(u) /\ work[r].free[u] = Available(u)
  BY <1>2 DEF Covers, Plans
<1>4. /\ released[t] \in Int /\ released[s] \in Int /\ hold[s] \in Int /\ reversal[s] \in Int
      /\ began[s] \in Int /\ first[s] \in Int /\ first[t] \in Int
      /\ Available(s) \in Int /\ Available(s) >= 0
  BY AvailableIsInt DEF ReserveInv, Typed, Entries
<1>5. work[r].parts[t] > 0
  BY <1>1, <1>3, <1>4
<1>6. work[r].parts[s] = Available(s)
  <2>1. CASE Available(s) > 0
    <3>1. first[s] < first[t]
      BY <1>4, <2>1 DEF OrderInv, Dated
    <3> QED
      BY <1>2, <1>3, <1>5, <2>1, <3>1 DEF Fronted
  <2>2. CASE Available(s) = 0
    BY <1>3, <2>2
  <2> QED
    BY <1>4, <2>1, <2>2
<1> QED
  BY <1>1, <1>4, <1>6 DEF Available

(* Whatever sales and releases begin, wait for one another, fail, are held    *)
(* and refunded, no release gives from a sale while one that began before any *)
(* of its entries has money left.                                             *)
THEOREM OldestEntryIsFirst == ReserveSpec => OldestEntryFirst
<1>1. ReserveInit => OrderInv
  BY DEF ReserveInit, OrderInv, Dated, Available, Zero
<1>2. ReserveInv /\ OrderInv /\ [ReserveNext]_reserveVars =>
        [\A s, t \in Charges :
           released'[t] > released[t] /\ began[s] < first[t] => Available(s)' = 0]_reserveVars
  <2> SUFFICES ASSUME ReserveInv, OrderInv, ReserveNext, NEW s \in Charges, NEW t \in Charges,
                      began[s] < first[t], released'[t] > released[t]
               PROVE  Available(s)' = 0
    OBVIOUS
  <2>1. released[t] \in Int /\ released' # released
    BY DEF ReserveInv, Typed
  <2>2. PICK r \in Releasers : CommitRelease(r)
    BY <2>1 DEF ReserveNext, SettingsNext, BeginEnable, BeginRate, SaveSetting, SaleNext, BeginSale,
         HoldSale, SaleRollsBack, ReverseSale, ReleaseNext, BeginRelease, LockRelease, InsertPart,
         AbortRelease, entries
  <2> QED
    BY <2>2, CommitInOrder
<1> QED
  BY <1>1, <1>2, ReserveInvAlways, OrderStep, PTL DEF ReserveSpec, OldestEntryFirst

-----------------------------------------------------------------------------
(***************************************************************************)
(* Payouts.                                                                *)
(***************************************************************************)
PayoutSpec == PayoutInit /\ [][PayoutNext]_payoutVars

(* A list of any records. *)
IsList(s) == \E S : s \in Seq(S)

LEMMA EmptyIsList == IsList(<<>>) /\ Len(<<>>) = 0
<1>1. <<>> \in Seq({})
  OBVIOUS
<1> QED
  BY <1>1 DEF IsList

LEMMA ListIsSeq == ASSUME NEW s, IsList(s) PROVE Len(s) \in Nat
  BY DEF IsList

LEMMA AppendList ==
  ASSUME NEW s, IsList(s), NEW e
  PROVE  /\ IsList(Append(s, e)) /\ Len(Append(s, e)) = Len(s) + 1
         /\ \A i \in 1..Len(s) : Append(s, e)[i] = s[i]
         /\ Append(s, e)[Len(s) + 1] = e
<1>1. PICK S : s \in Seq(S)
  BY DEF IsList
<1>2. s \in Seq(S \cup {e}) /\ e \in S \cup {e}
  BY <1>1
<1> QED
  BY <1>2, AppendProperties DEF IsList

LEMMA ConcatList ==
  ASSUME NEW s, IsList(s), NEW u, IsList(u)
  PROVE  /\ IsList(s \o u) /\ Len(s \o u) = Len(s) + Len(u)
         /\ \A i \in 1..Len(s) + Len(u) : (s \o u)[i] = IF i <= Len(s) THEN s[i] ELSE u[i - Len(s)]
<1>1. PICK S, T : s \in Seq(S) /\ u \in Seq(T)
  BY DEF IsList
<1>2. s \in Seq(S \cup T) /\ u \in Seq(S \cup T)
  BY <1>1
<1> QED
  BY <1>2, ConcatProperties DEF IsList

-----------------------------------------------------------------------------
(* The ledger.  Of a sale's postings only the current one has a row, a row    *)
(* without payees has no stamp, and a stamp names the payout that settled it. *)
Settles(list, k, r, t) ==
  /\ k \in 1..Len(list) /\ list[k].payee = owner[r][t]
  /\ \A i \in 1..Len(list) : i > k /\ list[i].type = t => r \notin list[i].counted

LedgerInv ==
  /\ owner \in [Rows -> [Types -> Payees \cup {None}]]
  /\ stamp \in [Rows -> [Types -> Nat]]
  /\ gen \in [Sales -> Nat]
  /\ IsList(payouts)
  /\ \A r \in Rows : r.kind = "sale" /\ r.gen # gen[r.sale] => ~InLedger(r)
  /\ \A r \in Rows, t \in Types : ~InLedger(r) => stamp[r][t] = 0
  /\ \A r \in Rows, t \in Types : stamp[r][t] # 0 => Settles(payouts, stamp[r][t], r, t)

(* A row a run counted keeps its payee until it is posted again elsewhere.    *)
Gone(r) == r.kind = "sale" /\ r.gen < gen[r.sale]

(* What an open run has counted is unstamped, and what it has settled is of   *)
(* the payee of its own payout and in no sum that is still to come.           *)
Working(w) ==
  /\ w.type \in Types /\ w.todo \subseteq Payees
  /\ w.unpaid \in [Payees -> SUBSET Rows] /\ w.settled \in [Rows -> Nat] /\ IsList(w.done)
  /\ \A p \in Payees : \A r \in w.unpaid[p] :
       stamp[r][w.type] = 0 /\ (owner[r][w.type] = p \/ Gone(r))
  /\ \A i \in 1..Len(w.done) :
       /\ w.done[i].type = w.type /\ w.done[i].counted \subseteq Rows /\ ~w.done[i].salary
       /\ \A r \in w.done[i].counted : stamp[r][w.type] = 0
  /\ \A r \in Rows : w.settled[r] # 0 =>
       /\ InLedger(r) /\ Settles(w.done, w.settled[r], r, w.type)
       /\ \A p \in Payees : r \notin w.unpaid[p]

RunInv ==
  /\ run = [q \in Requests |-> run[q]]
  /\ \A q \in Requests : Open(q) => Working(run[q])
  /\ \A q, o \in Requests : Open(q) /\ Open(o) /\ run[q].type = run[o].type => q = o

PayoutInv == LedgerInv /\ RunInv

LEMMA PayoutInvStart == PayoutInit => PayoutInv
<1> SUFFICES ASSUME PayoutInit PROVE PayoutInv
  OBVIOUS
<1>1. owner = [r \in Rows |-> [t \in Types |-> None]] /\ stamp = [r \in Rows |-> [t \in Types |-> 0]]
  BY DEF PayoutInit, Nobody, Unpaid
<1>2. IsList(payouts)
  BY EmptyIsList DEF PayoutInit
<1>3. \A q \in Requests : ~Open(q)
  BY DEF PayoutInit, Open
<1>4. LedgerInv
  BY <1>1, <1>2 DEF PayoutInit, LedgerInv, InLedger, Nobody
<1> QED
  BY <1>3, <1>4 DEF PayoutInit, PayoutInv, RunInv, Idle

(* A row in the ledger has a creator and an agent. *)
LEMMA OwnedIsInLedger ==
  ASSUME LedgerInv, NEW r \in Rows, NEW t \in Types, owner[r][t] # None
  PROVE  InLedger(r)
  BY DEF LedgerInv, InLedger, Nobody

LEMMA NoneIsNoPayee == None \notin Payees
  BY PayoutsAssumption DEF Payees

-----------------------------------------------------------------------------
(* What posts rows that were not there and drops rows no run has settled.     *)
LEMMA LedgerStep ==
  ASSUME PayoutInv, UNCHANGED <<payouts, run>>, LedgerInv',
         \A s \in Sales : gen'[s] >= gen[s],
         \A r \in Rows : \A t \in Types : stamp[r][t] = 0 => stamp'[r][t] = 0,
         \A r \in Rows : \/ owner'[r] = owner[r]
                         \/ ~InLedger(r) /\ ~Gone(r)
                         \/ Gone(r)' /\ ~Locked(r)
  PROVE  PayoutInv'
<1>1. ASSUME NEW q \in Requests, Open(q) PROVE Working(run[q])'
  <2> DEFINE w == run[q]
  <2>1. Working(w) /\ w.type \in Types
    BY <1>1 DEF PayoutInv, RunInv, Working
  <2>2. ASSUME NEW p \in Payees, NEW r \in w.unpaid[p]
        PROVE  stamp'[r][w.type] = 0 /\ (owner'[r][w.type] = p \/ Gone(r)')
    <3>1. r \in Rows /\ stamp[r][w.type] = 0 /\ (owner[r][w.type] = p \/ Gone(r))
      BY <2>1, <2>2 DEF Working
    <3>2. Gone(r) => Gone(r)'
      BY <3>1 DEF Gone, Rows, PayoutInv, LedgerInv
    <3>3. owner[r][w.type] = p => InLedger(r)
      BY <2>1, <3>1, OwnedIsInLedger, NoneIsNoPayee DEF PayoutInv
    <3> QED
      BY <2>1, <3>1, <3>2, <3>3
  <2>3. ASSUME NEW r \in Rows, w.settled[r] # 0
        PROVE  /\ InLedger(r)' /\ Settles(w.done, w.settled[r], r, w.type)'
               /\ \A p \in Payees : r \notin w.unpaid[p]
    <3>1. /\ InLedger(r) /\ Settles(w.done, w.settled[r], r, w.type)
          /\ \A p \in Payees : r \notin w.unpaid[p]
      BY <2>1, <2>3 DEF Working
    <3>2. Locked(r)
      BY <1>1, <2>3 DEF Locked
    <3>3. owner'[r] = owner[r]
      BY <3>1, <3>2
    <3> QED
      BY <3>1, <3>3 DEF InLedger, Settles
  <2>4. \A i \in 1..Len(w.done) : \A r \in w.done[i].counted : stamp'[r][w.type] = 0
    BY <2>1 DEF Working
  <2> HIDE DEF w
  <2>5. Working(w)'
    <3>1. UNCHANGED w
      BY DEF w
    <3> QED
      BY <2>1, <2>2, <2>3, <2>4, <3>1 DEF Working
  <2> QED
    BY <2>5 DEF w
<1>2. RunInv'
  BY <1>1 DEF PayoutInv, RunInv, Open
<1> QED
  BY <1>2 DEF PayoutInv

LEMMA SaleRowIsCurrent ==
  ASSUME LedgerInv, NEW s \in Sales
  PROVE  /\ SaleRow(s).kind = "sale" /\ SaleRow(s).sale = s /\ SaleRow(s).gen = gen[s]
         /\ RefundRow(s).kind = "refund" /\ RefundRow(s).sale = s
         /\ ~Gone(SaleRow(s)) /\ ~Gone(RefundRow(s))
  BY DEF SaleRow, RefundRow, Gone, LedgerInv

(* A new row: its payees are set, its stamps are empty. *)
LEMMA PostStep ==
  ASSUME PayoutInv, UNCHANGED <<stamp, gen, payouts, run>>, NEW x, ~InLedger(x), ~Gone(x),
         x.kind # "sale" \/ x.gen = gen[x.sale],
         NEW to \in [Types -> Payees \cup {None}], to # Nobody, owner' = [owner EXCEPT ![x] = to]
  PROVE  PayoutInv'
<1>1. \A r \in Rows \ {x} : owner'[r] = owner[r]
  BY DEF PayoutInv, LedgerInv
<1>2. x \in Rows => \A t \in Types : stamp[x][t] = 0
  BY DEF PayoutInv, LedgerInv
<1>3. LedgerInv'
  <2>1. owner' \in [Rows -> [Types -> Payees \cup {None}]]
    BY DEF PayoutInv, LedgerInv
  <2>2. \A r \in Rows : r.kind = "sale" /\ r.gen # gen[r.sale] => ~InLedger(r)'
    BY <1>1 DEF PayoutInv, LedgerInv, InLedger
  <2>3. \A r \in Rows, t \in Types : ~InLedger(r)' => stamp[r][t] = 0
    BY <1>1, <1>2 DEF PayoutInv, LedgerInv, InLedger
  <2>4. \A r \in Rows, t \in Types : stamp[r][t] # 0 => Settles(payouts, stamp[r][t], r, t)'
    BY <1>1, <1>2 DEF PayoutInv, LedgerInv, Settles
  <2> QED
    BY <2>1, <2>2, <2>3, <2>4 DEF PayoutInv, LedgerInv
<1>4. \A s \in Sales : gen'[s] >= gen[s]
  BY DEF PayoutInv, LedgerInv
<1> QED
  BY <1>1, <1>3, <1>4, LedgerStep

LEMMA QuietStep == ASSUME PayoutInv, UNCHANGED <<owner, stamp, gen, payouts, run>> PROVE PayoutInv'
<1>1. LedgerInv'
  BY DEF PayoutInv, LedgerInv, InLedger, Nobody, Settles, IsList
<1>2. \A s \in Sales : gen'[s] >= gen[s]
  BY DEF PayoutInv, LedgerInv
<1> QED
  BY <1>1, <1>2, LedgerStep

LEMMA PostSaleStep ==
  ASSUME PayoutInv, NEW s \in Sales, NEW a \in Accounts, NEW g \in Agents, PostSale(s, a, g)
  PROVE  PayoutInv'
<1> DEFINE to == [t \in Types |-> IF t = "account" THEN a ELSE g]
<1>1. to \in [Types -> Payees \cup {None}] /\ to # Nobody
  <2>1. to["account"] = a /\ Nobody["account"] = None /\ a # None
    BY PayoutsAssumption DEF Types, Nobody
  <2> QED
    BY <2>1 DEF Payees
<1>2. owner' = [owner EXCEPT ![SaleRow(s)] = to] /\ ~InLedger(SaleRow(s)) /\ UNCHANGED <<stamp, gen, payouts, run>>
  BY DEF PostSale
<1>3. PICK x : x = SaleRow(s)
  OBVIOUS
<1>4. ~Gone(x) /\ ~InLedger(x) /\ x.gen = gen[x.sale]
  BY <1>2, <1>3, SaleRowIsCurrent DEF PayoutInv
<1> HIDE DEF to
<1> QED
  BY <1>1, <1>2, <1>3, <1>4, PostStep

LEMMA RefundStep == ASSUME PayoutInv, NEW s \in Sales, Refund(s) PROVE PayoutInv'
<1>1. /\ owner' = [owner EXCEPT ![RefundRow(s)] = owner[SaleRow(s)]] /\ ~InLedger(RefundRow(s))
      /\ owner[SaleRow(s)] # Nobody /\ UNCHANGED <<stamp, gen, payouts, run>>
  BY DEF Refund, InLedger
<1>2. PICK x : x = RefundRow(s)
  OBVIOUS
<1>3. ~Gone(x) /\ ~InLedger(x) /\ x.kind # "sale"
  BY <1>1, <1>2, SaleRowIsCurrent DEF PayoutInv
<1>4. CASE SaleRow(s) \in Rows
  <2>1. PICK to : to = owner[SaleRow(s)]
    OBVIOUS
  <2>2. to \in [Types -> Payees \cup {None}] /\ to # Nobody
    BY <1>1, <1>4, <2>1 DEF PayoutInv, LedgerInv
  <2> QED
    BY <1>1, <1>2, <1>3, <2>1, <2>2, PostStep
<1>5. CASE SaleRow(s) \notin Rows
  <2>1. RefundRow(s) \notin Rows
    BY <1>5 DEF Rows, Kinds, SaleRow, RefundRow
  <2>2. owner' = owner
    BY <1>1, <2>1 DEF PayoutInv, LedgerInv
  <2> QED
    BY <1>1, <2>2, QuietStep
<1> QED
  BY <1>4, <1>5

(* A move: the old row and its stamp go, the new one is unpaid. *)
LEMMA MoveStep ==
  ASSUME PayoutInv, NEW s \in Sales, NEW a \in Accounts, MovePayment(s, a)
  PROVE  PayoutInv'
<1>0. PICK old, new, to :
        /\ old = SaleRow(s) /\ new = [old EXCEPT !.gen = @ + 1]
        /\ to = [owner[old] EXCEPT !["account"] = a]
  OBVIOUS
<1>1. /\ gen' = [gen EXCEPT ![s] = @ + 1]
      /\ owner' = [owner EXCEPT ![old] = Nobody, ![new] = to]
      /\ stamp' = [stamp EXCEPT ![old] = Unpaid]
      /\ InLedger(old) /\ ~Locked(old) /\ UNCHANGED <<payouts, run>>
  BY <1>0 DEF MovePayment, Repost
<1>2. gen[s] \in Nat /\ gen'[s] = gen[s] + 1 /\ \A z \in Sales : gen'[z] >= gen[z] /\ (z # s => gen'[z] = gen[z])
  BY <1>1 DEF PayoutInv, LedgerInv
<1>3. /\ old.kind = "sale" /\ old.sale = s /\ old.gen = gen[s] /\ old = [sale |-> s, kind |-> "sale", gen |-> gen[s]]
      /\ new = [sale |-> s, kind |-> "sale", gen |-> gen[s] + 1]
      /\ new.kind = "sale" /\ new.sale = s /\ new.gen = gen[s] + 1
  BY <1>0 DEF SaleRow
<1>4. \A r \in Rows : r.kind = "sale" /\ r.sale = s /\ r.gen = gen[s] => r = old
  BY <1>3 DEF Rows
<1>5. \A r \in Rows : r.kind = "sale" /\ r.sale = s /\ r.gen = gen[s] + 1 => r = new
  BY <1>3 DEF Rows
<1>6. old \in Rows => to \in [Types -> Payees \cup {None}]
  BY <1>0 DEF PayoutInv, LedgerInv, Payees, Types
<1>7. new \in Rows => old \in Rows
  BY <1>2, <1>3, PayoutsAssumption DEF Rows, Kinds
<1>8. new # old
  BY <1>2, <1>3
<1>9. Nobody \in [Types -> Payees \cup {None}] /\ Unpaid \in [Types -> Nat] /\ \A t \in Types : Unpaid[t] = 0
  BY DEF Nobody, Unpaid
<1>10. /\ owner' \in [Rows -> [Types -> Payees \cup {None}]] /\ stamp' \in [Rows -> [Types -> Nat]]
       /\ \A r \in Rows \ {old, new} : owner'[r] = owner[r]
       /\ \A r \in Rows \ {old} : stamp'[r] = stamp[r]
       /\ old \in Rows => owner'[old] = Nobody /\ stamp'[old] = Unpaid
  BY <1>1, <1>6, <1>7, <1>8, <1>9 DEF PayoutInv, LedgerInv
<1>11. new \in Rows => ~InLedger(new) /\ ~Gone(new) /\ \A t \in Types : stamp[new][t] = 0
  BY <1>2, <1>3 DEF PayoutInv, LedgerInv, Gone
<1>12. LedgerInv'
  <2>1. \A r \in Rows : r.kind = "sale" /\ r.gen # gen'[r.sale] => ~InLedger(r)'
    <3> SUFFICES ASSUME NEW r \in Rows, r.kind = "sale", r.gen # gen'[r.sale] PROVE ~InLedger(r)'
      OBVIOUS
    <3>1. CASE r = old
      BY <1>10, <3>1 DEF InLedger, Nobody
    <3>2. CASE r # old
      <4>1. r # new /\ r.sale \in Sales
        BY <1>2, <1>3 DEF Rows
      <4>2. r.gen # gen[r.sale]
        BY <1>2, <1>4, <3>2, <4>1
      <4> QED
        BY <1>10, <3>2, <4>1, <4>2 DEF PayoutInv, LedgerInv, InLedger, Nobody
    <3> QED
      BY <3>1, <3>2
  <2>2. \A r \in Rows, t \in Types : ~InLedger(r)' => stamp'[r][t] = 0
    <3> SUFFICES ASSUME NEW r \in Rows, NEW t \in Types, owner'[r] = Nobody
                 PROVE  stamp'[r][t] = 0
      BY DEF InLedger, Nobody
    <3>1. CASE r \in {old, new}
      BY <1>8, <1>9, <1>10, <1>11, <3>1
    <3>2. CASE r \notin {old, new}
      BY <1>10, <3>2 DEF PayoutInv, LedgerInv, InLedger
    <3> QED
      BY <3>1, <3>2
  <2>3. \A r \in Rows, t \in Types : stamp'[r][t] # 0 => Settles(payouts, stamp[r][t], r, t)'
    <3> SUFFICES ASSUME NEW r \in Rows, NEW t \in Types, stamp'[r][t] # 0
                 PROVE  Settles(payouts, stamp[r][t], r, t)'
      OBVIOUS
    <3>1. r # old /\ r # new
      BY <1>9, <1>10, <1>11
    <3>2. stamp'[r] = stamp[r] /\ owner'[r] = owner[r] /\ stamp[r][t] # 0
      BY <1>10, <3>1
    <3>3. Settles(payouts, stamp[r][t], r, t)
      BY <3>2 DEF PayoutInv, LedgerInv
    <3> QED
      BY <1>1, <3>2, <3>3 DEF Settles
  <2>4. gen' \in [Sales -> Nat]
    BY <1>1 DEF PayoutInv, LedgerInv
  <2> QED
    BY <1>1, <1>10, <2>1, <2>2, <2>3, <2>4 DEF PayoutInv, LedgerInv
<1>13. old \in Rows => Gone(old)'
  BY <1>2, <1>3 DEF Gone
<1> QED
  BY <1>1, <1>2, <1>9, <1>10, <1>11, <1>12, <1>13, LedgerStep

-----------------------------------------------------------------------------
(* One step of a run that stamps nothing yet.                                 *)
LEMMA WorkStep ==
  ASSUME PayoutInv, NEW q \in Requests, NEW w, Working(w),
         run' = [run EXCEPT ![q] = w], UNCHANGED <<owner, stamp, gen, payouts>>,
         \A o \in Requests : Open(o) /\ run[o].type = w.type => o = q
  PROVE  PayoutInv'
<1>1. LedgerInv'
  BY DEF PayoutInv, LedgerInv, InLedger, Nobody, Settles, IsList
<1>2. \A v : Working(v) => Working(v)'
  BY DEF Working, Settles, InLedger, Nobody, Gone
<1>3. \A o \in Requests : run'[o] = IF o = q THEN w ELSE run[o]
  BY DEF PayoutInv, RunInv
<1>4. RunInv'
  BY <1>2, <1>3 DEF PayoutInv, RunInv, Open, Idle
<1> QED
  BY <1>1, <1>4 DEF PayoutInv

LEMMA UnpaidRows ==
  ASSUME LedgerInv, NEW p \in Payees, NEW t \in Types, NEW from, NEW to, NEW r \in UnpaidOf(p, t, from, to)
  PROVE  r \in Rows /\ InLedger(r) /\ owner[r][t] = p /\ stamp[r][t] = 0 /\ ~Gone(r)
<1>1. r \in Rows /\ InLedger(r) /\ owner[r][t] = p /\ stamp[r][t] = 0
  BY DEF UnpaidOf
<1>2. r.kind = "sale" => r.gen = gen[r.sale]
  BY <1>1 DEF LedgerInv
<1>3. r.gen \in Int
  BY <1>1, PayoutsAssumption DEF Rows
<1> QED
  BY <1>1, <1>2, <1>3 DEF Gone

LEMMA BeginStep ==
  ASSUME PayoutInv, NEW q \in Requests, NEW t \in RunTypes, NEW target \in SUBSET Payees,
         NEW from, NEW to, BeginRun(q, t, target, from, to)
  PROVE  PayoutInv'
<1>0. t \in Types
  BY PayoutsAssumption DEF Types
<1> DEFINE unpaid == [p \in Payees |-> IF p \in target THEN UnpaidOf(p, t, from, to) ELSE {}]
           owed == {p \in target : Sum(unpaid[p], t) > 0}
           w == [open |-> TRUE, type |-> t, from |-> from, to |-> to, target |-> target,
                 unpaid |-> [p \in Payees |-> IF p \in owed THEN unpaid[p] ELSE {}],
                 todo |-> owed, done |-> <<>>, settled |-> [r \in Rows |-> 0]]
<1>1. run' = [run EXCEPT ![q] = w] /\ UNCHANGED <<owner, stamp, gen, payouts>> /\ LockFree(t)
  BY DEF BeginRun
<1>2. \A p \in Payees : w.unpaid[p] \subseteq UnpaidOf(p, t, from, to)
  OBVIOUS
<1>3. /\ w.type = t /\ w.todo \subseteq Payees /\ w.done = <<>> /\ w.settled \in [Rows -> Nat]
      /\ DOMAIN w.unpaid = Payees /\ \A r \in Rows : w.settled[r] = 0
      /\ w.unpaid = [p \in Payees |-> w.unpaid[p]]
  OBVIOUS
<1> HIDE DEF w
<1>4. \A p \in Payees : \A r \in w.unpaid[p] : r \in Rows /\ owner[r][t] = p /\ stamp[r][t] = 0
  BY <1>0, <1>2, UnpaidRows DEF PayoutInv
<1>5. w.unpaid \in [Payees -> SUBSET Rows]
  BY <1>3, <1>4
<1>6. Working(w)
  BY <1>0, <1>3, <1>4, <1>5, EmptyIsList DEF Working
<1>7. \A o \in Requests : Open(o) /\ run[o].type = w.type => o = q
  BY <1>1, <1>3 DEF LockFree
<1> QED
  BY <1>1, <1>6, <1>7, WorkStep

(* A payee's payout: its rows are settled by it, and by no sum still to come. *)
LEMMA PayStep ==
  ASSUME PayoutInv, NEW q \in Requests, NEW p \in Payees, PayOne(q, p)
  PROVE  PayoutInv'
<1>1. Open(q) /\ p \in run[q].todo /\ Working(run[q]) /\ UNCHANGED <<owner, stamp, gen, payouts>>
  BY DEF PayOne, PayoutInv, RunInv
<1> DEFINE slip == [type |-> run[q].type, payee |-> p, from |-> Min(Days(run[q].unpaid[p])),
                    to |-> Max(Days(run[q].unpaid[p])), salary |-> FALSE, counted |-> run[q].unpaid[p]]
           n == Len(run[q].done) + 1
           new == [open |-> TRUE, type |-> run[q].type, from |-> run[q].from, to |-> run[q].to,
                   target |-> run[q].target, unpaid |-> [run[q].unpaid EXCEPT ![p] = {}],
                   todo |-> run[q].todo \ {p}, done |-> Append(run[q].done, slip),
                   settled |-> [r \in Rows |-> IF r \in Settled(q, p) THEN n ELSE run[q].settled[r]]]
<1>2. run' = [run EXCEPT ![q] = new]
  BY DEF PayOne
<1> HIDE DEF new
<1>3. PICK w, v, s, mine : w = run[q] /\ v = new /\ s = slip /\ mine = Settled(q, p)
  OBVIOUS
<1>4. s.type = w.type /\ s.payee = p /\ s.counted = w.unpaid[p] /\ ~s.salary
  BY <1>3
<1> HIDE DEF slip
<1>5. /\ v.type = w.type /\ v.todo = w.todo \ {p} /\ v.done = Append(w.done, s)
      /\ v.unpaid = [w.unpaid EXCEPT ![p] = {}] /\ v # Idle
      /\ v.settled = [r \in Rows |-> IF r \in mine THEN Len(w.done) + 1 ELSE w.settled[r]]
  BY <1>3 DEF new, Idle
<1>6. \A r \in mine : r \in Rows /\ InLedger(r) /\ owner[r][w.type] = p /\ stamp[r][w.type] = 0 /\ ~Gone(r)
  <2>1. LedgerInv /\ w.type \in Types
    BY <1>1, <1>3 DEF PayoutInv, Working
  <2> QED
    BY <1>3, <2>1, UnpaidRows DEF Settled
<1>7. /\ Working(w) /\ p \in w.todo
      /\ v.unpaid \in [Payees -> SUBSET Rows] /\ v.unpaid[p] = {}
      /\ \A o \in Payees \ {p} : v.unpaid[o] = w.unpaid[o]
  BY <1>1, <1>3, <1>5 DEF Working
<1>8. /\ IsList(v.done) /\ Len(w.done) \in Nat /\ Len(v.done) = Len(w.done) + 1
      /\ v.done[Len(w.done) + 1] = s /\ \A i \in 1..Len(w.done) : v.done[i] = w.done[i]
  BY <1>5, <1>7, AppendList, ListIsSeq DEF Working
<1>9. \A o \in Payees : \A r \in v.unpaid[o] :
        stamp[r][w.type] = 0 /\ (owner[r][w.type] = o \/ Gone(r)) /\ r \in w.unpaid[o] /\ o # p
  BY <1>7 DEF Working
<1>10. ASSUME NEW i \in 1..Len(v.done)
       PROVE  /\ v.done[i].type = w.type /\ v.done[i].counted \subseteq Rows /\ ~v.done[i].salary
              /\ \A r \in v.done[i].counted : stamp[r][w.type] = 0
  <2>1. CASE i \in 1..Len(w.done)
    BY <1>7, <1>8, <2>1 DEF Working
  <2>2. CASE i = Len(w.done) + 1
    BY <1>4, <1>7, <1>8, <2>2 DEF Working
  <2> QED
    BY <1>8, <2>1, <2>2
<1>11. ASSUME NEW r \in Rows, v.settled[r] # 0
       PROVE  /\ InLedger(r) /\ Settles(v.done, v.settled[r], r, w.type)
              /\ \A o \in Payees : r \notin v.unpaid[o]
  <2>1. CASE r \in mine
    <3>1. v.settled[r] = Len(w.done) + 1
      BY <1>5, <2>1
    <3>2. Settles(v.done, v.settled[r], r, w.type)
      BY <1>4, <1>6, <1>8, <2>1, <3>1 DEF Settles
    <3>3. \A o \in Payees : r \notin v.unpaid[o]
      BY <1>6, <1>9, <2>1
    <3> QED
      BY <1>6, <2>1, <3>2, <3>3
  <2>2. CASE r \notin mine
    <3>1. v.settled[r] = w.settled[r]
      BY <1>5, <2>2
    <3>2. InLedger(r) /\ Settles(w.done, w.settled[r], r, w.type) /\ \A o \in Payees : r \notin w.unpaid[o]
      BY <1>7, <1>11, <3>1 DEF Working
    <3>3. r \notin s.counted
      BY <1>4, <3>2
    <3>4. PICK k \in 1..Len(w.done) : k = w.settled[r] /\ w.done[k].payee = owner[r][w.type]
      BY <3>2 DEF Settles
    <3>5. \A i \in 1..Len(w.done) : i > k /\ w.done[i].type = w.type => r \notin w.done[i].counted
      BY <3>2, <3>4 DEF Settles
    <3>6. ASSUME NEW i \in 1..Len(v.done), i > k, v.done[i].type = w.type PROVE r \notin v.done[i].counted
      <4>1. CASE i \in 1..Len(w.done)
        BY <1>8, <3>5, <3>6, <4>1
      <4>2. CASE i = Len(w.done) + 1
        BY <1>8, <3>3, <4>2
      <4> QED
        BY <1>8, <4>1, <4>2
    <3>7. k \in 1..Len(v.done) /\ v.done[k].payee = owner[r][w.type]
      BY <1>8, <3>4
    <3>8. Settles(v.done, v.settled[r], r, w.type)
      BY <3>1, <3>4, <3>6, <3>7 DEF Settles
    <3> QED
      BY <1>9, <3>2, <3>8
  <2> QED
    BY <2>1, <2>2
<1>12. v.settled \in [Rows -> Nat]
  BY <1>5, <1>7, <1>8 DEF Working
<1>13. Working(v)
  <2>1. v.todo \subseteq Payees /\ v.type \in Types
    BY <1>5, <1>7 DEF Working
  <2> QED
    BY <1>5, <1>7, <1>8, <1>9, <1>10, <1>11, <1>12, <2>1 DEF Working
<1>14. \A o \in Requests : Open(o) /\ run[o].type = v.type => o = q
  BY <1>1, <1>3, <1>5 DEF PayoutInv, RunInv
<1> QED
  BY <1>1, <1>2, <1>3, <1>13, <1>14, WorkStep

-----------------------------------------------------------------------------
(* The end of a run. *)
Joined(a, b, c, all) ==
  /\ IsList(all) /\ Len(all) = Len(a) + Len(b) + Len(c)
  /\ Len(a) \in Nat /\ Len(b) \in Nat /\ Len(c) \in Nat
  /\ \A i \in 1..Len(a) : all[i] = a[i]
  /\ \A i \in 1..Len(b) : all[Len(a) + i] = b[i]
  /\ \A i \in 1..Len(c) : all[Len(a) + Len(b) + i] = c[i]

LEMMA ConcatThree ==
  ASSUME NEW a, NEW b, NEW c, IsList(a), IsList(b), IsList(c), NEW all, all = a \o b \o c
  PROVE  Joined(a, b, c, all)
<1>1. PICK ab : ab = a \o b
  OBVIOUS
<1>2. /\ IsList(ab) /\ Len(ab) = Len(a) + Len(b)
      /\ \A i \in 1..Len(a) + Len(b) : ab[i] = IF i <= Len(a) THEN a[i] ELSE b[i - Len(a)]
  BY <1>1, ConcatList
<1>3. all = ab \o c
  BY <1>1
<1>4. /\ IsList(all) /\ Len(all) = Len(ab) + Len(c)
      /\ \A i \in 1..Len(ab) + Len(c) : all[i] = IF i <= Len(ab) THEN ab[i] ELSE c[i - Len(ab)]
  BY <1>2, <1>3, ConcatList
<1>5. Len(a) \in Nat /\ Len(b) \in Nat /\ Len(c) \in Nat
  BY ListIsSeq
<1> QED
  BY <1>2, <1>4, <1>5 DEF Joined

(* The salaries of a run: its due creators, each once. *)
LEMMA DueOnce ==
  ASSUME NEW T, IsFiniteSet(T), NEW d \in [1..Cardinality(T) -> T], {d[i] : i \in DOMAIN d} = T
  PROVE  /\ Cardinality(T) \in Nat
         /\ \A i, j \in 1..Cardinality(T) : d[i] = d[j] => i = j
<1>1. Cardinality(T) \in Nat
  BY FS_CardinalityType
<1>2. PICK n \in Nat : n = Cardinality(T)
  BY <1>1
<1>3. IsFiniteSet(1..n) /\ Cardinality(1..n) = n
  <2>1. 1 \in Int /\ n \in Int
    OBVIOUS
  <2>2. IsFiniteSet(1..n) /\ Cardinality(1..n) = IF 1 > n THEN 0 ELSE n - 1 + 1
    BY <2>1, FS_Interval, Zenon
  <2> QED
    BY <2>2
<1>4. d \in Surjection(1..n, T)
  <2>1. d \in [1..n -> T] /\ DOMAIN d = 1..n
    BY <1>2
  <2>2. ASSUME NEW t \in T PROVE \E i \in 1..n : d[i] = t
    <3>1. t \in {d[i] : i \in 1..n}
      BY <2>1
    <3> QED
      BY <3>1
  <2> QED
    BY <2>1, <2>2 DEF Surjection
<1>5. d \in Injection(1..n, T)
  BY <1>2, <1>3, <1>4, FS_Surjection
<1> QED
  BY <1>1, <1>2, <1>5 DEF Injection, IsInjective

LEMMA FinishStep ==
  ASSUME PayoutInv, salaried \subseteq WithSalary, NEW q \in Requests, FinishRun(q)
  PROVE  /\ PayoutInv'
         /\ Len(payouts) \in Nat /\ Len(payouts)' \in Nat
         /\ \A i \in 1..Len(payouts) : payouts'[i] = payouts[i]
         /\ \A i \in 1..Len(payouts)' : i > Len(payouts) /\ payouts'[i].salary =>
              /\ payouts'[i].payee \in SalariesDue(q)
              /\ payouts'[i].from = run[q].from /\ payouts'[i].to = run[q].to
              /\ \A j \in 1..Len(payouts)' :
                   j > Len(payouts) /\ payouts'[j].salary /\ payouts'[j].payee = payouts'[i].payee => i = j
<1>1. Open(q) /\ Working(run[q]) /\ UNCHANGED <<owner, gen>>
  BY DEF FinishRun, PayoutInv, RunInv
<1>2. IsFiniteSet(SalariesDue(q))
  <2>1. SalariesDue(q) \in SUBSET WithSalary
    BY DEF SalariesDue
  <2> QED
    BY <2>1, FS_Subset, PayoutsAssumption
<1>3. PICK due \in [1..Cardinality(SalariesDue(q)) -> SalariesDue(q)] :
        /\ {due[i] : i \in DOMAIN due} = SalariesDue(q)
        /\ payouts' = payouts \o run[q].done \o [i \in DOMAIN due |-> SalaryPayout(due[i], q)]
  BY DEF FinishRun
<1>4. PICK w, paid, all, sal, T :
        /\ w = run[q] /\ paid = payouts /\ all = payouts'
        /\ sal = [i \in DOMAIN due |-> SalaryPayout(due[i], q)] /\ T = SalariesDue(q)
  OBVIOUS
<1>5. Cardinality(T) \in Nat /\ \A i, j \in 1..Cardinality(T) : due[i] = due[j] => i = j
  <2>1. IsFiniteSet(T) /\ due \in [1..Cardinality(T) -> T] /\ {due[i] : i \in DOMAIN due} = T
    BY <1>2, <1>3, <1>4
  <2> QED
    BY <2>1, DueOnce
<1>6. PICK n \in Nat : n = Cardinality(T)
  BY <1>5
<1>7. /\ DOMAIN sal = 1..n
      /\ \A i \in 1..n : /\ sal[i].type = "account" /\ sal[i].payee = due[i] /\ due[i] \in T
                         /\ sal[i].from = w.from /\ sal[i].to = w.to /\ sal[i].counted = {}
  BY <1>3, <1>4, <1>6 DEF SalaryPayout
<1>8. IsList(sal) /\ Len(sal) = n
  <2>1. sal = [i \in 1..n |-> sal[i]]
    BY <1>4, <1>7
  <2>2. sal \in [1..n -> {sal[i] : i \in 1..n}]
    BY <2>1
  <2>3. \A S : sal \in [1..n -> S] => sal \in Seq(S) /\ Len(sal) = n
    OBVIOUS
  <2> QED
    BY <2>2, <2>3 DEF IsList
<1>9. /\ IsList(all) /\ Len(all) = Len(paid) + Len(w.done) + n
      /\ Len(paid) \in Nat /\ Len(w.done) \in Nat
      /\ \A i \in 1..Len(paid) : all[i] = paid[i]
      /\ \A i \in 1..Len(w.done) : all[Len(paid) + i] = w.done[i]
      /\ \A i \in 1..n : all[Len(paid) + Len(w.done) + i] = sal[i]
  <2>1. IsList(paid) /\ IsList(w.done) /\ all = paid \o w.done \o sal
    BY <1>1, <1>3, <1>4 DEF PayoutInv, LedgerInv, Working
  <2>2. PICK done : done = w.done
    OBVIOUS
  <2>3. IsList(paid) /\ IsList(done) /\ IsList(sal) /\ all = paid \o done \o sal
    BY <1>8, <2>1, <2>2
  <2>4. Joined(paid, done, sal, all)
    BY <2>3, ConcatThree
  <2> QED
    BY <1>8, <2>2, <2>4 DEF Joined
<1>10. ASSUME NEW i \in 1..Len(all), i > Len(paid)
       PROVE  \/ \E k \in 1..Len(w.done) : i = Len(paid) + k /\ all[i] = w.done[k]
              \/ \E k \in 1..n : i = Len(paid) + Len(w.done) + k /\ all[i] = sal[k]
  <2>1. CASE i <= Len(paid) + Len(w.done)
    <3>1. i - Len(paid) \in 1..Len(w.done) /\ i = Len(paid) + (i - Len(paid))
      BY <1>9, <1>10, <2>1
    <3> QED
      BY <1>9, <3>1
  <2>2. CASE ~(i <= Len(paid) + Len(w.done))
    <3>1. i - Len(paid) - Len(w.done) \in 1..n /\ i = Len(paid) + Len(w.done) + (i - Len(paid) - Len(w.done))
      BY <1>9, <2>2
    <3> QED
      BY <1>9, <3>1
  <2> QED
    BY <2>1, <2>2
<1>11. \A r \in Rows : \A t \in Types :
         stamp'[r][t] = IF w.settled[r] # 0 /\ t = w.type THEN Len(paid) + w.settled[r] ELSE stamp[r][t]
  <2>1. stamp' = [r \in Rows |-> IF w.settled[r] = 0 THEN stamp[r]
                    ELSE [stamp[r] EXCEPT ![w.type] = Len(paid) + w.settled[r]]]
    BY <1>4 DEF FinishRun, PayoutId
  <2>2. \A r \in Rows : stamp[r] \in [Types -> Nat]
    BY DEF PayoutInv, LedgerInv
  <2> QED
    BY <2>1, <2>2
<1>12. Working(w) /\ w.settled \in [Rows -> Nat] /\ w.type \in Types
  BY <1>1, <1>4 DEF Working
<1>13. ASSUME NEW r \in Rows, NEW t \in Types, stamp'[r][t] # 0
       PROVE  Settles(all, stamp'[r][t], r, t)
  <2>1. CASE w.settled[r] # 0 /\ t = w.type
    <3>1. PICK k \in Nat : k = w.settled[r]
      BY <1>12
    <3>2. Settles(w.done, k, r, t) /\ k \in 1..Len(w.done)
      BY <1>12, <2>1, <3>1 DEF Working, Settles
    <3>3. stamp'[r][t] = Len(paid) + k /\ Len(paid) + k \in 1..Len(all)
      <4>1. stamp'[r][t] = Len(paid) + k
        BY <1>11, <2>1, <3>1
      <4>2. Len(paid) + k \in 1..Len(all)
        BY <1>9, <3>2
      <4> QED
        BY <4>1, <4>2
    <3>4. all[Len(paid) + k].payee = owner[r][t]
      BY <1>9, <3>2 DEF Settles
    <3>5. ASSUME NEW i \in 1..Len(all), i > Len(paid) + k PROVE r \notin all[i].counted
      <4>1. i > Len(paid)
        BY <1>9, <3>5
      <4>2. CASE \E m \in 1..Len(w.done) : i = Len(paid) + m /\ all[i] = w.done[m]
        <5>1. PICK m \in 1..Len(w.done) : i = Len(paid) + m /\ all[i] = w.done[m]
          BY <4>2
        <5>2. m > k /\ w.done[m].type = t
          BY <1>9, <1>12, <2>1, <3>5, <5>1 DEF Working
        <5> QED
          BY <3>2, <5>1, <5>2 DEF Settles
      <4>3. CASE \E m \in 1..n : all[i] = sal[m]
        BY <1>7, <4>3
      <4> QED
        BY <1>10, <4>1, <4>2, <4>3
    <3> QED
      BY <3>3, <3>4, <3>5 DEF Settles
  <2>2. CASE ~(w.settled[r] # 0 /\ t = w.type)
    <3>1. stamp'[r][t] = stamp[r][t] /\ Settles(paid, stamp[r][t], r, t)
      BY <1>4, <1>11, <1>13, <2>2 DEF PayoutInv, LedgerInv
    <3>2. PICK k \in Nat : k = stamp[r][t] /\ k \in 1..Len(paid)
      BY <3>1 DEF PayoutInv, LedgerInv, Settles
    <3>3. k \in 1..Len(all) /\ all[k].payee = owner[r][t]
      BY <1>9, <3>1, <3>2 DEF Settles
    <3>4. ASSUME NEW i \in 1..Len(all), i > k, all[i].type = t PROVE r \notin all[i].counted
      <4>1. CASE i <= Len(paid)
        <5>1. i \in 1..Len(paid)
          BY <1>9, <4>1
        <5> QED
          BY <1>9, <3>1, <3>2, <3>4, <5>1 DEF Settles
      <4>2. CASE \E m \in 1..Len(w.done) : i = Len(paid) + m /\ all[i] = w.done[m]
        <5>1. PICK m \in 1..Len(w.done) : all[i] = w.done[m]
          BY <4>2
        <5>2. t = w.type /\ \A z \in w.done[m].counted : stamp[z][w.type] = 0
          BY <1>12, <3>4, <5>1 DEF Working
        <5> QED
          BY <1>13, <3>1, <5>1, <5>2
      <4>3. CASE \E m \in 1..n : all[i] = sal[m]
        BY <1>7, <4>3
      <4>4. i <= Len(paid) \/ i > Len(paid)
        BY <1>9
      <4> QED
        BY <1>10, <4>1, <4>2, <4>3, <4>4
    <3> QED
      BY <3>1, <3>2, <3>3, <3>4 DEF Settles
  <2> QED
    BY <2>1, <2>2
<1>14. LedgerInv'
  <2>1. \A r \in Rows, t \in Types : ~InLedger(r) => stamp'[r][t] = 0
    BY <1>11, <1>12 DEF Working, PayoutInv, LedgerInv
  <2>2. stamp' \in [Rows -> [Types -> Nat]]
    <3>1. stamp' = [r \in Rows |-> IF w.settled[r] = 0 THEN stamp[r]
                    ELSE [stamp[r] EXCEPT ![w.type] = Len(paid) + w.settled[r]]]
      BY <1>4 DEF FinishRun, PayoutId
    <3>2. \A r \in Rows : stamp[r] \in [Types -> Nat] /\ Len(paid) + w.settled[r] \in Nat
      BY <1>9, <1>12 DEF PayoutInv, LedgerInv
    <3> QED
      BY <3>1, <3>2
  <2>3. \A r \in Rows, t \in Types : stamp'[r][t] # 0 => Settles(payouts, stamp[r][t], r, t)'
    BY <1>1, <1>4, <1>13 DEF Settles
  <2>4. IsList(payouts)' /\ \A r \in Rows : InLedger(r)' <=> InLedger(r)
    BY <1>1, <1>4, <1>9 DEF InLedger, Nobody
  <2> QED
    BY <1>1, <2>1, <2>2, <2>3, <2>4 DEF PayoutInv, LedgerInv
<1>15. \A o \in Requests : run'[o] = IF o = q THEN Idle ELSE run[o]
  BY DEF FinishRun, PayoutInv, RunInv
<1>16. ASSUME NEW o \in Requests, Open(o), o # q PROVE Working(run[o])'
  <2>1. Working(run[o]) /\ run[o].type # w.type /\ run'[o] = run[o]
    BY <1>1, <1>4, <1>15, <1>16 DEF PayoutInv, RunInv
  <2>2. \A r \in Rows : stamp'[r][run[o].type] = stamp[r][run[o].type]
    BY <1>11, <2>1 DEF Working
  <2>3. PICK v : v = run[o] /\ v = run'[o]
    BY <2>1
  <2>4. Working(v) /\ \A r \in Rows : stamp'[r][v.type] = stamp[r][v.type]
    BY <2>1, <2>2, <2>3
  <2>5. Working(v)'
    <3>1. \A r \in Rows : (InLedger(r)' <=> InLedger(r)) /\ (Gone(r)' <=> Gone(r))
      BY <1>1 DEF InLedger, Nobody, Gone
    <3>2. \A r \in Rows : Settles(v.done, v.settled[r], r, v.type)' <=> Settles(v.done, v.settled[r], r, v.type)
      BY <1>1 DEF Settles
    <3>3. \A p \in Payees : \A r \in v.unpaid[p] :
            stamp'[r][v.type] = 0 /\ (owner'[r][v.type] = p \/ Gone(r)')
      BY <1>1, <2>4, <3>1 DEF Working
    <3>4. \A i \in 1..Len(v.done) : \A r \in v.done[i].counted : stamp'[r][v.type] = 0
      BY <2>4 DEF Working
    <3> QED
      BY <2>4, <3>1, <3>2, <3>3, <3>4 DEF Working
  <2> QED
    BY <2>3, <2>5
<1>17. RunInv'
  <2>1. run' = [o \in Requests |-> run'[o]]
    BY DEF FinishRun, PayoutInv, RunInv
  <2> QED
    BY <1>15, <1>16, <2>1 DEF PayoutInv, RunInv, Open, Idle
<1>18. ASSUME NEW i \in 1..Len(all), i > Len(paid), all[i].salary
       PROVE  \E k \in 1..n : i = Len(paid) + Len(w.done) + k /\ all[i] = sal[k]
  BY <1>10, <1>12, <1>18 DEF Working
<1>19. ASSUME NEW i \in 1..Len(all), i > Len(paid), all[i].salary
       PROVE  /\ all[i].payee \in T /\ all[i].from = w.from /\ all[i].to = w.to
              /\ \A j \in 1..Len(all) :
                   j > Len(paid) /\ all[j].salary /\ all[j].payee = all[i].payee => i = j
  <2>1. PICK k \in 1..n : i = Len(paid) + Len(w.done) + k /\ all[i] = sal[k]
    BY <1>18, <1>19
  <2>2. ASSUME NEW j \in 1..Len(all), j > Len(paid), all[j].salary, all[j].payee = all[i].payee
        PROVE  i = j
    <3>1. PICK m \in 1..n : j = Len(paid) + Len(w.done) + m /\ all[j] = sal[m]
      BY <1>18, <2>2
    <3>2. due[m] = due[k]
      BY <1>7, <2>1, <2>2, <3>1
    <3> QED
      BY <1>5, <1>6, <2>1, <3>1, <3>2
  <2> QED
    BY <1>7, <2>1, <2>2
<1> QED
  BY <1>4, <1>9, <1>14, <1>17, <1>19 DEF PayoutInv

LEMMA BackStep == ASSUME PayoutInv, NEW q \in Requests, RunRollsBack(q) PROVE PayoutInv'
<1>1. run' = [run EXCEPT ![q] = Idle] /\ UNCHANGED <<owner, stamp, gen, payouts>>
  BY DEF RunRollsBack
<1>2. LedgerInv'
  BY <1>1 DEF PayoutInv, LedgerInv, InLedger, Nobody, Settles, IsList
<1>3. \A v : Working(v) => Working(v)'
  BY <1>1 DEF Working, Settles, InLedger, Nobody, Gone
<1>4. \A o \in Requests : run'[o] = IF o = q THEN Idle ELSE run[o]
  BY <1>1 DEF PayoutInv, RunInv
<1>5. RunInv'
  BY <1>1, <1>3, <1>4 DEF PayoutInv, RunInv, Open, Idle
<1> QED
  BY <1>2, <1>5 DEF PayoutInv

-----------------------------------------------------------------------------
LEMMA MovePaysNobody ==
  ASSUME NEW s \in Sales, NEW a \in Accounts, MovePayment(s, a)
  PROVE  UNCHANGED <<salaried, payouts>>
  BY DEF MovePayment

(* Only the end of a run records payouts, and only the pay model changes who  *)
(* is salaried.                                                               *)
LEMMA OnlyFinishPays ==
  ASSUME [PayoutNext]_payoutVars
  PROVE  (\E q \in Requests : FinishRun(q)) \/ UNCHANGED payouts
<1>1. LedgerNext => UNCHANGED payouts
  BY MovePaysNobody DEF LedgerNext, PostSale, Refund, ArchivePayment, SetPayModel
<1>2. \A q, t, target, from, to : BeginRun(q, t, target, from, to) => UNCHANGED payouts
  BY DEF BeginRun
<1>3. \A q \in Requests : \A p \in Payees : PayOne(q, p) => UNCHANGED payouts
  BY DEF PayOne
<1>4. \A q \in Requests : RunRollsBack(q) => UNCHANGED payouts
  BY DEF RunRollsBack
<1> QED
  BY <1>1, <1>2, <1>3, <1>4 DEF PayoutNext, RunNext, payoutVars

LEMMA SalariedStep ==
  ASSUME salaried \subseteq WithSalary, [PayoutNext]_payoutVars PROVE salaried' \subseteq WithSalary
<1>1. LedgerNext => salaried' \subseteq WithSalary
  BY MovePaysNobody DEF LedgerNext, PostSale, Refund, ArchivePayment, SetPayModel
<1>2. \A q, t, target, from, to : BeginRun(q, t, target, from, to) => UNCHANGED salaried
  BY DEF BeginRun
<1>3. \A q \in Requests : \A p \in Payees : PayOne(q, p) => UNCHANGED salaried
  BY DEF PayOne
<1>4. \A q \in Requests : RunRollsBack(q) \/ FinishRun(q) => UNCHANGED salaried
  BY DEF RunRollsBack, FinishRun
<1> QED
  BY <1>1, <1>2, <1>3, <1>4 DEF PayoutNext, RunNext, payoutVars

LEMMA PayoutInvStep ==
  ASSUME PayoutInv, salaried \subseteq WithSalary, [PayoutNext]_payoutVars PROVE PayoutInv'
<1>1. CASE LedgerNext
  <2>1. ASSUME NEW s \in Sales, ArchivePayment(s) PROVE PayoutInv'
    BY <2>1, QuietStep DEF ArchivePayment
  <2>2. ASSUME NEW a \in WithSalary, SetPayModel(a) PROVE PayoutInv'
    BY <2>2, QuietStep DEF SetPayModel
  <2> QED
    BY <1>1, <2>1, <2>2, PostSaleStep, RefundStep, MoveStep DEF LedgerNext
<1>2. CASE RunNext
  <2>1. ASSUME NEW q \in Requests, NEW t \in RunTypes, NEW d \in Ranges,
               NEW target \in {PayeesOf(t)} \cup {{p} : p \in PayeesOf(t)}, BeginRun(q, t, target, d[1], d[2])
        PROVE  PayoutInv'
    <3>1. target \in SUBSET Payees
      BY DEF PayeesOf, Payees
    <3> QED
      BY <2>1, <3>1, BeginStep
  <2> QED
    BY <1>2, <2>1, PayStep, FinishStep, BackStep DEF RunNext
<1>3. CASE UNCHANGED payoutVars
  BY <1>3, QuietStep DEF payoutVars
<1> QED
  BY <1>1, <1>2, <1>3 DEF PayoutNext

LEMMA PayoutInvAlways == PayoutSpec => [](PayoutInv /\ salaried \subseteq WithSalary)
<1>1. PayoutInit => PayoutInv /\ salaried \subseteq WithSalary
  BY PayoutInvStart DEF PayoutInit
<1>2. PayoutInv /\ salaried \subseteq WithSalary /\ [PayoutNext]_payoutVars =>
        (PayoutInv /\ salaried \subseteq WithSalary)'
  BY PayoutInvStep, SalariedStep
<1> QED
  BY <1>1, <1>2, PTL DEF PayoutSpec

(* However many runs, moves, refunds and archivings overlap, a settled row    *)
(* belongs to the payee of its payout, and no later payout counts it again.   *)
THEOREM PaidOnceHolds == PayoutSpec => []PaidOnceToItsOwner
<1>1. PayoutInv => PaidOnceToItsOwner
  BY DEF PayoutInv, LedgerInv, Settles, PaidOnceToItsOwner
<1> QED
  BY <1>1, PayoutInvAlways, PTL

(* No creator receives two salaries for the same days, whatever else of the   *)
(* creator's is paid in between and however many runs are open.               *)
THEOREM SalaryOnceHolds == PayoutSpec => []SalaryOncePerPeriod
<1>1. PayoutInit => SalaryOncePerPeriod
  BY EmptyIsList DEF PayoutInit, SalaryOncePerPeriod
<1>2. PayoutInv /\ salaried \subseteq WithSalary /\ SalaryOncePerPeriod /\ [PayoutNext]_payoutVars
        => SalaryOncePerPeriod'
  <2> SUFFICES ASSUME PayoutInv, salaried \subseteq WithSalary, SalaryOncePerPeriod,
                      [PayoutNext]_payoutVars
               PROVE  SalaryOncePerPeriod'
    OBVIOUS
  <2>1. CASE UNCHANGED payouts
    BY <2>1 DEF SalaryOncePerPeriod, Overlaps
  <2>2. ASSUME NEW q \in Requests, FinishRun(q) PROVE SalaryOncePerPeriod'
    <3> SUFFICES ASSUME NEW i \in 1..Len(payouts)', NEW j \in 1..Len(payouts)', i < j,
                        payouts'[i].salary, payouts'[j].salary, payouts'[i].payee = payouts'[j].payee
                 PROVE  ~Overlaps(payouts'[i], payouts'[j].from, payouts'[j].to)
      BY DEF SalaryOncePerPeriod, Overlaps
    <3>1. /\ Len(payouts) \in Nat /\ Len(payouts)' \in Nat
          /\ \A k \in 1..Len(payouts) : payouts'[k] = payouts[k]
      BY <2>2, FinishStep
    <3>2. CASE j <= Len(payouts)
      <4>1. i \in 1..Len(payouts) /\ j \in 1..Len(payouts)
        BY <3>1, <3>2
      <4> QED
        BY <3>1, <4>1 DEF SalaryOncePerPeriod, Overlaps
    <3>3. CASE j > Len(payouts)
      <4>1. /\ payouts'[j].payee \in SalariesDue(q)
            /\ payouts'[j].from = run[q].from /\ payouts'[j].to = run[q].to
            /\ i > Len(payouts) => i = j
        BY <2>2, <3>3, FinishStep
      <4>2. i \in 1..Len(payouts)
        BY <3>1, <4>1
      <4>3. ~Covered(payouts'[j].payee, q)
        BY <4>1 DEF SalariesDue
      <4> QED
        BY <3>1, <4>1, <4>2, <4>3 DEF Covered
    <3> QED
      BY <3>1, <3>2, <3>3
  <2> QED
    BY <2>1, <2>2, OnlyFinishPays
<1> QED
  BY <1>1, <1>2, PayoutInvAlways, PTL DEF PayoutSpec

-----------------------------------------------------------------------------
(* Each part of Disbursements behaves as if it were alone, so what is proved  *)
(* of a part holds in the composition.                                        *)
THEOREM PartsStandAlone == Spec => PayoutSpec /\ ReserveSpec
<1>1. Init => PayoutInit /\ ReserveInit
  BY DEF Init
<1>2. [Next]_vars => [PayoutNext]_payoutVars
  BY DEF Next, vars
<1>3. [Next]_vars => [ReserveNext]_reserveVars
  BY DEF Next, vars
<1> QED
  BY <1>1, <1>2, <1>3, PTL DEF Spec, PayoutSpec, ReserveSpec
=============================================================================
