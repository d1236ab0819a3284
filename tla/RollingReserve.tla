--------------------------- MODULE RollingReserve ---------------------------
(***************************************************************************)
(* The agency-managed rolling reserve: the holds fn_hold_rolling_reserve    *)
(* takes on new sales, the reversals fn_reverse_rolling_reserve books on a  *)
(* refund or chargeback, the releases an owner makes from the console       *)
(* (routes/payments.routes.js) and the settings the holds read              *)
(* (routes/workspace.routes.js).  One workspace, one currency, amounts in   *)
(* cents.                                                                   *)
(*                                                                          *)
(* Holds, reversals and releases each lock the workspace row before they    *)
(* read a balance.  A release reads every balance in one statement and      *)
(* writes its entries in later ones, so it holds the lock over several      *)
(* steps here; the other two are one statement after their lock.  Entries   *)
(* are dated by now(), the BEGIN of their transaction: a sale may wait for  *)
(* the lock after it, and so may a release.                                 *)
(***************************************************************************)
EXTENDS Integers, FiniteSets

CONSTANTS
  Charges,     \* approved transactions of type 'payment'
  Gross,       \* their gross, in cents
  Rates,       \* the percentages an agency may set
  Releasers,   \* release requests
  Requested,   \* amounts they ask for, in cents; one above every balance asks for all
  NotRunning,  \* a request that is not running
  MaxEdits,    \* bound: settings requests between their read and their write
  MaxBegins    \* bound: transactions begun

ASSUME ReserveAssumption ==
  /\ Gross \in [Charges -> Nat \ {0}]
  /\ Rates \subseteq 0..100 /\ 0 \in Rates
  /\ Requested \subseteq Nat \ {0}
  /\ NotRunning \notin [todo: SUBSET Charges, free: [Charges -> Int], left: Nat, parts: [Charges -> Nat]]
  /\ MaxEdits \in Nat /\ MaxBegins \in Nat

VARIABLES
  enabled,   \* workspaces.rolling_reserve_enabled
  pct,       \* workspaces.rolling_reserve_pct
  edits,     \* settings requests that passed their check and have not written
  clock,     \* dates given out so far, one for each BEGIN
  began,     \* now() in the transaction that posts the sale, its hold's created_at
  first,     \* min(created_at) of the sale's entries, 0 when it has none
  since,     \* now() in a release request's transaction, 0 when it is idle
  sale,      \* "none", "posting", "posted" or "reversed"
  hold,      \* amount of the 'hold' entry, 0 when there is none
  released,  \* sum of the 'release' entries of the sale
  reversal,  \* amount of the 'reversal' entry, 0 when there is none
  work       \* what a release request with the lock has read and inserted, else NotRunning

settings == <<enabled, pct, edits>>
entries == <<hold, released, reversal, first>>
reserveVars == <<settings, clock, began, since, sale, entries, work>>

Zero == [s \in Charges |-> 0]
Amounts == [Charges -> Nat]

\* todo: sales whose balance is not looked at yet; free: the balances as they were
\* read; left: what remains of the amount; parts: 'release' entries inserted so far.
Releases == [todo: SUBSET Charges, free: [Charges -> Int], left: Nat, parts: Amounts]

ReserveTypeOK ==
  /\ enabled \in BOOLEAN /\ pct \in Rates
  /\ edits \subseteq ([field: {"enabled"}, to: BOOLEAN] \cup [field: {"pct"}, to: Rates])
  /\ clock \in 0..MaxBegins
  /\ began \in [Charges -> 0..clock] /\ first \in [Charges -> 0..clock]
  /\ since \in [Releasers -> 0..clock]
  /\ sale \in [Charges -> {"none", "posting", "posted", "reversed"}]
  /\ hold \in Amounts /\ released \in Amounts /\ reversal \in Amounts
  /\ work \in [Releasers -> Releases \cup {NotRunning}]

ReserveInit ==
  /\ enabled \in BOOLEAN /\ pct \in Rates \ {0} /\ edits = {}
  /\ clock = 0 /\ began = Zero /\ first = Zero /\ since = [r \in Releasers |-> 0]
  /\ sale = [s \in Charges |-> "none"]
  /\ hold = Zero /\ released = Zero /\ reversal = Zero
  /\ work = [r \in Releasers |-> NotRunning]

-----------------------------------------------------------------------------
\* Mutant: nobody locks the workspace row.
RowFreeAlways == TRUE

\* SELECT ... FROM workspaces ... FOR UPDATE returns at once.
RowFree == \A r \in Releasers : work[r] = NotRunning

\* BEGIN: the date of all the transaction writes.
Begins == clock < MaxBegins /\ clock' = clock + 1

(* PATCH /workspaces/:id: the check reads the other setting without a lock.  *)

BeginEnable(b) ==
  /\ Cardinality(edits) < MaxEdits
  /\ ~(b /\ pct = 0)
  /\ edits' = edits \cup {[field |-> "enabled", to |-> b]}
  /\ UNCHANGED <<enabled, pct, clock, began, since, sale, entries, work>>

BeginRate(p) ==
  /\ Cardinality(edits) < MaxEdits
  /\ ~(enabled /\ p = 0)
  /\ edits' = edits \cup {[field |-> "pct", to |-> p]}
  /\ UNCHANGED <<enabled, pct, clock, began, since, sale, entries, work>>

SaveSetting(e) ==
  /\ e \in edits /\ RowFree
  /\ edits' = edits \ {e}
  /\ enabled' = IF e.field = "enabled" THEN e.to ELSE enabled
  /\ pct' = IF e.field = "pct" THEN e.to ELSE pct
  /\ UNCHANGED <<clock, began, since, sale, entries, work>>

-----------------------------------------------------------------------------
(* Holds: fn_hold_rolling_reserve, in the transaction that posts the sale.   *)

\* round(gross * reserve_pct / 100, 2)
HoldAmount(s) == (Gross[s] * pct + 50) \div 100

BeginSale(s) ==
  /\ sale[s] = "none"
  /\ sale' = [sale EXCEPT ![s] = "posting"]
  /\ Begins /\ began' = [began EXCEPT ![s] = clock']
  /\ UNCHANGED <<settings, since, entries, work>>

\* The early return: the reserve is off, or its rate is not positive.
Reserving == enabled /\ pct > 0

\* A hold that rounds to nothing violates CHECK (amount > 0): the sale rolls back.
HoldSale(s) ==
  /\ sale[s] = "posting" /\ RowFree
  /\ Reserving => HoldAmount(s) > 0
  /\ sale' = [sale EXCEPT ![s] = "posted"]
  /\ hold' = [hold EXCEPT ![s] = IF Reserving THEN HoldAmount(s) ELSE 0]
  /\ first' = [first EXCEPT ![s] = IF Reserving THEN began[s] ELSE 0]
  /\ UNCHANGED <<settings, clock, began, since, released, reversal, work>>

\* The provider reports the approval again: a new transaction, a later now().
SaleRollsBack(s) ==
  /\ sale[s] = "posting"
  /\ sale' = [sale EXCEPT ![s] = "none"]
  /\ began' = [began EXCEPT ![s] = 0]
  /\ UNCHANGED <<settings, clock, since, entries, work>>

-----------------------------------------------------------------------------
(* Reversals and releases. *)

\* SUM(CASE WHEN entry_type = 'hold' THEN amount ELSE -amount END)
Available(s) == hold[s] - released[s] - reversal[s]

\* fn_reverse_rolling_reserve: only the still-held part. Its entry's date plays
\* no part: nothing is left to release.
StillHeld(s) == IF Available(s) > 0 THEN Available(s) ELSE 0

ReverseSale(s) ==
  /\ sale[s] = "posted"
  /\ hold[s] > 0 => RowFree
  /\ sale' = [sale EXCEPT ![s] = "reversed"]
  /\ reversal' = [reversal EXCEPT ![s] = StillHeld(s)]
  /\ UNCHANGED <<settings, clock, began, since, hold, released, first, work>>

\* The sales with a balance left.
HeldSales == {s \in Charges : Available(s) > 0}

\* Mutant: the newest is released first.
NewestOf(s, sales) == \A t \in sales : first[t] <= first[s]

\* ORDER BY min(created_at), over the sale's hold and its releases alike
OldestOf(s, sales) == \A t \in sales : first[s] <= first[t]

\* POST /rolling-reserve/release: BEGIN.
BeginRelease(r) ==
  /\ since[r] = 0
  /\ Begins /\ since' = [since EXCEPT ![r] = clock']
  /\ UNCHANGED <<settings, began, sale, entries, work>>

\* It locks the row and reads the balances; an empty reserve is a 409. No amount
\* in the request asks for everything.
LockRelease(r, amount) ==
  /\ since[r] # 0 /\ work[r] = NotRunning /\ RowFree
  /\ HeldSales # {}
  /\ work' = [work EXCEPT ![r] =
                [todo |-> HeldSales, free |-> [s \in Charges |-> Available(s)],
                 left |-> amount, parts |-> Zero]]
  /\ UNCHANGED <<settings, clock, began, since, sale, entries>>

Lower(a, b) == IF a < b THEN a ELSE b

\* One turn of the loop over the balances: INSERT ... 'release' of the part this
\* sale can give.
InsertPart(r) ==
  /\ work[r] # NotRunning /\ work[r].left > 0
  /\ \E s \in work[r].todo :
       LET w == work[r]
           part == Lower(w.left, w.free[s])
       IN  /\ OldestOf(s, w.todo)
           /\ work' = [work EXCEPT ![r] =
                [todo |-> w.todo \ {s}, free |-> w.free, left |-> w.left - part,
                 parts |-> [w.parts EXCEPT ![s] = part]]]
  /\ UNCHANGED <<settings, clock, began, since, sale, entries>>

\* The request is over: the row is free, the next one begins anew.
Finish(r) ==
  /\ work' = [work EXCEPT ![r] = NotRunning]
  /\ since' = [since EXCEPT ![r] = 0]

\* The loop is over: the amount is spent, or every balance is.  COMMIT.
CommitRelease(r) ==
  /\ work[r] # NotRunning /\ (work[r].todo = {} \/ work[r].left = 0)
  /\ released' = [s \in Charges |-> released[s] + work[r].parts[s]]
  /\ first' = [s \in Charges |-> IF work[r].parts[s] > 0 THEN Lower(first[s], since[r]) ELSE first[s]]
  /\ Finish(r)
  /\ UNCHANGED <<settings, clock, began, sale, hold, reversal>>

\* The request finds nothing held, fails, or the process stops: nothing is written.
AbortRelease(r) ==
  /\ since[r] # 0
  /\ Finish(r)
  /\ UNCHANGED <<settings, clock, began, sale, entries>>

-----------------------------------------------------------------------------
SettingsNext ==
  \/ \E b \in BOOLEAN : BeginEnable(b)
  \/ \E p \in Rates : BeginRate(p)
  \/ \E e \in edits : SaveSetting(e)

SaleNext == \E s \in Charges : BeginSale(s) \/ HoldSale(s) \/ SaleRollsBack(s) \/ ReverseSale(s)

ReleaseNext ==
  \E r \in Releasers :
    \/ BeginRelease(r)
    \/ \E amount \in Requested : LockRelease(r, amount)
    \/ InsertPart(r) \/ CommitRelease(r) \/ AbortRelease(r)

ReserveNext == SettingsNext \/ SaleNext \/ ReleaseNext

-----------------------------------------------------------------------------
(* A hold is given back once: whatever releases, refunds and new sales run at *)
(* the same time, what was released and reversed of a sale never exceeds what *)
(* was held for it (payments.routes.js:364-365, migration 044:63-84).        *)
NeverOverdrawn == \A s \in Charges : released[s] + reversal[s] <= hold[s]

(* A refund leaves nothing held: once the sale is reversed, what had not been *)
(* released by then is reversed and no release adds to it afterwards.         *)
ReversedHoldsNothing == \A s \in Charges : sale[s] = "reversed" => Available(s) = 0

(* A release gives from the sale whose entries reach back furthest: money of  *)
(* one is released only when every sale that began before is used up, unless  *)
(* part of it was released before by a request that began before that sale    *)
(* did, for then its entries are the older ones (payments.routes.js:384-391). *)
OldestEntryFirst ==
  [][\A s, t \in Charges :
       released'[t] > released[t] /\ began[s] < first[t] => Available(s)' = 0]_reserveVars

(* Companion counterexample. payments.routes.js:363-365: the lock serializes  *)
(* releases and new holds before the oldest holds are allocated, so money of  *)
(* a sale is released only when every hold dated before its own is used up.   *)
OldestFirst ==
  [][\A s, t \in Charges :
       released'[t] > released[t] /\ began[s] < began[t] => Available(s)' = 0]_reserveVars

=============================================================================
