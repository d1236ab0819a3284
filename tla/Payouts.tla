------------------------------ MODULE Payouts ------------------------------
(***************************************************************************)
(* Payout runs (routes/payouts.routes.js) over the revenue entries of one   *)
(* workspace and currency, while sales, refunds, moves and the archive      *)
(* change what they read.                                                   *)
(*                                                                          *)
(* A run is one transaction of several statements under an advisory lock    *)
(* per payee type.  Statements read what is committed when they start, so   *)
(* the sum, each payee's INSERT and UPDATE, and the salaries are steps of   *)
(* their own; nothing of a run is visible before its last step commits.     *)
(* Rows a run has updated are locked until then.                            *)
(***************************************************************************)
EXTENDS Integers, FiniteSets, Sequences, FiniteSetsExt

CONSTANTS
  Sales,       \* transactions with a sale entry to post
  Accounts,    \* creators
  WithSalary,  \* those of them whose pay model may change
  Agents,      \* agents; each sale has one
  None,        \* no payee yet
  Requests,    \* POST /payouts/run requests
  RunTypes,    \* the payee types they run for
  DayOf,       \* transactions.occurred_at, in days
  LastDay,     \* days are 1..LastDay
  Ranges,      \* the from and to of the requests
  MaxPayouts,  \* bound: payouts recorded
  MaxArchived, \* bound: payments archived at the same time
  MaxMoves     \* bound: how often sales are posted again

ASSUME PayoutsAssumption ==
  /\ DayOf \in [Sales -> 1..LastDay]
  /\ Ranges \subseteq (1..LastDay) \X (1..LastDay)
  /\ RunTypes \subseteq {"account", "agent"}
  /\ WithSalary \subseteq Accounts /\ IsFiniteSet(WithSalary)
  /\ Accounts \cap Agents = {} /\ None \notin Accounts \cup Agents
  /\ MaxPayouts \in Nat /\ MaxArchived \in Nat /\ MaxMoves \in Nat

Types == {"account", "agent"}
Payees == Accounts \cup Agents
PayeesOf(t) == IF t = "account" THEN Accounts ELSE Agents

\* Entries of revenue_entries: a sale may be posted again, as a new row.
Kinds == {"sale", "refund"}
Rows == [sale: Sales, kind: Kinds, gen: 0..MaxMoves]

VARIABLES
  owner,     \* row -> account_id and agent_id, None before the row exists
  share,     \* sale -> account_amount, fixed when the sale is posted
  stamp,     \* row -> account_payout_id and agent_payout_id, 0 for NULL
  gen,       \* sale -> which posting of it is in the ledger
  archived,  \* sales whose payment has archived_at set
  salaried,  \* accounts with pay_model 'salary' (no account here is archived)
  payouts,   \* rows of payouts, in the order they were committed
  run        \* request -> the run it has open, Idle for none

payoutVars == <<owner, share, stamp, gen, archived, salaried, payouts, run>>

Idle == [open |-> FALSE]

Payout ==
  [type: Types, payee: Payees, from: 1..LastDay, to: 1..LastDay, salary: BOOLEAN,
   counted: SUBSET Rows]

\* unpaid: payee -> the rows its sum was made of; done: payouts inserted so far;
\* settled: row -> the index in done of the payout it was stamped with, 0 for none.
Run ==
  [open: {TRUE}, type: Types, from: 1..LastDay, to: 1..LastDay,
   target: SUBSET Payees, unpaid: [Payees -> SUBSET Rows], todo: SUBSET Payees,
   done: Seq(Payout), settled: [Rows -> Nat]]

Nobody == [t \in Types |-> None]
Unpaid == [t \in Types |-> 0]
InLedger(r) == owner[r] # Nobody

PayoutTypeOK ==
  /\ owner \in [Rows -> [Types -> Payees \cup {None}]]
  /\ share \in [Sales -> {0, 2}]
  /\ stamp \in [Rows -> [Types -> 0..MaxPayouts]]
  /\ \A r \in Rows : \A t \in Types : stamp[r][t] # 0 => InLedger(r) /\ stamp[r][t] <= Len(payouts)
  /\ gen \in [Sales -> 0..MaxMoves]
  /\ archived \subseteq Sales /\ salaried \subseteq WithSalary
  /\ payouts \in Seq(Payout) /\ Len(payouts) <= MaxPayouts
  /\ run \in [Requests -> {Idle} \cup Run]

PayoutInit ==
  /\ owner = [r \in Rows |-> Nobody]
  /\ share = [s \in Sales |-> 0]
  /\ stamp = [r \in Rows |-> Unpaid]
  /\ gen = [s \in Sales |-> 0]
  /\ archived = {} /\ salaried \in SUBSET WithSalary
  /\ payouts = <<>>
  /\ run = [q \in Requests |-> Idle]

-----------------------------------------------------------------------------
(* What changes under a run: sales, refunds, moves, the archive, pay models. *)

SaleRow(s) == [sale |-> s, kind |-> "sale", gen |-> gen[s]]
RefundRow(s) == [sale |-> s, kind |-> "refund", gen |-> gen[s]]

Open(q) == run[q] # Idle

\* Rows an open run has updated: DELETE and UPDATE of others wait for it.
Locked(r) == \E q \in Requests : Open(q) /\ run[q].settled[r] # 0

\* fn_post_sale: a salaried creator takes no share of a sale.
Share(a) == IF a \in salaried THEN 0 ELSE 2

PostSale(s, a, g) ==
  /\ ~InLedger(SaleRow(s))
  /\ owner' = [owner EXCEPT ![SaleRow(s)] = [t \in Types |-> IF t = "account" THEN a ELSE g]]
  /\ share' = [share EXCEPT ![s] = Share(a)]
  /\ UNCHANGED <<stamp, gen, archived, salaried, payouts, run>>

\* fn_post_reversal mirrors the sale's payees; its entry is unpaid.
Refund(s) ==
  /\ InLedger(SaleRow(s)) /\ ~InLedger(RefundRow(s))
  /\ s \notin archived /\ ~Locked(SaleRow(s))
  /\ owner' = [owner EXCEPT ![RefundRow(s)] = owner[SaleRow(s)]]
  /\ UNCHANGED <<share, stamp, gen, archived, salaried, payouts, run>>

\* Mutant: the sale entry is updated in place.
MoveInPlace(s, a) ==
  /\ owner' = [owner EXCEPT ![SaleRow(s)] = [@ EXCEPT !["account"] = a]]
  /\ share' = [share EXCEPT ![s] = Share(a)]
  /\ UNCHANGED <<stamp, gen>>

\* repostSales: the old row and its payout are deleted, the new row is unpaid.
Repost(s, a) ==
  LET old == SaleRow(s)
      new == [old EXCEPT !.gen = @ + 1]
  IN /\ gen' = [gen EXCEPT ![s] = @ + 1]
     /\ owner' = [owner EXCEPT ![old] = Nobody, ![new] = [owner[old] EXCEPT !["account"] = a]]
     /\ share' = [share EXCEPT ![s] = Share(a)]
     /\ stamp' = [stamp EXCEPT ![old] = Unpaid]

\* PATCH /payments/:id/attribution; a refunded or archived payment is refused.
MovePayment(s, a) ==
  /\ InLedger(SaleRow(s)) /\ ~InLedger(RefundRow(s)) /\ s \notin archived
  /\ MapThenSumSet(LAMBDA x : gen[x], Sales) < MaxMoves /\ ~Locked(SaleRow(s))
  /\ Repost(s, a)
  /\ UNCHANGED <<archived, salaried, payouts, run>>

\* POST /payments/:id/archive and reactivate touch no ledger row.
ArchivePayment(s) ==
  /\ InLedger(SaleRow(s))
  /\ s \notin archived => Cardinality(archived) < MaxArchived
  /\ archived' = IF s \in archived THEN archived \ {s} ELSE archived \cup {s}
  /\ UNCHANGED <<owner, share, stamp, gen, salaried, payouts, run>>

\* PATCH /accounts/:id { payModel, salaryAmount, status }
SetPayModel(a) ==
  /\ salaried' = IF a \in salaried THEN salaried \ {a} ELSE salaried \cup {a}
  /\ UNCHANGED <<owner, share, stamp, gen, archived, payouts, run>>

-----------------------------------------------------------------------------
(* POST /payouts/run *)

\* account_amount and agent_amount: a reversal takes the share back, and the
\* creator pays its fee.
Amount(r, t) ==
  CASE r.kind = "sale" -> IF t = "account" THEN share[r.sale] ELSE 1
    [] r.kind = "refund" -> IF t = "account" THEN -share[r.sale] - 1 ELSE -1

Sum(rows, t) == FoldSet(LAMBDA r, acc : acc + Amount(r, t), 0, rows)

\* Mutant: the run does not take the advisory lock.
LockFreeAlways(t) == TRUE

\* pg_advisory_xact_lock('payout:<workspace>:<type>')
LockFree(t) == \A q \in Requests : Open(q) => run[q].type # t

\* WHERE of both statements: unpaid rows of the payee in the range, payment kept.
UnpaidOf(p, t, from, to) ==
  {r \in Rows : /\ InLedger(r) /\ owner[r][t] = p /\ stamp[r][t] = 0
                /\ r.sale \notin archived
                /\ DayOf[r.sale] \in from..to}

\* The first statement: a sum per payee, HAVING SUM(...) > 0.  A run that finds
\* nothing to pay and no salary changes nothing, and is left out.
BeginRun(q, t, target, from, to) ==
  /\ ~Open(q) /\ LockFree(t)
  /\ LET unpaid == [p \in Payees |-> IF p \in target THEN UnpaidOf(p, t, from, to) ELSE {}]
         owed == {p \in target : Sum(unpaid[p], t) > 0}
     IN  /\ owed # {} \/ (t = "account" /\ salaried \cap target # {})
         /\ run' = [run EXCEPT ![q] =
                   [open |-> TRUE, type |-> t, from |-> from, to |-> to, target |-> target,
                    unpaid |-> [p \in Payees |-> IF p \in owed THEN unpaid[p] ELSE {}],
                    todo |-> owed, done |-> <<>>, settled |-> [r \in Rows |-> 0]]]
  /\ UNCHANGED <<owner, share, stamp, gen, archived, salaried, payouts>>

Days(rows) == {DayOf[r.sale] : r \in rows}

\* INSERT INTO payouts of the sum read before, then UPDATE of what is unpaid now.
\* (A row another open run of the same type has stamped would be waited for; the
\* lock excludes one.)
Settled(q, p) ==
  UnpaidOf(p, run[q].type, run[q].from, run[q].to)

PayOne(q, p) ==
  /\ Open(q) /\ p \in run[q].todo
  /\ Settled(q, p) # {}
  /\ Len(payouts) + Len(run[q].done) < MaxPayouts
  /\ LET w == run[q]
         rows == w.unpaid[p]
         n == Len(w.done) + 1
         slip == [type |-> w.type, payee |-> p, from |-> Min(Days(rows)), to |-> Max(Days(rows)),
                  salary |-> FALSE, counted |-> rows]
     IN  run' = [run EXCEPT ![q] =
           [open |-> TRUE, type |-> w.type, from |-> w.from, to |-> w.to, target |-> w.target,
            unpaid |-> [w.unpaid EXCEPT ![p] = {}], todo |-> w.todo \ {p},
            done |-> Append(w.done, slip),
            settled |-> [r \in Rows |-> IF r \in Settled(q, p) THEN n ELSE w.settled[r]]]]
  /\ UNCHANGED <<owner, share, stamp, gen, archived, salaried, payouts>>

\* "payout settled no entries", or the process stops: ROLLBACK.
RunRollsBack(q) ==
  /\ Open(q)
  /\ run' = [run EXCEPT ![q] = Idle]
  /\ UNCHANGED <<owner, share, stamp, gen, archived, salaried, payouts>>

Overlaps(p, from, to) == p.from <= to /\ p.to >= from

\* Mutant: a payout that ends on the day the range starts does not cover it.
CoveredInside(a, q) ==
  \E p \in {payouts[i] : i \in 1..Len(payouts)} \cup {run[q].done[i] : i \in 1..Len(run[q].done)} :
    p.payee = a /\ p.from < run[q].to /\ p.to > run[q].from

\* NOT EXISTS (... payouts ...): any payout of the account over these days, the
\* run's own included, covers the salary.
Covered(a, q) ==
  \E p \in {payouts[i] : i \in 1..Len(payouts)} \cup {run[q].done[i] : i \in 1..Len(run[q].done)} :
    p.payee = a /\ Overlaps(p, run[q].from, run[q].to)

\* Salaries the run still owes; the entry SELECT and the INSERTs see one snapshot.
SalariesDue(q) ==
  IF run[q].type = "account"
  THEN {a \in salaried \cap run[q].target : ~Covered(a, q)}
  ELSE {}

SalaryPayout(a, q) ==
  [type |-> "account", payee |-> a, from |-> run[q].from, to |-> run[q].to,
   salary |-> TRUE, counted |-> {}]

\* The payout RETURNING id gave the UPDATE that stamped this row.
PayoutId(q, r) == Len(payouts) + run[q].settled[r]

\* The salaries, then COMMIT.
FinishRun(q) ==
  /\ Open(q) /\ run[q].todo = {}
  /\ Len(payouts) + Len(run[q].done) + Cardinality(SalariesDue(q)) <= MaxPayouts
  /\ \E due \in {d \in [1..Cardinality(SalariesDue(q)) -> SalariesDue(q)] :
                   {d[i] : i \in DOMAIN d} = SalariesDue(q)} :
       payouts' = payouts \o run[q].done \o [i \in DOMAIN due |-> SalaryPayout(due[i], q)]
  /\ stamp' = [r \in Rows |-> IF run[q].settled[r] = 0 THEN stamp[r]
                 ELSE [stamp[r] EXCEPT ![run[q].type] = PayoutId(q, r)]]
  /\ run' = [run EXCEPT ![q] = Idle]
  /\ UNCHANGED <<owner, share, gen, archived, salaried>>

-----------------------------------------------------------------------------
LedgerNext ==
  \/ \E s \in Sales, a \in Accounts, g \in Agents : PostSale(s, a, g)
  \/ \E s \in Sales : Refund(s) \/ ArchivePayment(s)
  \/ \E s \in Sales, a \in Accounts : MovePayment(s, a)
  \/ \E a \in WithSalary : SetPayModel(a)

RunNext ==
  \E q \in Requests :
    \/ \E t \in RunTypes, d \in Ranges :
         \E target \in {PayeesOf(t)} \cup {{p} : p \in PayeesOf(t)} : BeginRun(q, t, target, d[1], d[2])
    \/ \E p \in Payees : PayOne(q, p)
    \/ FinishRun(q) \/ RunRollsBack(q)

PayoutNext == LedgerNext \/ RunNext

-----------------------------------------------------------------------------
(* A settled entry is settled for good and to the right payee: a payout that  *)
(* stamped a row belongs to the row's creator or agent, and no later payout   *)
(* of the same type counts the row again ("a double click cannot pay twice",  *)
(* payouts.routes.js:224-227).                                                *)
PaidOnceToItsOwner ==
  \A r \in Rows, t \in Types : stamp[r][t] # 0 =>
    /\ payouts[stamp[r][t]].payee = owner[r][t]
    /\ \A i \in 1..Len(payouts) :
         i > stamp[r][t] /\ payouts[i].type = t => r \notin payouts[i].counted

(* A salary is paid once for a day: two salary payouts of a creator never     *)
(* overlap, whoever runs them and whatever the creator was paid by in between *)
(* (payouts.routes.js:247-250).                                               *)
SalaryOncePerPeriod ==
  \A i, j \in 1..Len(payouts) :
    i < j /\ payouts[i].salary /\ payouts[j].salary /\ payouts[i].payee = payouts[j].payee =>
      ~Overlaps(payouts[i], payouts[j].from, payouts[j].to)

(* A payout records the balance it settles (payouts.routes.js:224): its rows  *)
(* are those its sum counted.                                                 *)
NetIsSettled ==
  \A i \in 1..Len(payouts) :
    \A r \in Rows : stamp[r][payouts[i].type] = i => r \in payouts[i].counted

=============================================================================
