--------------------------- MODULE LegacyRecovery ---------------------------
(***************************************************************************)
(* scripts/reconcile-legacy-recovery.js: a run imports the rows of the old *)
(* database that the agency's database does not have, one table after the  *)
(* other, under creators it finds by login or by name.                     *)
(*                                                                         *)
(* A run reads the creators, then the ids already there, then the missing  *)
(* rows, all outside a transaction; --apply writes what it prepared from   *)
(* them in one transaction.  Meanwhile other runs apply and the agency     *)
(* edits its creators (module Creators).  The old database does not        *)
(* change.  Amounts, columns and the wording of the report are left out;   *)
(* an agent's name alias is found like any other agent.                    *)
(***************************************************************************)
EXTENDS Creators

CONSTANTS
  SourceAccounts, Excluded,   \* creators of the old database; 'test' among them
  CanonicalName,              \* the name a source creator is looked up by
  HasAlias,                   \* the source creators with a confirmed alias
  SameLogin,                  \* the target account with the same e-mail, or None
  SourceAgents, SameAgent,    \* agents of the old database; the one with the same e-mail
  Rows, Table, Parent,        \* its rows: their table, the row they hang from
  Owner, Seller,              \* account_id and agent_id of a row, or None
  Labelled, PaidOut,          \* rows with a customer or category; with a payout
  Runs, KeyOf,                \* runs of the script and their --migration-key
  Unknown                     \* the account 'old db unknown payments'

\* What a source creator can resolve to besides an account.
Blocked == "no_unique_target_account"
Irrelevant == "customer_confirmed_irrelevant_test_data"
\* A row of the target that carries no account: a transaction, an agency entry.
NoAccount == "no_account"

ASSUME RecoveryAssumption ==
  /\ Excluded \cup HasAlias \subseteq SourceAccounts /\ Excluded \cap HasAlias = {}
  /\ CanonicalName \in [SourceAccounts -> Names]
  /\ SameLogin \in [SourceAccounts -> Accounts \cup {None}]
  /\ SameAgent \in [SourceAgents -> Agents \cup {None}]
  /\ Table \in [Rows -> {"link", "payment", "transaction", "entry"}]
  /\ Parent \in [Rows -> Rows \cup {None}]
  /\ Owner \in [Rows -> SourceAccounts \cup {None}]
  /\ Seller \in [Rows -> SourceAgents \cup {None}]
  /\ Labelled \cup PaidOut \subseteq Rows
  /\ Unknown \notin Accounts
  /\ None \notin Runs \cup Accounts \cup {Unknown, Blocked, Irrelevant, NoAccount}

VARIABLES
  target,     \* the account of each imported row; None for one that is not there
  importedBy, \* the run that inserted it
  phase,      \* where each run is
  accountOf,  \* [run][source creator]: the account it resolved to
  agentOf,    \* [run][source agent]
  known,      \* [run]: the ids it found in the target
  prepared,   \* [run]: the rows it will insert, each with its account
  usedKeys,   \* legacy_import_runs
  report,     \* [run]: the rows a committed run says it imported
  mappings,   \* legacy_entity_mappings of the creators
  exclusions  \* legacy_import_exclusions

importVars == <<target, importedBy, usedKeys, report, mappings, exclusions>>
runVars == <<phase, accountOf, agentOf, known, prepared>>
recoveryVars == <<importVars, runVars>>
legacyVars == <<creatorVars, recoveryVars>>

-----------------------------------------------------------------------------
(* resolveAccounts, resolveAgents *)

Named(n) == {a \in Present : name[a] = n}
Single(S) == IF Cardinality(S) = 1 THEN CHOOSE a \in S : TRUE ELSE Blocked

\* An alias is looked up by its canonical name only; the others by login first.
Matched(s) ==
  IF s \notin HasAlias /\ SameLogin[s] \in Present
  THEN SameLogin[s]
  ELSE Single(Named(CanonicalName[s]))

Resolved(s) == IF s \in Excluded THEN Irrelevant ELSE Matched(s)

ResolvedAgent(g) == IF SameAgent[g] \in Hired THEN SameAgent[g] ELSE Blocked

-----------------------------------------------------------------------------
(* prepareRows, for the run k and the ids it knows *)

Missing(k, ids, table) == {r \in Rows \ ids : Table[r] = table}

Irrelevants(k, ids, table) ==
  {r \in Missing(k, ids, table) : Owner[r] # None /\ accountOf[k][Owner[r]] = Irrelevant}

ExcludedLinks(k, ids) == Irrelevants(k, ids, "link")
ExcludedPayments(k, ids) ==
  LET links == ExcludedLinks(k, ids) IN
  Irrelevants(k, ids, "payment") \cup {r \in Missing(k, ids, "payment") : Parent[r] \in links}
ExcludedTransactions(k, ids) ==
  LET payments == ExcludedPayments(k, ids) IN
  {r \in Missing(k, ids, "transaction") : Parent[r] \in payments}
ExcludedEntries(k, ids) ==
  LET transactions == ExcludedTransactions(k, ids) IN
  {r \in Missing(k, ids, "entry") : Parent[r] \in transactions}
ExcludedRows(k, ids) ==
  ExcludedLinks(k, ids) \cup ExcludedPayments(k, ids) \cup ExcludedTransactions(k, ids) \cup ExcludedEntries(k, ids)

\* Both people of a row are known in the target.
Attributable(k, r) ==
  /\ Owner[r] # None => accountOf[k][Owner[r]] \in Accounts
  /\ Seller[r] # None => agentOf[k][Seller[r]] \in Agents

ReadyLinks(k, ids) ==
  {r \in Missing(k, ids, "link") \ (ExcludedLinks(k, ids) \cup Labelled) : Attributable(k, r)}
ReadyPayments(k, ids) ==
  LET links == {None} \cup ids \cup ReadyLinks(k, ids) IN
  {r \in Missing(k, ids, "payment") \ ExcludedPayments(k, ids) : Attributable(k, r) /\ Parent[r] \in links}
ReadyTransactions(k, ids) ==
  LET payments == ids \cup ReadyPayments(k, ids) IN
  {r \in Missing(k, ids, "transaction") \ ExcludedTransactions(k, ids) : Parent[r] \in payments}
ReadyEntries(k, ids) ==
  LET transactions == ids \cup ReadyTransactions(k, ids) IN
  {r \in Missing(k, ids, "entry") \ (ExcludedEntries(k, ids) \cup PaidOut) :
     Attributable(k, r) /\ Parent[r] \in transactions}
Ready(k, ids) == ReadyLinks(k, ids) \cup ReadyPayments(k, ids) \cup ReadyTransactions(k, ids) \cup ReadyEntries(k, ids)

\* A missing payment with a customer or a category keeps neither: it goes to the
\* unknown account.  A link does when all its missing payments do.
Unattributed(k, ids) == (Missing(k, ids, "payment") \cap Labelled) \ Irrelevants(k, ids, "payment")

PaymentsOf(k, ids, l) ==
  {r \in Missing(k, ids, "payment") \ Irrelevants(k, ids, "payment") : Parent[r] = l}

UnattributedLinks(k, ids) ==
  {l \in ReadyLinks(k, ids) : PaymentsOf(k, ids, l) # {} /\ PaymentsOf(k, ids, l) \subseteq Unattributed(k, ids)}

\* Mutant: entries stay with their creator.
UnattributedEntriesNone(k, ids) == {}

\* An entry does when its payment does, found through missing rows only.
UnattributedEntries(k, ids) ==
  LET transactions == {t \in Missing(k, ids, "transaction") : Parent[t] \in Unattributed(k, ids)} IN
  {r \in ReadyEntries(k, ids) : Parent[r] \in transactions}

\* The account each row is inserted with.
Accounted(k, ids) ==
  LET unattributed == Unattributed(k, ids) \cup UnattributedLinks(k, ids) \cup UnattributedEntries(k, ids) IN
  [r \in Ready(k, ids) |->
     IF r \in unattributed THEN Unknown
     ELSE IF Owner[r] = None THEN NoAccount
     ELSE accountOf[k][Owner[r]]]

\* The rows a run names in its report as needing a person.
ReportedBlocked(k, ids) ==
  LET there == ids \cup Ready(k, ids)
      left == Rows \ (there \cup ExcludedRows(k, ids)) IN
  {r \in left :
     \/ Owner[r] # None /\ accountOf[k][Owner[r]] = Blocked
     \/ Seller[r] # None /\ agentOf[k][Seller[r]] = Blocked
     \/ Table[r] = "link" /\ r \in Labelled
     \/ Table[r] = "entry" /\ r \in PaidOut
     \/ Parent[r] # None /\ Parent[r] \notin there}

-----------------------------------------------------------------------------
RecoveryInit ==
  /\ target = [r \in Rows |-> None]
  /\ importedBy = [r \in Rows |-> None]
  /\ phase = [k \in Runs |-> "idle"]
  /\ accountOf = [k \in Runs |-> [s \in SourceAccounts |-> Blocked]]
  /\ agentOf = [k \in Runs |-> [g \in SourceAgents |-> Blocked]]
  /\ known = [k \in Runs |-> {}]
  /\ prepared = [k \in Runs |-> <<>>]
  /\ usedKeys = {} /\ exclusions = {}
  /\ report = [k \in Runs |-> {}]
  /\ mappings = [s \in SourceAccounts |-> None]

LegacyInit == CreatorsInit /\ RecoveryInit

MoveTo(k, p) == phase' = [phase EXCEPT ![k] = p]

\* loadAccounts and loadAgents.  A run that failed may be started again.
Resolve(k) ==
  /\ phase[k] \in {"idle", "failed"}
  /\ MoveTo(k, "resolved")
  /\ accountOf' = [accountOf EXCEPT ![k] = [s \in SourceAccounts |-> Resolved(s)]]
  /\ agentOf' = [agentOf EXCEPT ![k] = [g \in SourceAgents |-> ResolvedAgent(g)]]
  /\ UNCHANGED <<known, prepared, importVars, creatorVars>>

\* targetIds, what sourceRows finds missing from them, and prepareRows.
List(k) ==
  /\ phase[k] = "resolved"
  /\ MoveTo(k, "listed")
  /\ known' = [known EXCEPT ![k] = {r \in Rows : target[r] # None}]
  /\ prepared' = [prepared EXCEPT ![k] = Accounted(k, known'[k])]
  /\ UNCHANGED <<accountOf, agentOf, importVars, creatorVars>>

\* Mutant: a row that is there already is skipped silently.
CollidesNever(k) == FALSE

\* insertRow throws when ON CONFLICT (id) DO NOTHING inserted nothing.
Collides(k) == \E r \in DOMAIN prepared[k] : target[r] # None

\* apply, with its COMMIT.
Apply(k) ==
  /\ phase[k] = "listed"
  /\ KeyOf[k] \notin usedKeys /\ ~Collides(k)
  /\ MoveTo(k, "committed")
  /\ LET new == {r \in DOMAIN prepared[k] : target[r] = None} IN
     /\ target' = [r \in Rows |-> IF r \in new THEN prepared[k][r] ELSE target[r]]
     /\ importedBy' = [r \in Rows |-> IF r \in new THEN k ELSE importedBy[r]]
  /\ usedKeys' = usedKeys \cup {KeyOf[k]}
  /\ report' = [report EXCEPT ![k] = DOMAIN prepared[k]]
  /\ mappings' = [s \in SourceAccounts |->
                    IF mappings[s] = None /\ accountOf[k][s] \in Accounts
                    THEN accountOf[k][s] ELSE mappings[s]]
  /\ exclusions' = exclusions \cup ExcludedRows(k, known[k])
  /\ UNCHANGED <<accountOf, agentOf, known, prepared, creatorVars>>

\* A used key, a collision, or any other error: ROLLBACK.
ApplyFails(k) ==
  /\ phase[k] = "listed"
  /\ MoveTo(k, "failed")
  /\ UNCHANGED <<accountOf, agentOf, known, prepared, importVars, creatorVars>>

\* Without --apply the report is all a run leaves.
DryRun(k) ==
  /\ phase[k] = "listed"
  /\ MoveTo(k, "idle")
  /\ UNCHANGED <<accountOf, agentOf, known, prepared, importVars, creatorVars>>

AgencyNext == CreatorsNext /\ UNCHANGED recoveryVars

LegacyNext ==
  \/ AgencyNext
  \/ \E k \in Runs : Resolve(k) \/ List(k) \/ Apply(k) \/ ApplyFails(k) \/ DryRun(k)

-----------------------------------------------------------------------------
(* Properties of every behaviour *)

PaymentOf(e) == Parent[Parent[e]]

(* However runs overlap, fail and are started again, every imported row is in *)
(* the report of exactly one committed run, the one that inserted it: the     *)
(* totals the runs leave behind add up to what was imported.                  *)
CountedOnce ==
  \A r \in Rows : {k \in Runs : r \in report[k]} = {importedBy[r]} \ {None}

\* The old database posted a sale as fn_post_sale does: an entry with an account
\* hangs from the transaction of a payment under the same account.
SalesPosted ==
  \A e \in Rows : Table[e] = "entry" /\ Owner[e] # None =>
    /\ Parent[e] \in Rows /\ Table[Parent[e]] = "transaction"
    /\ PaymentOf(e) \in Rows /\ Table[PaymentOf(e)] = "payment"
    /\ Owner[PaymentOf(e)] = Owner[e]

(* A payment and the ledger entry of its sale that one run imported are under *)
(* one account: both under the creator, or both under the unknown account.    *)
AttributionAgrees ==
  \A e \in Rows :
    (Table[e] = "entry" /\ Owner[e] # None /\ target[e] # None
       /\ importedBy[e] = importedBy[PaymentOf(e)])
      => target[e] = target[PaymentOf(e)]

-----------------------------------------------------------------------------
(* What the script's comments say of it.  Each is violated. *)

(* Lines 3-4: whatever is not imported stays blocked for manual review, so a  *)
(* missing row is ready, excluded or reported.  An entry of an excluded       *)
(* creator under another creator's payment is none of them.                   *)
EveryRowAccountedFor ==
  \A k \in Runs :
    phase[k] = "listed" =>
      Rows \ known[k] \subseteq
        DOMAIN prepared[k] \cup ExcludedRows(k, known[k]) \cup ReportedBlocked(k, known[k])

(* AttributionAgrees without its second premise: the rows of one sale that    *)
(* two runs imported are under one account too.  The second run does not see  *)
(* that the payment went to the unknown account, or resolves the creator anew *)
(* after a rename.                                                            *)
EntryFollowsPayment ==
  \A e \in Rows :
    (Table[e] = "entry" /\ Owner[e] # None /\ target[e] # None)
      => target[e] = target[PaymentOf(e)]

=============================================================================
