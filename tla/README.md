# HigherPays: verification project

HigherPays lets an agency create payment links, records what the payment provider
(MantaPay) reports about them, posts sales to a ledger split between creator, agent
and agency, keeps a reserve back, pays creators and agents out, and shows all of it in
a browser console. This directory models where that can go wrong, in the backend, its
maintenance scripts and the console, checks the models with TLC and proves what matters
most with TLAPS. Paths are relative to `src/` (`backend/src/...` is shortened to its
last part); the lines each definition models are in `PROJECT.json` under "map".

## 1. The system

State lives in PostgreSQL. The API process (`server.js`) handles requests concurrently
and runs timers: the reconciler (`services/links.service.js`, every 10 minutes) and the
marketplace outbox drain (`routes/marketplace.routes.js`). Multi-row writes run in one
READ COMMITTED transaction (`db.js: withTransaction`); nothing else serialises requests,
so what protects a read from being stale is a row lock, a guarded UPDATE, a unique
index, or nothing. The console keeps query results in a cache that a stream of "this
workspace changed" events invalidates, and swaps its tokens when an operator views the
console as somebody else.

| Component | State | Operations | Hard behaviour | Module |
|---|---|---|---|---|
| Payment outcomes and reversals (`services/payments.service.js`) | `payments`, `transactions`, `payment_links.status`, sale and reversal entries | `recordPaymentOutcome`, `recordPaymentReversal` | outcomes repeated and out of order, two attempts of one order, approval after expiry or cancel | `PaymentLedger` |
| Link and payment routes | the same rows | create, cancel, archive, move, details, refund, chargeback | check, then write, without a lock | `PaymentLedger`, `Pricing`, `Customers` |
| Link reconciler (`services/links.service.js`) | `payment_links.status`, `late_check_at` | poll active links, sweep closed ones | one transaction per workspace, rolled back by one bad link | `ReconcileSweep`, `PaymentLedger` |
| Webhook inbox (`routes/webhooks.routes.js`) | `webhook_events` | receive, apply once | duplicate and concurrent deliveries, failure and retry | `WebhookInbox` |
| Marketplace (`routes/marketplace.routes.js`) | orders, outbox rows | order, enqueue, drain | at-least-once delivery, two drains, crash between send and mark | `MarketplaceOutbox`, `Pricing` |
| Payouts (`routes/payouts.routes.js`) | `payouts`, stamps on entries | run | sum, stamp and salary in separate statements | `Payouts` |
| Rolling reserve (migrations 043, 044, `payments.routes.js`, `workspace.routes.js`) | `rolling_reserve_entries`, settings | hold, reverse, release, set | a release between reading balances and writing parts | `RollingReserve` |
| Sessions (`routes/auth.routes.js`, `middleware/`, `api/http.ts`, `store/auth.ts`) | `refresh_tokens`, the tab's tokens | sign in, refresh, revoke, sign out, idle | two refreshers of one tab, reuse detection, lock order | `Sessions` |
| Team, roles, invites, platform (`routes/team`, `roles`, `invites`, `platform`) | seats, roles, invites, operators | grant, transfer, invite, accept, promote, recover | a request authorised by what it read on arrival | `Membership` |
| Creators and agents (`accounts.routes.js`, `agents.routes.js`, `services/splits.js`) | profiles, shares, assignments | create, edit, assign, restore | checks without locks | `Creators`, `Membership` |
| Currencies and link settings (`services/currencies.service.js`) | `workspace_currencies`, base currency | allow, change base | a link created while the settings change | `Pricing` |
| Customers and categories | `customers`, `categories`, details of payments | edit, erase, complete, archive | an erasure racing an edit; a date recounted from a snapshot | `Customers` |
| Evidence and fees (`payments.service.js`, `feeReconciliation.js`, `providers/mantapay*.js`, `scripts/backfill-*`) | decline code, reason, source, fee | notify, poll, backfill, reconcile fees, re-post | four writers of one row | `ProviderEvidence` |
| Import of the old database (`scripts/reconcile-legacy-recovery.js`) | rows of all ledger tables, its report | resolve, list, apply | reads outside the transaction that writes | `LegacyRecovery` |
| Console cache (`lib/queryClient.ts`, `useWorkspaceUpdates.ts`, `middleware/workspaceUpdates.js`) | cached rows, the stream | fetch, invalidate, publish | an event that overtakes a response, a gap in the stream | `QueryCache`, `Screens` |
| Impersonation (`platform.routes.js`, `Layout.tsx`, stores) | sessions, token, header, workspace | start, exit, expire, refresh | token and header changed in different steps | `Impersonation` |
| Editors of the agency page (`pages/Agency`) | a form and what it was seeded from | save as several calls | half a save, a stale base of comparison | `Editors` |

Interaction: the inbox and the reconciler call `recordPaymentOutcome`, which locks the
link row first, so outcomes of one order are serialised. Reversals lock the payment.
Console routes write the same rows without either lock. Ledger entries feed payouts and
the reserve; approvals received by webhook feed the outbox. Every commit of a request
publishes an event, which makes the console's cache read again.

The other components (settlement import, public payment page, deployment and so on) are
listed in `PROJECT.json` with the reason they are left out, and in section 13. The
hazards found in the code, each at its line, are under "hazards" there, with the
properties that would catch them.

## 2. Modules, and what is left to do

A component has a module; where several are small and share no row, one module composes
them and one instance explores them:

| Composition | Parts |
|---|---|
| `Directory` | `Pricing`, `Customers`, `Membership` |
| `Disbursements` | `Payouts`, `RollingReserve` |
| `Corrections` | `ProviderEvidence`, `LegacyRecovery` (which extends `Creators`) |
| `Console` | `QueryCache` (over the tables of `Screens`), `Impersonation`, `Editors` |

A composition steps one part at a time. Its parts write no row another part reads, so
`MC...!ApartSpec` explores each part with the others at rest: every behaviour of a part
is there, and no property relates two parts. `Spec` itself is the full interleaving.

`PaymentLedger`, `WebhookInbox`, `MarketplaceOutbox`, `ReconcileSweep` and `Sessions`
stand alone. `MarketplaceOutbox` implements the abstract `LifecycleDelivery`.
`X` is instantiated by `MCX` with `.cfg` files. Its theorems are in `XProofs`, those of
`Directory` and of `Sessions` in `AgencyProofs`.

Left to do, most valuable first: the fee arithmetic of `fn_post_sale` against a
reference; an abstract `OrderOutcome` that `PaymentLedger` without the archive refines;
`PaymentLedger` composed with `MarketplaceOutbox` (several charges of one order, as the
marketplace sees them); the settlement import; type correctness of the parts whose
invariants below say less than their `TypeOK`.

## 3. PaymentLedger

| In the model | In the code |
|---|---|
| `Outcome`, `RecordOutcome` | `recordPaymentOutcome`, one committed transaction, the link row locked |
| `Webhook` | its call from `routes/webhooks.routes.js` |
| `ListOpen`, `ListClosed` | the two SELECTs of a reconcile run; `polling` keeps what they read |
| `PollSettled`, `PollReusable`, `PollExpired`, `PollLate`, `PollSkipped` | the run's answer for one listed link |
| `Reverse` | `recordPaymentReversal` with `fn_post_refund`/`fn_post_chargeback` and `fn_reverse_rolling_reserve` |
| `CreateLink` ... `ArchiveLink` | the link routes; `DeadlinePasses` is the clock reaching `expires_at` |
| `Begin*`, `Complete*`/`Move*`, `Abandon` | a console request: its checks, its writes, or its failure; `inflight` is what lies in between |

Grain. A transaction is one action when a row lock taken before its first decision is
held until commit (outcome, reversal, cancel, delete), or when it is one guarded
UPDATE. It is two when its checks read without a lock (details, both moves) or when
its decision was read by an earlier statement of a long run (the reconciler). A run
that rolls back has the effect of its steps not having happened. A move's writes are
one action: it holds the link row (single-use) or the payment row (reusable) from its
first write, and an outcome or a reversal of the same attempt needs one of them.

Abstracted: amounts, currencies and `validateProviderMoney` (an outcome that fails it
is an outcome that does not happen; what that does to a run is `ReconcileSweep`),
decline codes and texts (`ProviderEvidence`), customers and categories beyond "details
are filled in" (`Customers`), agents (they move with the creator), which kind a
reversal is, the wording of notices, the grace of 10 minutes and the window of 45 days
(any link may be listed or not), the release of the reserve (`RollingReserve`).
`timeline` holds the link's own events and `seen` the provider's.

| Run | Instance | What it shows |
|---|---|---|
| `order` | one single-use link, 2 attempts, 1 creator, reserve on or off, no open request, archive allowed | the merge of evidence, posting, the link's closing, reversals and notices agree in every interleaving |
| `kept` | a single-use link with 2 attempts or a reusable one with 1, 2 creators, 1 open request, no archive | one sale per order and none for a flagged charge; a request whose reads are stale takes nothing back; a link that reads paid or refunded tells the truth about a payment; no outcome closes a reusable link |
| `move_race` | one single-use link, 2 attempts | finding 1 |

`MaxRequests` caps the console requests between their read and their write: one is
enough for a stale check, as each request only races with the provider and the
reconciler. Two attempts are the smallest number with a rival; for any number the
theorems take over. Behaviours of `kept` are about one link each (`OneLinkExists`): no
rule of the ledger relates two orders. Attempts of one order are interchangeable, so
their symmetry is used; the properties are invariants and step properties, for which it
is sound. Deadlock is off because a deleted link really is the end. `kept` leaves the
archive out because with it `OneSalePerOrder` is false (section 11).

## 4. WebhookInbox

| In the model | In the code (`routes/webhooks.routes.js`) |
|---|---|
| `Arrive`, `Reject` | signature and merchant check; a rejected delivery gets a row under an id of its own |
| `Upsert` | `INSERT ... ON CONFLICT ... RETURNING processed`, committed alone |
| `Ignore` | a status the ledger does not record |
| `ProcessDuplicate`, `Process`, `ProcessFails` | the transaction: the row locked and read again, the ledger call, the mark; or its rollback |
| `NoteError`, `QueryFails`, `Answer` | the catch block's separate UPDATE, any other failing query, the 200 |
| `Reconcile`, `Crash`, `Restart`, `Occurs` | the reconciler recording an approval, the process, the provider |

The transaction is one action because the event's row stays locked from its first read
to its commit. `Process` may also fail after it committed (the answer to COMMIT is
lost). What the ledger call does is `PaymentLedger`; here only whether it goes through
matters: never for an event of `Refused`, and for a chargeback only once its sale is
there. "approved" stands for the three statuses the ledger records.

Run `inbox`: one charge, 2 overlapping deliveries, 1 failing query, 1 crash. An event is
applied once and answered 200 only then; every notification is handled in the end, a
chargeback that came first included. Two deliveries are enough to overlap; a third would
meet the same locked row. One charge has three events, and events of two charges share
no row. Fairness: the provider repeats what was not answered 200 (strong, because the
model's handlers are few and another event may take them; the comment at line 66-69
relies on it), a handler goes on, and the restart policy of `docker-compose.yml`
restarts the process.

## 5. MarketplaceOutbox

| In the model | In the code |
|---|---|
| `WebhookApproved`, `WebhookChargeback` | the enqueue inside the webhook's transaction |
| `ConsoleReverse` | `reverse`: enqueue in the transaction, once more after it |
| `PollApproved` | the reconciler, which enqueues nothing |
| `StartDrain`, `Send*`, `Mark*` | `drainMarketplaceOutbox`: its SELECT, each fetch, each UPDATE |
| `BackoffEnds` | `next_attempt_at` reached |
| `OverflowStops`, `Crash`, `Restart` | the process: `void drainMarketplaceOutbox()` has no catch, so an error in the catch block is an unhandled rejection |

`created` is the rank of a row by `created_at`, in commit order. An int has `IntBits`
bits, so that the cast `power(2, attempts + 1)::int` overflows within the bounds of a
run: with 3 bits at the second failure, as with 32 at the thirty-first. The length of
the backoff is abstracted to "not due, then due". A drain that is accepted and whose
mark fails behaves as one that timed out. Left out: the payload, the signature, and a
configuration without a marketplace (nothing is enqueued).

`LifecycleDelivery` is the promise: owed, received, acknowledged, in this order.
`MarketplaceOutbox` implements it with its rows as what is owed and `delivered_at` as
the acknowledgement.

Run `outbox`: one sale (three kinds of events), 2 drains, batches of 1, 2 failures
(enough to overflow), 1 crash. At-least-once delivery is implemented; every row is
delivered in the end, and every reversal is told. Fairness: the timer starts drains and
a drain goes on (weak), a due time is reached (weak), the process is restarted (weak).
Nothing is assumed of webhooks: they may never arrive.

## 6. ReconcileSweep

One workspace run of the reconciler as the transaction it is. `Begin` is its two SELECTs
and the stamp of the closed batch; `AskAnswered` is one answer and what the loop does
with it (written to `draft`, the rows the transaction holds); a bad answer rolls back,
the last one commits; `Works` is any step of a started run. `Webhook`, `Cancel`,
`Archive`, `PassDeadline` and `Restart` run beside it; a row the run has updated makes
them wait. `check` is `late_check_at` as a rank.

Run `sweep`: two links, one of which the provider settles with another amount, a batch
of one, one restart. `ApprovalIsFound` is the point of the safety net: an approval whose
webhook never came is recorded in the end, over failing calls and restarts. It needs the
settled link that disagrees to be archived for good; without that, `sweep_parked` (the
same instance) is finding 2. Two links and a batch of one are the smallest instance in
which the batch must rotate. Fairness: the timer begins runs and a started run goes on
(weak: `setInterval`, awaits that return or time out), and the provider answers about a
link when it is asked again and again (strong: single calls may fail, as the catch at
line 125 expects, but not for ever). Nothing is assumed of webhooks or operators.

## 7. Sessions

Two refreshers share a tab's refresh token: a request answered 401 ("api") and the event
stream answered 401 ("sse"). `POST /auth/refresh` is modelled at the grain of its row
locks (`LockRow`, `LockFamily`, then `Missing`, `Reuse`, `Expire` or `Rotate`), with
`RotateFails` and `BreakDeadlock` (Postgres ending a cycle of waiters); the browser by
`StartRefresh`, `ReceiveTokens`, `ReceiveError`, `Reload`, `SignIn`, `Logout`,
`Activity`, `IdleSignOut`, `LoseCookie`; revocation by `Revoke` and by the UPDATE that
waits for a row with the rows it found (`BeginRevoke`, `EndRevoke`). `Tick` is time: what
remains of a token's inactivity window and absolute limit, in ticks.

Run `sessions`: one tab with both refreshers, 3 tokens, 2 sign-ins, windows of 2 ticks,
one reload or lost cookie. A family has one usable token at most; a family whose rotated
token was presented again is dead for good; every refresh is answered; a tab whose
session ended leaves the console. Three tokens are one rotation with a successor and a
second sign-in beside it, the smallest family history in which a rotation can overlap a
reuse. Fairness: the database goes on, an answer reaches the tab, an access token
expires, and the stream, which reconnects for ever (`useWorkspaceUpdates.ts`), refreshes
when its token has expired.

## 8. Directory: Pricing, Customers, Membership

`Pricing`. `desk` holds requests between the statement that locks (`SELECT ... FOR
SHARE`/`FOR UPDATE` of the workspace row) and the one that writes: `OpenLink`/
`InsertLink`, `OpenOrder`/`InsertOrder`/`RefuseOrder`, `OpenAllowed`/
`SetAllowedCurrencies`, `OpenBase`/`ChangeBase`. Cancel, delete and the settings write
are one statement. `EveryLinkIsReported`: a link's currency can always be asked for in a
report. `LinkMeetsSettings`: a console link satisfies the settings when it appears.

`Customers`. `form` holds `OpenDetails`/`CompleteDetails` (the completion of a payment)
and `OpenArchive`/`CommitArchive` (which recounts the customer's last purchase from its
snapshot). Edits, erasure and categories are one statement each. `Scopes` are who asks:
everybody's sales, one's own, a creator's. `ErasedStaysErased`: an erasure is final,
whatever is under way when it commits.

`Membership`. A request is authorised by what `requireWorkspace` read; the ones that
read and write in two statements are `pending` in between (`TeamRequest`, `RoleRequest`
and `PersonRequest` begin or do them, `End` ends them). A seat has a type, a role and
permissions; a person has creator and agent profiles and may be an operator. A profile
is made with its seat (`CreateProfile`), except when `POST /accounts` finds the name
taken after it has granted the seat: its error is an answer, not an exception, so login
and seat commit without an account (`RefuseName`). Such a person counts as a plain
member from then on, may be edited or removed as one, and may be added again
(`BeginAccount`, `EndAccount`); `halfMade` remembers who it happened to.
`OwnerKept`, `ProfileMatchesSeat`, `OwnSeatOutlivesOffice`: two owners, a profile without
its type, or a deleted seat of someone's own would each need several requests. That a
creator's type comes with a creator is claimed only of who is not `halfMade`; findings 3
and 4 are what happens to the others.

Run `directory` (547,428 states): 3 currencies, 1 link, 2 requests; 2 payments on two
days (one the caller's, one another creator's), 1 customer, 1 category, 2 forms; 3
users, 1 custom role, 2 pending and 4 changing requests. Two requests are a race; three
currencies are old base, new base and another; three users are two owners-to-be and an
operator; four changes are what the longest counterexample of section 11 takes. Currencies
other than the first, requests, forms and users other than the founder are symmetric.
Deadlock is off: the bound on changes ends a behaviour.

## 9. Disbursements: Payouts, RollingReserve

`Payouts`. A run is `BeginRun` (the advisory lock and the sum), `PayOne` per payee (the
INSERT and the UPDATE that stamps, then the salary), `FinishRun` or `RunRollsBack`. Each
statement sees what was committed when it began; nothing of a run shows before its
commit, and rows it stamped are locked until then. `PostSale`, `Refund`, `MovePayment`,
`ArchivePayment` and `SetPayModel` commit in between. A move deletes a
sale's row with its stamp and posts it again unpaid; `payouts` keeps what each payout
settled.

`RollingReserve`. In cents. Rows are dated by `now()`, the BEGIN of their transaction,
which comes before it waits for the workspace row; `clock` numbers the BEGINs.
`BeginSale` dates a sale's hold (`began`), `HoldSale` takes it with the rounding of
migration 044, `ReverseSale` books the reversal; a release is `BeginRelease` (which
dates its rows, `since`), `LockRelease` (the row locked, all balances read),
`InsertPart` per balance in the order of `min(created_at)` over a sale's entries
(`first`: its hold and its releases; a reversed sale has no balance left to order), then
`CommitRelease` or `AbortRelease`. Settings requests read and write without the lock
(`edits`).

Run `disbursements` (1,065,830 states): 2 sales on two days, 2 creators of whom one may be
salaried, 1 agent, 2 creator runs with the ranges day 1 and days 1-2, 2 payouts, 1
archived payment, 1 move; grosses of 3 and 2 cents, rates 0 and 50 %, 2 releases of
1 cent or all, 5 BEGINs (two sales, two releases and one of them again), 1 settings
edit. Two overlapping ranges are what paying twice needs; an odd
and an even gross are what rounding needs. `PaidOnceToItsOwner`,
`SalaryOncePerPeriod`, `NeverOverdrawn` and `OldestEntryFirst` hold. The last is what the
ORDER BY gives: a sale is taken from only when those held before its first entry are
used up. That the oldest hold goes first, as the comment says, is finding 5.

## 10. Corrections and Console

`ProviderEvidence`. One attempt: its status, decline code, reason, source and fee, and
the ledger entry's fee. `Webhook`, `Poll` and `Settle` are the upsert with its four CASE
expressions; `BackfillRead`/`BackfillApply` the script; `Search`, `FeeRead`, `FeeWaits`,
`FeeWrite`, `FeeWriteBlind` the steps of a fee run, which updates the entry it read or
waits for a re-post that holds it (`RepostDelete`, `RepostPost`). A value is abstracted
to who supplied it, kept apart from the label the row carries, so a label can be wrong.

`LegacyRecovery`. A run of the script is `Resolve` (creators, by login, alias or name),
`List` (ids present, rows missing), then `DryRun`, `Apply` or `ApplyFails`; the agency
(`Creators`) and other runs commit in between. `report` is what each run says it did.
`Creators` has the creator and agent routes, whose checks and writes are two statements.

Run `corrections` (410,876 states): two overlapping fee runs, fees 0 to 2, one re-post,
one backfill; two runs of the import, three edits of the target's creators, eleven old rows
that form three sales: one on a link with a customer, one without a link, and one of the
excluded creator on another creator's link. `SourceIsHonest`, `StaysExplained`,
`ReportedFeeStands`, `CountedOnce` and `AttributionAgrees` hold.

`Screens` holds tables, not behaviour: for each page the query keys it observes, for each
GET the tables its rows come from, for each mutation the tables it writes and the keys
its `onSuccess` invalidates. `ChangedKeys` is computed from them: a mutation changes a
key when it writes a table the key's rows come from. `QueryCache` runs one entry against
these: `Navigate`, `Submit`, the response and the event in either order
(`OwnAnswered`, `OwnPublishes`, `EventRead`), other clients, a stream that ends and
reconnects, fetches that fail and are retried. An event read during a fetch does not
start another one when the first has no data yet: the query library joins it.

`Impersonation`: the sessions, the token, the persisted user in the header, the
workspace and the rows on screen, which change in different steps of one operation.
A 401 while a session is saved sends the operator back in `http.ts`, whichever call it
answers, the stop request included (`Unauthorized`, `StopUnauthorized`).

`Editors`: one save is `Create`/`SaveTerms`, `ReadRoster`, `Assign`/`Unassign` per
difference, `SaveAccess`, `SaveStatus`; any call may fail and leave the dialog open.
`ShownRoster` is what `GET /accounts/:id` answers: the agents whose seat is active, and
none to a caller who does not see the whole workspace (`wide`). A seat is a type, a
status ("removed" included, which the member dialog shows as active) and a permission
state: a custom role with its list, or a list of its own. `ChooseRole`, `ChooseGrants`
and `ChooseStatus` are the form; `RoleSent`, `GrantsSent` and `StatusDiffers` decide what
is sent, and `GrantsSaved` what the server makes of it, the reset of a type that comes
without permissions included. `stale` names the rows that differ from what the save
goes by, for whatever reason; `half` that an attempt failed.

Run `console` (1,478,553 states): five keys that differ in what reaches them (a
mutation's own list, a poll, several pages, the stream by name, nothing), one retry, one
unread event; two impersonations; a dialog with two partners, or with two permission
lists, a custom role, all types and all statuses, and one write of somebody else.
`ShownIsCaughtUp`, `RowsMatchHeader`, `RosterAsChosen` and `SeatAsChosen` hold. An
entry's life does not depend on other entries, so one at a time is enough; two
impersonations are one that ends while another starts; two partners are one to add and
one to drop.

An editor is about its partners or about its seat (`EditorPart`): no call of a save
reads both, but for an agent's status, which stays. Two lists are one that is the
admins' default and one that is not. `RosterAsChosen` does not claim what the caller was
not shown: suspended agents keep their assignment, and a narrow caller removes nobody.
It excepts a save that went by a list that differed from the rows, which this client's
own half save can cause (finding 6); `SeatAsChosen` is about first attempts, and excepts
a removed seat's status and the reset of finding 7.

No fairness is assumed in `Directory`, `Disbursements`, `Corrections` and `Console`:
their properties are safety properties.

## 11. Findings, and claims that fail

Two runs are expected to find a violation:

1. `move_race`: a refund between a move's check and its writes splits a sale and its
   refund between two creators (`attribution.js:40`, against lines 32-34).
2. `sweep_parked`: one settled link whose amount disagrees rolls the workspace's run
   back, stamps included, so every run asks the same links first and fails again, and
   approvals of other links are never found (`links.service.js:180`, against 177-178).

The `MC*Claims.cfg` files state further sentences of comments, docs or tests that the
models contradict. TLC stops at the first of a file; remove it to see the next. Of
these, the ones worth a fix first:

3. `TypeComesWithProfile`: adding a creator under a taken name answers an error and
   commits the login and the creator's seat.
4. `OnePersonOneThing`: such a seat is made an admin's while the creator is added again,
   and an admin owns an account.
5. `OldestFirst`: a release begins, an older sale and a newer one begin, the newer one
   commits its hold, the release takes part of it, dated before both; the older hold
   commits, and the next release takes the newer sale first.
6. `RosterAsChosenAlone`: a salesperson's save fails after its first assignment; that
   refreshes nothing, so the next attempt sends no call for it and reports success with
   an assignment its form does not show.
7. `GrantsAsChosen`: saving an admin in the member dialog, even for the name alone, takes
   a custom role or a list of their own away.

| Claim | The sentence | What breaks it |
|---|---|---|
| `SecondAttemptPostsNothing` | `payments.service.js:52-53` | the winner query skips archived payments, so archiving the winner makes room for a second sale (line 97) |
| `RefundIsRecordable` | `payments.service.js:256`, `payments.routes.js:961-962` | the refund a duplicate-charge notice asks for finds no sale to mirror (`payments.service.js:356`) |
| `ReversedOrderIsRefused` | `payments.routes.js:852-853` | a move that names a beaten attempt of a refunded order re-posts the refunded sale (line 854) |
| `AcceptableRowsDelivered` | `docs/marketplace-integration.md:34-35` | an event that keeps failing overflows its backoff and ends the process at every start; rows behind it wait for good (`marketplace.routes.js:181`) |
| `PaidIsFulfilled` | migration `028:24-25` | a sale the reconciler alone records is never queued (`links.service.js:96`) |
| `StaleMeansMissing` | `server.js:84-86` | an approval the reconciler recorded still counts as money missing (line 91) |
| `BaseAllowed` | migration `040:36-37`, `currencies.service.js:50-51` | a currency switched off while a link used it becomes the base once the link is gone: the trigger leaves its row as it is |
| `LastPurchaseIsNewest` | the list of customers | an archive writes the day its snapshot found; refunds and reassigned payments recount nothing |
| `OwnerHoldsAll`, `OwnerIsActive` | `permissions.js:41`, test `people.test.js:218` | recovery sets the role and not the permissions (`platform.routes.js:364-367`), a transfer keeps the custom role, whose next edit overwrites the owner's permissions (`team.routes.js:341-346`, `roles.routes.js:89-91`); a removal decided before a transfer commits after it |
| `SeatFollowsRole` | `roles.routes.js:5`, `:88` | an edit of a seat that read the role's permissions before they changed writes them after |
| `OperatorHasNoProfile` | `platform.routes.js:539-545` | a profile created between the check and the promotion |
| `NetIsSettled` | `payouts.routes.js:224` | a sale or a refund commits between a run's sum and its stamp |
| `EntryCarriesFee` | `mantapay.js:126-130`, `feeReconciliation.js:71-75` | a fee run that waited for a re-post updates an entry that is gone |
| `NotificationWordingKept` | `backfill-mantapay-decline-reasons.js:40-41` | the script assigns what it computed from an earlier read |
| `EveryRowAccountedFor`, `EntryFollowsPayment` | `reconcile-legacy-recovery.js:3-4` | an entry of the excluded creator under another creator's payment is neither imported nor reported; a second run resolves a creator anew |
| `NamesDistinct`, `RoomForEveryAgent` | `accounts.routes.js:97-107`, `splits.js:2-7` | two requests pass the check before either writes; a restored creator returns under a taken name |
| `ShownFollowsCommits` | what `useWorkspaceUpdates.ts` is for | a gap in the stream, and an event during a first load |
| `RowsAreTheirs` | `Platform/index.tsx:73` | the impersonation ends, the stream's 401 is refreshed with the operator's cookie, and the operator's rows appear under the other user's name and workspace until the timer |
| `TypeComesWithProfile` | `accounts.routes.js:117`, `team.routes.js:2-4` | the answer `{ err }` of a taken name leaves `withTransaction` by returning, so the seat granted before it commits (`accounts.routes.js:142-148`) |
| `OnePersonOneThing` | `people.js:12-13` | such a seat has no profile that fixes its type (`team.routes.js:254`), and a second `POST /accounts` read the type without a lock |
| `OldestFirst` | `payments.routes.js:364-365` | balances are ordered by `min(created_at)` over releases too, whose date is their BEGIN (line 391) |
| `RosterAsChosenAlone` | `useAgencyData.ts:92-93` | `assignAccounts` invalidates on success only (lines 163-171) |
| `GrantsAsChosen` | `permissionState.ts:17-18` | the type is sent with every save (`Agency/index.tsx:632`), and without permissions it resets them (`team.routes.js:272-274`) |
| `SeatAsChosenAfterAll` | the dialogs of `pages/Agency` | after a failed attempt a choice taken back is no difference from the seat as it was listed |
| `StatusAsChosen` | `MemberEditor.tsx:58` | a removed member's dialog shows "active", and the save leaves the seat removed (`Agency/index.tsx:151`) |
| `RosterLeftAlone` | `CreatorEditor.tsx:224` | the roster is read from a cache that assignments do not invalidate (`useAgencyData.ts:92-101`) |
| `ReactivatedCanBeAssigned` | `Agency/index.tsx:603-612` | the assignment is sent before the reactivation and refused (`accounts.routes.js:229-242`) |

`ReconcileSweep!ExpiryIsTrue` fails too: the 'expired' event is recorded although the
guarded UPDATE may have matched nothing (`links.service.js:131`).

## 12. What is proved

Every theorem holds for any values of the constants that satisfy the named assumption
of the module.

`PaymentLedgerProofs`, for any links, attempts and creators and any number of open
requests: `TypeCorrect`; `LedgerSafe`, the inductive invariant `IInv`, which is the
conjunction of `TypeOK`, `EvidenceMerge`, `ApprovedIsPosted`, `ReversalSettles`,
`PaidClosesLink`, `LinkTellsPayment`, `ReusableStaysOpen` and `Owned`, each but the last
with a theorem of its own. The parts need one another: that a claimed link holds a
posted sale follows from the merge and from posting, that a posted sale has an owner
needs `Owned`, that a refund finds a paid payment needs the merge. `MoneySticksHolds`
and `NoStaleNoticeHolds` are the two step properties. `OneWinner`: without the archive,
`OneSalePerOrder`; its invariant adds that nothing is archived, which makes the winner
query's `LIMIT 1` deterministic (`OutcomeFlags`). What one outcome does is stated once
for its own row (`OutcomeOwnRow`) and once for all others (`OutcomeOtherRows`); the
webhook and the three polls cite these.

`WebhookInboxProofs`: `TypeCorrect`, `AppliedOnceHolds`, `AckedIsHandledHolds`. The
invariant adds where each delivery stands (one that is about to answer 200 works on a
processed row) and that what is processed is in the ledger.

`MarketplaceOutboxProofs`: `OutboxImplementsDelivery`, the refinement, and
`MarkedWasReceived`, from `DInv`: a drain holds only rows, an idle drain has no answer,
and an accepted answer is that of the row the drain is at.

`ReconcileSweepProofs`: `MoneyKeepsItsLink` (`PaidIsNotWrittenOff`). The invariant says
of committed rows and of the rows a run has updated and not committed alike that a paid
link is pending; so a commit and a rollback both keep it.

`DisbursementsProofs`, the reserve: `HeldOnce` (`NeverOverdrawn`) for any amounts, rates
and number of concurrent releases, and `RefundEmpties`. The invariant says that while a
release holds the lock, the parts it has still to write fit the balances it read; the
lock is why nobody else changes those. `OldestEntryIsFirst` (`OldestEntryFirst`) adds the
dates and what a release under way has done: while it has money left, every balance it
is finished with is emptied, so what it takes next comes after used-up holds only. A
sale posted meanwhile is dated by a BEGIN that may be older than the release's, which is
why the theorem speaks of first entries and not of holds.

`DisbursementsProofs`, the payouts: `PaidOnceHolds` (`PaidOnceToItsOwner`) and
`SalaryOnceHolds` (`SalaryOncePerPeriod`), for any sales, payees, ranges and runs. What
an open run has counted is unstamped and, unless it was posted again since, still of the
payee it was counted for; what it has settled is locked, of the payee of its own payout,
and in no sum that is still to come. The advisory lock is why no other run of the type
stamps those rows before it commits. Salaries need only that the last statement sees
every payout committed before it, and that a run pays each due creator once (a
surjection between finite sets of equal size). `PartsStandAlone` carries these to the
composition.

`CorrectionsProofs`, the evidence: `LabelsAreTrue` (`SourceIsHonest`). The invariant adds that the
update a backfill has computed is as honest as a row has to be. `ReasonsStay`
(`StaysExplained`): an absent row has no reason and a computed update has one, so no
assignment of the script can take a reason away. `FeesStand` (`ReportedFeeStands`): an
estimate is zero, and no entry shows a reported fee while the transaction holds an
estimate, which is what a re-post relies on.

`CorrectionsProofs`, the import, for any rows, accounts and number of overlapping runs.
`CountedOnceHolds` (`CountedOnce`): a run in flight plans only rows it read as missing,
and the database does not let a row in twice; a transaction is never without its
payment, so a run that still misses the payment misses the transaction too, and its
report names what it inserted. `AttributionHolds` (`AttributionAgrees`) has a premise,
`SalesPosted`: the old database hung an entry from the transaction of a payment of the
same account, as `fn_post_sale` does. The import cannot check that, and without it the
property is false of rows no posting wrote; `MCCorrections` assumes the premise where
its instance has it. What is proved then is that one run resolves both rows alike and
that no rename, archive or creation between its reads comes between them.
`PartsStandAlone` carries both and the evidence to `Corrections`.

`ConsoleProofs`, impersonation: `RowsMatch` (`RowsMatchHeader`). Between two moves of the
identity alone, the token in use, the fetch in flight and the rows all belong to the
header's user, for any number of sessions.

`ConsoleProofs`, the cache: `CaughtUpHolds` (`ShownIsCaughtUp`) for any pages, keys,
mutations and unread events. `CacheInv` extends the property from the rows on screen to
whatever may become them: a fetch that was read before a commit, the answer of our own
mutation, rows nobody shows. Each of these lacks a commit only while that commit's
announcement is still to come (`Announced`), or was missed. The proof corrected the
model: an entry dropped from the cache while an old answer of our own mutation is on
its way does not make that answer any newer (`Forgotten` kept `missed` too short).

`ConsoleProofs`, the editors: `RosterHolds` (`RosterAsChosen`) and `SeatHolds`
(`SeatAsChosen`), for any partners, custom roles, lists, attempts and other clients.
While a save is under way and its roster is not stale, the roster less what is still to
be dropped, with what is still to be added, is the chosen one but for what the caller
was not shown (`Heading`), and nothing is both to be added and to be dropped; for the
seat, the step the save is at says which of its columns are written, by the rules of
`GrantsSaved`. `PartsStandAlone` carries all three to `Console`.

`AgencyProofs`, the sessions, for any tabs, refreshes and tokens: `OneLiveHolds`
(`OneLivePerFamily`) and `ReuseEndsHolds` (`ReuseEndsFamily`), from `SessionsSafe`. Its
invariant has three parts. Rows: a family is named after its first token, has one usable
row at most, and none when it was reused. Locks: a refresh holds the row it was
presented and, after its second statement, the whole family, whose usable rows are among
those it found; so what it revokes is all there is when it inserts the successor.
Tokens: what a tab, a cookie or an answer carries was issued, so a fresh token is in no
family yet.

`AgencyProofs`, the prices: `EveryLinkHolds` (`EveryLinkIsReported`) and `LinkMeetsHolds`
(`LinkMeetsSettings`). Whoever rewrites the settings holds the workspace row alone
(`SettingsInv`); so what a link's request read still holds when the link is inserted,
and the base a list was checked for is still the base when the list is written. A
currency that a link uses keeps a row (`RowsOffered`), whose foreign key is what stops
the marketplace's unlocked read.

`AgencyProofs`, the customers: `ErasedHolds` (`ErasedStaysErased`); a completion that
typed a customer in writes only an id nobody has.

`AgencyProofs`, the seats, for any people, custom roles and requests between their reads
and their writes: `ProfileMatchesHolds` (`ProfileMatchesSeat`), `OwnerKeptHolds`
(`OwnerKept`) and `OwnSeatHolds` (`OwnSeatOutlivesOffice`). Refused creators are among
the steps; what is proved of them is that a profile has its seat and an agent's seat its
agent. `MemberInv` has a part for
the rows of one person (`PersonInv`: a seat has a login, a granted seat is an admin's and
has no profile, an invite to a profile's type has the profile behind it, one owner at
most) and a part for what each waiting request read (`WaitInv`). An edit and a transfer
hold the seat they will overwrite, one request per seat, so its type, its profile and
its grant are as they read them. An acceptance and a promotion hold nothing: they stand
on facts that never go back, a profile that exists, a login that exists. Two lemmas do
the work for all actions: a step that leaves every type alone (`RolesKept`) and a step
about one person whose seat nobody holds (`PersonMoves`); a transfer, which moves two
seats, has a proof of its own. `PartsStandAlone` carries the three parts to `Directory`.

Only model-checked: the findings and claims, among them everything `Creators` is checked
for; all liveness (`EventuallyHandled`, `EveryRowDelivered`, `ReversalIsTold`,
`ApprovalIsFound`, `RefreshAnswered`, `EndedSessionLeavesConsole`), which with ENABLED
is out of the prover's reach. Every safety property of a passing run is a theorem.

## 13. Not modelled

- The settlement import (`settlements.routes.js`, `settlement/parse*`), a parser in a
  worker and a review by hand; the public payment page; the fee and revenue views, of
  which only the tables they read appear; CSV export; `cash.js`.
- The fee arithmetic and order lines of `fn_post_sale`; `LegacyRecovery` and
  `ProviderEvidence` know rates only as "the estimate".
- Passwords, one-time codes and their recovery; requests, hashes and dates of the
  provider client; only the first page of a fee search (`mantapay-search.js:113-114`).
- Overlapping reconcile runs and the order of their locks; the second id a charge may
  get (`links.service.js:97`); the loop over workspaces without a catch (line 241).
- A hold that rounds to zero against `CHECK (amount > 0)` (migration `044:58`); the
  settings PATCH that reads the other field unlocked (`workspace.routes.js:81-91`);
  provider reserve releases.
- `AuthGuard` adopting the first workspace; a rate card saved as three calls
  (`useSettingsData.ts:104-146`); layout, filters and forms of one request.
- In the editors: a custom role edited or deleted while a dialog is open, names, pay and
  passwords (their calls are there), the owner's and operators' rows.
- Deployment, backups, seeds, the migrations runner, e-mail, audit, rate limiting,
  `dedupe-payment-notifications.js`: shell scripts, plumbing and I/O.
