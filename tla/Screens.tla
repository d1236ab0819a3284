------------------------------ MODULE Screens ------------------------------
(***************************************************************************)
(* What the console shows and what it changes, as tables: the query keys   *)
(* each page of src/frontend observes, the tables each GET behind a key    *)
(* reads, the tables each mutation writes, and the keys its onSuccess      *)
(* invalidates.  A key stands for all its variants (filters, range,        *)
(* currency); "roster" is accounts, agents and account_agents, "sales" is  *)
(* payments, transactions and revenue_entries, "rates" the fee tables.     *)
(***************************************************************************)
EXTENDS Naturals

-----------------------------------------------------------------------------
(* GET handlers: the tables their rows come from *)

PaymentRows == {"sales", "links", "customers", "categories", "roster", "people"}
PaymentTotals == {"sales", "reserve", "customers", "categories", "roster", "people"}
HeldByProvider == {"sales", "rates"}
HeldByAgency == {"reserve", "settings"}
FilterOptions == {"sales", "roster", "categories", "customers", "people"}
PaymentFlow == {"sales", "links", "roster", "people"}
PaymentImpact == {"sales", "links"}
LinkRows == {"links", "sales", "roster", "people"}
LinkTotals == {"links", "sales", "roster", "people"}
LinkDetail == {"links", "roster", "people"}
LinkImpact == {"sales", "links"}
LinkLimits == {"settings"}
RateCard == {"rates"}
CurrencyRows == {"currencies", "settings", "links"}
AccountRows == {"roster", "people"}
AccountDetail == {"roster", "people", "seats"}
AgentRows == {"roster", "people", "seats"}
CategoryRows == {"categories"}
CustomerRows == {"customers", "sales", "roster"}
CustomerDetail == {"customers", "sales", "links", "roster", "people"}
TeamRows == {"seats", "people", "roster", "roles", "sales", "settings"}
InviteRows == {"invites"}
RoleRows == {"roles", "seats"}
SeatPermissions == {"seats"}
PayoutBreakdown == {"sales", "payouts", "roster", "people", "rates", "settlements"}
PayoutRows == {"payouts", "roster", "people", "settings"}
Earnings == {"sales", "roster"}
ArchivedRows == {"links", "sales", "roster", "people", "customers", "seats", "settings"}
Analytics == {"sales", "links", "roster", "categories", "people"}
WorkspaceRow == {"settings"}
AuditRows == {"audit", "people"}
SessionRows == {"sessions"}
PreferenceRows == {"preferences"}
ChannelRows == {"channels"}
NoticeRows == {"notices"}
PlatformTotals == {"settings", "roster", "people", "sales"}
PlatformRows == {"settings", "seats", "roster", "sales", "rates", "audit"}
PlatformDetail == {"settings", "rates", "links", "sales", "payouts", "settlements"}
PlatformUsers == {"people", "seats", "settings"}
Me == {"people", "seats", "roles", "settings"}

-----------------------------------------------------------------------------
(* Query keys, by the page that observes them *)

PaymentsPage ==
  {<<"payments", PaymentRows>>, <<"payments-summary", PaymentTotals>>,
   <<"payments-reserve", HeldByProvider>>,
   <<"agency-rolling-reserve", HeldByAgency>>,
   <<"payment-filter-options", FilterOptions>>, <<"accounts", AccountRows>>,
   <<"agents", AgentRows>>}

FlowPanel == {<<"payment-flow", PaymentFlow>>}

CompleteModal == {<<"categories", CategoryRows>>, <<"customers", CustomerRows>>}

ReassignPanel ==
  {<<"account", AccountDetail>>, <<"reassign-impact", PaymentImpact \cup LinkImpact>>}

RatePreview == {<<"platform-fee", RateCard>>}

LinksPage ==
  {<<"links", LinkRows>>, <<"accounts", AccountRows>>,
   <<"links-summary", LinkTotals>>, <<"link-limits", LinkLimits>>,
   <<"link", LinkDetail>>}

AgencyPage ==
  {<<"team", TeamRows>>, <<"invites", InviteRows>>, <<"agents", AgentRows>>,
   <<"roles", RoleRows>>, <<"accounts", AccountRows>>, <<"account", AccountDetail>>}

CustomersPage == {<<"customers", CustomerRows>>, <<"customer", CustomerDetail>>}

PayoutsPage ==
  {<<"payouts-breakdown", PayoutBreakdown>>, <<"payouts-history", PayoutRows>>,
   <<"earnings", Earnings>>}

ArchivePage == {<<"archive", ArchivedRows>>}

AnalyticsPage ==
  {<<"analytics", Analytics>>, <<"accounts", AccountRows>>, <<"agents", AgentRows>>}

GeneralPane ==
  {<<"workspace", WorkspaceRow>>, <<"link-limits", LinkLimits>>,
   <<"platform-workspace", PlatformDetail>>,
   <<"platform-overview", PlatformTotals>>}

OtherPanes ==
  {<<"categories", CategoryRows>>, <<"notification-preferences", PreferenceRows>>,
   <<"notification-channels", ChannelRows>>, <<"audit", AuditRows>>}

SessionsCard == {<<"sessions", SessionRows>>}

PlatformPage ==
  {<<"platform-overview", PlatformTotals>>,
   <<"platform-workspaces", PlatformRows>>, <<"platform-users", PlatformUsers>>}

\* Hooks of the frame around every page.
Everywhere ==
  {<<"auth-me", Me>>, <<"permissions", SeatPermissions>>,
   <<"workspace-currencies", CurrencyRows>>, <<"notifications", NoticeRows>>}

\* <<page, reads>>
Screens ==
  {<<"payments", PaymentsPage \cup FlowPanel \cup CompleteModal \cup ReassignPanel \cup RatePreview>>,
   <<"links", LinksPage \cup RatePreview \cup ReassignPanel \cup CompleteModal>>,
   <<"agency", AgencyPage>>, <<"customers", CustomersPage>>, <<"payouts", PayoutsPage>>,
   <<"archive", ArchivePage>>, <<"analytics", AnalyticsPage>>,
   <<"settings", GeneralPane \cup RatePreview \cup OtherPanes \cup SessionsCard>>,
   <<"platform", PlatformPage>>}

PageNames == {screen[1] : screen \in Screens}

\* <<key, tables>>: what the rows of a key come from.
Reads == UNION {screen[2] : screen \in Screens} \cup Everywhere

Keys == {read[1] : read \in Reads}

\* <<page, key>>: the page observes the key.
ObservedKeys ==
  UNION {{<<screen[1], read[1]>> : read \in screen[2] \cup Everywhere} : screen \in Screens}

-----------------------------------------------------------------------------
(* Mutations: the tables they write and the keys their onSuccess lists *)

Op(op, page, writes, lists) ==
  [op |-> op, pages |-> {page}, writes |-> writes \cup {"audit"}, lists |-> lists]

PaymentsList ==
  {"payments", "payments-summary", "payment-filter-options", "links", "links-summary",
   "customers", "payouts-breakdown", "agency-rolling-reserve", "analytics"}

PaymentOps ==
  {Op("reassign a payment", "payments", {"sales", "links"}, PaymentsList),
   Op("reverse", "payments", {"sales", "reserve", "notices"}, PaymentsList),
   Op("archive a payment", "payments", {"sales", "customers"}, PaymentsList),
   Op("release reserve", "payments", {"reserve"}, PaymentsList)}

CompleteList ==
  {"payments", "payments-summary", "payment-filter-options", "links", "links-summary",
   "link", "customers", "payouts-breakdown", "analytics"}

\* The modal opens from the payments page and from a link's details.
CompleteOps ==
  {[Op("complete a payment", "payments", {"sales", "links", "customers"}, CompleteList)
      EXCEPT !.pages = {"payments", "links"}]}

LinksList ==
  {"links", "links-summary", "link", "payments", "payments-summary", "customers",
   "payouts-breakdown", "analytics"}

LinkOps ==
  {Op("create, cancel, remove, note or archive a link", "links", {"links"}, LinksList),
   Op("reassign a link", "links", {"links", "sales"}, LinksList)}

AgencyList == {"team", "accounts", "agents", "roles", "permissions", "auth-me"}

AgencyOps ==
  {Op("member", "agency", {"seats", "people"}, AgencyList),
   Op("platform admin of the agency", "agency", {"seats", "people", "sessions"}, AgencyList),
   Op("creator", "agency", {"roster", "seats", "people", "invites"}, AgencyList),
   Op("salesperson", "agency", {"roster", "seats", "people"}, AgencyList),
   Op("role", "agency", {"roles", "seats"}, AgencyList),
   Op("cancel an invite", "agency", {"invites"}, {"invites"})}

CustomerOps == {Op("customer", "customers", {"customers"}, {"customers", "customer"})}

PayoutOps ==
  {Op("run a payout", "payouts", {"payouts", "sales"}, {"payouts-breakdown", "payouts-history"})}

ArchiveOps ==
  {Op("restore", "archive", {"links", "sales", "roster", "customers", "seats", "settings"},
      {"archive", "payments", "payments-summary", "links", "links-summary", "accounts",
       "agents", "customers", "payouts-breakdown", "analytics", "team"})}

SettingOps ==
  {Op("currencies", "settings", {"currencies"}, {"workspace-currencies"}),
   Op("workspace", "settings", {"settings"},
      {"workspace", "payments-summary", "agency-rolling-reserve"}),
   Op("link limits", "settings", {"settings"}, {"link-limits"})}

\* Three requests: the currency, the platform fee and the settlement fee.
CurrencyWrites == {"settings"}
FeeWrites == {"rates"}

RateOps ==
  {Op("rate card", "settings", CurrencyWrites \cup FeeWrites,
      {"platform-workspace", "platform-fee", "workspace", "auth-me"})}

PaneOps ==
  {Op("category", "settings", {"categories"}, {"categories"}),
   Op("preferences", "settings", {"preferences"}, {"notification-preferences"}),
   Op("channel", "settings", {"channels"}, {"notification-channels"})}

SessionOps == {Op("end a session", "settings", {"sessions"}, {"sessions"})}

OnboardWrites == {"settings", "rates", "roles", "seats", "people", "invites"}
StatusWrites == {"settings"}

PlatformOps ==
  {Op("onboard or change status", "platform", OnboardWrites \cup StatusWrites,
      {"platform-workspaces", "platform-workspace", "platform-overview", "auth-me"})}

AdminOps ==
  {Op("platform admin", "platform", {"people", "seats", "sessions"}, {"platform-users"})}

BellOps ==
  {[Op("read the bell", "payments", {"notices"}, {"notifications"}) EXCEPT !.pages = PageNames]}

Mutations ==
  PaymentOps \cup CompleteOps \cup LinkOps \cup AgencyOps \cup CustomerOps \cup PayoutOps
    \cup ArchiveOps \cup SettingOps \cup RateOps \cup PaneOps \cup SessionOps
    \cup PlatformOps \cup AdminOps \cup BellOps

OpNames == {m.op : m \in Mutations}

\* <<op, key>>: the mutation writes a table the key shows; its onSuccess lists
\* the key.
ChangedKeys ==
  UNION {{<<m.op, read[1]>> : read \in {r \in Reads : m.writes \cap r[2] # {}}} : m \in Mutations}
ListedKeys == UNION {{<<m.op, key>> : key \in m.lists} : m \in Mutations}

\* <<op, page>>: the page runs the mutation.
OpPages == UNION {{<<m.op, page>> : page \in m.pages} : m \in Mutations}

\* The stream reaches the keys that carry the workspace, and two of the
\* platform page.
UnreachedKeys == {"auth-me", "platform-users", "sessions"}
=============================================================================
