------------------------------ MODULE Pricing ------------------------------
(***************************************************************************)
(* The currencies and the kinds of link an agency sells in:                *)
(* services/currencies.service.js, the link handlers that read those       *)
(* settings, the platform's change of base currency and the marketplace's  *)
(* own links.                                                              *)
(*                                                                         *)
(* A handler that locks the workspace row does so with its first statement *)
(* and writes with a later one; `desk' holds the requests in between.      *)
(* Amounts, fees and attribution of a link are left out.                   *)
(***************************************************************************)
EXTENDS Naturals, FiniteSets

CONSTANTS Currencies, Links, Requests,
          FirstBase,                 \* the currency the workspace was created in
          MarketplaceOrders,         \* whether this is the marketplace's workspace
          NoRow

ASSUME PricingAssumption ==
  /\ FirstBase \in Currencies /\ NoRow \notin Currencies
  /\ MarketplaceOrders \in BOOLEAN

VARIABLES
  base,      \* workspaces.currency
  offer,     \* workspace_currencies: no row, a row switched off, a row
  reusable,  \* workspaces.reusable_links_enabled
  link,      \* payment_links, NoRow for an id that is not there
  desk       \* requests between their first and their last statement

settingRows == <<base, offer, reusable>>
pricingVars == <<settingRows, link, desk>>

Types == {"single_use", "reusable"}
LinkRows == [currency : Currencies, type : Types, console : BOOLEAN,
             status : {"active", "cancelled"}, paid : BOOLEAN]
Work ==
  [op : {"link"}, row : LinkRows]
    \cup [op : {"order"}, currency : Currencies]
    \cup [op : {"allow"}, wanted : SUBSET Currencies]
    \cup [op : {"base"}, currency : Currencies]

PricingTypeOK ==
  /\ base \in Currencies /\ offer \in [Currencies -> {"absent", "off", "on"}]
  /\ reusable \in BOOLEAN
  /\ link \in [Links -> LinkRows \cup {NoRow}]
  /\ desk \in [Requests -> Work \cup {NoRow}]

PricingInit ==
  /\ base = FirstBase /\ reusable = TRUE
  /\ offer = [c \in Currencies |-> IF c = FirstBase THEN "on" ELSE "absent"]
  /\ link = [l \in Links |-> NoRow] /\ desk = [r \in Requests |-> NoRow]

Existing == {l \in Links : link[l] # NoRow}
InUse(c) == \E l \in Existing : link[l].currency = c

-----------------------------------------------------------------------------
(* The lock on the workspace row: FOR UPDATE of the two that rewrite the    *)
(* settings, FOR SHARE of a console link.  A foreign key's own lock, which  *)
(* any insert of a link takes, waits for FOR UPDATE only.                   *)

Holding(ops) == {r \in Requests : desk[r] # NoRow /\ desk[r].op \in ops}

SettingsFree == Holding({"link", "allow", "base"}) = {}
LinkFreeAlways == TRUE
LinkFree == Holding({"allow", "base"}) = {}

Open(r, work) == desk' = [desk EXCEPT ![r] = work]
Close(r) == desk' = [desk EXCEPT ![r] = NoRow]

-----------------------------------------------------------------------------
(* POST links: the settings are read under FOR SHARE, then the link goes in. *)

Admits(c, t) == offer[c] = "on" /\ (t = "reusable" => reusable)

OpenLink(r, c, t) ==
  /\ desk[r] = NoRow /\ LinkFree
  /\ Admits(c, t)
  /\ Open(r, [op |-> "link",
              row |-> [currency |-> c, type |-> t, console |-> TRUE,
                       status |-> "active", paid |-> FALSE]])
  /\ UNCHANGED <<settingRows, link>>

InsertLink(r, l) ==
  /\ r \in Holding({"link"}) /\ link[l] = NoRow
  /\ offer[desk[r].row.currency] # "absent"
  /\ link' = [link EXCEPT ![l] = desk[r].row]
  /\ Close(r)
  /\ UNCHANGED settingRows

(* POST marketplace/orders: the base currency is read without a lock, and the *)
(* foreign key to workspace_currencies refuses a currency that has no row.    *)
OpenOrder(r) ==
  /\ MarketplaceOrders /\ desk[r] = NoRow
  /\ Open(r, [op |-> "order", currency |-> base])
  /\ UNCHANGED <<settingRows, link>>

InsertOrder(r, l) ==
  /\ r \in Holding({"order"}) /\ LinkFree
  /\ link[l] = NoRow /\ offer[desk[r].currency] # "absent"
  /\ link' = [link EXCEPT ![l] =
                [currency |-> desk[r].currency, type |-> "single_use",
                 console |-> FALSE, status |-> "active", paid |-> FALSE]]
  /\ Close(r)
  /\ UNCHANGED settingRows

RefuseOrder(r) ==
  /\ r \in Holding({"order"}) /\ LinkFree
  /\ offer[desk[r].currency] = "absent"
  /\ Close(r)
  /\ UNCHANGED <<settingRows, link>>

CancelLink(l) ==
  /\ l \in Existing /\ link[l].status = "active"
  /\ link' = [link EXCEPT ![l].status = "cancelled"]
  /\ UNCHANGED <<settingRows, desk>>

(* The first payment attempt recorded on a link; a declined one leaves it active, *)
(* and one may arrive after the link was cancelled.                              *)
RecordAttempt(l) ==
  /\ l \in Existing /\ ~link[l].paid
  /\ link' = [link EXCEPT ![l].paid = TRUE]
  /\ UNCHANGED <<settingRows, desk>>

DeleteLink(l) ==
  /\ l \in Existing /\ link[l].status = "cancelled" /\ ~link[l].paid
  /\ link' = [link EXCEPT ![l] = NoRow]
  /\ UNCHANGED <<settingRows, desk>>

-----------------------------------------------------------------------------
(* PUT currencies, PATCH link-limits and PATCH platform .../currency *)

KeepsBaseAlways(wanted) == TRUE
KeepsBase(wanted) == base \in wanted

OpenAllowed(r, wanted) ==
  /\ desk[r] = NoRow /\ SettingsFree
  /\ KeepsBase(wanted)
  /\ Open(r, [op |-> "allow", wanted |-> wanted])
  /\ UNCHANGED <<settingRows, link>>

AllowedRow(c, wanted) ==
  IF c \in wanted THEN "on"
  ELSE IF offer[c] = "absent" \/ ~InUse(c) THEN "absent" ELSE "off"

SetAllowedCurrencies(r) ==
  /\ r \in Holding({"allow"})
  /\ offer' = [c \in Currencies |-> AllowedRow(c, desk[r].wanted)]
  /\ Close(r)
  /\ UNCHANGED <<base, reusable, link>>

SetLinkLimits(b) ==
  /\ SettingsFree /\ reusable' = b
  /\ UNCHANGED <<base, offer, link, desk>>

HasHistory == Existing # {}

OpenBase(r, c) ==
  /\ desk[r] = NoRow /\ SettingsFree
  /\ c # base /\ ~HasHistory
  /\ Open(r, [op |-> "base", currency |-> c])
  /\ UNCHANGED <<settingRows, link>>

\* The trigger adds the row of the new base and leaves one that is there alone.
TriggeredRow(c) == IF offer[c] = "absent" THEN "on" ELSE offer[c]

ChangeBase(r) ==
  /\ r \in Holding({"base"})
  /\ base' = desk[r].currency
  /\ offer' = [offer EXCEPT ![base'] = TriggeredRow(base')]
  /\ Close(r)
  /\ UNCHANGED <<reusable, link>>

-----------------------------------------------------------------------------
PricingNext ==
  \/ \E r \in Requests :
       \/ \E c \in Currencies, t \in Types : OpenLink(r, c, t)
       \/ \E l \in Links : InsertLink(r, l)
       \/ OpenOrder(r)
       \/ \E l \in Links : InsertOrder(r, l)
       \/ RefuseOrder(r)
       \/ \E wanted \in SUBSET Currencies : OpenAllowed(r, wanted)
       \/ SetAllowedCurrencies(r)
       \/ \E c \in Currencies : OpenBase(r, c)
       \/ ChangeBase(r)
  \/ \E l \in Links : CancelLink(l) \/ RecordAttempt(l) \/ DeleteLink(l)
  \/ \E b \in BOOLEAN : SetLinkLimits(b)

-----------------------------------------------------------------------------
(* GET ?currency= : a report is about one currency, the one asked for when   *)
(* the agency has a row for it and the base otherwise.                       *)
ReportingCurrency(wanted) == IF wanted # NoRow /\ offer[wanted] # "absent" THEN wanted ELSE base

(* No figure is lost to the reports: the currency of every link that exists  *)
(* can be reported on, and so can the base currency, whatever order the      *)
(* settings, the marketplace and the links are written in                    *)
(* (currencies.service.js).                                                  *)
EveryLinkIsReported ==
  /\ ReportingCurrency(base) = base /\ offer[base] # "absent"
  /\ \A l \in Existing : ReportingCurrency(link[l].currency) = link[l].currency

(* A link made in the console is created in a currency and of a type the      *)
(* agency offers at the moment the link appears, and not only when the        *)
(* request read the settings (links.routes.js, the FOR SHARE lock).           *)
LinkMeetsSettings ==
  [][\A l \in Links :
       link[l] = NoRow /\ link'[l] # NoRow /\ link'[l].console =>
         Admits(link'[l].currency, link'[l].type)]_pricingVars

(* Migration 040 and setAllowedCurrencies: the base currency is always one    *)
(* that new links may use.                                                    *)
BaseAllowed == offer[base] = "on"
=============================================================================
