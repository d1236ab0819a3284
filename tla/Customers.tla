----------------------------- MODULE Customers -----------------------------
(***************************************************************************)
(* An agency's customers, its sale categories and the details an agent     *)
(* adds to a paid payment: customers.routes.js, categories.routes.js, the  *)
(* details and archive handlers of payments.routes.js, archive.routes.js.  *)
(*                                                                         *)
(* A handler of one statement is one action.  `form' holds the ones that   *)
(* read, or take their snapshot, before the statement that decides.        *)
(* Dates are the days a payment was made on; 0 stands for none.            *)
(***************************************************************************)
EXTENDS Naturals, FiniteSets, FiniteSetsExt, Functions

CONSTANTS Payments, CustomerIds, Categories, Forms,
          Day,           \* [Payments -> 1..]  payments.occurred_at
          Mine,          \* payments of the calling agent, or of an assigned creator
          Theirs,        \* payments of the calling creator
          Nobody         \* no row

ASSUME CustomersAssumption ==
  /\ Day \in [Payments -> Nat \ {0}]
  /\ Mine \subseteq Payments /\ Theirs \subseteq Payments
  /\ Nobody \notin CustomerIds \cup Categories

VARIABLES
  contact,    \* customers: "absent", its contact "known", or "erased" (deleted_at)
  shelved,    \* customers.archived_at is set
  lastDay,    \* customers.last_purchase_at
  category,   \* categories: "absent", "active", "inactive"
  sale,       \* payments: status, archived_at, customer_id, category_id
  form        \* requests between their read and their write

customerRows == <<contact, shelved, lastDay>>
customersVars == <<customerRows, category, sale, form>>

Scopes == {"workspace", "agent", "account"}

CustomersInit ==
  /\ contact = [c \in CustomerIds |-> "absent"]
  /\ shelved = [c \in CustomerIds |-> FALSE]
  /\ lastDay = [c \in CustomerIds |-> 0]
  /\ category = [g \in Categories |-> "active"]
  /\ sale = [p \in Payments |-> [status |-> "paid", archived |-> FALSE,
                                 customer |-> Nobody, category |-> Nobody]]
  /\ form = [f \in Forms |-> Nobody]

CustomersTypeOK ==
  /\ contact \in [CustomerIds -> {"absent", "known", "erased"}]
  /\ shelved \in [CustomerIds -> BOOLEAN]
  /\ lastDay \in [CustomerIds -> {0} \cup Range(Day)]
  /\ category \in [Categories -> {"absent", "active", "inactive"}]
  /\ sale \in [Payments -> [status : {"paid", "refunded"}, archived : BOOLEAN,
                            customer : CustomerIds \cup {Nobody},
                            category : Categories \cup {Nobody}]]
  /\ \A f \in Forms : form[f] # Nobody => form[f].sale \in Payments

-----------------------------------------------------------------------------
(* Who sees a customer (customerScopePredicate): an agent through a payment  *)
(* that is not archived, a creator through any payment of theirs.            *)
Sees(scope, c) ==
  CASE scope = "workspace" -> TRUE
    [] scope = "agent" -> \E p \in Mine : sale[p].customer = c /\ ~sale[p].archived
    [] OTHER -> \E p \in Theirs : sale[p].customer = c

(* The details form asks for an unarchived payment of either caller. *)
Offered(scope, c) ==
  CASE scope = "workspace" -> TRUE
    [] scope = "agent" -> \E p \in Mine : sale[p].customer = c /\ ~sale[p].archived
    [] OTHER -> \E p \in Theirs : sale[p].customer = c /\ ~sale[p].archived

NewCustomer(c) == contact[c] = "absent"
EditableAny(c) == contact[c] # "absent"
Editable(c) == contact[c] = "known"

CreateCustomer(c) ==
  /\ NewCustomer(c)
  /\ contact' = [contact EXCEPT ![c] = "known"]
  /\ UNCHANGED <<shelved, lastDay, category, sale, form>>

UpdateCustomer(scope, c) ==
  /\ Editable(c) /\ Sees(scope, c)
  /\ contact' = [contact EXCEPT ![c] = "known"]
  /\ UNCHANGED <<shelved, lastDay, category, sale, form>>

EraseCustomer(scope, c) ==
  /\ contact[c] = "known" /\ Sees(scope, c)
  /\ contact' = [contact EXCEPT ![c] = "erased"]
  /\ UNCHANGED <<shelved, lastDay, category, sale, form>>

(* archive, and reactivate or the archive page's restore *)
ShelveCustomer(c, b) ==
  /\ contact[c] = "known" /\ shelved[c] # b
  /\ shelved' = [shelved EXCEPT ![c] = b]
  /\ UNCHANGED <<contact, lastDay, category, sale, form>>

-----------------------------------------------------------------------------
UpdateCategory(g, s) ==
  /\ category[g] # "absent" /\ s \in {"active", "inactive"} \ {category[g]}
  /\ category' = [category EXCEPT ![g] = s]
  /\ UNCHANGED <<customerRows, sale, form>>

(* ON DELETE SET NULL *)
ClearedCategory(g) ==
  [p \in Payments |-> IF sale[p].category = g THEN [sale[p] EXCEPT !.category = Nobody] ELSE sale[p]]

DeleteCategory(g) ==
  /\ category[g] # "absent"
  /\ category' = [category EXCEPT ![g] = "absent"]
  /\ sale' = ClearedCategory(g)
  /\ UNCHANGED <<customerRows, form>>

CreateCategory(g) ==
  /\ category[g] = "absent"
  /\ category' = [category EXCEPT ![g] = "active"]
  /\ UNCHANGED <<customerRows, sale, form>>

Refund(p) ==
  /\ sale[p].status = "paid"
  /\ sale' = [sale EXCEPT ![p].status = "refunded"]
  /\ UNCHANGED <<customerRows, category, form>>

-----------------------------------------------------------------------------
(* PATCH payments/:id/details.  The payment, the category and the customer   *)
(* are read without a lock, then written.                                    *)

Submit(f, work) == form' = [form EXCEPT ![f] = work]
Settle(f) == form' = [form EXCEPT ![f] = Nobody]
Busy(ops) == {f \in Forms : form[f] # Nobody /\ form[f].op \in ops}

\* The row lock of a payment that is being archived or restored.
Locked(p) == \E f \in Busy({"archive"}) : form[f].sale = p

Typed(c) == c \in CustomerIds /\ NewCustomer(c)

OpenDetails(f, p, g, c, scope) ==
  /\ form[f] = Nobody
  /\ sale[p].status = "paid" /\ ~sale[p].archived
  /\ category[g] = "active"
  /\ \/ c # Nobody /\ contact[c] = "known" /\ ~shelved[c] /\ Offered(scope, c)
     \/ Typed(c)
     \/ c = sale[p].customer                    \* none given: the payment's own
  /\ Submit(f, [op |-> "details", sale |-> p, category |-> g, customer |-> c,
                inline |-> Typed(c)])
  /\ UNCHANGED <<customerRows, category, sale>>

(* An id another request took meanwhile is not generated again. *)
CompleteDetails(f) ==
  /\ f \in Busy({"details"}) /\ ~Locked(form[f].sale)
  /\ LET w == form[f] IN
       /\ category[w.category] # "absent"
       /\ w.inline => NewCustomer(w.customer)
       /\ sale' = [sale EXCEPT ![w.sale].customer = w.customer,
                               ![w.sale].category = w.category]
       /\ contact' = IF w.inline THEN [contact EXCEPT ![w.customer] = "known"] ELSE contact
       /\ lastDay' = IF w.customer = Nobody THEN lastDay
                     ELSE [lastDay EXCEPT ![w.customer] = Max({@, Day[w.sale]})]
  /\ Settle(f)
  /\ UNCHANGED <<shelved, category>>

(* The category was deleted meanwhile: the foreign key aborts the request. *)
AbortDetails(f) ==
  /\ f \in Busy({"details"})
  /\ \/ category[form[f].category] = "absent"
     \/ form[f].inline /\ ~NewCustomer(form[f].customer)
  /\ Settle(f)
  /\ UNCHANGED <<customerRows, category, sale>>

-----------------------------------------------------------------------------
(* Archive, reactivate and restore of a payment: the second statement takes  *)
(* the newest day of the customer from its own snapshot, and may wait for    *)
(* the customer's row before it writes that day.                             *)

Newest(c, without, with) ==
  Max({0} \cup {Day[q] : q \in {p \in (Payments \ without) \cup with :
                  /\ sale[p].customer = c /\ sale[p].status = "paid"
                  /\ sale[p].archived => p \in with}})

OpenArchive(f, p, b) ==
  /\ form[f] = Nobody /\ ~Locked(p) /\ sale[p].archived # b
  /\ Submit(f, [op |-> "archive", sale |-> p, to |-> b, customer |-> sale[p].customer,
                newest |-> IF b THEN Newest(sale[p].customer, {p}, {})
                                ELSE Newest(sale[p].customer, {}, {p})])
  /\ UNCHANGED <<customerRows, category, sale>>

CommitArchive(f) ==
  /\ f \in Busy({"archive"})
  /\ LET w == form[f] IN
       /\ sale' = [sale EXCEPT ![w.sale].archived = w.to]
       /\ lastDay' = IF w.customer = Nobody THEN lastDay
                     ELSE [lastDay EXCEPT ![w.customer] = w.newest]
  /\ Settle(f)
  /\ UNCHANGED <<contact, shelved, category>>

-----------------------------------------------------------------------------
CustomersNext ==
  \/ \E c \in CustomerIds :
       \/ CreateCustomer(c)
       \/ \E s \in Scopes : UpdateCustomer(s, c) \/ EraseCustomer(s, c)
       \/ \E b \in BOOLEAN : ShelveCustomer(c, b)
  \/ \E g \in Categories :
       \/ CreateCategory(g) \/ DeleteCategory(g)
       \/ \E s \in {"active", "inactive"} : UpdateCategory(g, s)
  \/ \E p \in Payments : Refund(p)
  \/ \E f \in Forms :
       \/ \E p \in Payments, g \in Categories, c \in CustomerIds \cup {Nobody}, s \in Scopes :
            OpenDetails(f, p, g, c, s)
       \/ CompleteDetails(f) \/ AbortDetails(f)
       \/ \E p \in Payments, b \in BOOLEAN : OpenArchive(f, p, b)
       \/ CommitArchive(f)

-----------------------------------------------------------------------------
(* An erasure is final: a customer who was erased has no name and no contact  *)
(* again, whichever edit, restore or completion is under way when the erasure *)
(* commits (customers.routes.js, the deleted_at guards).                      *)
ErasedStaysErased ==
  [][\A c \in CustomerIds : contact[c] = "erased" => contact'[c] = "erased"]_customersVars

(* The list of customers shows the day of the newest counted purchase.  The   *)
(* code does not keep this: an archive that waits for the customer's row      *)
(* writes the day its snapshot found, and a refund or a payment given to      *)
(* another customer recounts nothing.                                         *)
LastPurchaseIsNewest ==
  \A c \in CustomerIds : lastDay[c] >= Newest(c, {}, {})
=============================================================================
