--------------------------------- MODULE Seed ---------------------------------
(***************************************************************************)
(* The seed script (packages/seed), run by hand beside first-run setup:    *)
(* the same upserts of tenant, permissions and roles, then staff users, a  *)
(* client, products with their prices, and a demo order with its invoice.  *)
(*                                                                         *)
(* Every statement commits by itself.  A run that stops half-way is        *)
(* followed by another one, which finds rows and skips them.  An upsert of *)
(* a row that is there changes nothing and is not a step, as in Setup.     *)
(***************************************************************************)
EXTENDS Setup, Naturals, Sequences

CONSTANTS
  SeedStaff,  \* the addresses of the seeded staff users
  Products,   \* productDefs
  Cycles      \* the billing cycles they have prices for

ASSUME SeedAssumption == SeedStaff \subseteq Emails /\ None \notin Seeds

\* The remaining upserts before the products, in their order.
DemoRows == <<"clientGroup", "client", "contact", "productGroup">>

VARIABLES
  demo,      \* which of DemoRows are there
  products,  \* Product rows
  prices,    \* how many open ProductPrice rows each product has for each cycle
  missing,   \* the price a run has found missing
  order,     \* the run that created the demo order
  invoices   \* the runs that issued an invoice for it

demoData == <<demo, products, prices, missing, order, invoices>>
seedVars == <<vars, demoData>>

Offers == Products \X Cycles

SeedInit ==
  /\ Init
  /\ demo = {} /\ products = {}
  /\ prices = [o \in Offers |-> 0]
  /\ missing = [s \in Seeds |-> <<>>]
  /\ order = None
  /\ invoices = {}

\* No look at the staff there: the script runs whatever there is.
SeedTenant(s) ==
  /\ pc[s] = "idle"
  /\ tenant' = TRUE
  /\ Goto(s, "permissions")
  /\ UNCHANGED <<permissions, roles, grants, staff, email, known>>

SeedPasswords(s) ==
  /\ pc[s] = "roles" /\ CatalogueWritten(s)
  /\ Goto(s, "staff")
  /\ UNCHANGED <<catalogue, staff, email, known>>

\* An address that is there keeps its row, whoever made it.
UpsertStaffUser(s) ==
  /\ pc[s] = "staff"
  /\ \E e \in SeedStaff :
       /\ ~EmailTaken(e) /\ ~EmailHeld(e)
       /\ staff' = [staff EXCEPT ![s] = @ \cup {e}]
  /\ UNCHANGED <<catalogue, pc, email, known>>

SeedCatalogue(s) ==
  /\ \/ SeedTenant(s) \/ UpsertPermission(s) \/ ReadPermissions(s)
     \/ UpsertRole(s) \/ UpsertRolePermission(s)
     \/ SeedPasswords(s) \/ UpsertStaffUser(s)
  /\ UNCHANGED demoData

StaffSeeded(s) ==
  /\ pc[s] = "staff"
  /\ \A e \in SeedStaff : EmailTaken(e)
  /\ Goto(s, "demo")
  /\ UNCHANGED <<catalogue, staff, email, known, demoData>>

-----------------------------------------------------------------------------

UpsertDemoRow(s) ==
  /\ pc[s] = "demo"
  /\ \E i \in 1..Len(DemoRows) :
       /\ DemoRows[i] \notin demo
       /\ \A j \in 1..(i - 1) : DemoRows[j] \in demo
       /\ demo' = demo \cup {DemoRows[i]}
  /\ UNCHANGED <<vars, products, prices, missing, order, invoices>>

DemoRowsThere == \A i \in 1..Len(DemoRows) : DemoRows[i] \in demo

UpsertProduct(s) ==
  /\ pc[s] = "demo" /\ DemoRowsThere
  /\ \E p \in Products \ products : products' = products \cup {p}
  /\ UNCHANGED <<vars, demo, prices, missing, order, invoices>>

\* Fault: any open price of the product will do.
Fault_Priced(o) == \E c \in Cycles : prices[<<o[1], c>>] > 0

\* existingPrice
Priced(o) == prices[o] > 0

FindNoPrice(s) ==
  /\ pc[s] = "demo"
  /\ \E o \in Offers :
       /\ o[1] \in products /\ ~Priced(o)
       /\ missing' = [missing EXCEPT ![s] = o]
  /\ Goto(s, "createPrice")
  /\ UNCHANGED <<catalogue, staff, email, known, demo, products, prices, order, invoices>>

\* Nothing keeps two runs from creating a price they both found missing.
CreatePrice(s) ==
  /\ pc[s] = "createPrice"
  /\ prices' = [prices EXCEPT ![missing[s]] = @ + 1]
  /\ missing' = [missing EXCEPT ![s] = <<>>]
  /\ Goto(s, "demo")
  /\ UNCHANGED <<catalogue, staff, email, known, demo, products, order, invoices>>

FindOrder(s) ==
  /\ pc[s] = "demo" /\ DemoRowsThere
  /\ products = Products /\ \A o \in Offers : Priced(o)
  /\ Goto(s, IF order # None THEN "seeded" ELSE "createOrder")
  /\ UNCHANGED <<catalogue, staff, email, known, demoData>>

\* Fault: the invoice is left to a later run.
Fault_CreateOrder(s) ==
  /\ pc[s] = "createOrder"
  /\ order' = IF order = None THEN s ELSE order
  /\ Goto(s, "seeded")
  /\ UNCHANGED <<catalogue, staff, email, known, demo, products, prices, missing, invoices>>

\* createOrder returns the order another run has made with the same key.
CreateOrder(s) ==
  /\ pc[s] = "createOrder"
  /\ order' = IF order = None THEN s ELSE order
  /\ Goto(s, "issue")
  /\ UNCHANGED <<catalogue, staff, email, known, demo, products, prices, missing, invoices>>

IssueInvoice(s) ==
  /\ pc[s] = "issue"
  /\ invoices' = invoices \cup {s}
  /\ Goto(s, "seeded")
  /\ UNCHANGED <<catalogue, staff, email, known, demo, products, prices, missing, order>>

SeedDemo(s) ==
  \/ StaffSeeded(s) \/ UpsertDemoRow(s) \/ UpsertProduct(s)
  \/ FindNoPrice(s) \/ CreatePrice(s)
  \/ FindOrder(s) \/ CreateOrder(s) \/ IssueInvoice(s)

SeedNext ==
  \/ \E s \in Submissions : Submit(s) /\ UNCHANGED demoData
  \/ \E s \in Seeds : SeedCatalogue(s) \/ SeedDemo(s)
  \/ \E s \in Runs : Fail(s) /\ UNCHANGED demoData

SeedSpec == SeedInit /\ [][SeedNext]_seedVars

-----------------------------------------------------------------------------
(* Properties *)

\* Type invariant.
SeedTypeOK ==
  /\ TypeOK
  /\ demo \subseteq {DemoRows[i] : i \in 1..Len(DemoRows)}
  /\ products \subseteq Products
  /\ prices \in [Offers -> Nat]
  /\ missing \in [Seeds -> Offers \cup {<<>>}]
  /\ order \in Seeds \cup {None}
  /\ invoices \subseteq Seeds

\* A run that comes to its end leaves everything there, whatever earlier runs,
\* runs beside it and the setup form have left half-done.
SeededIsWhole ==
  \A s \in Seeds : pc[s] = "seeded" =>
    /\ permissions = Permissions /\ grants = DefaultGrants
    /\ \A e \in SeedStaff : EmailTaken(e)
    /\ DemoRowsThere
    /\ \A o \in Offers : prices[o] > 0
    /\ order # None

\* A demo order without an invoice goes back to a run that is about to issue it
\* or stopped there: later runs find the order and leave it unbilled.
UnbilledExplained ==
  order # None /\ invoices = {} => pc[order] \in {"issue", "failed"}
=============================================================================
