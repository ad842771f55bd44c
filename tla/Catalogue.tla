------------------------------- MODULE Catalogue -------------------------------
(***************************************************************************)
(* A product on its way from the staff's form to a client's order: the     *)
(* group, the product and its monthly price are three commits              *)
(* (createProductGroupAction, createProductAction), the products page      *)
(* looks the price up for everybody (listPublicCatalog, ProductsPage), and *)
(* an order, which the page offers only next to a price, looks it up again *)
(* for the client's group (createOrder).                                   *)
(*                                                                         *)
(* Composes with Prices: a creation whose form gives a price goes on as    *)
(* the price change of the same name.  One slug, one billing cycle.        *)
(***************************************************************************)
EXTENDS Prices

CONSTANTS
  Creations,  \* submissions of the new-product form
  Pages,      \* the lookups of products pages
  Orders      \* the lookups of orders

ASSUME CatalogueAssumption ==
  /\ Creations \subseteq Changes
  /\ Pages \cup Orders = Lookups /\ Pages \cap Orders = {}
  /\ 0 \in Leads

VARIABLES
  group,    \* the product group is there
  product,  \* the creation whose product is there, or None
  creating  \* the next step of each creation, or how it ended

listing == <<group, product, creating>>
catalogueVars == <<vars, listing>>

CatalogueInit ==
  /\ Init
  /\ group = FALSE
  /\ product = None
  /\ creating = [c \in Creations |-> "idle"]

createProductGroup ==
  /\ ~group
  /\ group' = TRUE
  /\ UNCHANGED <<vars, product, creating>>

\* The form asks for a name and a slug and does nothing else.
createProductGroupAction == createProductGroup

\* The slug is taken, or the product is committed; the form may leave the
\* price out.
CreateProduct(c) ==
  /\ creating[c] = "idle" /\ group
  /\ \/ /\ product # None
        /\ creating' = [creating EXCEPT ![c] = "failed"]
        /\ UNCHANGED product
     \/ /\ product = None
        /\ product' = c
        /\ \E step \in {"setPrice", "unpriced"} :
             creating' = [creating EXCEPT ![c] = step]
  /\ UNCHANGED <<vars, group>>

FromNowForAll(c) == form'[c] = [scope |-> NoGroup, from |-> now]

\* Fault: the price is meant for a group.
Fault_PriceProduct(c) ==
  /\ creating[c] = "setPrice"
  /\ SubmitPrice(c)
  /\ creating' = [creating EXCEPT ![c] = "priced"]
  /\ UNCHANGED <<group, product>>

\* The second transaction, for every client and from now on.
PriceProduct(c) ==
  /\ creating[c] = "setPrice"
  /\ SubmitPrice(c) /\ FromNowForAll(c)
  /\ creating' = [creating EXCEPT ![c] = "priced"]
  /\ UNCHANGED <<group, product>>

\* The server stops between the two.
LoseCreation(c) ==
  /\ creating[c] = "setPrice"
  /\ creating' = [creating EXCEPT ![c] = "lost"]
  /\ UNCHANGED <<vars, group, product>>

createProductAction(c) == CreateProduct(c) \/ PriceProduct(c) \/ LoseCreation(c)

\* setProductPrice: a later change needs a product to be about.
setProductPrice(c) ==
  /\ \/ c \notin Creations /\ product # None /\ SubmitPrice(c)
     \/ ReadOpenRow(c) \/ CommitPrice(c) \/ AbortPrice(c)
  /\ UNCHANGED listing

getCurrentPrice(l) ==
  /\ ReadGroupPrice(l) \/ ReadDefaultPrice(l)
  /\ UNCHANGED listing

\* A product there is asked for on behalf of no group.
ListProduct(p) ==
  /\ product # None
  /\ AskPrice(p) /\ asked'[p].scope = NoGroup
  /\ UNCHANGED listing

\* Fault: the form is there whatever the price.
Fault_Offered == \E p \in Pages : pc[p] \in {"done", "unpriced"}

\* The page shows the order form next to a price it has found.
Offered == \E p \in Pages : pc[p] = "done"

OrderProduct(o) ==
  /\ Offered
  /\ AskPrice(o)
  /\ UNCHANGED listing

CatalogueNext ==
  \/ createProductGroupAction
  \/ \E c \in Creations : createProductAction(c)
  \/ \E c \in Changes : setProductPrice(c)
  \/ \E p \in Pages : ListProduct(p)
  \/ \E o \in Orders : OrderProduct(o)
  \/ \E l \in Lookups : getCurrentPrice(l)
  \/ Tick /\ UNCHANGED listing

CatalogueSpec == CatalogueInit /\ [][CatalogueNext]_catalogueVars

-----------------------------------------------------------------------------
(* Properties *)

\* Type invariant.
ListingOK ==
  /\ TypeOK
  /\ group \in BOOLEAN
  /\ product \in Creations \cup {None}
  /\ creating \in [Creations ->
       {"idle", "setPrice", "unpriced", "priced", "failed", "lost"}]

\* An order the products page offered never ends in "order.no_price": what
\* the page found for everybody, an order finds at any later instant, for any
\* group, however often the price changes in between.
OfferedIsOrderable == \A o \in Orders : pc[o] # "unpriced"

\* A product is listed without any default price only if its form gave none,
\* or createProductAction is still between its two commits, was lost there or
\* failed in the second one.
UnpricedExplained ==
  product # None /\ Rows(NoGroup) = {} =>
    \/ creating[product] \in {"unpriced", "setPrice", "lost"}
    \/ pc[product] \in {"read", "commit", "aborted"}
=============================================================================
