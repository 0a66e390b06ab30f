-------------------------------- MODULE Offers --------------------------------
(***************************************************************************)
(* Products fulfilled by a supplier, their offers and their margin:        *)
(* add_reloadly_product, seed_mock_products and set_product_active         *)
(* (app/cli.py), and the purchase as far as it reads products and offers   *)
(* (app/services/catalog.py).  Prices are in cents.                        *)
(*                                                                         *)
(* A product and its offer are written in one transaction, so one record   *)
(* stands for both.  What becomes of the order is SupplierPurchase's.      *)
(*                                                                         *)
(* Settings are read once by each process: by the shop when it starts, and *)
(* by each command of the CLI, which may find others than the shop has.    *)
(***************************************************************************)
EXTENDS Integers, FiniteSets

CONSTANTS
    Slug,       \* products.slug
    Card,       \* what a supplier sells: product, country and denomination
    MockCard,   \* the cards of the mock supplier
    SeedSlug, SeedCard, SeedPrice, \* MOCK_SEED_PRODUCTS: slugs, and per slug the rest
    MockCost,   \* the mock supplier's fixed costs
    Price,      \* what the operator may ask
    Cost,       \* what a card may cost at Reloadly
    Scale,      \* units of a cost in a cent
    Margins,    \* what settings.min_supplier_gross_margin_bps may be
    Task,       \* CLI commands and purchases
    None        \* no product, card, price or cost

ASSUME CardAssumption ==
    /\ MockCard \subseteq Card
    /\ SeedSlug \subseteq Slug
    /\ SeedCard \in [SeedSlug -> MockCard] /\ SeedPrice \in [SeedSlug -> Nat]
    /\ \A s, u \in SeedSlug : SeedCard[s] = SeedCard[u] => s = u
    /\ MockCost \in [MockCard -> Nat]
    /\ Price \subseteq Nat /\ Cost \subseteq Nat
ASSUME MarginAssumption ==
    /\ Scale \in Nat \ {0}
    /\ Margins \subseteq 0..5000

\* The margin asked for when a product was added is in no table.
Products == [card : Card, price : Nat, estimate : Nat, margin : Nat \cup {None},
             active : BOOLEAN]

Settings == [supplier : {"none", "mock", "reloadly"}, margin : Margins]

ASSUME NoneAssumption == None \notin Slug \cup Card \cup Nat \cup Products

VARIABLES
    product, \* per slug, the product with its offer
    cost,    \* per card, its cost at the supplier, or None when it is withdrawn
    config,  \* the settings the shop has read: active_giftcard_provider and the margin
    task     \* each task: its next await or transaction, and what it holds

vars == <<product, cost, config, task>>

SupplierOf(c) == IF c \in MockCard THEN "mock" ELSE "reloadly"

Held == [at : {"idle", "save", "reserve", "validate", "pause", "refund", "order"},
         slug : Slug \cup {None}, card : Card \cup {None},
         price : Nat \cup {None}, cost : Nat \cup {None}, margin : Nat \cup {None}]

TypeOK ==
    /\ product \in [Slug -> Products \cup {None}]
    /\ cost \in [Card -> Nat \cup {None}]
    /\ config \in Settings
    /\ task \in [Task -> Held]

Idle == [at |-> "idle", slug |-> None, card |-> None, price |-> None, cost |-> None,
         margin |-> None]

Init ==
    /\ product = [s \in Slug |-> None]
    /\ cost \in [Card -> Cost \cup {MockCost[c] : c \in MockCard}]
    /\ \A c \in Card : IF c \in MockCard THEN cost[c] = MockCost[c] ELSE cost[c] \in Cost
    /\ config \in Settings
    /\ task = [t \in Task |-> Idle]

Begin(t, step, s, c, p, x, m) ==
    /\ task[t] = Idle
    /\ task' = [task EXCEPT ![t] =
                   [at |-> step, slug |-> s, card |-> c, price |-> p, cost |-> x,
                    margin |-> m]]
Goto(t, step) == task' = [task EXCEPT ![t].at = step]
Return(t)     == task' = [task EXCEPT ![t] = Idle]

-----------------------------------------------------------------------------
(* Margins: (sale - cost) / sale >= m / 10000.                             *)

\* The purchase compares the price with the unrounded minimum ...
MarginKept(p, x, m) == p * (Scale * (10000 - m)) >= x * 10000

\* A bug the checks must catch: the minimum is rounded down.
MinimumRoundedDown(x, m) == (x * 10000) \div (Scale * (10000 - m))

\* ... and add_reloadly_product with the minimum rounded up to the cent.
MinimumCents(x, m) ==
    (x * 10000 + Scale * (10000 - m) - 1) \div (Scale * (10000 - m))

-----------------------------------------------------------------------------
(* The operator's commands.                                                *)

\* Reloadly still sells the card, and the price keeps the margin the command reads.
AddProduct(t, s, c, p, m) ==
    /\ c \notin MockCard
    /\ cost[c] # None
    /\ p >= MinimumCents(cost[c], m)
    /\ Begin(t, "save", s, c, p, cost[c], m)
    /\ UNCHANGED <<product, cost, config>>

Offered(c) == \E s \in Slug : product[s] # None /\ product[s].card = c

\* The slug and the offer are unique, in the command's queries and in the schema.
IsFree(s, c) == product[s] = None /\ ~Offered(c)

SaveProduct(t) ==
    LET a == task[t] IN
    /\ a.at = "save"
    /\ IF IsFree(a.slug, a.card)
       THEN \E on \in BOOLEAN :
               product' = [product EXCEPT ![a.slug] =
                   [card |-> a.card, price |-> a.price, estimate |-> a.cost,
                    margin |-> a.margin, active |-> on]]
       ELSE UNCHANGED product
    /\ Return(t)
    /\ UNCHANGED <<cost, config>>

\* The slugs are free or the mock supplier's, and so are the offers.
MaySeed ==
    \A s \in SeedSlug :
        /\ product[s] # None => SupplierOf(product[s].card) = "mock"
        /\ \A u \in Slug : product[u] # None /\ product[u].card = SeedCard[s] => u = s

\* All of them or none.  Seeding again restores price and estimate and activates
\* the products; their margin is not checked.
Seed ==
    /\ MaySeed
    /\ product' = [s \in Slug |->
           IF s \in SeedSlug
           THEN [card |-> SeedCard[s], price |-> SeedPrice[s],
                 estimate |-> MockCost[SeedCard[s]], margin |-> None, active |-> TRUE]
           ELSE product[s]]
    /\ UNCHANGED <<cost, config, task>>

SetActive(s, on) ==
    /\ product[s] # None
    /\ product' = [product EXCEPT ![s].active = on]
    /\ UNCHANGED <<cost, config, task>>

-----------------------------------------------------------------------------
(* A purchase.                                                             *)

\* The product is read without a lock, then the wallet's lock is awaited.
ReadProduct(t, s) ==
    /\ config.supplier # "none"
    /\ product[s] # None /\ product[s].active
    /\ Begin(t, "reserve", s, None, product[s].price, None, None)
    /\ UNCHANGED <<product, cost, config>>

\* A bug the checks must catch: an offer of any supplier.
OfferOf(s) == product[s].card

\* An offer of the supplier that is configured, or none.
ActiveOffer(s) ==
    IF SupplierOf(product[s].card) = config.supplier THEN product[s].card ELSE None

\* The customer pays the price that was read.
Reserve(t) ==
    LET c == ActiveOffer(task[t].slug) IN
    /\ task[t].at = "reserve"
    /\ IF c = None THEN Return(t)
       ELSE task' = [task EXCEPT ![t].at = "validate", ![t].card = c]
    /\ UNCHANGED <<product, cost, config>>

\* A bug the checks must catch: the cost known when the offer was added is used.
AcceptsEstimate(t, x) ==
    x # None /\ MarginKept(task[t].price, product[task[t].slug].estimate, config.margin)

\* What the supplier tells now decides.
Accepts(t, x) == x # None /\ MarginKept(task[t].price, x, config.margin)

Validate(t) ==
    LET x == cost[task[t].card] IN
    /\ task[t].at = "validate"
    /\ task' = [task EXCEPT ![t].at = IF Accepts(t, x) THEN "order" ELSE "pause",
                            ![t].cost = x]
    /\ UNCHANGED <<product, cost, config>>

\* get_product fails: the order is refunded, the product stays on sale.
ValidateRaises(t) ==
    /\ task[t].at = "validate"
    /\ Goto(t, "refund")
    /\ UNCHANGED <<product, cost, config>>

Pause(t) ==
    /\ task[t].at = "pause"
    /\ product' = [product EXCEPT ![task[t].slug].active = FALSE]
    /\ Goto(t, "refund")
    /\ UNCHANGED <<cost, config>>

Finish(t) ==
    /\ task[t].at \in {"refund", "order"}
    /\ Return(t)
    /\ UNCHANGED <<product, cost, config>>

-----------------------------------------------------------------------------
(* The supplier, the settings and restarts.                                *)

ChangeCost(c) ==
    /\ c \notin MockCard
    /\ \E x \in Cost \cup {None} : cost' = [cost EXCEPT ![c] = x]
    /\ UNCHANGED <<product, config, task>>

\* The shop starts again and reads every setting anew.  Its purchases are gone;
\* a command of the CLI is a process of its own.
Restart ==
    /\ config' \in Settings
    /\ task' = [t \in Task |-> IF task[t].at = "save" THEN task[t] ELSE Idle]
    /\ UNCHANGED <<product, cost>>

Next ==
    \/ \E t \in Task, s \in Slug, c \in Card, p \in Price, m \in Margins :
          AddProduct(t, s, c, p, m)
    \/ \E t \in Task, s \in Slug : ReadProduct(t, s)
    \/ \E t \in Task :
          \/ SaveProduct(t)
          \/ Reserve(t) \/ Validate(t) \/ ValidateRaises(t) \/ Pause(t) \/ Finish(t)
    \/ \E s \in Slug, on \in BOOLEAN : SetActive(s, on)
    \/ \E c \in Card : ChangeCost(c)
    \/ Seed \/ Restart

Spec == Init /\ [][Next]_vars

-----------------------------------------------------------------------------
(* Properties.                                                             *)

\* No card is sold under two names, whatever commands run at the same time.
SoldUnderOneName ==
    \A s, u \in Slug :
        product[s] # None /\ product[u] # None /\ product[s].card = product[u].card
            => s = u

FromReloadly(s) == product[s] # None /\ product[s].card \notin MockCard

\* A product of Reloadly is priced to keep the margin that was asked for when it was
\* added, at the cost it had then, to the last fraction of a cent.
PricedForEstimate ==
    \A s \in Slug : LET p == product[s] IN
        FromReloadly(s) => p.margin \in Margins /\ MarginKept(p.price, p.estimate, p.margin)

\* A purchase takes a product of Reloadly off sale only if the card was withdrawn,
\* became dearer than it was when the product was added, or the shop has since been
\* started with a higher minimum margin: whatever the settings of each process, the
\* two roundings of the minimum price never disagree (app/cli.py:508-514,
\* app/services/catalog.py:510-513).
PauseHasCause ==
    [][\A t \in Task : LET s == task[t].slug IN
          Pause(t) /\ FromReloadly(s) =>
              \/ task[t].cost = None
              \/ task[t].cost > product[s].estimate
              \/ config.margin > product[s].margin]_vars

\* A card is ordered of the supplier it belongs to, and at the margin the shop was
\* started with, by the price the customer paid and the cost the supplier told after
\* that.
OrderedAtMargin ==
    \A t \in Task : task[t].at = "order" =>
        /\ SupplierOf(task[t].card) = config.supplier
        /\ task[t].cost # None
        /\ MarginKept(task[t].price, task[t].cost, config.margin)

\* What the operator put on sale keeps its card and price, whatever is seeded.
SeedingKeepsProducts ==
    [][\A s \in Slug : FromReloadly(s) =>
          product'[s] = [product[s] EXCEPT !.active = product'[s].active]]_vars

-----------------------------------------------------------------------------
(* The inductive invariant behind the safety properties.                   *)

\* What a command has checked, and what a purchase has read and was told, is
\* still true: prices and cards of Reloadly's products do not change.
TaskInv(t) ==
    LET a == task[t] IN
    /\ a.at = "save" =>
          /\ a.slug \in Slug /\ a.card \in Card \ MockCard
          /\ a.price \in Nat /\ a.cost \in Nat /\ a.margin \in Margins
          /\ MarginKept(a.price, a.cost, a.margin)
    /\ a.at \notin {"idle", "save"} =>
          /\ a.slug \in Slug /\ product[a.slug] # None /\ a.price \in Nat
          /\ FromReloadly(a.slug) => a.price = product[a.slug].price
    /\ a.at \in {"validate", "order"} =>
          a.card \in Card /\ SupplierOf(a.card) = config.supplier
    /\ a.at = "pause" => a.cost = None \/ ~MarginKept(a.price, a.cost, config.margin)

IInv ==
    /\ TypeOK
    /\ SoldUnderOneName
    /\ PricedForEstimate
    /\ OrderedAtMargin
    /\ \A t \in Task : TaskInv(t)
=============================================================================
