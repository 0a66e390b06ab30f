----------------------------- MODULE OffersProofs -----------------------------
(***************************************************************************)
(* Proofs about Offers, for every margin, scale, price and cost: the two   *)
(* roundings of the minimum price agree, and with them the commands and    *)
(* the purchases that apply them.                                          *)
(***************************************************************************)
EXTENDS Offers, TLAPS

-----------------------------------------------------------------------------
(* Rounding.                                                               *)

\* A whole number reaches n / d when it reaches n / d rounded up.
LEMMA Ceiling ==
    ASSUME NEW n \in Nat, NEW d \in Nat \ {0}, NEW p \in Nat
    PROVE  p >= (n + d - 1) \div d <=> p * d >= n
<1> DEFINE q == (n + d - 1) \div d
           r == (n + d - 1) % d
<1>1. q \in Int /\ r \in 0..(d - 1) /\ n + d - 1 = d * q + r
    OBVIOUS
<1>2. PICK k \in Int : k = q
    BY <1>1
<1>3. n + d - 1 >= d * k /\ d * k >= n
    BY <1>1, <1>2
<1>4. CASE p >= k
    <2>1. d * p >= d * k
        BY <1>4
    <2> QED
        BY <2>1, <1>2, <1>3, <1>4
<1>5. CASE p < k
    <2>1. p + 1 <= k
        BY <1>5
    <2>2. d * (p + 1) <= d * k
        BY <2>1
    <2>3. d * p + d <= d * k
        BY <2>2
    <2>4. ~(p * d >= n)
        BY <2>3, <1>3
    <2> QED
        BY <2>4, <1>2, <1>5
<1> QED
    BY <1>4, <1>5, <1>2

\* Margins are numbers of basis points.
LEMMA MarginTypes == \A m \in Margins : m \in Nat /\ 10000 - m \in Nat \ {0}
<1>1. TAKE m \in Margins
<1>2. m \in 0..5000
    BY MarginAssumption
<1> QED
    BY <1>2

\* Two processes that read the same margin agree on the price: the minimum that
\* add_reloadly_product rounds up to the cent is the one the purchase checks
\* unrounded.
THEOREM RoundingsAgree ==
    ASSUME NEW p \in Nat, NEW x \in Nat, NEW m \in Margins
    PROVE  p >= MinimumCents(x, m) <=> MarginKept(p, x, m)
<1> DEFINE d == Scale * (10000 - m)
<1>1. PICK b \in Nat \ {0} : b = 10000 - m
    BY MarginTypes
<1>2. Scale * b \in Nat \ {0}
    BY <1>1, MarginAssumption
<1>3. PICK e \in Nat \ {0} : e = d
    BY <1>1, <1>2
<1>4. p >= (x * 10000 + e - 1) \div e <=> p * e >= x * 10000
    BY Ceiling
<1> QED
    BY <1>3, <1>4 DEF MinimumCents, MarginKept

\* If a price keeps one margin at one cost and not another margin at another cost,
\* the other cost or the other margin is higher.
LEMMA DearerCost ==
    ASSUME NEW p \in Nat, NEW x \in Nat, NEW y \in Nat,
           NEW m \in Margins, NEW n \in Margins,
           MarginKept(p, x, m), ~MarginKept(p, y, n)
    PROVE  y > x \/ n > m
<1> SUFFICES ASSUME ~(y > x), ~(n > m) PROVE FALSE
    OBVIOUS
<1>1. PICK b \in Nat, c \in Nat, k \in Nat : b = 10000 - m /\ c = b + k /\ c = 10000 - n
  <2>1. 10000 - m \in Nat /\ m - n \in Nat /\ 10000 - n = (10000 - m) + (m - n)
      BY MarginTypes
  <2> QED
      BY <2>1
<1>2. PICK w \in Nat : w = Scale
    BY MarginAssumption
<1>3. w * k \in Nat /\ w * b \in Nat /\ w * c = w * b + w * k
    BY <1>1
<1>4. PICK f \in Nat, g \in Nat : f = w * b /\ g = w * k
    BY <1>3
<1>5. p * g \in Nat /\ p * f \in Nat /\ p * (f + g) = p * f + p * g
    BY <1>4
<1>6. p * f >= x * 10000
    BY <1>1, <1>2, <1>4 DEF MarginKept
<1>7. ~(p * (f + g) >= y * 10000)
    BY <1>1, <1>2, <1>3, <1>4 DEF MarginKept
<1> QED
    BY <1>5, <1>6, <1>7

-----------------------------------------------------------------------------
(* The inductive invariant.                                                *)

USE CardAssumption, NoneAssumption
USE DEF Settings

\* An idle task holds nothing.
LEMMA IdleIsHeld == Idle \in Held /\ Idle.at = "idle"
BY DEF Idle, Held

\* At first there are no products, and no task has begun.
LEMMA InitInv == Init => IInv
<1> SUFFICES ASSUME Init PROVE IInv
    OBVIOUS
<1>1. TypeOK
    BY DEF Init, TypeOK, Held, Idle
<1>2. SoldUnderOneName /\ PricedForEstimate
    BY DEF Init, SoldUnderOneName, PricedForEstimate, FromReloadly
<1>3. OrderedAtMargin /\ \A t \in Task : TaskInv(t)
    BY DEF Init, OrderedAtMargin, TaskInv, Idle
<1> QED
    BY <1>1, <1>2, <1>3 DEF IInv

\* Products keep everything but their visibility.
KeepsProducts ==
    /\ product' \in [Slug -> Products \cup {None}]
    /\ \A s \in Slug : product[s] # None <=> product'[s] # None
    /\ \A s \in Slug : product[s] # None =>
          /\ product'[s].card = product[s].card
          /\ product'[s].price = product[s].price
          /\ product'[s].estimate = product[s].estimate
          /\ product'[s].margin = product[s].margin

SetsActive(s, on) ==
    product[s] # None /\ product' = [product EXCEPT ![s].active = on]

LEMMA SetsActiveKeeps ==
    ASSUME TypeOK, NEW s \in Slug, NEW on \in BOOLEAN, SetsActive(s, on)
    PROVE  KeepsProducts
<1>1. PICK p \in Products : p = product[s]
    BY DEF TypeOK, SetsActive
<1>2. None \notin Products
    OBVIOUS
<1>3. PICK q : q = [p EXCEPT !.active = on]
    OBVIOUS
<1>4. q \in Products /\ q.card = p.card /\ q.price = p.price /\ q.estimate = p.estimate
      /\ q.margin = p.margin
    BY <1>3 DEF Products
<1>5. product' = [product EXCEPT ![s] = q]
    BY <1>1, <1>3 DEF SetsActive
<1> QED
    BY <1>1, <1>2, <1>4, <1>5 DEF TypeOK, KeepsProducts

\* A purchase holds the price it has read.
LEMMA ReadProductInv ==
    ASSUME IInv, NEW t \in Task, NEW s \in Slug, ReadProduct(t, s)
    PROVE  IInv'
<1> USE DEF ReadProduct, Begin, Idle
<1>1. TypeOK'
    BY DEF IInv, TypeOK, Products, Held
<1>2. SoldUnderOneName'
    BY DEF IInv, TypeOK, Products, SoldUnderOneName
<1>3. PricedForEstimate'
    BY DEF IInv, TypeOK, Products, PricedForEstimate, FromReloadly
<1>4. OrderedAtMargin'
    BY DEF IInv, TypeOK, OrderedAtMargin, TaskInv, SupplierOf
<1>5. (\A u \in Task : TaskInv(u))'
    BY DEF IInv, TypeOK, Products, TaskInv, FromReloadly, SupplierOf
<1> QED
    BY <1>1, <1>2, <1>3, <1>4, <1>5 DEF IInv

\* The offer is one of the configured supplier.
LEMMA ReserveInv ==
    ASSUME IInv, NEW t \in Task, Reserve(t)
    PROVE  IInv'
<1>1. /\ task[t].at = "reserve" /\ UNCHANGED <<product, cost, config>>
      /\ task[t].slug \in Slug /\ product[task[t].slug] # None
    BY DEF IInv, TaskInv, Reserve
<1>2. PICK h \in Held :
        /\ task' = [task EXCEPT ![t] = h]
        /\ h.at \in {"idle", "validate"}
        /\ h.at = "validate" =>
              /\ h.slug = task[t].slug /\ h.price = task[t].price
              /\ h.card \in Card /\ SupplierOf(h.card) = config.supplier
    <2>1. CASE ActiveOffer(task[t].slug) = None
        BY <1>1, <2>1, IdleIsHeld DEF Reserve, Return, Idle
    <2>2. CASE ActiveOffer(task[t].slug) # None
        <3>1. PICK c \in Card : c = ActiveOffer(task[t].slug) /\ SupplierOf(c) = config.supplier
            <4>1. PICK p \in Products : p = product[task[t].slug]
                BY <1>1 DEF IInv, TypeOK
            <4>2. p.card \in Card
                BY DEF Products
            <4> QED
                BY <2>2, <4>1, <4>2 DEF ActiveOffer
        <3>2. PICK h \in Held : h = [task[t] EXCEPT !.at = "validate", !.card = c]
            <4>1. PICK g \in Held : g = task[t]
                BY DEF IInv, TypeOK
            <4>2. [g EXCEPT !.at = "validate", !.card = c] \in Held
                BY DEF Held
            <4> QED
                BY <4>1, <4>2
        <3>3. task' = [task EXCEPT ![t] = h]
            BY <2>2, <3>1, <3>2 DEF Reserve
        <3>4. h.at = "validate" /\ h.slug = task[t].slug /\ h.price = task[t].price
                /\ h.card = c
            BY <3>2 DEF IInv, TypeOK, Held
        <3> QED
            BY <3>1, <3>3, <3>4
    <2> QED
        BY <2>1, <2>2
<1>3. TypeOK'
    BY <1>1, <1>2 DEF IInv, TypeOK
<1>4. SoldUnderOneName' /\ PricedForEstimate'
    BY <1>1 DEF IInv, SoldUnderOneName, PricedForEstimate, FromReloadly
<1>5. OrderedAtMargin'
    BY <1>1, <1>2 DEF IInv, TypeOK, OrderedAtMargin, SupplierOf
<1>6. ASSUME NEW u \in Task PROVE TaskInv(u)'
    <2>1. CASE u = t
        BY <1>1, <1>2, <2>1 DEF IInv, TypeOK, TaskInv, FromReloadly, SupplierOf
    <2>2. CASE u # t
        BY <1>1, <1>2, <2>2 DEF IInv, TypeOK, TaskInv, FromReloadly, SupplierOf
    <2> QED
        BY <2>1, <2>2
<1> QED
    BY <1>3, <1>4, <1>5, <1>6 DEF IInv

\* The cost the supplier tells decides between order and pause.
LEMMA ValidateInv ==
    ASSUME IInv, NEW t \in Task, Validate(t)
    PROVE  IInv'
<1>1. task[t].at = "validate" /\ task[t].card \in Card /\ task[t].slug \in Slug
        /\ task[t].price \in Nat /\ SupplierOf(task[t].card) = config.supplier
    BY DEF IInv, TaskInv, Validate
<1>2. PICK x \in Nat \cup {None} : x = cost[task[t].card]
    BY <1>1 DEF IInv, TypeOK
<1>3. PICK b \in BOOLEAN : b = Accepts(t, x)
    BY DEF Accepts
<1>4. /\ task' = [task EXCEPT ![t].at = IF b THEN "order" ELSE "pause", ![t].cost = x]
      /\ UNCHANGED <<product, cost, config>>
    BY <1>2, <1>3 DEF Validate
<1>5. TypeOK'
    <2>1. PICK step \in {"order", "pause"} : step = IF b THEN "order" ELSE "pause"
        OBVIOUS
    <2>2. PICK g \in Held : g = task[t]
        BY DEF IInv, TypeOK
    <2>3. PICK h : h = [g EXCEPT !.at = step, !.cost = x]
        OBVIOUS
    <2>4. h \in Held
        BY <2>1, <2>3, <1>2 DEF Held
    <2>5. task' = [task EXCEPT ![t] = h]
        BY <1>4, <2>1, <2>2, <2>3
    <2>6. product' = product /\ cost' = cost /\ config' = config
        BY <1>4
    <2> QED
        BY <2>4, <2>5, <2>6 DEF IInv, TypeOK
<1>6. SoldUnderOneName' /\ PricedForEstimate'
    BY <1>4 DEF IInv, SoldUnderOneName, PricedForEstimate, FromReloadly
<1>7. b => x # None /\ MarginKept(task[t].price, x, config.margin)
    BY <1>3 DEF Accepts
<1>8. ~b => x = None \/ ~MarginKept(task[t].price, x, config.margin)
    BY <1>3 DEF Accepts
<1>9. OrderedAtMargin'
    BY <1>1, <1>4, <1>7 DEF IInv, TypeOK, OrderedAtMargin, SupplierOf
<1>10. (\A u \in Task : TaskInv(u))'
    BY <1>1, <1>4, <1>8 DEF IInv, TypeOK, TaskInv, FromReloadly, SupplierOf
<1> QED
    BY <1>5, <1>6, <1>9, <1>10 DEF IInv

\* A refund asks for nothing.
LEMMA ValidateRaisesInv ==
    ASSUME IInv, NEW t \in Task, ValidateRaises(t)
    PROVE  IInv'
<1> USE DEF ValidateRaises, Goto
<1>1. TypeOK'
    BY DEF IInv, TypeOK, Products, Held
<1>2. SoldUnderOneName'
    BY DEF IInv, TypeOK, Products, SoldUnderOneName
<1>3. PricedForEstimate'
    BY DEF IInv, TypeOK, Products, PricedForEstimate, FromReloadly
<1>4. OrderedAtMargin'
    BY DEF IInv, TypeOK, OrderedAtMargin, TaskInv, SupplierOf
<1>5. (\A u \in Task : TaskInv(u))'
    BY DEF IInv, TypeOK, Products, TaskInv, FromReloadly, SupplierOf
<1> QED
    BY <1>1, <1>2, <1>3, <1>4, <1>5 DEF IInv

\* Only the product's visibility changes.
LEMMA PauseInv ==
    ASSUME IInv, NEW t \in Task, Pause(t)
    PROVE  IInv'
<1>1. task[t].at = "pause" /\ task[t].slug \in Slug /\ product[task[t].slug] # None
    BY DEF IInv, TaskInv, Pause
<1>2. PICK s \in Slug : s = task[t].slug
    BY <1>1
<1>3. SetsActive(s, FALSE)
    BY <1>1, <1>2 DEF Pause, SetsActive
<1>4. /\ task' = [task EXCEPT ![t].at = "refund"]
      /\ UNCHANGED <<cost, config>>
    BY DEF Pause, Goto
<1>5. KeepsProducts
    BY <1>3, SetsActiveKeeps DEF IInv
<1>6. /\ TypeOK'
      /\ SoldUnderOneName'
      /\ PricedForEstimate'
    <2>1. TypeOK'
        <3>1. PICK h \in Held : h = [task[t] EXCEPT !.at = "refund"]
            <4>1. PICK g \in Held : g = task[t]
                BY DEF IInv, TypeOK
            <4>2. [g EXCEPT !.at = "refund"] \in Held
                BY DEF Held
            <4> QED
                BY <4>1, <4>2
        <3>2. task' = [task EXCEPT ![t] = h]
            BY <1>4, <3>1
        <3>3. cost' = cost /\ config' = config
            BY <1>4
        <3> QED
            BY <1>5, <3>2, <3>3 DEF IInv, TypeOK, KeepsProducts
    <2>2. SoldUnderOneName'
        BY <1>5 DEF IInv, KeepsProducts, SoldUnderOneName
    <2>3. PricedForEstimate'
        BY <1>5 DEF IInv, KeepsProducts, PricedForEstimate, FromReloadly
    <2> QED
        BY <2>1, <2>2, <2>3
<1>7. OrderedAtMargin'
    BY <1>4 DEF IInv, TypeOK, OrderedAtMargin, SupplierOf
<1>8. (\A u \in Task : TaskInv(u))'
    BY <1>1, <1>4, <1>5 DEF IInv, TypeOK, TaskInv, KeepsProducts, FromReloadly, SupplierOf
<1> QED
    BY <1>6, <1>7, <1>8 DEF IInv

\* A task ends.
LEMMA FinishInv ==
    ASSUME IInv, NEW t \in Task, Finish(t)
    PROVE  IInv'
<1> USE DEF Finish, Return, Idle
<1>1. TypeOK'
    BY DEF IInv, TypeOK, Products, Held
<1>2. SoldUnderOneName'
    BY DEF IInv, TypeOK, Products, SoldUnderOneName
<1>3. PricedForEstimate'
    BY DEF IInv, TypeOK, Products, PricedForEstimate, FromReloadly
<1>4. OrderedAtMargin'
    BY DEF IInv, TypeOK, OrderedAtMargin, TaskInv, SupplierOf
<1>5. (\A u \in Task : TaskInv(u))'
    BY DEF IInv, TypeOK, Products, TaskInv, FromReloadly, SupplierOf
<1> QED
    BY <1>1, <1>2, <1>3, <1>4, <1>5 DEF IInv

\* The operator changes the product's visibility only.
LEMMA SetActiveInv ==
    ASSUME IInv, NEW s \in Slug, NEW on \in BOOLEAN, SetActive(s, on)
    PROVE  IInv'
<1>1. UNCHANGED <<cost, config, task>>
    BY DEF SetActive
<1>2. KeepsProducts
    BY SetsActiveKeeps DEF IInv, SetActive, SetsActive
<1>3. TypeOK' /\ SoldUnderOneName' /\ PricedForEstimate'
    BY <1>1, <1>2 DEF IInv, TypeOK, KeepsProducts, SoldUnderOneName, PricedForEstimate,
       FromReloadly
<1>4. OrderedAtMargin'
    BY <1>1 DEF IInv, OrderedAtMargin, SupplierOf
<1>5. (\A u \in Task : TaskInv(u))'
    BY <1>1, <1>2 DEF IInv, TaskInv, KeepsProducts, FromReloadly, SupplierOf
<1> QED
    BY <1>3, <1>4, <1>5 DEF IInv

\* What a task was told stays what it was told.
LEMMA ChangeCostInv ==
    ASSUME IInv, NEW c \in Card, ChangeCost(c)
    PROVE  IInv'
<1> USE DEF ChangeCost
<1>1. TypeOK'
    BY DEF IInv, TypeOK, Products, Held
<1>2. SoldUnderOneName'
    BY DEF IInv, TypeOK, Products, SoldUnderOneName
<1>3. PricedForEstimate'
    BY DEF IInv, TypeOK, Products, PricedForEstimate, FromReloadly
<1>4. OrderedAtMargin'
    BY DEF IInv, TypeOK, OrderedAtMargin, TaskInv, SupplierOf
<1>5. (\A u \in Task : TaskInv(u))'
    BY DEF IInv, TypeOK, Products, TaskInv, FromReloadly, SupplierOf
<1> QED
    BY <1>1, <1>2, <1>3, <1>4, <1>5 DEF IInv

\* No task survives a restart.
LEMMA RestartInv ==
    ASSUME IInv, Restart
    PROVE  IInv'
<1> USE DEF Restart, Idle
<1>1. TypeOK'
    BY DEF IInv, TypeOK, Products, Held
<1>2. SoldUnderOneName'
    BY DEF IInv, TypeOK, Products, SoldUnderOneName
<1>3. PricedForEstimate'
    BY DEF IInv, TypeOK, Products, PricedForEstimate, FromReloadly
<1>4. OrderedAtMargin'
    BY DEF IInv, TypeOK, OrderedAtMargin, TaskInv, SupplierOf
<1>5. (\A u \in Task : TaskInv(u))'
    BY DEF IInv, TypeOK, Products, TaskInv, FromReloadly, SupplierOf
<1> QED
    BY <1>1, <1>2, <1>3, <1>4, <1>5 DEF IInv

\* The command goes on with a price that keeps the margin at the cost it was told.
LEMMA AddProductInv ==
    ASSUME IInv, NEW t \in Task, NEW s \in Slug, NEW c \in Card, NEW p \in Price,
           NEW m \in Margins, AddProduct(t, s, c, p, m)
    PROVE  IInv'
<1>1. PICK x \in Nat : x = cost[c]
    BY DEF IInv, TypeOK, AddProduct
<1>2. p \in Nat /\ c \in Card \ MockCard /\ m \in Nat
  <2>1. p \in Nat
      BY CardAssumption
  <2>2. c \notin MockCard
      BY DEF AddProduct
  <2>3. m \in Nat
      BY MarginTypes
  <2> QED
      BY <2>1, <2>2, <2>3
<1>3. MarginKept(p, x, m)
  <2>1. p >= MinimumCents(x, m)
      BY <1>1 DEF AddProduct
  <2> QED
      BY <1>2, <2>1, RoundingsAgree
<1>4. /\ task' = [task EXCEPT ![t] =
             [at |-> "save", slug |-> s, card |-> c, price |-> p, cost |-> x,
              margin |-> m]]
      /\ UNCHANGED <<product, cost, config>>
    BY <1>1 DEF AddProduct, Begin
<1>5. TypeOK'
    BY <1>2, <1>4 DEF IInv, TypeOK, Held
<1>6. SoldUnderOneName' /\ PricedForEstimate'
    BY <1>4 DEF IInv, SoldUnderOneName, PricedForEstimate, FromReloadly
<1>7. OrderedAtMargin'
    BY <1>4 DEF IInv, TypeOK, OrderedAtMargin, SupplierOf
<1>8. (\A u \in Task : TaskInv(u))'
    BY <1>2, <1>3, <1>4 DEF IInv, TypeOK, TaskInv, FromReloadly, SupplierOf
<1> QED
    BY <1>5, <1>6, <1>7, <1>8 DEF IInv

\* A product that is saved has a slug and a card nobody had.
LEMMA SaveProductInv ==
    ASSUME IInv, NEW t \in Task, SaveProduct(t)
    PROVE  IInv'
<1>1. PICK s \in Slug, c \in Card, p \in Nat, x \in Nat, m \in Margins :
        /\ task[t].slug = s /\ task[t].card = c /\ task[t].price = p /\ task[t].cost = x
        /\ task[t].margin = m /\ c \notin MockCard /\ MarginKept(p, x, m)
    BY DEF IInv, TaskInv, SaveProduct
<1>2. UNCHANGED <<cost, config>> /\ task' = [task EXCEPT ![t] = Idle]
    BY DEF SaveProduct, Return
<1>3. CASE UNCHANGED product
    <2>1. TypeOK'
        BY <1>2, <1>3 DEF IInv, TypeOK, Held, Idle
    <2>2. SoldUnderOneName' /\ PricedForEstimate'
        BY <1>3 DEF IInv, SoldUnderOneName, PricedForEstimate, FromReloadly
    <2>3. OrderedAtMargin'
        BY <1>2 DEF IInv, TypeOK, OrderedAtMargin, SupplierOf, Idle
    <2>4. (\A u \in Task : TaskInv(u))'
        BY <1>2, <1>3 DEF IInv, TypeOK, TaskInv, FromReloadly, SupplierOf, Idle
    <2> QED
        BY <2>1, <2>2, <2>3, <2>4 DEF IInv
<1>4. CASE IsFree(s, c) /\ product' # product
    <2>1. PICK on \in BOOLEAN : product' = [product EXCEPT ![s] =
            [card |-> c, price |-> p, estimate |-> x, margin |-> m, active |-> on]]
        BY <1>1, <1>4 DEF SaveProduct
    <2>2. PICK q \in Products :
            q = [card |-> c, price |-> p, estimate |-> x, margin |-> m, active |-> on]
        <3>1. m \in Nat
            BY MarginTypes
        <3> QED
            BY <3>1 DEF Products
    <2>3. product' = [product EXCEPT ![s] = q]
        BY <2>1, <2>2
    <2>4. q # None /\ q.card = c /\ q.price = p /\ q.estimate = x /\ q.margin = m
        BY <2>2
    <2>5. product[s] = None /\ \A u \in Slug : product[u] # None => product[u].card # c
        BY <1>4 DEF IsFree, Offered
    <2>6. TypeOK'
        BY <1>2, <2>3 DEF IInv, TypeOK, Held, Idle
    <2>7. SoldUnderOneName'
        BY <2>3, <2>4, <2>5 DEF IInv, TypeOK, SoldUnderOneName
    <2>8. PricedForEstimate'
        BY <1>1, <2>3, <2>4 DEF IInv, TypeOK, PricedForEstimate, FromReloadly
    <2>9. OrderedAtMargin'
        BY <1>2 DEF IInv, TypeOK, OrderedAtMargin, SupplierOf, Idle
    <2>10. ASSUME NEW u \in Task PROVE TaskInv(u)'
        BY <1>2, <2>3, <2>4, <2>5 DEF IInv, TypeOK, TaskInv, FromReloadly, SupplierOf, Idle
    <2> QED
        BY <2>6, <2>7, <2>8, <2>9, <2>10 DEF IInv
<1> QED
    BY <1>1, <1>3, <1>4 DEF SaveProduct

\* What is seeded was free or of the mock supplier before, and is so after.
LEMMA SeedInv ==
    ASSUME IInv, Seed
    PROVE  IInv'
<1>1. UNCHANGED <<cost, config, task>>
    BY DEF Seed
<1>2. \A s \in SeedSlug :
        /\ product'[s] # None /\ product'[s].card = SeedCard[s]
        /\ product'[s] \in Products /\ SeedCard[s] \in MockCard
    <2> TAKE s \in SeedSlug
    <2>1. SeedCard[s] \in MockCard /\ SeedPrice[s] \in Nat /\ MockCost[SeedCard[s]] \in Nat
        OBVIOUS
    <2>2. PICK q \in Products :
            q = [card |-> SeedCard[s], price |-> SeedPrice[s],
                 estimate |-> MockCost[SeedCard[s]], margin |-> None, active |-> TRUE]
        BY <2>1 DEF Products
    <2>3. product'[s] = q
        BY <2>2 DEF Seed
    <2>4. q.card = SeedCard[s] /\ q # None
        BY <2>2
    <2> QED
        BY <2>1, <2>3, <2>4
<1>3. \A s \in Slug \ SeedSlug : product'[s] = product[s]
    BY DEF Seed
<1>4. \A s \in Slug : FromReloadly(s)' <=> FromReloadly(s)
    BY <1>2, <1>3 DEF Seed, MaySeed, SupplierOf, FromReloadly
<1>5. \A s \in Slug : FromReloadly(s) => product'[s] = product[s]
    BY <1>2, <1>3, <1>4 DEF FromReloadly
<1>6. \A s \in Slug : product[s] # None => product'[s] # None
    BY <1>2, <1>3
<1>7. product' \in [Slug -> Products \cup {None}]
    <2>1. \A s \in Slug : product'[s] \in Products \cup {None}
        BY <1>2, <1>3 DEF IInv, TypeOK
    <2> QED
        BY <2>1 DEF Seed
<1>8. TypeOK'
    BY <1>1, <1>7 DEF IInv, TypeOK
<1>9. SoldUnderOneName'
    BY <1>2, <1>3 DEF IInv, Seed, MaySeed, SoldUnderOneName
<1>10. PricedForEstimate'
    BY <1>4, <1>5 DEF IInv, PricedForEstimate
<1>11. OrderedAtMargin'
    BY <1>1 DEF IInv, OrderedAtMargin, SupplierOf
<1>12. ASSUME NEW u \in Task PROVE TaskInv(u)'
    BY <1>1, <1>4, <1>5, <1>6 DEF IInv, TaskInv, SupplierOf
<1> QED
    BY <1>8, <1>9, <1>10, <1>11, <1>12 DEF IInv

-----------------------------------------------------------------------------
(* Theorems.                                                               *)

LEMMA NextInv == IInv /\ [Next]_vars => IInv'
<1> SUFFICES ASSUME IInv, [Next]_vars PROVE IInv'
    OBVIOUS
<1>1. ASSUME NEW t \in Task, NEW s \in Slug, NEW c \in Card, NEW p \in Price,
             NEW m \in Margins, AddProduct(t, s, c, p, m)
      PROVE  IInv'
    BY <1>1, AddProductInv
<1>2. ASSUME NEW t \in Task, NEW s \in Slug, ReadProduct(t, s) PROVE IInv'
    BY <1>2, ReadProductInv
<1>3. ASSUME NEW t \in Task,
             \/ SaveProduct(t)
             \/ Reserve(t) \/ Validate(t) \/ ValidateRaises(t) \/ Pause(t) \/ Finish(t)
      PROVE  IInv'
    BY <1>3, SaveProductInv, ReserveInv, ValidateInv, ValidateRaisesInv, PauseInv,
       FinishInv
<1>4. ASSUME NEW s \in Slug, NEW on \in BOOLEAN, SetActive(s, on) PROVE IInv'
    BY <1>4, SetActiveInv
<1>5. ASSUME NEW c \in Card, ChangeCost(c) PROVE IInv'
    BY <1>5, ChangeCostInv
<1>6. CASE Seed \/ Restart
    BY <1>6, SeedInv, RestartInv
<1>7. CASE UNCHANGED vars
    BY <1>7 DEF vars, IInv, TypeOK, SoldUnderOneName, PricedForEstimate, FromReloadly,
       OrderedAtMargin, TaskInv
<1> QED
    BY <1>1, <1>2, <1>3, <1>4, <1>5, <1>6, <1>7 DEF Next

\* The inductive invariant holds, for any commands and purchases at once.
THEOREM Invariance == Spec => []IInv
<1>1. Init => IInv
    BY InitInv
<1>2. IInv /\ [Next]_vars => IInv'
    BY NextInv
<1> QED
    BY <1>1, <1>2, PTL DEF Spec

\* Every reachable state of products, offers and tasks is well typed.
THEOREM TypeCorrect == Spec => []TypeOK
<1>1. IInv => TypeOK
    BY DEF IInv
<1> QED
    BY <1>1, Invariance, PTL

\* No card is sold under two names.
THEOREM OneName == Spec => []SoldUnderOneName
<1>1. IInv => SoldUnderOneName
    BY DEF IInv
<1> QED
    BY <1>1, Invariance, PTL

\* Products of Reloadly are priced to keep the margin asked for when they were added,
\* at their estimated cost.
THEOREM PricesKeepMargin == Spec => []PricedForEstimate
<1>1. IInv => PricedForEstimate
    BY DEF IInv
<1> QED
    BY <1>1, Invariance, PTL

\* Cards are ordered of their supplier, at the margin the shop was started with.
THEOREM OrdersKeepMargin == Spec => []OrderedAtMargin
<1>1. IInv => OrderedAtMargin
    BY DEF IInv
<1> QED
    BY <1>1, Invariance, PTL

\* A purchase pauses a product of Reloadly only when the card was withdrawn, has
\* become dearer, or the minimum margin has been raised since the product was added,
\* whatever margin each process has read.
THEOREM PausesHaveCause == Spec => PauseHasCause
<1>1. ASSUME IInv, NEW t \in Task, Pause(t), FromReloadly(task[t].slug)
      PROVE  \/ task[t].cost = None
             \/ task[t].cost > product[task[t].slug].estimate
             \/ config.margin > product[task[t].slug].margin
    <2>1. PICK s \in Slug : s = task[t].slug
        BY <1>1 DEF IInv, TaskInv, Pause
    <2>2. PICK p \in Nat, x \in Nat, m \in Margins :
              p = product[s].price /\ x = product[s].estimate /\ m = product[s].margin
        BY <1>1, <2>1 DEF IInv, TypeOK, Products, FromReloadly, PricedForEstimate
    <2>3. PICK n \in Margins : n = config.margin
        BY <1>1 DEF IInv, TypeOK
    <2>4. task[t].price = p
        BY <1>1, <2>1, <2>2 DEF IInv, TaskInv, Pause
    <2>5. MarginKept(p, x, m)
        BY <1>1, <2>1, <2>2 DEF IInv, PricedForEstimate
    <2>6. task[t].cost \in Nat \cup {None}
        BY <1>1 DEF IInv, TypeOK, Held
    <2>7. task[t].cost = None \/ ~MarginKept(p, task[t].cost, n)
        BY <1>1, <2>3, <2>4 DEF IInv, TaskInv, Pause
    <2> QED
        BY <2>1, <2>2, <2>3, <2>5, <2>6, <2>7, DearerCost
<1>2. IInv /\ [Next]_vars =>
        [\A t \in Task : LET s == task[t].slug IN
            Pause(t) /\ FromReloadly(s) =>
                \/ task[t].cost = None
                \/ task[t].cost > product[s].estimate
                \/ config.margin > product[s].margin]_vars
    BY <1>1
<1> QED
    BY <1>2, Invariance, PTL DEF Spec, PauseHasCause

\* What the operator put on sale keeps its card, price and estimate for good.
THEOREM ProductsStay == Spec => SeedingKeepsProducts
<1> DEFINE Kept(s) == product'[s] = [product[s] EXCEPT !.active = product'[s].active]
<1>1. ASSUME IInv, Next, NEW s \in Slug, FromReloadly(s) PROVE Kept(s)
    <2>1. PICK p \in Products : p = product[s]
        BY <1>1 DEF IInv, TypeOK, FromReloadly
    <2>2. p = [p EXCEPT !.active = p.active]
        BY DEF Products
    <2>3. CASE product'[s] = product[s]
        BY <2>1, <2>2, <2>3
    <2>4. CASE \E on \in BOOLEAN : product'[s] = [p EXCEPT !.active = on]
        <3>1. PICK on \in BOOLEAN : product'[s] = [p EXCEPT !.active = on]
            BY <2>4
        <3>2. [p EXCEPT !.active = on].active = on
            BY DEF Products
        <3> QED
            BY <2>1, <3>1, <3>2
    <2>5. ASSUME NEW u \in Slug, NEW on \in BOOLEAN,
                 product' = [product EXCEPT ![u].active = on]
          PROVE  Kept(s)
        BY <1>1, <2>1, <2>3, <2>4, <2>5 DEF IInv, TypeOK
    <2>6. ASSUME NEW t \in Task, SaveProduct(t) PROVE product'[s] = product[s]
        BY <1>1, <2>6 DEF IInv, TypeOK, SaveProduct, IsFree, FromReloadly
    <2>7. ASSUME NEW t \in Task, Pause(t) PROVE Kept(s)
        <3>1. task[t].slug \in Slug
            BY <1>1, <2>7 DEF IInv, TaskInv, Pause
        <3> QED
            BY <2>5, <2>7, <3>1 DEF Pause
    <2>8. ASSUME Seed PROVE product'[s] = product[s]
        BY <1>1, <2>8 DEF Seed, MaySeed, SupplierOf, FromReloadly
    <2>9. ASSUME NEW u \in Slug, NEW on \in BOOLEAN, SetActive(u, on) PROVE Kept(s)
        BY <2>5, <2>9 DEF SetActive
    <2>10. ASSUME UNCHANGED product PROVE product'[s] = product[s]
        BY <2>10
    <2> QED
        BY <1>1, <2>3, <2>6, <2>7, <2>8, <2>9, <2>10
        DEF Next, AddProduct, ReadProduct, Reserve, Validate, ValidateRaises, Finish,
            ChangeCost, Restart
<1>2. IInv /\ [Next]_vars => [\A s \in Slug : FromReloadly(s) => Kept(s)]_vars
    BY <1>1
<1> QED
    BY <1>2, Invariance, PTL DEF Spec, SeedingKeepsProducts
=============================================================================
