------------------------- MODULE ManualPurchaseProofs -------------------------
(***************************************************************************)
(* Proofs about ManualPurchase, for any customers, buttons, stock, tasks   *)
(* and amounts: row locks alone keep its safety properties.                *)
(***************************************************************************)
EXTENDS ManualPurchase, FiniteSetTheorems, TLAPS

USE SetsAssumption, OwnerAssumption, AmountAssumption
USE DEF Buying, Paying

-----------------------------------------------------------------------------
(* Arithmetic and counting.                                                *)

\* There are finitely many possible orders.
LEMMA OrdersAreFinite ==
    ASSUME NEW S \in SUBSET (Click \X Item)
    PROVE  IsFiniteSet(S) /\ Cardinality(S) \in Nat
<1>1. IsFiniteSet(Click \X Item)
    BY FS_Product
<1> QED
    BY <1>1, FS_Subset, FS_CardinalityType

\* A new order counts for one.
LEMMA OrderCounts ==
    ASSUME NEW S \in SUBSET (Click \X Item), NEW p \in (Click \X Item) \ S
    PROVE  Cardinality(S \cup {p}) = Cardinality(S) + 1
BY OrdersAreFinite, FS_AddElement

\* One more costs one price more.
LEMMA OneMore ==
    ASSUME NEW n \in Nat
    PROVE  Price * n \in Int /\ Price * (n + 1) = Price * n + Price
OBVIOUS

\* One more refund moves both sides of the ledger's equation alike.
LEMMA RefundAdds ==
    ASSUME NEW b \in Int, NEW v \in Int, NEW n \in Nat, NEW m \in Nat,
           b + Price * n = InitialBalance + v + Price * m
    PROVE  (b + Price) + Price * n = InitialBalance + v + Price * (m + 1)
<1>1. Price * (m + 1) = Price * m + Price
    OBVIOUS
<1>2. Price * n \in Int /\ Price * m \in Int
    OBVIOUS
<1> QED
    BY <1>1, <1>2

-----------------------------------------------------------------------------
(* What the moves of a task do, and what is kept when little changes.      *)

TaskTypes ==
    /\ pc \in [Task -> {"idle", "adjust"} \cup Buying \cup Paying]
    /\ on \in [Task -> Click \cup Customer \cup {None}]
    /\ seen \in [Task -> Int]
    /\ pick \in [Task -> Item \cup Int \cup {None}]

DatabaseTypes ==
    /\ stock \in [Item -> {"none", "available", "sold"}]
    /\ orders \subseteq Click \X Item
    /\ refunded \subseteq orders
    /\ balance \in [Customer -> Int]
    /\ moves \in [Customer -> Int]
    /\ blocked \subseteq Customer
    /\ active \in BOOLEAN

SameHands(u) ==
    pc'[u] = pc[u] /\ on'[u] = on[u] /\ seen'[u] = seen[u] /\ pick'[u] = pick[u]

OthersStay(t) == \A u \in Task \ {t} : SameHands(u)

\* A task that begins a step holds its subject and what it will write.
LEMMA BeginMoves ==
    ASSUME TypeOK, NEW t \in Task, NEW x \in Click \cup Customer,
           NEW step \in {"adjust"} \cup Buying \cup Paying,
           NEW p \in Item \cup Int \cup {None}, Begin(t, x, step, p)
    PROVE  /\ TaskTypes' /\ OthersStay(t) /\ pc[t] = "idle"
           /\ pc'[t] = step /\ on'[t] = x /\ seen'[t] = seen[t] /\ pick'[t] = p
BY DEF TypeOK, TaskTypes, OthersStay, SameHands, Begin

\* A task that reads keeps its subject.
LEMMA ReadMoves ==
    ASSUME TypeOK, NEW t \in Task, NEW step \in Buying \cup Paying, NEW b \in Int,
           NEW p \in Item \cup Int \cup {None}, Read(t, step, b, p)
    PROVE  /\ TaskTypes' /\ OthersStay(t)
           /\ pc'[t] = step /\ on'[t] = on[t] /\ seen'[t] = b /\ pick'[t] = p
BY DEF TypeOK, TaskTypes, OthersStay, SameHands, Read

\* A task that returns keeps nothing.
LEMMA ReturnMoves ==
    ASSUME TypeOK, NEW t \in Task, Return(t)
    PROVE  /\ TaskTypes' /\ OthersStay(t)
           /\ pc'[t] = "idle" /\ on'[t] = None /\ seen'[t] = 0 /\ pick'[t] = None
BY DEF TypeOK, TaskTypes, OthersStay, SameHands, Return

\* What task u relies on stays as it is in the database.
Undisturbed(u) ==
    /\ pc[u] \in {"wallet", "stock", "commit"} =>
          /\ \A i \in Item : <<on[u], i>> \in orders' => <<on[u], i>> \in orders
          /\ Owner[on[u]] \in blocked' => Owner[on[u]] \in blocked
    /\ pc[u] \in {"stock", "commit", "entry"} =>
          balance'[CustomerOf(on[u])] = balance[CustomerOf(on[u])]
    /\ pc[u] = "commit" => stock'[pick[u]] = stock[pick[u]]
    /\ pc[u] \in Paying /\ on[u] \notin Customer =>
          ((\E p \in orders \ refunded : p[1] = on[u])
             => \E p \in orders' \ refunded' : p[1] = on[u])

\* A task keeps its part of the invariant while nothing it relies on changes.
LEMMA TaskKept ==
    ASSUME NEW u \in Task, TaskInv(u), SameHands(u), Undisturbed(u)
    PROVE  TaskInv(u)'
<1>1. (pc[u] \in Buying => on[u] \in Click)'
    BY DEF TaskInv, SameHands
<1>2. (pc[u] \in {"wallet", "stock", "commit"} =>
          ~HasOrder(on[u]) /\ Owner[on[u]] \notin blocked)'
    BY DEF TaskInv, SameHands, Undisturbed, HasOrder
<1>3. (pc[u] \in {"stock", "commit", "entry"} => seen[u] = balance[CustomerOf(on[u])])'
    BY DEF TaskInv, SameHands, Undisturbed, CustomerOf
<1>4. (pc[u] \in {"stock", "commit"} => seen[u] >= Price)'
    BY DEF TaskInv, SameHands
<1>5. (pc[u] = "commit" => pick[u] \in Item /\ stock[pick[u]] = "available")'
    BY DEF TaskInv, SameHands, Undisturbed
<1>6. (pc[u] \in Paying =>
          /\ pick[u] \in Int
          /\ on[u] \in Customer => pick[u] \in Amounts
          /\ on[u] \notin Customer =>
                pick[u] = Price /\ \E p \in orders \ refunded : p[1] = on[u])'
    BY DEF TaskInv, SameHands, Undisturbed
<1>7. (pc[u] = "adjust" => on[u] \in Customer /\ pick[u] \in Amounts)'
    BY DEF TaskInv, SameHands
<1> QED
    BY <1>1, <1>2, <1>3, <1>4, <1>5, <1>6, <1>7 DEF TaskInv

\* What task t holds after its step nobody else holds before it.
TakesFree(t) ==
    \A u \in Task \ {t} :
        /\ \A c \in Customer :
              /\ ~(HoldsUser(t, c)' /\ HoldsUser(u, c))
              /\ ~(HoldsWallet(t, c)' /\ HoldsWallet(u, c))
        /\ pc'[t] = "commit" /\ pc[u] = "commit" => pick'[t] # pick[u]
        /\ pc'[t] \in Paying /\ pc[u] \in Paying /\ on'[t] \in Click => on'[t] # on[u]

\* Locks stay exclusive if a task takes only what is free.
LEMMA LocksKept ==
    ASSUME LockInv, NEW t \in Task, OthersStay(t), TakesFree(t)
    PROVE  LockInv'
<1> SUFFICES ASSUME NEW u \in Task, NEW v \in Task, u # v
             PROVE  (/\ \A c \in Customer :
                          /\ ~(HoldsUser(u, c) /\ HoldsUser(v, c))
                          /\ ~(HoldsWallet(u, c) /\ HoldsWallet(v, c))
                     /\ pc[u] = "commit" /\ pc[v] = "commit" => pick[u] # pick[v]
                     /\ pc[u] \in Paying /\ pc[v] \in Paying /\ on[u] \in Click => on[u] # on[v])'
    BY DEF LockInv
<1>1. \A w \in Task \ {t} : \A c \in Customer :
          (HoldsUser(w, c)' <=> HoldsUser(w, c)) /\ (HoldsWallet(w, c)' <=> HoldsWallet(w, c))
    BY DEF OthersStay, SameHands, HoldsUser, HoldsWallet, CustomerOf
<1>2. CASE u # t /\ v # t
    BY <1>1, <1>2 DEF LockInv, OthersStay, SameHands
<1>3. CASE u = t
    BY <1>1, <1>3 DEF TakesFree, OthersStay, SameHands
<1>4. CASE v = t
    BY <1>1, <1>4 DEF TakesFree, OthersStay, SameHands
<1> QED
    BY <1>2, <1>3, <1>4

\* A task holds nothing after it has returned.
LEMMA ReturnedIsFree ==
    ASSUME NEW t \in Task, pc'[t] = "idle"
    PROVE  TakesFree(t) /\ TaskInv(t)'
BY DEF TakesFree, TaskInv, HoldsUser, HoldsWallet

\* A step that writes nothing keeps the invariant if it takes only what is free
\* and reads what is there.
LEMMA HandsInv ==
    ASSUME IInv, NEW t \in Task, UNCHANGED database,
           TaskTypes', OthersStay(t), TaskInv(t)', TakesFree(t)
    PROVE  IInv'
<1> USE DEF database
<1>1. TypeOK'
    BY DEF IInv, TypeOK, TaskTypes
<1>2. \A u \in Task : TaskInv(u)'
  <2> SUFFICES ASSUME NEW u \in Task \ {t} PROVE TaskInv(u)'
      OBVIOUS
  <2>1. Undisturbed(u)
      BY DEF Undisturbed
  <2>2. TaskInv(u) /\ SameHands(u)
      BY DEF IInv, OthersStay
  <2> QED
      BY <2>1, <2>2, TaskKept
<1>3. LockInv'
    BY LocksKept DEF IInv
<1>4. SoldOnce' /\ OneOrderPerClick' /\ LedgerMatchesWallet'
    BY DEF IInv, SoldOnce, OneOrderPerClick, LedgerMatchesWallet, OrdersOf
<1> QED
    BY <1>1, <1>2, <1>3, <1>4 DEF IInv

\* So it does when a task gives up.
LEMMA GivesUpInv ==
    ASSUME IInv, NEW t \in Task, UNCHANGED database, Return(t)
    PROVE  IInv'
<1>1. TaskTypes' /\ OthersStay(t) /\ pc'[t] = "idle"
    BY ReturnMoves DEF IInv
<1> QED
    BY <1>1, ReturnedIsFree, HandsInv

-----------------------------------------------------------------------------
(* The invariant holds initially and every action keeps it.                *)

\* Before the first order nothing is sold and nobody works.
LEMMA InitInv == Init => IInv
<1> SUFFICES ASSUME Init PROVE IInv
    OBVIOUS
<1>1. TypeOK /\ (\A t \in Task : TaskInv(t)) /\ LockInv
    BY DEF Init, TypeOK, TaskInv, LockInv, HoldsUser, HoldsWallet
<1>2. SoldOnce /\ OneOrderPerClick
    BY DEF Init, SoldOnce, OneOrderPerClick
<1>3. LedgerMatchesWallet
  <2>1. \A c \in Customer : OrdersOf(c) = {} /\ refunded \cap OrdersOf(c) = {}
      BY DEF Init, OrdersOf
  <2> QED
      BY <2>1, FS_EmptySet DEF Init, LedgerMatchesWallet
<1> QED
    BY <1>1, <1>2, <1>3 DEF IInv

\* A purchase that begins holds nothing yet.
LEMMA PurchaseInv ==
    ASSUME IInv, NEW t \in Task, NEW k \in Click, Purchase(t, k)
    PROVE  IInv'
<1>1. /\ TaskTypes' /\ OthersStay(t)
      /\ pc'[t] = "user" /\ on'[t] = k
    BY BeginMoves DEF IInv, Purchase
<1>2. TaskInv(t)' /\ TakesFree(t)
    BY <1>1 DEF TaskInv, TakesFree, HoldsUser, HoldsWallet
<1> QED
    BY <1>1, <1>2, HandsInv DEF Purchase

\* A purchase locks a user nobody has locked, and checks him then.
LEMMA LockUserInv ==
    ASSUME IInv, NEW t \in Task, LockUser(t)
    PROVE  IInv'
<1>1. on[t] \in Click
    BY DEF IInv, TaskInv, LockUser
<1>2. /\ TaskTypes' /\ OthersStay(t)
      /\ pc'[t] = "wallet" /\ on'[t] = on[t]
    BY ReadMoves DEF IInv, LockUser
<1>3. TaskInv(t)'
    BY <1>1, <1>2 DEF TaskInv, LockUser, MayBuy, HasOrder, database
<1>4. \A c \in Customer : HoldsUser(t, c)' => c = Owner[on[t]]
    BY <1>1, <1>2 DEF HoldsUser, CustomerOf
<1>5. TakesFree(t)
    BY <1>2, <1>4 DEF TakesFree, HoldsWallet, LockUser, UserFree
<1> QED
    BY <1>2, <1>3, <1>5, HandsInv DEF LockUser

\* A purchase locks a wallet nobody has locked, and reads it then.
LEMMA LockWalletInv ==
    ASSUME IInv, NEW t \in Task, LockWallet(t)
    PROVE  IInv'
<1>1. on[t] \in Click /\ Owner[on[t]] \in Customer /\ balance[Owner[on[t]]] \in Int
      /\ CustomerOf(on[t]) = Owner[on[t]]
    BY DEF IInv, TypeOK, TaskInv, LockWallet, CustomerOf
<1>2. /\ TaskTypes' /\ OthersStay(t)
      /\ pc'[t] = "stock" /\ on'[t] = on[t] /\ seen'[t] = balance[Owner[on[t]]]
    BY <1>1, ReadMoves DEF IInv, LockWallet
<1>3. TaskInv(t)'
    BY <1>1, <1>2 DEF IInv, TaskInv, LockWallet, Affords, HasOrder, CustomerOf, database
<1>4. \A c \in Customer : /\ HoldsUser(t, c)' => HoldsUser(t, c)
                          /\ HoldsWallet(t, c)' => c = Owner[on[t]]
    BY <1>1, <1>2 DEF HoldsUser, HoldsWallet, CustomerOf, LockWallet
<1>5. TakesFree(t)
    BY <1>2, <1>4 DEF IInv, LockInv, TakesFree, LockWallet, WalletFree
<1> QED
    BY <1>2, <1>3, <1>5, HandsInv DEF LockWallet

\* A purchase picks an item nobody has picked.
LEMMA PickStockInv ==
    ASSUME IInv, NEW t \in Task, PickStock(t)
    PROVE  IInv'
<1>1. PICK i \in Offered : Read(t, "commit", seen[t], i)
    BY DEF PickStock
<1>2. i \in Item /\ seen[t] \in Int
    BY DEF Offered, IInv, TypeOK
<1>3. /\ TaskTypes' /\ OthersStay(t)
      /\ pc'[t] = "commit" /\ on'[t] = on[t] /\ seen'[t] = seen[t] /\ pick'[t] = i
    BY <1>1, <1>2, ReadMoves DEF IInv
<1>4. TaskInv(t)'
    BY <1>1, <1>2, <1>3 DEF IInv, TaskInv, PickStock, Offered, HasOrder, CustomerOf, database
<1>5. \A c \in Customer : /\ HoldsUser(t, c)' => HoldsUser(t, c)
                          /\ HoldsWallet(t, c)' => HoldsWallet(t, c)
    BY <1>3 DEF HoldsUser, HoldsWallet, CustomerOf, PickStock
<1>6. TakesFree(t)
    BY <1>1, <1>3, <1>5 DEF IInv, LockInv, TakesFree, Offered, Locked
<1> QED
    BY <1>3, <1>4, <1>6, HandsInv DEF PickStock

\* A payment that begins holds nothing yet.
LEMMA PixPaymentInv ==
    ASSUME IInv, NEW t \in Task, NEW c \in Customer, NEW a \in Amounts, PixPayment(t, c, a)
    PROVE  IInv'
<1>1. /\ TaskTypes' /\ OthersStay(t)
      /\ pc'[t] = "payment" /\ on'[t] = c /\ pick'[t] = a
    BY BeginMoves DEF IInv, PixPayment
<1>2. TaskInv(t)' /\ TakesFree(t)
    BY <1>1 DEF TaskInv, TakesFree, HoldsUser, HoldsWallet
<1> QED
    BY <1>1, <1>2, HandsInv DEF PixPayment

\* A refund begins on an order nobody refunds.
LEMMA RefundOrderInv ==
    ASSUME IInv, NEW t \in Task, NEW k \in Click, RefundOrder(t, k)
    PROVE  IInv'
<1>1. /\ TaskTypes' /\ OthersStay(t)
      /\ pc'[t] = "payment" /\ on'[t] = k /\ pick'[t] = Price
    BY BeginMoves DEF IInv, RefundOrder
<1>2. TaskInv(t)'
    BY <1>1 DEF TaskInv, RefundOrder, database
<1>3. TakesFree(t)
    BY <1>1 DEF TakesFree, HoldsUser, HoldsWallet, RefundOrder
<1> QED
    BY <1>1, <1>2, <1>3, HandsInv DEF RefundOrder

\* Whoever works for a click or a customer works on that customer's rows.
LEMMA PayingTypes ==
    ASSUME IInv, NEW t \in Task, pc[t] \in Paying
    PROVE  /\ on[t] \in Click \cup Customer /\ pick[t] \in Int
           /\ CustomerOf(on[t]) \in Customer
           /\ balance[CustomerOf(on[t])] \in Int
<1>1. on[t] \in Click \cup Customer /\ pick[t] \in Int
    BY DEF IInv, TypeOK, TaskInv
<1> QED
    BY <1>1 DEF IInv, TypeOK, CustomerOf

\* A payment locks a wallet nobody has locked, and reads it then.
LEMMA PayWalletInv ==
    ASSUME IInv, NEW t \in Task, PayWallet(t)
    PROVE  IInv'
<1> DEFINE c == CustomerOf(on[t])
<1>1. /\ on[t] \in Click \cup Customer /\ pick[t] \in Int /\ c \in Customer
      /\ balance[c] \in Int
    BY PayingTypes DEF PayWallet
<1>2. /\ TaskTypes' /\ OthersStay(t) /\ pc'[t] = "entry" /\ on'[t] = on[t]
      /\ seen'[t] = balance[c] /\ pick'[t] = pick[t]
    BY <1>1, ReadMoves DEF IInv, PayWallet
<1>3. TaskInv(t)'
    BY <1>1, <1>2 DEF IInv, TaskInv, PayWallet, CustomerOf, database
<1>4. \A d \in Customer : ~HoldsUser(t, d)' /\ (HoldsWallet(t, d)' => d = c)
    BY <1>1, <1>2 DEF HoldsUser, HoldsWallet, CustomerOf
<1>5. TakesFree(t)
    BY <1>2, <1>4 DEF IInv, LockInv, TakesFree, PayWallet, WalletFree
<1> QED
    BY <1>2, <1>3, <1>5, HandsInv DEF PayWallet

\* One more order of its owner, and no more of anyone else.
LEMMA OrdersOfGrows ==
    ASSUME IInv, NEW k \in Click, NEW i \in Item, <<k, i>> \notin orders,
           orders' = orders \cup {<<k, i>>}
    PROVE  /\ OrdersOf(Owner[k])' = OrdersOf(Owner[k]) \cup {<<k, i>>}
           /\ <<k, i>> \notin OrdersOf(Owner[k])
           /\ \A c \in Customer : c # Owner[k] => OrdersOf(c)' = OrdersOf(c)
           /\ \A c \in Customer : OrdersOf(c) \subseteq Click \X Item
<1>1. orders \subseteq Click \X Item
    BY DEF IInv, TypeOK
<1> QED
    BY <1>1 DEF OrdersOf

\* The locks of a purchase that commits are its own.
LEMMA CommitIsAlone ==
    ASSUME IInv, NEW t \in Task, pc[t] = "commit", NEW u \in Task \ {t}
    PROVE  /\ pc[u] \in {"wallet", "stock", "commit"} =>
                 on[u] # on[t] /\ Owner[on[u]] # Owner[on[t]]
           /\ pc[u] \in {"stock", "commit", "entry"} =>
                 CustomerOf(on[u]) # Owner[on[t]]
           /\ pc[u] = "commit" => pick[u] # pick[t]
<1>1. on[t] \in Click /\ Owner[on[t]] \in Customer /\ CustomerOf(on[t]) = Owner[on[t]]
    BY DEF IInv, TaskInv, CustomerOf
<1>2. HoldsUser(t, Owner[on[t]]) /\ HoldsWallet(t, Owner[on[t]])
    BY <1>1 DEF HoldsUser, HoldsWallet
<1>3. ~HoldsUser(u, Owner[on[t]]) /\ ~HoldsWallet(u, Owner[on[t]])
    BY <1>1, <1>2 DEF IInv, LockInv
<1>4. pc[u] \in {"wallet", "stock", "commit"} => CustomerOf(on[u]) = Owner[on[u]]
    BY DEF IInv, TaskInv, CustomerOf
<1>5. pc[u] = "commit" => pick[u] # pick[t]
    BY DEF IInv, LockInv
<1> QED
    BY <1>3, <1>4, <1>5 DEF HoldsUser, HoldsWallet

\* What a purchase is about to commit is affordable, in stock and new.
LEMMA CommitFacts ==
    ASSUME IInv, NEW t \in Task, Commit(t)
    PROVE  /\ on[t] \in Click /\ Owner[on[t]] \in Customer
           /\ Owner[on[t]] \notin blocked
           /\ pick[t] \in Item /\ stock[pick[t]] = "available"
           /\ \A i \in Item : <<on[t], i>> \notin orders
           /\ \A k \in Click : <<k, pick[t]>> \notin orders
           /\ balance[Owner[on[t]]] \in Int /\ balance[Owner[on[t]]] >= Price
           /\ balance'[Owner[on[t]]] = balance[Owner[on[t]]] - Price
           /\ \A c \in Customer : c # Owner[on[t]] => balance'[c] = balance[c]
<1>1. pc[t] = "commit" /\ TaskInv(t)
    BY DEF IInv, Commit
<1>2. /\ on[t] \in Click /\ Owner[on[t]] \in Customer /\ Owner[on[t]] \notin blocked
      /\ pick[t] \in Item /\ stock[pick[t]] = "available"
      /\ \A i \in Item : <<on[t], i>> \notin orders
      /\ seen[t] = balance[Owner[on[t]]] /\ seen[t] >= Price
    BY <1>1 DEF TaskInv, CustomerOf, HasOrder
<1>3. \A k \in Click : <<k, pick[t]>> \notin orders
    BY <1>2 DEF IInv, SoldOnce
<1>4. balance[Owner[on[t]]] \in Int
    BY <1>2 DEF IInv, TypeOK
<1>5. /\ balance'[Owner[on[t]]] = seen[t] - Price
      /\ \A c \in Customer : c # Owner[on[t]] => balance'[c] = balance[c]
    BY <1>2 DEF IInv, TypeOK, Commit
<1> QED
    BY <1>2, <1>3, <1>4, <1>5

\* A commit keeps the invariant.
LEMMA CommitInv ==
    ASSUME IInv, NEW t \in Task, Commit(t)
    PROVE  IInv'
<1>0. PICK k \in Click, i \in Item, c \in Customer :
          k = on[t] /\ i = pick[t] /\ c = Owner[on[t]]
    BY CommitFacts
<1>1. /\ c = Owner[k] /\ k \in Click /\ c \in Customer /\ i \in Item /\ stock[i] = "available"
      /\ \A j \in Item : <<k, j>> \notin orders
      /\ \A x \in Click : <<x, i>> \notin orders
      /\ balance[c] \in Int /\ balance'[c] = balance[c] - Price
      /\ \A d \in Customer : d # c => balance'[d] = balance[d]
    BY <1>0, CommitFacts
<1>2. /\ orders' = orders \cup {<<k, i>>} /\ stock' = [stock EXCEPT ![i] = "sold"]
      /\ refunded' = refunded /\ moves' = moves /\ blocked' = blocked
      /\ pc[t] = "commit"
    BY <1>0 DEF Commit
<1>3. TaskTypes' /\ OthersStay(t) /\ pc'[t] = "idle"
    BY ReturnMoves DEF IInv, Commit
<1>4. TypeOK'
  <2>1. DatabaseTypes'
      BY <1>0, <1>1, <1>2 DEF IInv, TypeOK, DatabaseTypes, Commit
  <2> QED
      BY <1>3, <2>1 DEF TypeOK, TaskTypes, DatabaseTypes
<1>5. \A u \in Task : TaskInv(u)'
  <2> SUFFICES ASSUME NEW u \in Task \ {t} PROVE TaskInv(u)'
      BY <1>3, ReturnedIsFree
  <2>1. TaskInv(u) /\ SameHands(u)
      BY <1>3 DEF IInv, OthersStay
  <2>2. pc[u] \in {"wallet", "stock", "commit"} =>
            \A j \in Item : <<on[u], j>> \in orders' => <<on[u], j>> \in orders
      BY <1>0, <1>2, CommitIsAlone
  <2>3. pc[u] \in {"stock", "commit", "entry"} =>
            balance'[CustomerOf(on[u])] = balance[CustomerOf(on[u])]
    <3>1. on[u] \in Click \cup Customer \cup {None} /\ balance \in [Customer -> Int]
        BY DEF IInv, TypeOK
    <3>2. balance' = [balance EXCEPT ![c] = seen[t] - Price]
        BY <1>0 DEF Commit
    <3> QED
        BY <1>0, <1>2, <3>1, <3>2, CommitIsAlone, PayingTypes DEF TaskInv, CustomerOf, IInv
  <2>4. pc[u] = "commit" => stock'[pick[u]] = stock[pick[u]]
      BY <1>0, <1>2, <2>1, CommitIsAlone DEF IInv, TypeOK, TaskInv
  <2>5. Undisturbed(u)
      BY <1>2, <2>2, <2>3, <2>4 DEF Undisturbed
  <2> QED
      BY <2>1, <2>5, TaskKept
<1>6. LockInv'
    BY <1>3, ReturnedIsFree, LocksKept DEF IInv
<1>7. SoldOnce'
  <2>1. \A j \in Item : stock'[j] = "sold" <=> \E x \in Click : <<x, j>> \in orders'
      BY <1>1, <1>2 DEF IInv, TypeOK, SoldOnce
  <2>2. \A p, q \in orders' : p[2] = q[2] => p = q
    <3>1. \A p \in orders : p = <<p[1], p[2]>> /\ p[1] \in Click
        BY DEF IInv, TypeOK
    <3>2. \A p \in orders : p[2] # i
        BY <1>1, <3>1
    <3>3. <<k, i>>[2] = i
        OBVIOUS
    <3> QED
        BY <1>2, <3>2, <3>3 DEF IInv, SoldOnce
  <2> QED
      BY <2>1, <2>2 DEF SoldOnce
<1>8. OneOrderPerClick'
    BY <1>1, <1>2 DEF IInv, TypeOK, OneOrderPerClick
<1>9. LedgerMatchesWallet'
  <2>1. /\ OrdersOf(c)' = OrdersOf(c) \cup {<<k, i>>} /\ <<k, i>> \notin OrdersOf(c)
        /\ \A d \in Customer : d # c => OrdersOf(d)' = OrdersOf(d)
        /\ \A d \in Customer : OrdersOf(d) \subseteq Click \X Item
      BY <1>1, <1>2, OrdersOfGrows
  <2>2. <<k, i>> \notin refunded
      BY <1>1 DEF IInv, TypeOK
  <2>3. /\ refunded' \cap OrdersOf(c)' = refunded \cap OrdersOf(c)
        /\ \A d \in Customer : d # c => refunded' \cap OrdersOf(d)' = refunded \cap OrdersOf(d)
      BY <1>2, <2>1, <2>2
  <2>4. Cardinality(OrdersOf(c)') = Cardinality(OrdersOf(c)) + 1
      BY <1>1, <2>1, OrderCounts
  <2>5. Cardinality(OrdersOf(c)) \in Nat /\ Cardinality(refunded \cap OrdersOf(c)) \in Nat
      BY <1>1, <2>1, OrdersAreFinite
  <2>6. moves[c] \in Int
      BY <1>1 DEF IInv, TypeOK
  <2>7. balance[c] + Price * Cardinality(OrdersOf(c))
            = InitialBalance + moves[c] + Price * Cardinality(refunded \cap OrdersOf(c))
      BY <1>1 DEF IInv, LedgerMatchesWallet
  <2>8. balance'[c] + Price * Cardinality(OrdersOf(c)')
            = InitialBalance + moves'[c] + Price * Cardinality(refunded' \cap OrdersOf(c)')
    <3> DEFINE n == Cardinality(OrdersOf(c))
               m == Cardinality(refunded \cap OrdersOf(c))
    <3>1. Price * (n + 1) = Price * n + Price /\ Price * n \in Int /\ Price * m \in Int
        BY <2>5, OneMore
    <3>2. balance[c] - Price + Price * (n + 1) = InitialBalance + moves[c] + Price * m
      <4> HIDE DEF n, m
      <4>1. balance[c] + Price * n = InitialBalance + moves[c] + Price * m
          BY <2>7 DEF n, m
      <4> QED
          BY <1>1, <2>6, <3>1, <4>1
    <3> QED
        BY <1>1, <1>2, <2>3, <2>4, <3>2
  <2>9. \A d \in Customer : d # c =>
            balance'[d] + Price * Cardinality(OrdersOf(d)')
              = InitialBalance + moves'[d] + Price * Cardinality(refunded' \cap OrdersOf(d)')
      BY <1>1, <1>2, <2>1, <2>3 DEF IInv, LedgerMatchesWallet
  <2> QED
      BY <2>8, <2>9 DEF LedgerMatchesWallet
<1> QED
    BY <1>4, <1>5, <1>6, <1>7, <1>8, <1>9 DEF IInv

\* A wallet that changes by what is booked for it keeps the ledger's equation.
LEMMA MovesBooked ==
    ASSUME IInv, NEW c \in Customer, NEW a \in Int,
           balance' = [balance EXCEPT ![c] = balance[c] + a],
           moves' = [moves EXCEPT ![c] = moves[c] + a],
           orders' = orders, refunded' = refunded
    PROVE  LedgerMatchesWallet'
<1> SUFFICES ASSUME NEW d \in Customer
             PROVE  balance'[d] + Price * Cardinality(OrdersOf(d))
                        = InitialBalance + moves'[d]
                            + Price * Cardinality(refunded \cap OrdersOf(d))
    BY DEF LedgerMatchesWallet, OrdersOf
<1> DEFINE n == Cardinality(OrdersOf(d))
           m == Cardinality(refunded \cap OrdersOf(d))
<1>1. OrdersOf(d) \subseteq Click \X Item
    BY DEF IInv, TypeOK, OrdersOf
<1>2. n \in Nat /\ m \in Nat
    BY <1>1, OrdersAreFinite
<1>3. Price * n \in Int /\ Price * m \in Int
    BY <1>2, OneMore
<1>4. balance[d] + Price * n = InitialBalance + moves[d] + Price * m
    BY DEF IInv, LedgerMatchesWallet
<1>5. balance[d] \in Int /\ moves[d] \in Int
    BY DEF IInv, TypeOK
<1>6. \/ balance'[d] = balance[d] /\ moves'[d] = moves[d]
      \/ balance'[d] = balance[d] + a /\ moves'[d] = moves[d] + a
    BY DEF IInv, TypeOK
<1> HIDE DEF n, m
<1>7. balance'[d] + Price * n = InitialBalance + moves'[d] + Price * m
    BY <1>3, <1>4, <1>5, <1>6
<1> QED
    BY <1>7 DEF n, m

\* The refund of one order adds it to its owner's refunds, and to nobody else's.
LEMMA RefundedGrows ==
    ASSUME IInv, NEW k \in Click, NEW r \in orders \ refunded, r[1] = k,
           refunded' = refunded \cup {p \in orders : p[1] = k}, orders' = orders
    PROVE  /\ refunded' = refunded \cup {r}
           /\ \A c \in Customer :
                 refunded' \cap OrdersOf(c)
                   = IF c = Owner[k] THEN (refunded \cap OrdersOf(c)) \cup {r}
                     ELSE refunded \cap OrdersOf(c)
<1>1. \A p \in orders : p[1] = k => p = r
    BY DEF IInv, OneOrderPerClick
<1>2. refunded' = refunded \cup {r}
    BY <1>1
<1>3. r \in OrdersOf(Owner[k]) /\ \A c \in Customer : c # Owner[k] => r \notin OrdersOf(c)
    BY DEF OrdersOf
<1> QED
    BY <1>2, <1>3

\* A refund that is booked keeps the ledger's equation.
LEMMA RefundBooked ==
    ASSUME IInv, NEW k \in Click, NEW c \in Customer, c = Owner[k],
           \E p \in orders \ refunded : p[1] = k,
           balance' = [balance EXCEPT ![c] = balance[c] + Price], moves' = moves,
           refunded' = refunded \cup {p \in orders : p[1] = k}, orders' = orders
    PROVE  LedgerMatchesWallet'
<1> SUFFICES ASSUME NEW d \in Customer
             PROVE  balance'[d] + Price * Cardinality(OrdersOf(d))
                        = InitialBalance + moves[d]
                            + Price * Cardinality(refunded' \cap OrdersOf(d))
    BY DEF LedgerMatchesWallet, OrdersOf
<1> DEFINE n == Cardinality(OrdersOf(d))
           m == Cardinality(refunded \cap OrdersOf(d))
<1>1. PICK r \in orders \ refunded : r[1] = k
    OBVIOUS
<1>2. OrdersOf(d) \subseteq Click \X Item /\ r \in Click \X Item
    BY DEF IInv, TypeOK, OrdersOf
<1>3. n \in Nat /\ m \in Nat
    BY <1>2, OrdersAreFinite
<1>5. balance[d] + Price * n = InitialBalance + moves[d] + Price * m
    BY DEF IInv, LedgerMatchesWallet
<1>6. balance[d] \in Int /\ moves[d] \in Int
    BY DEF IInv, TypeOK
<1>7. CASE d = c
  <2>1. refunded' \cap OrdersOf(d) = (refunded \cap OrdersOf(d)) \cup {r}
      BY <1>1, <1>7, RefundedGrows
  <2>2. Cardinality(refunded' \cap OrdersOf(d)) = m + 1
      BY <1>2, <2>1, OrderCounts
  <2>3. balance'[d] = balance[d] + Price
      BY <1>7 DEF IInv, TypeOK
  <2>4. PICK b \in Int, v \in Int, x \in Nat, y \in Nat :
            b = balance[d] /\ v = moves[d] /\ x = n /\ y = m
      BY <1>3, <1>6
  <2>5. b + Price * x = InitialBalance + v + Price * y
      BY <1>5, <2>4
  <2>6. (b + Price) + Price * x = InitialBalance + v + Price * (y + 1)
    <3> HIDE DEF n, m
    <3> QED
        BY <2>5, RefundAdds
  <2> QED
      BY <2>2, <2>3, <2>4, <2>6
<1>8. CASE d # c
  <2>1. refunded' \cap OrdersOf(d) = refunded \cap OrdersOf(d)
      BY <1>1, <1>8, RefundedGrows
  <2>2. balance'[d] = balance[d]
      BY <1>8 DEF IInv, TypeOK
  <2> QED
      BY <1>5, <2>1, <2>2
<1> QED
    BY <1>7, <1>8

\* A transaction that holds a wallet is alone with it.
LEMMA WalletIsAlone ==
    ASSUME IInv, NEW c \in Customer, NEW u \in Task, ~HoldsWallet(u, c),
           pc[u] \in {"stock", "commit", "entry"}, NEW b,
           balance' = [balance EXCEPT ![c] = b]
    PROVE  balance'[CustomerOf(on[u])] = balance[CustomerOf(on[u])]
BY DEF IInv, TypeOK, HoldsWallet

\* A payment that commits keeps the invariant.
LEMMA PayEntryInv ==
    ASSUME IInv, NEW t \in Task, PayEntry(t)
    PROVE  IInv'
<1>0. /\ on[t] \in Click \cup Customer /\ pick[t] \in Int /\ pc[t] = "entry"
      /\ CustomerOf(on[t]) \in Customer /\ balance[CustomerOf(on[t])] \in Int
      /\ seen[t] = balance[CustomerOf(on[t])]
    BY PayingTypes DEF PayEntry, IInv, TaskInv
<1>1. PICK x \in Click \cup Customer, c \in Customer, a \in Int :
          x = on[t] /\ c = CustomerOf(x) /\ a = pick[t]
    BY <1>0
<1>2. /\ balance' = [balance EXCEPT ![c] = balance[c] + a] /\ Book(x, a)
      /\ orders' = orders /\ stock' = stock /\ blocked' = blocked /\ active' = active
    BY <1>0, <1>1 DEF PayEntry
<1>3. TaskTypes' /\ OthersStay(t) /\ pc'[t] = "idle"
    BY ReturnMoves DEF IInv, PayEntry
<1>4. x \in Click => /\ a = Price /\ c = Owner[x]
                     /\ \E p \in orders \ refunded : p[1] = x
    BY <1>0, <1>1 DEF IInv, TaskInv, CustomerOf
<1>5. x \notin Click => c = x
    BY <1>1 DEF CustomerOf
<1>6. TypeOK'
  <2>1. DatabaseTypes'
      BY <1>1, <1>2, <1>5 DEF IInv, TypeOK, DatabaseTypes, Book
  <2> QED
      BY <1>3, <2>1 DEF TypeOK, TaskTypes, DatabaseTypes
<1>7. \A u \in Task : TaskInv(u)'
  <2> SUFFICES ASSUME NEW u \in Task \ {t} PROVE TaskInv(u)'
      BY <1>3, ReturnedIsFree
  <2>1. TaskInv(u) /\ SameHands(u)
      BY <1>3 DEF IInv, OthersStay
  <2>2. ~HoldsWallet(u, c)
      BY <1>0, <1>1 DEF IInv, LockInv, HoldsWallet
  <2>3. pc[u] \in {"stock", "commit", "entry"} =>
            balance'[CustomerOf(on[u])] = balance[CustomerOf(on[u])]
      BY <1>2, <2>2, WalletIsAlone
  <2>4. pc[u] \in Paying /\ on[u] \notin Customer =>
            ((\E p \in orders \ refunded : p[1] = on[u])
               => \E p \in orders' \ refunded' : p[1] = on[u])
    <3>1. CASE x \notin Click
        BY <1>2, <3>1 DEF Book
    <3>2. CASE x \in Click
      <4>1. pc[u] \in Paying => on[u] # x
          BY <1>0, <1>1, <3>2 DEF IInv, LockInv
      <4>2. refunded' = refunded \cup {p \in orders : p[1] = x}
          BY <1>2, <3>2 DEF Book
      <4> QED
          BY <1>2, <4>1, <4>2
    <3> QED
        BY <3>1, <3>2
  <2>5. Undisturbed(u)
      BY <1>2, <2>3, <2>4 DEF Undisturbed
  <2> QED
      BY <2>1, <2>5, TaskKept
<1>8. LockInv'
    BY <1>3, ReturnedIsFree, LocksKept DEF IInv
<1>9. SoldOnce' /\ OneOrderPerClick'
    BY <1>2 DEF IInv, SoldOnce, OneOrderPerClick
<1>10. LedgerMatchesWallet'
  <2>1. CASE x \notin Click
      BY <1>2, <1>5, <2>1, MovesBooked DEF Book
  <2>2. CASE x \in Click
      BY <1>2, <1>4, <2>2, RefundBooked DEF Book
  <2> QED
      BY <2>1, <2>2
<1> QED
    BY <1>6, <1>7, <1>8, <1>9, <1>10 DEF IInv

\* Tasks that stand still keep their locks.
LEMMA TasksStand ==
    ASSUME IInv, UNCHANGED tasks
    PROVE  TaskTypes' /\ LockInv' /\ \A u \in Task : SameHands(u)
BY DEF tasks, IInv, TypeOK, TaskTypes, LockInv, HoldsUser, HoldsWallet, CustomerOf, SameHands

\* An adjustment locks a user nobody has locked.
LEMMA AdjustBalanceInv ==
    ASSUME IInv, NEW t \in Task, NEW c \in Customer, NEW a \in Amounts,
           AdjustBalance(t, c, a)
    PROVE  IInv'
<1>1. /\ TaskTypes' /\ OthersStay(t)
      /\ pc'[t] = "adjust" /\ on'[t] = c /\ pick'[t] = a
    BY BeginMoves DEF IInv, AdjustBalance
<1>2. TaskInv(t)'
    BY <1>1 DEF TaskInv
<1>3. \A d \in Customer : (HoldsUser(t, d)' => d = c) /\ ~HoldsWallet(t, d)'
    BY <1>1 DEF HoldsUser, HoldsWallet, CustomerOf
<1>4. TakesFree(t)
    BY <1>1, <1>3 DEF TakesFree, AdjustBalance, UserFree
<1> QED
    BY <1>1, <1>2, <1>4, HandsInv DEF AdjustBalance

\* It then waits for the wallet too, and commits.
LEMMA AdjustWalletInv ==
    ASSUME IInv, NEW t \in Task, AdjustWallet(t)
    PROVE  IInv'
<1>0. on[t] \in Customer /\ pick[t] \in Amounts
    BY DEF IInv, TaskInv, AdjustWallet
<1>1. PICK c \in Customer, a \in Int : c = on[t] /\ a = pick[t]
    BY <1>0
<1>2. c \notin Click /\ CustomerOf(on[t]) = c
    BY <1>1 DEF CustomerOf
<1>3. /\ balance' = [balance EXCEPT ![c] = balance[c] + a]
      /\ moves' = [moves EXCEPT ![c] = moves[c] + a] /\ refunded' = refunded
      /\ orders' = orders /\ stock' = stock /\ blocked' = blocked /\ active' = active
      /\ WalletFree(c)
    BY <1>1, <1>2 DEF AdjustWallet, Book
<1>4. TaskTypes' /\ OthersStay(t) /\ pc'[t] = "idle"
    BY ReturnMoves DEF IInv, AdjustWallet
<1>5. TypeOK'
  <2>1. DatabaseTypes'
      BY <1>3 DEF IInv, TypeOK, DatabaseTypes
  <2> QED
      BY <1>4, <2>1 DEF TypeOK, TaskTypes, DatabaseTypes
<1>6. \A u \in Task : TaskInv(u)'
  <2> SUFFICES ASSUME NEW u \in Task \ {t} PROVE TaskInv(u)'
      BY <1>4, ReturnedIsFree
  <2>1. TaskInv(u) /\ SameHands(u)
      BY <1>4 DEF IInv, OthersStay
  <2>2. pc[u] \in {"stock", "commit", "entry"} =>
            balance'[CustomerOf(on[u])] = balance[CustomerOf(on[u])]
      BY <1>3, WalletIsAlone DEF WalletFree
  <2>3. Undisturbed(u)
      BY <1>3, <2>2 DEF Undisturbed
  <2> QED
      BY <2>1, <2>3, TaskKept
<1>7. LockInv'
    BY <1>4, ReturnedIsFree, LocksKept DEF IInv
<1>8. SoldOnce' /\ OneOrderPerClick'
    BY <1>3 DEF IInv, SoldOnce, OneOrderPerClick
<1>9. LedgerMatchesWallet'
    BY <1>3, MovesBooked
<1> QED
    BY <1>5, <1>6, <1>7, <1>8, <1>9 DEF IInv

\* An import adds what nobody can have picked.
LEMMA ImportStockInv ==
    ASSUME IInv, NEW file \in SUBSET Item, ImportStock(file)
    PROVE  IInv'
<1>1. /\ stock' = [i \in Item |-> IF i \in file THEN "available" ELSE stock[i]]
      /\ \A i \in file : stock[i] = "none"
      /\ UNCHANGED <<orders, refunded, balance, moves, blocked, active, tasks>>
    BY DEF ImportStock
<1>2. TaskTypes' /\ LockInv' /\ \A u \in Task : SameHands(u)
    BY <1>1, TasksStand
<1>3. TypeOK'
    BY <1>1, <1>2 DEF IInv, TypeOK, TaskTypes
<1>4. \A u \in Task : TaskInv(u)'
  <2> SUFFICES ASSUME NEW u \in Task PROVE TaskInv(u)'
      OBVIOUS
  <2>1. TaskInv(u) /\ (pc[u] = "commit" => stock'[pick[u]] = stock[pick[u]])
      BY <1>1 DEF IInv, TaskInv
  <2>2. Undisturbed(u)
      BY <1>1, <2>1 DEF Undisturbed
  <2> QED
      BY <1>2, <2>1, <2>2, TaskKept
<1>5. SoldOnce'
    BY <1>1 DEF IInv, TypeOK, SoldOnce
<1>6. OneOrderPerClick' /\ LedgerMatchesWallet'
    BY <1>1 DEF IInv, OneOrderPerClick, LedgerMatchesWallet, OrdersOf
<1> QED
    BY <1>2, <1>3, <1>4, <1>5, <1>6 DEF IInv

\* Blocking a customer waits for the purchase that has locked him.
LEMMA SetBlockedInv ==
    ASSUME IInv, NEW c \in Customer, SetBlocked(c)
    PROVE  IInv'
<1>1. /\ blocked' \subseteq blocked \cup {c} /\ UserFree(c)
      /\ UNCHANGED <<stock, orders, refunded, balance, moves, active, tasks>>
    BY DEF SetBlocked
<1>2. TaskTypes' /\ LockInv' /\ \A u \in Task : SameHands(u)
    BY <1>1, TasksStand
<1>3. TypeOK'
    BY <1>1, <1>2 DEF IInv, TypeOK, TaskTypes
<1>4. \A u \in Task : TaskInv(u)'
  <2> SUFFICES ASSUME NEW u \in Task PROVE TaskInv(u)'
      OBVIOUS
  <2>1. TaskInv(u)
      BY DEF IInv
  <2>2. pc[u] \in {"wallet", "stock", "commit"} => Owner[on[u]] # c
      BY <1>1, <2>1 DEF UserFree, HoldsUser, CustomerOf, TaskInv
  <2>3. Undisturbed(u)
      BY <1>1, <2>2 DEF Undisturbed
  <2> QED
      BY <1>2, <2>1, <2>3, TaskKept
<1>5. SoldOnce' /\ OneOrderPerClick' /\ LedgerMatchesWallet'
    BY <1>1 DEF IInv, SoldOnce, OneOrderPerClick, LedgerMatchesWallet, OrdersOf
<1> QED
    BY <1>2, <1>3, <1>4, <1>5 DEF IInv

\* Nothing depends on whether the product is sold at all.
LEMMA SetActiveInv ==
    ASSUME IInv, SetActive
    PROVE  IInv'
<1>1. UNCHANGED <<stock, orders, refunded, balance, moves, blocked, tasks>>
      /\ active' = ~active
    BY DEF SetActive
<1>2. TaskTypes' /\ LockInv' /\ \A u \in Task : SameHands(u)
    BY <1>1, TasksStand
<1>3. TypeOK'
    BY <1>1, <1>2 DEF IInv, TypeOK, TaskTypes
<1>4. \A u \in Task : TaskInv(u)'
    BY <1>1, <1>2, TaskKept DEF IInv, Undisturbed
<1>5. SoldOnce' /\ OneOrderPerClick' /\ LedgerMatchesWallet'
    BY <1>1 DEF IInv, SoldOnce, OneOrderPerClick, LedgerMatchesWallet, OrdersOf
<1> QED
    BY <1>2, <1>3, <1>4, <1>5 DEF IInv

\* Every step keeps the invariant.
LEMMA NextInv == IInv /\ [Next]_vars => IInv'
<1> SUFFICES ASSUME IInv, [Next]_vars PROVE IInv'
    OBVIOUS
<1>1. ASSUME NEW t \in Task, TaskStep(t) \/ Abort(t) PROVE IInv'
  <2>1. CASE \/ Refuse(t) \/ InsufficientBalance(t) \/ OutOfStock(t)
             \/ DeadlockAbort(t) \/ Abort(t)
      BY <2>1, GivesUpInv DEF Refuse, InsufficientBalance, OutOfStock, DeadlockAbort, Abort
  <2> QED
      BY <1>1, <2>1, LockUserInv, LockWalletInv, PickStockInv, CommitInv,
         PayWalletInv, PayEntryInv, AdjustWalletInv DEF TaskStep
<1>2. ASSUME NEW t \in Task, NEW k \in Click, Purchase(t, k) \/ RefundOrder(t, k)
      PROVE  IInv'
    BY <1>2, PurchaseInv, RefundOrderInv
<1>3. ASSUME NEW t \in Task, NEW c \in Customer, NEW a \in Amounts,
             PixPayment(t, c, a) \/ AdjustBalance(t, c, a)
      PROVE  IInv'
    BY <1>3, PixPaymentInv, AdjustBalanceInv
<1>4. ASSUME NEW file \in SUBSET Item, ImportStock(file) PROVE IInv'
    BY <1>4, ImportStockInv
<1>5. ASSUME NEW c \in Customer, SetBlocked(c) PROVE IInv'
    BY <1>5, SetBlockedInv
<1>6. CASE UNCHANGED vars
  <2>1. UNCHANGED tasks /\ UNCHANGED database
      BY <1>6 DEF vars
  <2>2. TaskTypes' /\ LockInv' /\ \A u \in Task : SameHands(u)
      BY <2>1, TasksStand
  <2>3. TypeOK'
      BY <2>1, <2>2 DEF database, IInv, TypeOK, TaskTypes
  <2>4. \A u \in Task : TaskInv(u)'
      BY <2>1, <2>2, TaskKept DEF database, IInv, Undisturbed
  <2>5. SoldOnce' /\ OneOrderPerClick' /\ LedgerMatchesWallet'
      BY <2>1 DEF database, IInv, SoldOnce, OneOrderPerClick, LedgerMatchesWallet, OrdersOf
  <2> QED
      BY <2>2, <2>3, <2>4, <2>5 DEF IInv
<1> QED
    BY <1>1, <1>2, <1>3, <1>4, <1>5, <1>6, SetActiveInv DEF Next

\* The invariant holds in every reachable state.
THEOREM Invariance == Spec => []IInv
BY InitInv, NextInv, PTL DEF Spec

-----------------------------------------------------------------------------
(* The safety properties, for every instance.                              *)

\* Every variable keeps its type.
THEOREM TypeCorrect == Spec => []TypeOK
<1>1. IInv => TypeOK
    BY DEF IInv
<1> QED
    BY Invariance, <1>1, PTL

\* SKIP LOCKED and the lock of the picked item hand out each item once.
THEOREM ItemsAreSoldOnce == Spec => []SoldOnce
<1>1. IInv => SoldOnce
    BY DEF IInv
<1> QED
    BY Invariance, <1>1, PTL

\* The second look under the user's lock makes each button one order.
THEOREM ClicksBuyOnce == Spec => []OneOrderPerClick
<1>1. IInv => OneOrderPerClick
    BY DEF IInv
<1> QED
    BY Invariance, <1>1, PTL

\* Purchases, payments, refunds and adjustments lose none of each other's
\* updates of a wallet.
THEOREM LedgerAgreement == Spec => []LedgerMatchesWallet
<1>1. IInv => LedgerMatchesWallet
    BY DEF IInv
<1> QED
    BY Invariance, <1>1, PTL

\* A step that changes somebody's orders is a commit.
LEMMA OnlyCommitBuys ==
    ASSUME [Next]_vars, orders' # orders
    PROVE  \E t \in Task : Commit(t)
BY DEF Next, TaskStep, vars, database, Purchase, RefundOrder, PixPayment, AdjustBalance,
       ImportStock, SetBlocked, SetActive, LockUser, Refuse, LockWallet,
       InsufficientBalance, PickStock, OutOfStock, PayWallet, PayEntry, AdjustWallet,
       DeadlockAbort, Abort

\* Whose orders change is who commits.
LEMMA BuyerCommits ==
    ASSUME IInv, NEW t \in Task, Commit(t), NEW c \in Customer, OrdersOf(c)' # OrdersOf(c)
    PROVE  /\ c = Owner[on[t]] /\ c \notin blocked
           /\ balance[c] \in Int /\ balance[c] >= Price /\ balance'[c] = balance[c] - Price
<1>1. orders' = orders \cup {<<on[t], pick[t]>>}
    BY DEF Commit
<1>2. c = Owner[on[t]]
    BY <1>1 DEF OrdersOf
<1> QED
    BY <1>2, CommitFacts

\* No purchase commits on a balance below the price.
THEOREM BuyersStaySolvent == Spec => NoOverdraft
<1>1. ASSUME IInv, [Next]_vars
      PROVE  [\A c \in Customer : OrdersOf(c)' # OrdersOf(c) => balance'[c] >= 0]_vars
  <2> SUFFICES ASSUME NEW c \in Customer, OrdersOf(c)' # OrdersOf(c)
               PROVE  balance'[c] >= 0
      OBVIOUS
  <2>1. orders' # orders
      BY DEF OrdersOf
  <2>2. PICK t \in Task : Commit(t)
      BY <1>1, <2>1, OnlyCommitBuys
  <2> QED
      BY <1>1, <2>2, BuyerCommits
<1> QED
    BY <1>1, Invariance, PTL DEF Spec, NoOverdraft

\* No purchase of a blocked customer commits, not even one under way.
THEOREM BlockedIsBlocked == Spec => BlockedBuysNothing
<1>1. ASSUME IInv, [Next]_vars
      PROVE  [\A c \in blocked : OrdersOf(c)' = OrdersOf(c)]_vars
  <2> SUFFICES ASSUME NEW c \in blocked, OrdersOf(c)' # OrdersOf(c)
               PROVE  FALSE
      OBVIOUS
  <2>1. orders' # orders /\ c \in Customer
      BY <1>1 DEF OrdersOf, IInv, TypeOK
  <2>2. PICK t \in Task : Commit(t)
      BY <1>1, <2>1, OnlyCommitBuys
  <2> QED
      BY <1>1, <2>1, <2>2, BuyerCommits
<1> QED
    BY <1>1, Invariance, PTL DEF Spec, BlockedBuysNothing

-----------------------------------------------------------------------------
(* Every transaction has the effect of one atomic step.                    *)

\* A purchase that commits buys in one step of AtomicPurchase.
LEMMA CommitIsBuy ==
    ASSUME IInv, NEW t \in Task, Commit(t)
    PROVE  Atomic!Buy(on[t], pick[t])
<1>1. /\ on[t] \in Click /\ pick[t] \in Item /\ seen[t] = balance[Owner[on[t]]]
    BY CommitFacts DEF Commit, IInv, TaskInv, CustomerOf
<1>2. \A p \in orders : p[1] # on[t]
  <2> SUFFICES ASSUME NEW p \in orders, p[1] = on[t] PROVE FALSE
      OBVIOUS
  <2>1. PICK i \in Item : p = <<on[t], i>>
      BY DEF IInv, TypeOK
  <2> QED
      BY <2>1, CommitFacts
<1> QED
    BY <1>1, <1>2, CommitFacts DEF Commit, Atomic!Buy

\* A payment that commits refunds one order, or moves what was asked for.
LEMMA PayEntryIsAtomic ==
    ASSUME IInv, NEW t \in Task, PayEntry(t)
    PROVE  \/ \E p \in orders : Atomic!Refund(p)
           \/ \E c \in Customer, a \in Amounts : Atomic!Move(c, a)
<1>1. /\ on[t] \in Click \cup Customer /\ pc[t] = "entry" /\ TaskInv(t)
      /\ seen[t] = balance[CustomerOf(on[t])]
    BY PayingTypes DEF PayEntry, IInv, TaskInv
<1>2. /\ balance' = [balance EXCEPT ![CustomerOf(on[t])] = @ + pick[t]]
      /\ Book(on[t], pick[t])
      /\ UNCHANGED <<stock, orders, blocked>>
    BY <1>1 DEF PayEntry
<1>3. CASE on[t] \in Click
  <2>1. pick[t] = Price /\ \E p \in orders \ refunded : p[1] = on[t]
      BY <1>1, <1>3, SetsAssumption DEF TaskInv
  <2>2. PICK p \in orders \ refunded : p[1] = on[t]
      BY <2>1
  <2>3. {q \in orders : q[1] = on[t]} = {p}
      BY <2>2 DEF IInv, OneOrderPerClick
  <2>4. refunded' = refunded \cup {p}
      BY <1>2, <1>3, <2>3 DEF Book
  <2>5. Atomic!Refund(p)
      BY <1>2, <1>3, <2>1, <2>2, <2>4 DEF Atomic!Refund, CustomerOf
  <2> QED
      BY <2>2, <2>5
<1>4. CASE on[t] \notin Click
  <2>1. on[t] \in Customer /\ CustomerOf(on[t]) = on[t] /\ pick[t] \in Amounts
      BY <1>1, <1>4 DEF TaskInv, CustomerOf
  <2>2. refunded' = refunded
      BY <1>2, <1>4 DEF Book
  <2>3. Atomic!Move(on[t], pick[t])
      BY <1>2, <2>1, <2>2 DEF Atomic!Move
  <2> QED
      BY <2>1, <2>3
<1> QED
    BY <1>3, <1>4

\* An adjustment that commits moves what was asked for.
LEMMA AdjustWalletIsAtomic ==
    ASSUME IInv, NEW t \in Task, AdjustWallet(t)
    PROVE  \E c \in Customer, a \in Amounts : Atomic!Move(c, a)
<1>1. on[t] \in Customer /\ pick[t] \in Amounts /\ on[t] \notin Click
    BY DEF IInv, TaskInv, AdjustWallet
<1>2. Atomic!Move(on[t], pick[t])
    BY <1>1 DEF AdjustWallet, Book, CustomerOf, Atomic!Move
<1> QED
    BY <1>1, <1>2

\* Every step of the system is a step of AtomicPurchase, or is not seen.
LEMMA NextIsAtomic ==
    ASSUME IInv, [Next]_vars
    PROVE  [Atomic!Next]_(Atomic!vars)
<1>1. ASSUME NEW t \in Task, TaskStep(t) \/ Abort(t) PROVE [Atomic!Next]_(Atomic!vars)
  <2>1. CASE Commit(t)
      BY <2>1, CommitIsBuy, CommitFacts DEF Atomic!Next
  <2>2. CASE PayEntry(t)
      BY <2>2, PayEntryIsAtomic DEF Atomic!Next
  <2>3. CASE AdjustWallet(t)
      BY <2>3, AdjustWalletIsAtomic DEF Atomic!Next
  <2>4. CASE UNCHANGED database
      BY <2>4 DEF database, Atomic!vars
  <2> QED
      BY <1>1, <2>1, <2>2, <2>3, <2>4
         DEF TaskStep, Abort, LockUser, Refuse, LockWallet, InsufficientBalance, PickStock,
             OutOfStock, PayWallet, DeadlockAbort
<1>2. CASE \/ \E t \in Task, k \in Click : Purchase(t, k) \/ RefundOrder(t, k)
           \/ \E t \in Task, c \in Customer, a \in Amounts :
                  PixPayment(t, c, a) \/ AdjustBalance(t, c, a)
           \/ SetActive \/ UNCHANGED vars
    BY <1>2 DEF Purchase, RefundOrder, PixPayment, AdjustBalance, SetActive, vars,
                database, Atomic!vars
<1>3. ASSUME NEW file \in SUBSET Item, ImportStock(file) PROVE Atomic!Next
    BY <1>3 DEF ImportStock, Atomic!Next, Atomic!Stock
<1>4. ASSUME NEW c \in Customer, SetBlocked(c) PROVE Atomic!Next
    BY <1>4 DEF SetBlocked, Atomic!Next, Atomic!Block
<1> QED
    BY <1>1, <1>2, <1>3, <1>4 DEF Next

\* The locks make every transaction atomic: purchases, payments, refunds and the
\* administration implement AtomicPurchase, for any number of them at once.
THEOREM ImplementsAtomic == Spec => AtomicSpec
<1>1. Init => Atomic!Init
    BY DEF Init, Atomic!Init
<1>2. IInv /\ [Next]_vars => [Atomic!Next]_(Atomic!vars)
    BY NextIsAtomic
<1> QED
    BY Invariance, <1>1, <1>2, PTL DEF Spec, AtomicSpec, Atomic!Spec

\* Among tasks that all wait for one another are a purchase or an adjustment, which
\* has the user, and a payment or a refund, which has the wallet, that wait for each
\* other: the pairs DeadlockAbort breaks are every deadlock of these transactions on
\* the rows of users and wallets, whatever the number of tasks.
THEOREM EveryDeadlockIsSeen == Spec => []DeadlocksAreSeen
<1>1. ASSUME NEW S \in (SUBSET Task) \ {{}}, \A t \in S : \E u \in S : WaitsFor(t, u)
      PROVE  \E t, u \in S : Deadlocked(t, u)
  <2>1. PICK t : t \in S
      OBVIOUS
  <2>2. PICK u \in S : WaitsFor(t, u)
      BY <1>1, <2>1
  <2>3. PICK v \in S : WaitsFor(u, v)
      BY <1>1
  <2>4. PICK w \in S : WaitsFor(v, w)
      BY <1>1
  <2>5. CASE pc[u] \in {"wallet", "adjust"}
      BY <2>3, <2>4, <2>5 DEF WaitsFor, HoldsUser, HoldsWallet, Deadlocked
  <2>6. CASE pc[u] = "entry"
      BY <2>3, <2>4, <2>6 DEF WaitsFor, HoldsUser, HoldsWallet, Deadlocked
  <2>7. pc[u] \in {"wallet", "adjust", "entry"}
      BY <2>2, <2>3 DEF WaitsFor, HoldsUser, HoldsWallet
  <2> QED
      BY <2>5, <2>6, <2>7
<1>2. DeadlocksAreSeen
    BY <1>1 DEF DeadlocksAreSeen
<1> QED
    BY <1>2, PTL
=============================================================================
