---------------------------- MODULE ManualPurchase ----------------------------
(***************************************************************************)
(* The purchase of a product delivered from the shop's own stock           *)
(* (purchase_product in app/services/catalog.py), next to everything else  *)
(* that writes the same wallets, stock and orders (app/cli.py, the Pix     *)
(* transactions of app/services/payments.py).                              *)
(*                                                                         *)
(* A purchase is one database transaction that locks rows as it goes, so   *)
(* it is split where it may wait for a lock or where another transaction   *)
(* may skip its lock.  A task's pc tells which rows it has locked; they    *)
(* are released when it commits or aborts.  The unique keys of orders and  *)
(* wallet entries are left out: the locks alone must keep the properties.  *)
(***************************************************************************)
EXTENDS Integers, FiniteSets

CONSTANTS
    Customer,       \* users with a wallet
    Click,          \* idempotency keys of confirmation buttons
    Owner,          \* the customer each button was shown to
    Item,           \* stock items of the product, by fingerprint
    Task,           \* coroutines and CLI processes
    None,           \* no task, no item, nothing to work on
    Price,          \* product.price_cents
    InitialBalance, \* every wallet at first
    Amounts,        \* what other wallet entries add
    MoveBound       \* bound: no other entry begins that would leave -MoveBound..MoveBound

ASSUME SetsAssumption ==
    /\ IsFiniteSet(Click) /\ IsFiniteSet(Item)
    /\ None \notin Click \cup Customer \cup Item
    /\ Click \cap Customer = {}
ASSUME OwnerAssumption  == Owner \in [Click -> Customer]
ASSUME AmountAssumption ==
    /\ Price \in Nat \ {0} /\ InitialBalance \in Int
    /\ Amounts \subseteq Int /\ MoveBound \in Nat

VARIABLES
    stock,    \* stock_items.status, "none" before the import
    orders,   \* orders, as pairs of their idempotency key and stock item
    refunded, \* the orders whose status is refunded
    balance,  \* wallets.balance_cents
    moves,    \* what all wallet entries but purchases and refunds add up to
    blocked,  \* users.is_blocked
    active,   \* products.active
    pc,       \* the next step of each task
    on,       \* the click or the customer each task works on
    seen,     \* the balance a task read under the wallet's lock
    pick      \* the stock item, or the amount, a task is about to commit

database == <<stock, orders, refunded, balance, moves, blocked, active>>
tasks    == <<pc, on, seen, pick>>
vars     == <<database, tasks>>

Buying == {"user", "wallet", "stock", "commit"}
Paying == {"payment", "entry"}

TypeOK ==
    /\ stock \in [Item -> {"none", "available", "sold"}]
    /\ orders \subseteq Click \X Item
    /\ refunded \subseteq orders
    /\ balance \in [Customer -> Int]
    /\ moves \in [Customer -> Int]
    /\ blocked \subseteq Customer
    /\ active \in BOOLEAN
    /\ pc \in [Task -> {"idle", "adjust"} \cup Buying \cup Paying]
    /\ on \in [Task -> Click \cup Customer \cup {None}]
    /\ seen \in [Task -> Int]
    /\ pick \in [Task -> Item \cup Int \cup {None}]

Init ==
    /\ stock = [i \in Item |-> "none"]
    /\ orders = {}
    /\ refunded = {}
    /\ balance = [c \in Customer |-> InitialBalance]
    /\ moves = [c \in Customer |-> 0]
    /\ blocked = {}
    /\ active = TRUE
    /\ pc = [t \in Task |-> "idle"]
    /\ on = [t \in Task |-> None]
    /\ seen = [t \in Task |-> 0]
    /\ pick = [t \in Task |-> None]

-----------------------------------------------------------------------------
(* Rows, locks and moves of a task.                                        *)

OrdersOf(c) == {p \in orders : Owner[p[1]] = c}

HasOrder(k) == \E i \in Item : <<k, i>> \in orders

\* Whose rows a task works on.
CustomerOf(x) == IF x \in Click THEN Owner[x] ELSE x

\* FOR UPDATE on the user, and on the wallet; a stock item is locked by pick.
HoldsUser(t, c)   == pc[t] \in {"wallet", "stock", "commit", "adjust"} /\ CustomerOf(on[t]) = c
HoldsWallet(t, c) == pc[t] \in {"stock", "commit", "entry"} /\ CustomerOf(on[t]) = c

UserFree(c)   == \A t \in Task : ~HoldsUser(t, c)
WalletFree(c) == \A t \in Task : ~HoldsWallet(t, c)

Locked(i) == \E t \in Task : pc[t] = "commit" /\ pick[t] = i

Begin(t, x, step, p) ==
    /\ pc[t] = "idle"
    /\ pc' = [pc EXCEPT ![t] = step]
    /\ on' = [on EXCEPT ![t] = x]
    /\ pick' = [pick EXCEPT ![t] = p]
    /\ UNCHANGED seen

\* A row read under its lock is what the transaction will write from.
Read(t, step, b, p) ==
    /\ pc' = [pc EXCEPT ![t] = step]
    /\ seen' = [seen EXCEPT ![t] = b]
    /\ pick' = [pick EXCEPT ![t] = p]
    /\ UNCHANGED on

Return(t) ==
    /\ pc' = [pc EXCEPT ![t] = "idle"]
    /\ on' = [on EXCEPT ![t] = None]
    /\ seen' = [seen EXCEPT ![t] = 0]
    /\ pick' = [pick EXCEPT ![t] = None]

-----------------------------------------------------------------------------
(* purchase_product.  A click whose order the first query finds is answered *)
(* with that order and changes nothing.                                    *)

Purchase(t, k) ==
    /\ ~HasOrder(k)
    /\ Begin(t, k, "user", None)
    /\ UNCHANGED database

\* A bug the checks must catch: the query is not repeated under the lock.
MayBuyUnrepeated(k) == Owner[k] \notin blocked /\ active

\* What is checked once the user is locked; the product is not locked.
MayBuy(k) == ~HasOrder(k) /\ Owner[k] \notin blocked /\ active

LockUser(t) ==
    /\ pc[t] = "user"
    /\ UserFree(Owner[on[t]])
    /\ MayBuy(on[t])
    /\ Read(t, "wallet", 0, None)
    /\ UNCHANGED database

\* Repeated in the meantime, blocked, or no longer sold.
Refuse(t) ==
    /\ pc[t] = "user"
    /\ UserFree(Owner[on[t]])
    /\ ~MayBuy(on[t])
    /\ Return(t)
    /\ UNCHANGED database

\* A bug the checks must catch: any balance but a debt is enough.
AffordsUnpriced(c) == balance[c] >= 0

Affords(c) == balance[c] >= Price

\* A bug the checks must catch: the wallet is read without its lock.
LockWalletUnlocked(t) ==
    LET c == Owner[on[t]] IN
    /\ pc[t] = "wallet"
    /\ Affords(c)
    /\ Read(t, "stock", balance[c], None)
    /\ UNCHANGED database

LockWallet(t) ==
    LET c == Owner[on[t]] IN
    /\ pc[t] = "wallet"
    /\ WalletFree(c)
    /\ Affords(c)
    /\ Read(t, "stock", balance[c], None)
    /\ UNCHANGED database

InsufficientBalance(t) ==
    LET c == Owner[on[t]] IN
    /\ pc[t] = "wallet"
    /\ WalletFree(c)
    /\ ~Affords(c)
    /\ Return(t)
    /\ UNCHANGED database

\* A bug the checks must catch: the item is read without its lock.
OfferedUnlocked == {i \in Item : stock[i] = "available"}

\* Items another purchase has locked are skipped, not waited for.
Offered == {i \in Item : stock[i] = "available" /\ ~Locked(i)}

PickStock(t) ==
    /\ pc[t] = "stock"
    /\ \E i \in Offered : Read(t, "commit", seen[t], i)
    /\ UNCHANGED database

\* A bug the checks must catch: the purchase waits for stock instead.
OutOfStockWaits(t) ==
    /\ pc[t] = "stock"
    /\ FALSE
    /\ Return(t)
    /\ UNCHANGED database

OutOfStock(t) ==
    /\ pc[t] = "stock"
    /\ Offered = {}
    /\ Return(t)
    /\ UNCHANGED database

\* Order, stock and debit are committed together; the balance is written as
\* computed from what was read.
Commit(t) ==
    LET c == Owner[on[t]] IN
    /\ pc[t] = "commit"
    /\ orders' = orders \cup {<<on[t], pick[t]>>}
    /\ stock' = [stock EXCEPT ![pick[t]] = "sold"]
    /\ balance' = [balance EXCEPT ![c] = seen[t] - Price]
    /\ Return(t)
    /\ UNCHANGED <<refunded, moves, blocked, active>>

-----------------------------------------------------------------------------
(* What else writes wallets: Pix credits and reversals, refund-order and   *)
(* adjust-balance.  All but the last lock the wallet first; their new entry *)
(* then refers to the user and needs that row not to be locked by another. *)

PixPayment(t, c, a) ==
    /\ moves[c] + a \in -MoveBound..MoveBound
    /\ Begin(t, c, "payment", a)
    /\ UNCHANGED database

\* A bug the checks must catch: the order is read without its lock.
RefundOrderUnlocked(t, k) ==
    /\ \E p \in orders \ refunded : p[1] = k
    /\ Begin(t, k, "payment", Price)
    /\ UNCHANGED database

\* The order is locked throughout: no other refund of it gets this far.
RefundOrder(t, k) ==
    /\ \E p \in orders \ refunded : p[1] = k
    /\ \A u \in Task : ~(pc[u] \in Paying /\ on[u] = k)
    /\ Begin(t, k, "payment", Price)
    /\ UNCHANGED database

PayWallet(t) ==
    LET c == CustomerOf(on[t]) IN
    /\ pc[t] = "payment"
    /\ WalletFree(c)
    /\ Read(t, "entry", balance[c], pick[t])
    /\ UNCHANGED database

\* What has been booked for x is one more refund or one more move.
Book(x, a) ==
    IF x \in Click
    THEN refunded' = refunded \cup {p \in orders : p[1] = x} /\ UNCHANGED moves
    ELSE moves' = [moves EXCEPT ![x] = @ + a] /\ UNCHANGED refunded

PayEntry(t) ==
    LET c == CustomerOf(on[t]) IN
    /\ pc[t] = "entry"
    /\ UserFree(c)
    /\ balance' = [balance EXCEPT ![c] = seen[t] + pick[t]]
    /\ Book(on[t], pick[t])
    /\ Return(t)
    /\ UNCHANGED <<stock, orders, blocked, active>>

\* The user is locked, then the wallet: the order of a purchase.
AdjustBalance(t, c, a) ==
    /\ UserFree(c)
    /\ moves[c] + a \in -MoveBound..MoveBound
    /\ Begin(t, c, "adjust", a)
    /\ UNCHANGED database

AdjustWallet(t) ==
    LET c == CustomerOf(on[t]) IN
    /\ pc[t] = "adjust"
    /\ WalletFree(c)
    /\ balance' = [balance EXCEPT ![c] = @ + pick[t]]
    /\ Book(on[t], pick[t])
    /\ Return(t)
    /\ UNCHANGED <<stock, orders, blocked, active>>

-----------------------------------------------------------------------------
(* The rest of the administration, and failures.                           *)

\* A file is imported whole, or refused when one of its items is known.
ImportStock(file) ==
    /\ file # {}
    /\ \A i \in file : stock[i] = "none"
    /\ stock' = [i \in Item |-> IF i \in file THEN "available" ELSE stock[i]]
    /\ UNCHANGED <<orders, refunded, balance, moves, blocked, active, tasks>>

\* A bug the checks must catch: the user is blocked without a lock.
SetBlockedUnlocked(c) ==
    /\ blocked' = IF c \in blocked THEN blocked \ {c} ELSE blocked \cup {c}
    /\ UNCHANGED <<stock, orders, refunded, balance, moves, active, tasks>>

SetBlocked(c) ==
    /\ UserFree(c)
    /\ blocked' = IF c \in blocked THEN blocked \ {c} ELSE blocked \cup {c}
    /\ UNCHANGED <<stock, orders, refunded, balance, moves, active, tasks>>

SetActive ==
    /\ active' = ~active
    /\ UNCHANGED <<stock, orders, refunded, balance, moves, blocked, tasks>>

\* t cannot go on before u releases a row.
WaitsFor(t, u) ==
    LET c == CustomerOf(on[t]) IN
    \/ pc[t] \in {"user", "entry"} /\ HoldsUser(u, c)
    \/ pc[t] \in {"wallet", "adjust", "payment"} /\ HoldsWallet(u, c)

\* A purchase or an adjustment has the user and waits for the wallet, a payment or
\* a refund has the wallet and waits for the user.
Deadlocked(t, u) ==
    /\ pc[t] \in {"wallet", "adjust"} /\ pc[u] = "entry"
    /\ CustomerOf(on[t]) = CustomerOf(on[u])

\* The database aborts one of two transactions that wait for each other.
DeadlockAbort(t) ==
    /\ \E u \in Task : Deadlocked(t, u) \/ Deadlocked(u, t)
    /\ Return(t)
    /\ UNCHANGED database

\* A restart or a lost connection: the transaction rolls back.
Abort(t) ==
    /\ pc[t] # "idle"
    /\ Return(t)
    /\ UNCHANGED database

TaskStep(t) ==
    \/ LockUser(t) \/ Refuse(t)
    \/ LockWallet(t) \/ InsufficientBalance(t)
    \/ PickStock(t) \/ OutOfStock(t)
    \/ Commit(t)
    \/ PayWallet(t) \/ PayEntry(t)
    \/ AdjustWallet(t)
    \/ DeadlockAbort(t)

Next ==
    \/ \E t \in Task : TaskStep(t) \/ Abort(t)
    \/ \E t \in Task, k \in Click : Purchase(t, k) \/ RefundOrder(t, k)
    \/ \E t \in Task, c \in Customer, a \in Amounts :
          PixPayment(t, c, a) \/ AdjustBalance(t, c, a)
    \/ \E file \in SUBSET Item : ImportStock(file)
    \/ \E c \in Customer : SetBlocked(c)
    \/ SetActive

Spec == Init /\ [][Next]_vars

\* Row locks are granted in the order of waiting, and the database breaks
\* deadlocks: a transaction that can go on again and again goes on.
Fairness == \A t \in Task : SF_vars(TaskStep(t))

FairSpec == Spec /\ Fairness

-----------------------------------------------------------------------------
(* Properties.                                                             *)

\* A stock item is sold exactly when one order has it, and to one order only,
\* refunds included (docs/SECURITY.md:9): SKIP LOCKED never hands it out twice.
SoldOnce ==
    /\ \A i \in Item : stock[i] = "sold" <=> \E k \in Click : <<k, i>> \in orders
    /\ \A p, q \in orders : p[2] = q[2] => p = q

\* However often, and in however many tasks at once, a button is clicked, it
\* creates one order (docs/SECURITY.md:10-11).
OneOrderPerClick == \A p, q \in orders : p[1] = q[1] => p = q

\* Every wallet is what its entries add up to (docs/DEPLOYMENT.md:28): no
\* purchase, payment, refund or adjustment overwrites another's balance.
LedgerMatchesWallet ==
    \A c \in Customer :
        balance[c] + Price * Cardinality(OrdersOf(c))
            = InitialBalance + moves[c]
                + Price * Cardinality(refunded \cap OrdersOf(c))

\* A purchase never leaves its customer with a negative balance, though
\* reversals and adjustments, which may, run next to it.
NoOverdraft ==
    [][\A c \in Customer : OrdersOf(c)' # OrdersOf(c) => balance'[c] >= 0]_vars

\* Once set-user-blocked has committed, no purchase of that customer commits
\* any more, not even one that was already running.
BlockedBuysNothing ==
    [][\A c \in blocked : OrdersOf(c)' = OrdersOf(c)]_vars

\* However their transactions interleave, purchases, payments, refunds and the
\* administration have the effect of one atomic step of AtomicPurchase each: what
\* was read under a lock earlier is still so when it is written.
Atomic == INSTANCE AtomicPurchase

AtomicSpec == Atomic!Spec

\* Tasks that all wait for one another, however many, have among them two that
\* DeadlockAbort sees, one with the user and one with the wallet: there is no
\* deadlock among purchases and adjustments, none among payments and refunds, and
\* none of another shape.
DeadlocksAreSeen ==
    \A S \in (SUBSET Task) \ {{}} :
        (\A t \in S : \E u \in S : WaitsFor(t, u)) =>
            \E t, u \in S : Deadlocked(t, u)

\* Every transaction ends, and with it every click is answered, with an order or a
\* refusal, and every payment and adjustment is booked or given up, whoever waits
\* for whom.
TransactionsEnd ==
    \A t \in Task : pc[t] # "idle" ~> pc[t] = "idle"

-----------------------------------------------------------------------------
(* The inductive invariant behind the safety properties.                   *)

\* What a task holds in its hands is still what the database says.
TaskInv(t) ==
    /\ pc[t] \in Buying => on[t] \in Click
    /\ pc[t] \in {"wallet", "stock", "commit"} =>
          ~HasOrder(on[t]) /\ Owner[on[t]] \notin blocked
    /\ pc[t] \in {"stock", "commit", "entry"} =>
          seen[t] = balance[CustomerOf(on[t])]
    /\ pc[t] \in {"stock", "commit"} => seen[t] >= Price
    /\ pc[t] = "commit" => pick[t] \in Item /\ stock[pick[t]] = "available"
    /\ pc[t] \in Paying =>
          /\ pick[t] \in Int
          /\ on[t] \in Customer => pick[t] \in Amounts
          /\ on[t] \notin Customer =>
                pick[t] = Price /\ \E p \in orders \ refunded : p[1] = on[t]
    /\ pc[t] = "adjust" => on[t] \in Customer /\ pick[t] \in Amounts

\* No two tasks hold the same row, and one refund of an order runs at a time.
LockInv ==
    \A t, u \in Task :
        t # u =>
            /\ \A c \in Customer :
                  /\ ~(HoldsUser(t, c) /\ HoldsUser(u, c))
                  /\ ~(HoldsWallet(t, c) /\ HoldsWallet(u, c))
            /\ pc[t] = "commit" /\ pc[u] = "commit" => pick[t] # pick[u]
            /\ pc[t] \in Paying /\ pc[u] \in Paying /\ on[t] \in Click => on[t] # on[u]

IInv ==
    /\ TypeOK
    /\ \A t \in Task : TaskInv(t)
    /\ LockInv
    /\ SoldOnce
    /\ OneOrderPerClick
    /\ LedgerMatchesWallet
=============================================================================
