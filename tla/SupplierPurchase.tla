--------------------------- MODULE SupplierPurchase ---------------------------
(***************************************************************************)
(* The purchase of a supplier-fulfilled gift card and its reconciliation   *)
(* (app/services/catalog.py, with the refund of app/cli.py).               *)
(*                                                                         *)
(* One customer with one wallet buys from one product.  An order is named  *)
(* by the idempotency key of the click that creates it, so a repeated      *)
(* click names an order that exists and changes nothing.  A task is one    *)
(* coroutine or CLI process: it runs a purchase from its reservation on,   *)
(* or a reconciliation, and holds no database lock across an await on the  *)
(* supplier.  Every database transaction is one action: it locks the rows  *)
(* it writes, and a transaction the database aborts (a deadlock, a lost    *)
(* connection) is an Abort of its task.                                    *)
(***************************************************************************)
EXTENDS Integers, FiniteSets

CONSTANTS
    Order,          \* idempotency keys of the customer's purchases
    Task,           \* coroutines and CLI processes
    NoOrder,        \* what an idle task works on
    Price,          \* product.price_cents, copied to order.unit_price_cents
    InitialBalance, \* the wallet before the first purchase
    MayDiverge      \* the supplier may answer about something else than asked

ASSUME OrderAssumption   == IsFiniteSet(Order) /\ NoOrder \notin Order
ASSUME PriceAssumption   == Price \in Nat \ {0}
ASSUME BalanceAssumption == InitialBalance \in Nat
ASSUME DivergeAssumption == MayDiverge \in BOOLEAN

VARIABLES
    order,       \* orders.status
    so,          \* supplier_orders.status
    txId,        \* supplier_orders.external_transaction_id is recorded
    code,        \* orders.delivery_ciphertext is stored
    balance,     \* wallets.balance_cents
    debits,      \* wallet_entries with key purchase:<order>
    refunds,     \* wallet_entries with key order-refund:<order>
    purchasable, \* product active, with an active offer, to this customer
    ext,         \* the transaction the supplier holds for the order
    calls,       \* how often supplier.order was called for the order
    pc,          \* the next await or transaction of each task
    on,          \* the order each task works on
    answer       \* the supplier's answer a task still holds

database == <<order, so, txId, code, balance, debits, refunds, purchasable>>
supplier == <<ext, calls>>
tasks    == <<pc, on, answer>>
vars     == <<database, supplier, tasks>>

OrderStatus    == {"processing", "delivered", "refunded", "review"}
SupplierStatus == {"reserved", "submitted", "delivered", "rejected", "review"}
\* PROCESSING is handled like PENDING and stands under its name.
TransactionStatus == {"PENDING", "SUCCESSFUL", "REFUNDED", "FAILED"}
Step == {"idle", "validate", "pause", "order", "lookup", "record", "code",
         "deliver", "refund", "review"}

Finished == {"delivered", "refunded"}
Open     == {"processing", "review"}

\* What the supplier may report of order o: its transaction as it stands, or
\* one whose identifier, product, price or quantity is not the order's.
Report(o) == {ext[o]} \cup IF MayDiverge THEN {"DIVERGENT"} ELSE {}

TypeOK ==
    /\ order \in [Order -> OrderStatus \cup {"none"}]
    /\ so \in [Order -> SupplierStatus \cup {"none"}]
    /\ txId \in [Order -> BOOLEAN]
    /\ code \in [Order -> BOOLEAN]
    /\ balance \in Nat
    /\ debits \in SUBSET Order
    /\ refunds \in SUBSET Order
    /\ purchasable \in BOOLEAN
    /\ ext \in [Order -> TransactionStatus \cup {"none"}]
    /\ calls \in [Order -> Nat]
    /\ pc \in [Task -> Step]
    /\ on \in [Task -> Order \cup {NoOrder}]
    /\ answer \in [Task -> TransactionStatus \cup {"none", "DIVERGENT"}]

Init ==
    /\ order = [o \in Order |-> "none"]
    /\ so = [o \in Order |-> "none"]
    /\ txId = [o \in Order |-> FALSE]
    /\ code = [o \in Order |-> FALSE]
    /\ balance = InitialBalance
    /\ debits = {}
    /\ refunds = {}
    /\ purchasable = TRUE
    /\ ext = [o \in Order |-> "none"]
    /\ calls = [o \in Order |-> 0]
    /\ pc = [t \in Task |-> "idle"]
    /\ on = [t \in Task |-> NoOrder]
    /\ answer = [t \in Task |-> "none"]

-----------------------------------------------------------------------------
(* Moves of a task between its steps.                                      *)

Goto(t, step) ==
    /\ pc' = [pc EXCEPT ![t] = step]
    /\ answer' = [answer EXCEPT ![t] = "none"]
    /\ UNCHANGED on

GotoHolding(t, step, a) ==
    /\ pc' = [pc EXCEPT ![t] = step]
    /\ answer' = [answer EXCEPT ![t] = a]
    /\ UNCHANGED on

Begin(t, o, step) ==
    /\ pc[t] = "idle"
    /\ pc' = [pc EXCEPT ![t] = step]
    /\ on' = [on EXCEPT ![t] = o]
    /\ UNCHANGED answer

Return(t) ==
    /\ pc' = [pc EXCEPT ![t] = "idle"]
    /\ on' = [on EXCEPT ![t] = NoOrder]
    /\ answer' = [answer EXCEPT ![t] = "none"]

-----------------------------------------------------------------------------
(* purchase_product and _fulfill_supplier_purchase.                        *)

Affords == balance >= Price

\* The reservation: user and wallet locked, order, supplier order and debit
\* committed together.  A key whose order exists returns that order instead.
Reserve(t, o) ==
    /\ Begin(t, o, "validate")
    /\ order[o] = "none"
    /\ purchasable
    /\ Affords
    /\ order' = [order EXCEPT ![o] = "processing"]
    /\ so' = [so EXCEPT ![o] = "reserved"]
    /\ balance' = balance - Price
    /\ debits' = debits \cup {o}
    /\ UNCHANGED <<txId, code, refunds, purchasable, supplier>>

\* get_product fails (refund), the live product cannot be sold or lacks
\* margin (pause, then refund), or it can be ordered.
Validate(t) ==
    /\ pc[t] = "validate"
    /\ \E step \in {"refund", "pause", "order"} : Goto(t, step)
    /\ UNCHANGED <<database, supplier>>

PauseProduct(t) ==
    /\ pc[t] = "pause"
    /\ purchasable' = FALSE
    /\ Goto(t, "refund")
    /\ UNCHANGED <<order, so, txId, code, balance, debits, refunds, supplier>>

Called(o) == calls' = [calls EXCEPT ![o] = @ + 1]

OrderRejected(t) ==
    /\ pc[t] = "order"
    /\ Called(on[t])
    /\ Goto(t, "refund")
    /\ UNCHANGED <<database, ext>>

\* A bug the checks must catch: a lost answer is taken for a rejection.
OrderAmbiguousRefunds(t) ==
    /\ pc[t] = "order"
    /\ Called(on[t])
    /\ \E s \in TransactionStatus \cup {"none"} : ext' = [ext EXCEPT ![on[t]] = s]
    /\ Goto(t, "refund")
    /\ UNCHANGED database

\* The answer is lost: the supplier may or may not hold a transaction.
OrderAmbiguous(t) ==
    /\ pc[t] = "order"
    /\ Called(on[t])
    /\ \E s \in TransactionStatus \cup {"none"} : ext' = [ext EXCEPT ![on[t]] = s]
    /\ Goto(t, "review")
    /\ UNCHANGED database

OrderAnswered(t) ==
    /\ pc[t] = "order"
    /\ Called(on[t])
    /\ \E s \in TransactionStatus :
          /\ ext' = [ext EXCEPT ![on[t]] = s]
          /\ \E a \in {s} \cup IF MayDiverge THEN {"DIVERGENT"} ELSE {} :
                GotoHolding(t, "record", a)
    /\ UNCHANGED database

-----------------------------------------------------------------------------
(* reconcile_supplier_order, by the background loop or the CLI.            *)

\* A bug the checks must catch: orders under review are not reconciled.
StartReconcileProcessing(t, o) ==
    /\ Begin(t, o, "lookup")
    /\ order[o] = "processing"
    /\ UNCHANGED <<database, supplier>>

StartReconcile(t, o) ==
    /\ Begin(t, o, "lookup")
    /\ order[o] \in Open
    /\ UNCHANGED <<database, supplier>>

LookupAnswered(t) ==
    /\ pc[t] = "lookup"
    /\ ext[on[t]] # "none"
    /\ \E a \in Report(on[t]) : GotoHolding(t, "record", a)
    /\ UNCHANGED <<database, supplier>>

\* A bug the checks must catch: what is not found is ordered again.
LookupInconclusiveRetries(t) ==
    /\ pc[t] = "lookup"
    /\ Goto(t, "order")
    /\ UNCHANGED <<database, supplier>>

\* A SupplierError, or no transaction found (yet): both go to review.
LookupInconclusive(t) ==
    /\ pc[t] = "lookup"
    /\ Goto(t, "review")
    /\ UNCHANGED <<database, supplier>>

-----------------------------------------------------------------------------
(* _apply_supplier_transaction and the transactions it leads to.           *)

\* What _apply_supplier_transaction does next with a recorded status.
NextStep(status) ==
    CASE status = "SUCCESSFUL" -> "code"
      [] status = "REFUNDED"   -> "refund"
      [] status = "FAILED"     -> "review"

\* The supplier order is locked, the order is read and written without one.
RecordDivergent(t) ==
    LET o == on[t] IN
    /\ pc[t] = "record"
    /\ answer[t] = "DIVERGENT"
    /\ so' = [so EXCEPT ![o] = "review"]
    /\ order' = [order EXCEPT ![o] = IF @ = "delivered" THEN @ ELSE "review"]
    /\ Return(t)
    /\ UNCHANGED <<txId, code, balance, debits, refunds, purchasable, supplier>>

\* A bug the checks must catch: a failure is recorded as a rejection before
\* its order is put under review.
RecordedFailed(o, a) ==
    CASE a = "FAILED"   -> "rejected"
      [] a = "REFUNDED" -> so[o]
      [] OTHER          -> "submitted"

\* The supplier order's status once answer a is recorded for order o.
Recorded(o, a) == IF a \in {"PENDING", "SUCCESSFUL"} THEN "submitted" ELSE so[o]

\* A bug the checks must catch: the transaction's identifier is not stored.
RecordUnidentified(t) ==
    LET o == on[t] IN
    /\ pc[t] = "record"
    /\ answer[t] # "DIVERGENT"
    /\ so' = [so EXCEPT ![o] = Recorded(o, answer[t])]
    /\ IF answer[t] = "PENDING" THEN Return(t) ELSE Goto(t, NextStep(answer[t]))
    /\ UNCHANGED <<order, txId, code, balance, debits, refunds, purchasable, supplier>>

RecordMatching(t) ==
    LET o == on[t] IN
    /\ pc[t] = "record"
    /\ answer[t] # "DIVERGENT"
    /\ txId' = [txId EXCEPT ![o] = TRUE]
    /\ so' = [so EXCEPT ![o] = Recorded(o, answer[t])]
    /\ IF answer[t] = "PENDING" THEN Return(t) ELSE Goto(t, NextStep(answer[t]))
    /\ UNCHANGED <<order, code, balance, debits, refunds, purchasable, supplier>>

FetchCode(t) ==
    /\ pc[t] = "code"
    /\ ext[on[t]] = "SUCCESSFUL"
    /\ Goto(t, "deliver")
    /\ UNCHANGED <<database, supplier>>

CodeUnavailable(t) ==
    /\ pc[t] = "code"
    /\ so' = [so EXCEPT ![on[t]] = "submitted"]
    /\ Return(t)
    /\ UNCHANGED <<order, txId, code, balance, debits, refunds, purchasable, supplier>>

\* A bug the checks must catch: the code is delivered whatever the order became.
DeliverAnyway(t) ==
    LET o == on[t] IN
    /\ pc[t] = "deliver"
    /\ code' = [code EXCEPT ![o] = TRUE]
    /\ order' = [order EXCEPT ![o] = "delivered"]
    /\ so' = [so EXCEPT ![o] = "delivered"]
    /\ Return(t)
    /\ UNCHANGED <<txId, balance, debits, refunds, purchasable, supplier>>

Deliver(t) ==
    LET o == on[t] IN
    /\ pc[t] = "deliver"
    /\ order[o] # "refunded"
    /\ code' = [code EXCEPT ![o] = TRUE]
    /\ order' = [order EXCEPT ![o] = "delivered"]
    /\ so' = [so EXCEPT ![o] = "delivered"]
    /\ Return(t)
    /\ UNCHANGED <<txId, balance, debits, refunds, purchasable, supplier>>

\* The code came after a refund: it is not stored.
DeliverConflict(t) ==
    LET o == on[t] IN
    /\ pc[t] = "deliver"
    /\ order[o] = "refunded"
    /\ so' = [so EXCEPT ![o] = "review"]
    /\ Return(t)
    /\ UNCHANGED <<order, txId, code, balance, debits, refunds, purchasable, supplier>>

-----------------------------------------------------------------------------
(* _refund_supplier_order and _mark_supplier_review.                       *)

\* Bugs the checks must catch: a credit without its entry, and one whose entry
\* has no unique key.
CreditBackUnrecorded(o) ==
    /\ o \notin refunds
    /\ balance' = balance + Price
    /\ UNCHANGED refunds

CreditBackUnkeyed(o) ==
    /\ refunds' = refunds \cup {o}
    /\ balance' = balance + Price

\* The wallet credit and its ledger entry, under the entry's unique key.
CreditBack(o) ==
    /\ o \notin refunds
    /\ refunds' = refunds \cup {o}
    /\ balance' = balance + Price

Refund(t) ==
    LET o == on[t] IN
    /\ pc[t] = "refund"
    /\ order[o] \notin Finished
    /\ CreditBack(o)
    /\ order' = [order EXCEPT ![o] = "refunded"]
    /\ so' = [so EXCEPT ![o] = "rejected"]
    /\ Return(t)
    /\ UNCHANGED <<txId, code, debits, purchasable, supplier>>

RefundRepeated(t) ==
    LET o == on[t] IN
    /\ pc[t] = "refund"
    /\ order[o] = "refunded"
    /\ so' = [so EXCEPT ![o] = "rejected"]
    /\ Return(t)
    /\ UNCHANGED <<order, txId, code, balance, debits, refunds, purchasable, supplier>>

\* The supplier took the money back after the code went out.
RefundConflict(t) ==
    LET o == on[t] IN
    /\ pc[t] = "refund"
    /\ order[o] = "delivered"
    /\ so' = [so EXCEPT ![o] = "review"]
    /\ Return(t)
    /\ UNCHANGED <<order, txId, code, balance, debits, refunds, purchasable, supplier>>

\* The entry's key exists: IntegrityError, the transaction rolls back.
RefundDuplicate(t) ==
    LET o == on[t] IN
    /\ pc[t] = "refund"
    /\ order[o] \notin Finished
    /\ o \in refunds
    /\ Return(t)
    /\ UNCHANGED <<database, supplier>>

MarkReview(t) ==
    LET o == on[t] IN
    /\ pc[t] = "review"
    /\ IF order[o] \in Finished
       THEN UNCHANGED <<order, so>>
       ELSE /\ order' = [order EXCEPT ![o] = "review"]
            /\ so' = [so EXCEPT ![o] = "review"]
    /\ Return(t)
    /\ UNCHANGED <<txId, code, balance, debits, refunds, purchasable, supplier>>

-----------------------------------------------------------------------------
(* The administrator, failures and the supplier.                           *)

\* refund-order --confirm-supplier-loss
AdminRefund(o) ==
    /\ order[o] \notin {"none", "refunded"}
    /\ CreditBack(o)
    /\ order' = [order EXCEPT ![o] = "refunded"]
    /\ so' = [so EXCEPT ![o] = "review"]
    /\ UNCHANGED <<txId, code, debits, purchasable, supplier, tasks>>

SetPurchasable ==
    /\ purchasable' = ~purchasable
    /\ UNCHANGED <<order, so, txId, code, balance, debits, refunds, supplier, tasks>>

\* A restart, a cancelled coroutine, or a transaction the database aborts.
Abort(t) ==
    /\ pc[t] # "idle"
    /\ Return(t)
    /\ UNCHANGED <<database, supplier>>

SupplierProgress(o) ==
    /\ \/ /\ ext[o] = "PENDING"
          /\ \E s \in TransactionStatus \ {"PENDING"} : ext' = [ext EXCEPT ![o] = s]
       \/ /\ ext[o] \in {"SUCCESSFUL", "FAILED"}
          /\ ext' = [ext EXCEPT ![o] = "REFUNDED"]
    /\ UNCHANGED <<database, calls, tasks>>

TaskStep(t) ==
    \/ Validate(t) \/ PauseProduct(t)
    \/ OrderRejected(t) \/ OrderAmbiguous(t) \/ OrderAnswered(t)
    \/ LookupAnswered(t) \/ LookupInconclusive(t)
    \/ RecordDivergent(t) \/ RecordMatching(t)
    \/ FetchCode(t) \/ CodeUnavailable(t) \/ Deliver(t) \/ DeliverConflict(t)
    \/ Refund(t) \/ RefundRepeated(t) \/ RefundConflict(t) \/ RefundDuplicate(t)
    \/ MarkReview(t)
    \/ Abort(t)

Next ==
    \/ \E t \in Task : TaskStep(t)
    \/ \E t \in Task, o \in Order : Reserve(t, o) \/ StartReconcile(t, o)
    \/ \E o \in Order : AdminRefund(o) \/ SupplierProgress(o)
    \/ SetPurchasable

Spec == Init /\ [][Next]_vars

\* The reconciler's loop survives every exception and starts again for each
\* order it lists; a started coroutine runs until it returns or dies; and a
\* supplier that is asked again and again sometimes answers.
Fairness ==
    /\ \A t \in Task : WF_vars(TaskStep(t))
    /\ \A o \in Order :
          /\ SF_vars(\E t \in Task : StartReconcile(t, o))
          /\ SF_vars(\E t \in Task : on[t] = o /\ LookupAnswered(t))
          /\ SF_vars(\E t \in Task : on[t] = o /\ RecordMatching(t))
          /\ SF_vars(\E t \in Task : on[t] = o /\ FetchCode(t))
          /\ SF_vars(\E t \in Task : on[t] = o /\ Deliver(t))
          /\ SF_vars(\E t \in Task : on[t] = o /\ Refund(t))

FairSpec == Spec /\ Fairness

-----------------------------------------------------------------------------
(* What the customer sees of an order: in process and under review are one. *)

Seen(o) ==
    IF order[o] = "none" THEN "none"
    ELSE IF order[o] \in Open THEN "open"
    ELSE IF order[o] = "delivered" THEN "delivered" ELSE "refunded"

Lifecycle == INSTANCE OrderLifecycle WITH
    status <- [o \in Order |-> Seen(o)],
    bought <- calls

Fate == INSTANCE OrderFate WITH status <- [o \in Order |-> Seen(o)]

-----------------------------------------------------------------------------
(* Properties.                                                             *)

\* wallets.balance_cents is what the ledger's entries add up to: no purchase,
\* refund or repeated refund moves the balance without its entry.
LedgerMatchesWallet ==
    balance + Price * Cardinality(debits)
        = InitialBalance + Price * Cardinality(refunds)

\* supplier.order is called at most once for an order, whatever is lost,
\* retried, reconciled or restarted (docs/SECURITY.md:12-13).
AtMostOneCall == \A o \in Order : calls[o] <= 1

\* A supplier order marked rejected costs the shop nothing: the supplier holds
\* no transaction for it, or has returned the money, and no task can still
\* change that (README.md:86-88, "refunds only when rejection is known to be
\* safe").
RejectedHoldsNothing ==
    \A o \in Order : so[o] = "rejected" => ext[o] \in {"none", "REFUNDED"}

\* An order shown as delivered was debited, has its code stored, and was bought
\* by a transaction of the supplier that matched it and succeeded.
DeliveredIsBought ==
    \A o \in Order :
        order[o] = "delivered" =>
            /\ code[o] /\ txId[o] /\ o \in debits
            /\ ext[o] \in {"SUCCESSFUL", "REFUNDED"}

\* list_reconcilable_supplier_orders: what a cycle of the loop works on.
Reconcilable(o) ==
    /\ so[o] \in {"reserved", "submitted", "review"}
    /\ order[o] \in Open

\* An order the customer paid and that is neither delivered nor refunded is
\* always on the reconciler's list, at whatever step its purchase or an earlier
\* reconciliation died.
OpenOrderIsReconcilable ==
    \A o \in Order : order[o] \in Open => Reconcilable(o)

\* A refund is final: an order is refunded exactly when the wallet was credited
\* back under its key, and no late answer, code or retry reopens it.
RefundIsFinal == \A o \in Order : o \in refunds <=> order[o] = "refunded"

\* A code that arrives after the refund is not given out (catalog.py:427-429,
\* "Código recebido depois do reembolso; revisão manual").
NoCodeAfterRefund == [][\A o \in refunds : code'[o] = code[o]]_vars

\* The shop's statuses, supplier calls and balance follow OrderLifecycle: every
\* task, crash and administrator's refund is one of its steps or none.
LifecycleSpec == Lifecycle!Spec

\* To Notices an order takes the steps of OrderFate.
FateSpec == Fate!Spec

\* A divergent answer is recorded for an order that was refunded meanwhile.
LateDivergence(t) == RecordDivergent(t) /\ order[on[t]] = "refunded"

\* _record_transaction never meets such an order, or leaves it alone.
NoLateDivergence == [][\A t \in Task : ~LateDivergence(t)]_vars

\* list_review_supplier_orders: what the CLI shows for manual review.
ReviewListed(o) ==
    /\ so[o] \in {"reserved", "review"}
    /\ order[o] \in Open

\* What the code puts into manual review, the command for manual review shows
\* (docs/RELOADLY.md:101-105); a refund the administrator made himself aside.
ReviewIsListed ==
    \A o \in Order : so[o] = "review" /\ order[o] # "refunded" => ReviewListed(o)

\* A delivered order that was put into manual review is one the supplier
\* returned after the code went out (catalog.py:310-315).
ReviewOfDeliveredIsReturn ==
    \A o \in Order : so[o] = "review" /\ order[o] = "delivered" => ext[o] = "REFUNDED"

\* An order the supplier fulfilled or refunded is eventually delivered to the
\* customer or refunded to the wallet, through lost answers and crashes.
BoughtIsResolved ==
    \A o \in Order :
        (ext[o] \in {"SUCCESSFUL", "REFUNDED"} /\ order[o] \in Open)
            ~> order[o] \in Finished

-----------------------------------------------------------------------------
(* The inductive invariant behind the safety properties.                   *)

\* The steps of a purchase before it has called the supplier.
Buying == {"validate", "pause", "order"}

BuysFor(t, o) == pc[t] \in Buying /\ on[t] = o

\* A task works on an order that was reserved; what it holds of the supplier is
\* still true of the supplier, or has become a return of the money.
TasksInv ==
    \A t \in Task :
        /\ pc[t] # "idle" => on[t] \in Order /\ order[on[t]] # "none"
        /\ pc[t] = "record" =>
              /\ answer[t] # "none"
              /\ answer[t] = "DIVERGENT" => MayDiverge
              /\ answer[t] = "SUCCESSFUL" => ext[on[t]] \in {"SUCCESSFUL", "REFUNDED"}
              /\ answer[t] = "REFUNDED" => ext[on[t]] = "REFUNDED"
        /\ pc[t] \in {"code", "deliver"} =>
              txId[on[t]] /\ ext[on[t]] \in {"SUCCESSFUL", "REFUNDED"}
        /\ pc[t] = "refund" => ext[on[t]] \in {"none", "REFUNDED"}

\* Only the task that reserved an order can call the supplier for it, once; a
\* task about to refund, and a rejected supplier order, have no such task.
BuyersInv ==
    /\ \A t \in Task : pc[t] \in Buying => calls[on[t]] = 0
    /\ \A t, u \in Task :
          /\ t # u /\ pc[t] \in Buying /\ pc[u] \in Buying => on[t] # on[u]
          /\ pc[t] = "refund" /\ pc[u] \in Buying => on[t] # on[u]
    /\ \A o \in Order : so[o] = "rejected" => \A t \in Task : ~BuysFor(t, o)

OrdersInv ==
    \A o \in Order :
        /\ calls[o] \in {0, 1}
        /\ ext[o] # "none" => calls[o] = 1
        /\ order[o] = "none" => so[o] = "none" /\ calls[o] = 0
        /\ order[o] # "none" <=> o \in debits
        /\ o \in refunds => o \in debits
        /\ order[o] = "refunded" => o \in refunds

IInv ==
    /\ TypeOK
    /\ TasksInv
    /\ BuyersInv
    /\ OrdersInv
    /\ LedgerMatchesWallet
    /\ RejectedHoldsNothing
    /\ DeliveredIsBought
    /\ OpenOrderIsReconcilable
=============================================================================
