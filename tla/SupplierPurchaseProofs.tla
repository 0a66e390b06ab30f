------------------------ MODULE SupplierPurchaseProofs ------------------------
(***************************************************************************)
(* Proofs about SupplierPurchase, for every finite set of orders, every    *)
(* set of tasks, every price and every initial balance.                    *)
(***************************************************************************)
EXTENDS SupplierPurchase, FiniteSetTheorems, TLAPS

USE OrderAssumption, PriceAssumption, BalanceAssumption, DivergeAssumption
USE DEF OrderStatus, SupplierStatus, TransactionStatus, Step, Finished, Open

\* An entry under a new key adds one to its side of the ledger.
LEMMA EntryCounts ==
    ASSUME NEW S \in SUBSET Order, NEW o \in Order, o \notin S
    PROVE  /\ Cardinality(S) \in Nat
           /\ Cardinality(S \cup {o}) = Cardinality(S) + 1
<1>1. IsFiniteSet(S)
    BY FS_Subset
<1>2. QED
    BY <1>1, FS_CardinalityType, FS_AddElement

\* Crediting an order back moves the wallet and the ledger by the same amount.
LEMMA CreditKeepsLedger ==
    ASSUME IInv, NEW o \in Order, CreditBack(o), UNCHANGED debits
    PROVE  LedgerMatchesWallet'
<1>1. Cardinality(debits) \in Nat
    BY FS_Subset, FS_CardinalityType DEF IInv, TypeOK
<1>2. /\ Cardinality(refunds) \in Nat
      /\ Cardinality(refunds') = Cardinality(refunds) + 1
    BY EntryCounts DEF IInv, TypeOK, CreditBack
<1>3. Price * (Cardinality(refunds) + 1) = Price * Cardinality(refunds) + Price
    BY <1>2
<1> QED
    BY <1>1, <1>2, <1>3 DEF IInv, TypeOK, CreditBack, LedgerMatchesWallet

-----------------------------------------------------------------------------
(* The invariant holds initially and every action keeps it.                *)

\* Before the first purchase nothing is owed and nobody works.
LEMMA InitInv == Init => IInv
<1> SUFFICES ASSUME Init PROVE IInv
    OBVIOUS
<1>1. TypeOK
    BY DEF Init, TypeOK
<1>2. TasksInv /\ BuyersInv /\ OrdersInv
    BY DEF Init, TasksInv, BuyersInv, Buying, BuysFor, OrdersInv
<1>3. LedgerMatchesWallet
    BY FS_EmptySet DEF Init, LedgerMatchesWallet
<1>4. /\ RejectedHoldsNothing
      /\ DeliveredIsBought
      /\ OpenOrderIsReconcilable
    BY DEF Init, RejectedHoldsNothing, DeliveredIsBought,
           OpenOrderIsReconcilable, Reconcilable
<1> QED
    BY <1>1, <1>2, <1>3, <1>4 DEF IInv

\* Reserving an order keeps the invariant: no task can be buying it yet.
LEMMA ReserveInv ==
    ASSUME IInv, NEW t \in Task, NEW o \in Order, Reserve(t, o)
    PROVE  IInv'
<1> USE DEF Reserve, Affords, Begin, database, supplier, tasks
<1>1. TypeOK'
    BY DEF IInv, TypeOK, TasksInv
<1>2. TasksInv'
    BY DEF IInv, TypeOK, TasksInv, BuyersInv, OrdersInv, Buying
<1>3. BuyersInv'
    BY DEF IInv, TypeOK, TasksInv, BuyersInv, OrdersInv, BuysFor, Buying,
        RejectedHoldsNothing
<1>4. OrdersInv'
    BY DEF IInv, TypeOK, TasksInv, BuyersInv, OrdersInv, Buying
<1>5. LedgerMatchesWallet'
  <2>1. o \notin debits
      BY DEF IInv, TypeOK, OrdersInv
  <2>2. /\ Cardinality(debits) \in Nat
        /\ Cardinality(debits') = Cardinality(debits) + 1
      BY <2>1, EntryCounts DEF IInv, TypeOK
  <2>3. QED
      BY <2>2 DEF IInv, TypeOK, LedgerMatchesWallet
<1>6. RejectedHoldsNothing'
    BY DEF IInv, TypeOK, TasksInv, BuyersInv, BuysFor, Buying,
        RejectedHoldsNothing
<1>7. DeliveredIsBought'
    BY DEF IInv, TypeOK, TasksInv, BuyersInv, OrdersInv, Buying,
        DeliveredIsBought
<1>8. OpenOrderIsReconcilable'
    BY DEF IInv, TypeOK, TasksInv, OpenOrderIsReconcilable, Reconcilable
<1> QED
    BY <1>1, <1>2, <1>3, <1>4, <1>5, <1>6, <1>7, <1>8 DEF IInv

\* Validation keeps the invariant: a task that turns to the refund was the only
\* buyer of its order, and the supplier holds nothing.
LEMMA ValidateInv ==
    ASSUME IInv, NEW t \in Task, Validate(t)
    PROVE  IInv'
<1> USE DEF Validate, Goto, database, supplier, tasks
<1>1. TypeOK'
    BY DEF IInv, TypeOK, TasksInv
<1>2. TasksInv'
    BY DEF IInv, TypeOK, TasksInv, BuyersInv, OrdersInv, Buying
<1>3. BuyersInv'
    BY DEF IInv, TypeOK, TasksInv, BuyersInv, OrdersInv, BuysFor, Buying,
        RejectedHoldsNothing
<1>4. /\ OrdersInv'
     /\ LedgerMatchesWallet'
     /\ RejectedHoldsNothing'
     /\ DeliveredIsBought'
     /\ OpenOrderIsReconcilable'
    BY DEF IInv, TypeOK, OrdersInv, LedgerMatchesWallet, RejectedHoldsNothing,
        DeliveredIsBought, OpenOrderIsReconcilable, Reconcilable
<1> QED
    BY <1>1, <1>2, <1>3, <1>4 DEF IInv

\* Pausing the product keeps the invariant.
LEMMA PauseProductInv ==
    ASSUME IInv, NEW t \in Task, PauseProduct(t)
    PROVE  IInv'
<1> USE DEF PauseProduct, Goto, database, supplier, tasks
<1>1. TypeOK'
    BY DEF IInv, TypeOK, TasksInv
<1>2. TasksInv'
    BY DEF IInv, TypeOK, TasksInv, BuyersInv, OrdersInv, Buying
<1>3. BuyersInv'
    BY DEF IInv, TypeOK, TasksInv, BuyersInv, OrdersInv, BuysFor, Buying,
        RejectedHoldsNothing
<1>4. /\ OrdersInv'
     /\ LedgerMatchesWallet'
     /\ RejectedHoldsNothing'
     /\ DeliveredIsBought'
     /\ OpenOrderIsReconcilable'
    BY DEF IInv, TypeOK, OrdersInv, LedgerMatchesWallet, RejectedHoldsNothing,
        DeliveredIsBought, OpenOrderIsReconcilable, Reconcilable
<1> QED
    BY <1>1, <1>2, <1>3, <1>4 DEF IInv

\* A rejected call keeps the invariant: it was the first, and left nothing.
LEMMA OrderRejectedInv ==
    ASSUME IInv, NEW t \in Task, OrderRejected(t)
    PROVE  IInv'
<1> USE DEF OrderRejected, Goto, Called, database, supplier, tasks
<1>1. TypeOK'
    BY DEF IInv, TypeOK, TasksInv
<1>2. TasksInv'
    BY DEF IInv, TypeOK, TasksInv, BuyersInv, OrdersInv, Buying
<1>3. BuyersInv'
    BY DEF IInv, TypeOK, TasksInv, BuyersInv, OrdersInv, BuysFor, Buying,
        RejectedHoldsNothing
<1>4. OrdersInv'
    BY DEF IInv, TypeOK, TasksInv, BuyersInv, OrdersInv, Buying
<1>5. /\ LedgerMatchesWallet'
     /\ RejectedHoldsNothing'
     /\ DeliveredIsBought'
     /\ OpenOrderIsReconcilable'
    BY DEF IInv, LedgerMatchesWallet, RejectedHoldsNothing, DeliveredIsBought,
        OpenOrderIsReconcilable, Reconcilable
<1> QED
    BY <1>1, <1>2, <1>3, <1>4, <1>5 DEF IInv

\* A call whose answer is lost keeps the invariant, whatever the supplier holds.
LEMMA OrderAmbiguousInv ==
    ASSUME IInv, NEW t \in Task, OrderAmbiguous(t)
    PROVE  IInv'
<1> USE DEF OrderAmbiguous, Goto, Called, database, supplier, tasks
<1>1. TypeOK'
    BY DEF IInv, TypeOK, TasksInv
<1>2. TasksInv'
    BY DEF IInv, TypeOK, TasksInv, BuyersInv, OrdersInv, Buying
<1>3. BuyersInv'
    BY DEF IInv, TypeOK, TasksInv, BuyersInv, OrdersInv, BuysFor, Buying,
        RejectedHoldsNothing
<1>4. OrdersInv'
    BY DEF IInv, TypeOK, TasksInv, BuyersInv, OrdersInv, Buying
<1>5. RejectedHoldsNothing'
    BY DEF IInv, TypeOK, TasksInv, BuyersInv, BuysFor, Buying,
        RejectedHoldsNothing
<1>6. DeliveredIsBought'
    BY DEF IInv, TypeOK, TasksInv, BuyersInv, OrdersInv, Buying,
        DeliveredIsBought
<1>7. /\ LedgerMatchesWallet'
     /\ OpenOrderIsReconcilable'
    BY DEF IInv, LedgerMatchesWallet, OpenOrderIsReconcilable, Reconcilable
<1> QED
    BY <1>1, <1>2, <1>3, <1>4, <1>5, <1>6, <1>7 DEF IInv

\* An answered call keeps the invariant.
LEMMA OrderAnsweredInv ==
    ASSUME IInv, NEW t \in Task, OrderAnswered(t)
    PROVE  IInv'
<1> USE DEF OrderAnswered, GotoHolding, Called, database, supplier, tasks
<1>1. TypeOK'
    BY DEF IInv, TypeOK, TasksInv
<1>2. TasksInv'
    BY DEF IInv, TypeOK, TasksInv, BuyersInv, OrdersInv, Buying
<1>3. BuyersInv'
    BY DEF IInv, TypeOK, TasksInv, BuyersInv, OrdersInv, BuysFor, Buying,
        RejectedHoldsNothing
<1>4. OrdersInv'
    BY DEF IInv, TypeOK, TasksInv, BuyersInv, OrdersInv, Buying
<1>5. RejectedHoldsNothing'
    BY DEF IInv, TypeOK, TasksInv, BuyersInv, BuysFor, Buying,
        RejectedHoldsNothing
<1>6. DeliveredIsBought'
    BY DEF IInv, TypeOK, TasksInv, BuyersInv, OrdersInv, Buying,
        DeliveredIsBought
<1>7. /\ LedgerMatchesWallet'
     /\ OpenOrderIsReconcilable'
    BY DEF IInv, LedgerMatchesWallet, OpenOrderIsReconcilable, Reconcilable
<1> QED
    BY <1>1, <1>2, <1>3, <1>4, <1>5, <1>6, <1>7 DEF IInv

\* Starting a reconciliation keeps the invariant.
LEMMA StartReconcileInv ==
    ASSUME IInv, NEW t \in Task, NEW o \in Order, StartReconcile(t, o)
    PROVE  IInv'
<1> USE DEF StartReconcile, Begin, database, supplier, tasks
<1>1. TypeOK'
    BY DEF IInv, TypeOK, TasksInv
<1>2. TasksInv'
    BY DEF IInv, TypeOK, TasksInv, BuyersInv, OrdersInv, Buying
<1>3. BuyersInv'
    BY DEF IInv, TypeOK, TasksInv, BuyersInv, OrdersInv, BuysFor, Buying,
        RejectedHoldsNothing
<1>4. /\ OrdersInv'
     /\ LedgerMatchesWallet'
     /\ RejectedHoldsNothing'
     /\ DeliveredIsBought'
     /\ OpenOrderIsReconcilable'
    BY DEF IInv, TypeOK, OrdersInv, LedgerMatchesWallet, RejectedHoldsNothing,
        DeliveredIsBought, OpenOrderIsReconcilable, Reconcilable
<1> QED
    BY <1>1, <1>2, <1>3, <1>4 DEF IInv

\* A lookup the supplier answers keeps the invariant.
LEMMA LookupAnsweredInv ==
    ASSUME IInv, NEW t \in Task, LookupAnswered(t)
    PROVE  IInv'
<1> USE DEF LookupAnswered, GotoHolding, Report, database, supplier, tasks
<1>1. TypeOK'
    BY DEF IInv, TypeOK, TasksInv
<1>2. TasksInv'
    BY DEF IInv, TypeOK, TasksInv, BuyersInv, OrdersInv, Buying
<1>3. BuyersInv'
    BY DEF IInv, TypeOK, TasksInv, BuyersInv, OrdersInv, BuysFor, Buying,
        RejectedHoldsNothing
<1>4. /\ OrdersInv'
     /\ LedgerMatchesWallet'
     /\ RejectedHoldsNothing'
     /\ DeliveredIsBought'
     /\ OpenOrderIsReconcilable'
    BY DEF IInv, TypeOK, OrdersInv, LedgerMatchesWallet, RejectedHoldsNothing,
        DeliveredIsBought, OpenOrderIsReconcilable, Reconcilable
<1> QED
    BY <1>1, <1>2, <1>3, <1>4 DEF IInv

\* A lookup without an answer keeps the invariant.
LEMMA LookupInconclusiveInv ==
    ASSUME IInv, NEW t \in Task, LookupInconclusive(t)
    PROVE  IInv'
<1> USE DEF LookupInconclusive, Goto, database, supplier, tasks
<1>1. TypeOK'
    BY DEF IInv, TypeOK, TasksInv
<1>2. TasksInv'
    BY DEF IInv, TypeOK, TasksInv, BuyersInv, OrdersInv, Buying
<1>3. BuyersInv'
    BY DEF IInv, TypeOK, TasksInv, BuyersInv, OrdersInv, BuysFor, Buying,
        RejectedHoldsNothing
<1>4. /\ OrdersInv'
     /\ LedgerMatchesWallet'
     /\ RejectedHoldsNothing'
     /\ DeliveredIsBought'
     /\ OpenOrderIsReconcilable'
    BY DEF IInv, TypeOK, OrdersInv, LedgerMatchesWallet, RejectedHoldsNothing,
        DeliveredIsBought, OpenOrderIsReconcilable, Reconcilable
<1> QED
    BY <1>1, <1>2, <1>3, <1>4 DEF IInv

\* A divergent transaction keeps the invariant: it may reopen a refunded order,
\* but only where the supplier may diverge.
LEMMA RecordDivergentInv ==
    ASSUME IInv, NEW t \in Task, RecordDivergent(t)
    PROVE  IInv'
<1> USE DEF RecordDivergent, Return, database, supplier, tasks
<1>1. TypeOK'
    BY DEF IInv, TypeOK, TasksInv
<1>2. TasksInv'
    BY DEF IInv, TypeOK, TasksInv, BuyersInv, OrdersInv, Buying
<1>3. BuyersInv'
    BY DEF IInv, TypeOK, TasksInv, BuyersInv, OrdersInv, BuysFor, Buying,
        RejectedHoldsNothing
<1>4. OrdersInv'
    BY DEF IInv, TypeOK, TasksInv, BuyersInv, OrdersInv, Buying
<1>5. RejectedHoldsNothing'
    BY DEF IInv, TypeOK, TasksInv, BuyersInv, BuysFor, Buying,
        RejectedHoldsNothing
<1>6. DeliveredIsBought'
    BY DEF IInv, TypeOK, TasksInv, BuyersInv, OrdersInv, Buying,
        DeliveredIsBought
<1>7. OpenOrderIsReconcilable'
    BY DEF IInv, TypeOK, TasksInv, OpenOrderIsReconcilable, Reconcilable
<1>8. LedgerMatchesWallet'
    BY DEF IInv, LedgerMatchesWallet
<1> QED
    BY <1>1, <1>2, <1>3, <1>4, <1>5, <1>6, <1>7, <1>8 DEF IInv

\* A matching transaction keeps the invariant.
LEMMA RecordMatchingInv ==
    ASSUME IInv, NEW t \in Task, RecordMatching(t)
    PROVE  IInv'
<1> USE DEF RecordMatching, Recorded, Goto, Return, NextStep, database, supplier,
        tasks
<1>1. TypeOK'
    BY DEF IInv, TypeOK, TasksInv
<1>2. TasksInv'
    BY DEF IInv, TypeOK, TasksInv, BuyersInv, OrdersInv, Buying
<1>3. BuyersInv'
    BY DEF IInv, TypeOK, TasksInv, BuyersInv, OrdersInv, BuysFor, Buying,
        RejectedHoldsNothing
<1>4. OrdersInv'
    BY DEF IInv, TypeOK, TasksInv, BuyersInv, OrdersInv, Buying
<1>5. RejectedHoldsNothing'
    BY DEF IInv, TypeOK, TasksInv, BuyersInv, BuysFor, Buying,
        RejectedHoldsNothing
<1>6. DeliveredIsBought'
    BY DEF IInv, TypeOK, TasksInv, BuyersInv, OrdersInv, Buying,
        DeliveredIsBought
<1>7. OpenOrderIsReconcilable'
    BY DEF IInv, TypeOK, TasksInv, OpenOrderIsReconcilable, Reconcilable
<1>8. LedgerMatchesWallet'
    BY DEF IInv, LedgerMatchesWallet
<1> QED
    BY <1>1, <1>2, <1>3, <1>4, <1>5, <1>6, <1>7, <1>8 DEF IInv

\* Fetching the code keeps the invariant.
LEMMA FetchCodeInv ==
    ASSUME IInv, NEW t \in Task, FetchCode(t)
    PROVE  IInv'
<1> USE DEF FetchCode, Goto, database, supplier, tasks
<1>1. TypeOK'
    BY DEF IInv, TypeOK, TasksInv
<1>2. TasksInv'
    BY DEF IInv, TypeOK, TasksInv, BuyersInv, OrdersInv, Buying
<1>3. BuyersInv'
    BY DEF IInv, TypeOK, TasksInv, BuyersInv, OrdersInv, BuysFor, Buying,
        RejectedHoldsNothing
<1>4. /\ OrdersInv'
     /\ LedgerMatchesWallet'
     /\ RejectedHoldsNothing'
     /\ DeliveredIsBought'
     /\ OpenOrderIsReconcilable'
    BY DEF IInv, TypeOK, OrdersInv, LedgerMatchesWallet, RejectedHoldsNothing,
        DeliveredIsBought, OpenOrderIsReconcilable, Reconcilable
<1> QED
    BY <1>1, <1>2, <1>3, <1>4 DEF IInv

\* A code that cannot be fetched keeps the invariant.
LEMMA CodeUnavailableInv ==
    ASSUME IInv, NEW t \in Task, CodeUnavailable(t)
    PROVE  IInv'
<1> USE DEF CodeUnavailable, Return, database, supplier, tasks
<1>1. TypeOK'
    BY DEF IInv, TypeOK, TasksInv
<1>2. TasksInv'
    BY DEF IInv, TypeOK, TasksInv, BuyersInv, OrdersInv, Buying
<1>3. BuyersInv'
    BY DEF IInv, TypeOK, TasksInv, BuyersInv, OrdersInv, BuysFor, Buying,
        RejectedHoldsNothing
<1>4. OrdersInv'
    BY DEF IInv, TypeOK, TasksInv, BuyersInv, OrdersInv, Buying
<1>5. RejectedHoldsNothing'
    BY DEF IInv, TypeOK, TasksInv, BuyersInv, BuysFor, Buying,
        RejectedHoldsNothing
<1>6. DeliveredIsBought'
    BY DEF IInv, TypeOK, TasksInv, BuyersInv, OrdersInv, Buying,
        DeliveredIsBought
<1>7. OpenOrderIsReconcilable'
    BY DEF IInv, TypeOK, TasksInv, OpenOrderIsReconcilable, Reconcilable
<1>8. LedgerMatchesWallet'
    BY DEF IInv, LedgerMatchesWallet
<1> QED
    BY <1>1, <1>2, <1>3, <1>4, <1>5, <1>6, <1>7, <1>8 DEF IInv

\* A delivery keeps the invariant: the order was recorded and bought.
LEMMA DeliverInv ==
    ASSUME IInv, NEW t \in Task, Deliver(t)
    PROVE  IInv'
<1> USE DEF Deliver, Return, database, supplier, tasks
<1>1. TypeOK'
    BY DEF IInv, TypeOK, TasksInv
<1>2. TasksInv'
    BY DEF IInv, TypeOK, TasksInv, BuyersInv, OrdersInv, Buying
<1>3. BuyersInv'
    BY DEF IInv, TypeOK, TasksInv, BuyersInv, OrdersInv, BuysFor, Buying,
        RejectedHoldsNothing
<1>4. OrdersInv'
    BY DEF IInv, TypeOK, TasksInv, BuyersInv, OrdersInv, Buying
<1>5. RejectedHoldsNothing'
    BY DEF IInv, TypeOK, TasksInv, BuyersInv, BuysFor, Buying,
        RejectedHoldsNothing
<1>6. DeliveredIsBought'
    BY DEF IInv, TypeOK, TasksInv, BuyersInv, OrdersInv, Buying,
        DeliveredIsBought
<1>7. OpenOrderIsReconcilable'
    BY DEF IInv, TypeOK, TasksInv, OpenOrderIsReconcilable, Reconcilable
<1>8. LedgerMatchesWallet'
    BY DEF IInv, LedgerMatchesWallet
<1> QED
    BY <1>1, <1>2, <1>3, <1>4, <1>5, <1>6, <1>7, <1>8 DEF IInv

\* A code that comes after a refund keeps the invariant.
LEMMA DeliverConflictInv ==
    ASSUME IInv, NEW t \in Task, DeliverConflict(t)
    PROVE  IInv'
<1> USE DEF DeliverConflict, Return, database, supplier, tasks
<1>1. TypeOK'
    BY DEF IInv, TypeOK, TasksInv
<1>2. TasksInv'
    BY DEF IInv, TypeOK, TasksInv, BuyersInv, OrdersInv, Buying
<1>3. BuyersInv'
    BY DEF IInv, TypeOK, TasksInv, BuyersInv, OrdersInv, BuysFor, Buying,
        RejectedHoldsNothing
<1>4. OrdersInv'
    BY DEF IInv, TypeOK, TasksInv, BuyersInv, OrdersInv, Buying
<1>5. RejectedHoldsNothing'
    BY DEF IInv, TypeOK, TasksInv, BuyersInv, BuysFor, Buying,
        RejectedHoldsNothing
<1>6. OpenOrderIsReconcilable'
    BY DEF IInv, TypeOK, TasksInv, OpenOrderIsReconcilable, Reconcilable
<1>7. /\ LedgerMatchesWallet'
     /\ DeliveredIsBought'
    BY DEF IInv, LedgerMatchesWallet, DeliveredIsBought
<1> QED
    BY <1>1, <1>2, <1>3, <1>4, <1>5, <1>6, <1>7 DEF IInv

\* An automatic refund keeps the invariant: no buyer of the order is left.
LEMMA RefundInv ==
    ASSUME IInv, NEW t \in Task, Refund(t)
    PROVE  IInv'
<1> USE DEF Refund, Return, CreditBack, database, supplier, tasks
<1>1. TypeOK'
    BY DEF IInv, TypeOK, TasksInv
<1>2. TasksInv'
    BY DEF IInv, TypeOK, TasksInv, BuyersInv, OrdersInv, Buying
<1>3. BuyersInv'
    BY DEF IInv, TypeOK, TasksInv, BuyersInv, OrdersInv, BuysFor, Buying,
        RejectedHoldsNothing
<1>4. OrdersInv'
    BY DEF IInv, TypeOK, TasksInv, BuyersInv, OrdersInv, Buying
<1>5. LedgerMatchesWallet'
    BY CreditKeepsLedger DEF IInv, TasksInv
<1>6. RejectedHoldsNothing'
    BY DEF IInv, TypeOK, TasksInv, BuyersInv, BuysFor, Buying,
        RejectedHoldsNothing
<1>7. DeliveredIsBought'
    BY DEF IInv, TypeOK, TasksInv, BuyersInv, OrdersInv, Buying,
        DeliveredIsBought
<1>8. OpenOrderIsReconcilable'
    BY DEF IInv, TypeOK, TasksInv, OpenOrderIsReconcilable, Reconcilable
<1> QED
    BY <1>1, <1>2, <1>3, <1>4, <1>5, <1>6, <1>7, <1>8 DEF IInv

\* A repeated refund keeps the invariant.
LEMMA RefundRepeatedInv ==
    ASSUME IInv, NEW t \in Task, RefundRepeated(t)
    PROVE  IInv'
<1> USE DEF RefundRepeated, Return, database, supplier, tasks
<1>1. TypeOK'
    BY DEF IInv, TypeOK, TasksInv
<1>2. TasksInv'
    BY DEF IInv, TypeOK, TasksInv, BuyersInv, OrdersInv, Buying
<1>3. BuyersInv'
    BY DEF IInv, TypeOK, TasksInv, BuyersInv, OrdersInv, BuysFor, Buying,
        RejectedHoldsNothing
<1>4. OrdersInv'
    BY DEF IInv, TypeOK, TasksInv, BuyersInv, OrdersInv, Buying
<1>5. RejectedHoldsNothing'
    BY DEF IInv, TypeOK, TasksInv, BuyersInv, BuysFor, Buying,
        RejectedHoldsNothing
<1>6. OpenOrderIsReconcilable'
    BY DEF IInv, TypeOK, TasksInv, OpenOrderIsReconcilable, Reconcilable
<1>7. /\ LedgerMatchesWallet'
     /\ DeliveredIsBought'
    BY DEF IInv, LedgerMatchesWallet, DeliveredIsBought
<1> QED
    BY <1>1, <1>2, <1>3, <1>4, <1>5, <1>6, <1>7 DEF IInv

\* A refund after the delivery keeps the invariant.
LEMMA RefundConflictInv ==
    ASSUME IInv, NEW t \in Task, RefundConflict(t)
    PROVE  IInv'
<1> USE DEF RefundConflict, Return, database, supplier, tasks
<1>1. TypeOK'
    BY DEF IInv, TypeOK, TasksInv
<1>2. TasksInv'
    BY DEF IInv, TypeOK, TasksInv, BuyersInv, OrdersInv, Buying
<1>3. BuyersInv'
    BY DEF IInv, TypeOK, TasksInv, BuyersInv, OrdersInv, BuysFor, Buying,
        RejectedHoldsNothing
<1>4. OrdersInv'
    BY DEF IInv, TypeOK, TasksInv, BuyersInv, OrdersInv, Buying
<1>5. RejectedHoldsNothing'
    BY DEF IInv, TypeOK, TasksInv, BuyersInv, BuysFor, Buying,
        RejectedHoldsNothing
<1>6. OpenOrderIsReconcilable'
    BY DEF IInv, TypeOK, TasksInv, OpenOrderIsReconcilable, Reconcilable
<1>7. /\ LedgerMatchesWallet'
     /\ DeliveredIsBought'
    BY DEF IInv, LedgerMatchesWallet, DeliveredIsBought
<1> QED
    BY <1>1, <1>2, <1>3, <1>4, <1>5, <1>6, <1>7 DEF IInv

\* A refund its unique key rolls back keeps the invariant.
LEMMA RefundDuplicateInv ==
    ASSUME IInv, NEW t \in Task, RefundDuplicate(t)
    PROVE  IInv'
<1> USE DEF RefundDuplicate, Return, database, supplier, tasks
<1>1. TypeOK'
    BY DEF IInv, TypeOK, TasksInv
<1>2. TasksInv'
    BY DEF IInv, TypeOK, TasksInv, BuyersInv, OrdersInv, Buying
<1>3. BuyersInv'
    BY DEF IInv, TypeOK, TasksInv, BuyersInv, OrdersInv, BuysFor, Buying,
        RejectedHoldsNothing
<1>4. /\ OrdersInv'
     /\ LedgerMatchesWallet'
     /\ RejectedHoldsNothing'
     /\ DeliveredIsBought'
     /\ OpenOrderIsReconcilable'
    BY DEF IInv, TypeOK, OrdersInv, LedgerMatchesWallet, RejectedHoldsNothing,
        DeliveredIsBought, OpenOrderIsReconcilable, Reconcilable
<1> QED
    BY <1>1, <1>2, <1>3, <1>4 DEF IInv

\* Marking an order for review keeps the invariant.
LEMMA MarkReviewInv ==
    ASSUME IInv, NEW t \in Task, MarkReview(t)
    PROVE  IInv'
<1> USE DEF MarkReview, Return, database, supplier, tasks
<1>1. TypeOK'
    BY DEF IInv, TypeOK, TasksInv
<1>2. TasksInv'
    BY DEF IInv, TypeOK, TasksInv, BuyersInv, OrdersInv, Buying
<1>3. BuyersInv'
    BY DEF IInv, TypeOK, TasksInv, BuyersInv, OrdersInv, BuysFor, Buying,
        RejectedHoldsNothing
<1>4. OrdersInv'
    BY DEF IInv, TypeOK, TasksInv, BuyersInv, OrdersInv, Buying
<1>5. RejectedHoldsNothing'
    BY DEF IInv, TypeOK, TasksInv, BuyersInv, BuysFor, Buying,
        RejectedHoldsNothing
<1>6. DeliveredIsBought'
    BY DEF IInv, TypeOK, TasksInv, BuyersInv, OrdersInv, Buying,
        DeliveredIsBought
<1>7. OpenOrderIsReconcilable'
    BY DEF IInv, TypeOK, TasksInv, OpenOrderIsReconcilable, Reconcilable
<1>8. LedgerMatchesWallet'
    BY DEF IInv, LedgerMatchesWallet
<1> QED
    BY <1>1, <1>2, <1>3, <1>4, <1>5, <1>6, <1>7, <1>8 DEF IInv

\* A task that dies keeps the invariant, at whatever step it dies.
LEMMA AbortInv ==
    ASSUME IInv, NEW t \in Task, Abort(t)
    PROVE  IInv'
<1> USE DEF Abort, Return, database, supplier, tasks
<1>1. TypeOK'
    BY DEF IInv, TypeOK, TasksInv
<1>2. TasksInv'
    BY DEF IInv, TypeOK, TasksInv, BuyersInv, OrdersInv, Buying
<1>3. BuyersInv'
    BY DEF IInv, TypeOK, TasksInv, BuyersInv, OrdersInv, BuysFor, Buying,
        RejectedHoldsNothing
<1>4. /\ OrdersInv'
     /\ LedgerMatchesWallet'
     /\ RejectedHoldsNothing'
     /\ DeliveredIsBought'
     /\ OpenOrderIsReconcilable'
    BY DEF IInv, TypeOK, OrdersInv, LedgerMatchesWallet, RejectedHoldsNothing,
        DeliveredIsBought, OpenOrderIsReconcilable, Reconcilable
<1> QED
    BY <1>1, <1>2, <1>3, <1>4 DEF IInv

\* A refund by the administrator keeps the invariant.
LEMMA AdminRefundInv ==
    ASSUME IInv, NEW o \in Order, AdminRefund(o)
    PROVE  IInv'
<1> USE DEF AdminRefund, CreditBack, database, supplier, tasks
<1>1. TypeOK'
    BY DEF IInv, TypeOK, TasksInv
<1>2. TasksInv'
    BY DEF IInv, TypeOK, TasksInv, BuyersInv, OrdersInv, Buying
<1>3. BuyersInv'
    BY DEF IInv, TypeOK, TasksInv, BuyersInv, OrdersInv, BuysFor, Buying,
        RejectedHoldsNothing
<1>4. OrdersInv'
    BY DEF IInv, TypeOK, TasksInv, BuyersInv, OrdersInv, Buying
<1>5. LedgerMatchesWallet'
    BY CreditKeepsLedger
<1>6. RejectedHoldsNothing'
    BY DEF IInv, TypeOK, TasksInv, BuyersInv, BuysFor, Buying,
        RejectedHoldsNothing
<1>7. DeliveredIsBought'
    BY DEF IInv, TypeOK, TasksInv, BuyersInv, OrdersInv, Buying,
        DeliveredIsBought
<1>8. OpenOrderIsReconcilable'
    BY DEF IInv, TypeOK, TasksInv, OpenOrderIsReconcilable, Reconcilable
<1> QED
    BY <1>1, <1>2, <1>3, <1>4, <1>5, <1>6, <1>7, <1>8 DEF IInv

\* Opening or closing the sale keeps the invariant.
LEMMA SetPurchasableInv ==
    ASSUME IInv, SetPurchasable
    PROVE  IInv'
<1> USE DEF SetPurchasable, database, supplier, tasks
<1>1. TypeOK'
    BY DEF IInv, TypeOK, TasksInv
<1>2. TasksInv'
    BY DEF IInv, TypeOK, TasksInv, BuyersInv, OrdersInv, Buying
<1>3. BuyersInv'
    BY DEF IInv, TypeOK, TasksInv, BuyersInv, OrdersInv, BuysFor, Buying,
        RejectedHoldsNothing
<1>4. /\ OrdersInv'
     /\ LedgerMatchesWallet'
     /\ RejectedHoldsNothing'
     /\ DeliveredIsBought'
     /\ OpenOrderIsReconcilable'
    BY DEF IInv, TypeOK, OrdersInv, LedgerMatchesWallet, RejectedHoldsNothing,
        DeliveredIsBought, OpenOrderIsReconcilable, Reconcilable
<1> QED
    BY <1>1, <1>2, <1>3, <1>4 DEF IInv

\* Progress at the supplier keeps the invariant: money returned stays returned.
LEMMA SupplierProgressInv ==
    ASSUME IInv, NEW o \in Order, SupplierProgress(o)
    PROVE  IInv'
<1> USE DEF SupplierProgress, database, supplier, tasks
<1>1. TypeOK'
    BY DEF IInv, TypeOK, TasksInv
<1>2. TasksInv'
    BY DEF IInv, TypeOK, TasksInv, BuyersInv, OrdersInv, Buying
<1>3. BuyersInv'
    BY DEF IInv, TypeOK, TasksInv, BuyersInv, OrdersInv, BuysFor, Buying,
        RejectedHoldsNothing
<1>4. OrdersInv'
    BY DEF IInv, TypeOK, TasksInv, BuyersInv, OrdersInv, Buying
<1>5. RejectedHoldsNothing'
    BY DEF IInv, TypeOK, TasksInv, BuyersInv, BuysFor, Buying,
        RejectedHoldsNothing
<1>6. DeliveredIsBought'
    BY DEF IInv, TypeOK, TasksInv, BuyersInv, OrdersInv, Buying,
        DeliveredIsBought
<1>7. /\ LedgerMatchesWallet'
     /\ OpenOrderIsReconcilable'
    BY DEF IInv, LedgerMatchesWallet, OpenOrderIsReconcilable, Reconcilable
<1> QED
    BY <1>1, <1>2, <1>3, <1>4, <1>5, <1>6, <1>7 DEF IInv

\* Every step keeps the invariant.
LEMMA NextInv == IInv /\ [Next]_vars => IInv'
<1> SUFFICES ASSUME IInv, [Next]_vars PROVE IInv'
    OBVIOUS
<1>1. ASSUME NEW t \in Task, TaskStep(t) PROVE IInv'
    BY <1>1,
       ValidateInv, PauseProductInv, OrderRejectedInv, OrderAmbiguousInv,
       OrderAnsweredInv, LookupAnsweredInv, LookupInconclusiveInv,
       RecordDivergentInv, RecordMatchingInv, FetchCodeInv,
       CodeUnavailableInv, DeliverInv, DeliverConflictInv, RefundInv,
       RefundRepeatedInv, RefundConflictInv, RefundDuplicateInv,
       MarkReviewInv, AbortInv
    DEF TaskStep
<1>2. ASSUME NEW t \in Task, NEW o \in Order, Reserve(t, o) \/ StartReconcile(t, o)
      PROVE  IInv'
    BY <1>2, ReserveInv, StartReconcileInv
<1>3. ASSUME NEW o \in Order, AdminRefund(o) \/ SupplierProgress(o)
      PROVE  IInv'
    BY <1>3, AdminRefundInv, SupplierProgressInv
<1>4. CASE SetPurchasable
    BY <1>4, SetPurchasableInv
<1>5. CASE UNCHANGED vars
    BY <1>5 DEF vars, database, supplier, tasks, IInv, TypeOK, TasksInv,
                BuyersInv, BuysFor, Buying, OrdersInv, LedgerMatchesWallet,
                RejectedHoldsNothing, DeliveredIsBought,
                OpenOrderIsReconcilable, Reconcilable
<1> QED
    BY <1>1, <1>2, <1>3, <1>4, <1>5 DEF Next

\* The invariant holds in every reachable state.
THEOREM Invariance == Spec => []IInv
<1>1. QED
    BY InitInv, NextInv, PTL DEF Spec

-----------------------------------------------------------------------------
(* The safety properties, for every instance.                              *)

\* Every variable keeps its type; in particular the wallet is never overdrawn
\* by purchases, however many tasks and orders compete for it.
THEOREM TypeCorrect == Spec => []TypeOK
<1>1. IInv => TypeOK
    BY DEF IInv
<1> QED
    BY Invariance, <1>1, PTL

\* The wallet's cached balance and the ledger never drift apart, whatever the
\* interleaving of purchases, reconciliations, refunds and crashes.
THEOREM LedgerAgreement == Spec => []LedgerMatchesWallet
<1>1. IInv => LedgerMatchesWallet
    BY DEF IInv
<1> QED
    BY Invariance, <1>1, PTL

\* No order is ever bought twice from the supplier: neither a lost answer, nor a
\* reconciliation, nor a restart leads back to supplier.order.
THEOREM BoughtOnce == Spec => []AtMostOneCall
<1>1. IInv => AtMostOneCall
    BY DEF IInv, OrdersInv, AtMostOneCall
<1> QED
    BY Invariance, <1>1, PTL

\* A supplier order marked rejected holds none of the shop's money, even where
\* the supplier's answers diverge.
THEOREM RejectedIsSafe == Spec => []RejectedHoldsNothing
<1>1. IInv => RejectedHoldsNothing
    BY DEF IInv
<1> QED
    BY Invariance, <1>1, PTL

\* Nothing is shown as delivered that was not paid and bought.
THEOREM DeliveredWasBought == Spec => []DeliveredIsBought
<1>1. IInv => DeliveredIsBought
    BY DEF IInv
<1> QED
    BY Invariance, <1>1, PTL

\* No open order drops off the reconciler's list.
THEOREM OpenIsReconcilable == Spec => []OpenOrderIsReconcilable
<1>1. IInv => OpenOrderIsReconcilable
    BY DEF IInv
<1> QED
    BY Invariance, <1>1, PTL

-----------------------------------------------------------------------------
(* What holds as long as no divergent answer is recorded after a refund.    *)

\* A step that changes an order's status or its refund is one of these.
LEMMA WhoChangesOrders ==
    ASSUME [Next]_vars, ~UNCHANGED <<order, refunds>>
    PROVE  \/ \E t \in Task : \/ RecordDivergent(t) \/ Deliver(t) \/ Refund(t) \/ MarkReview(t)
                              \/ \E o \in Order : Reserve(t, o)
           \/ \E o \in Order : AdminRefund(o)
BY DEF Next, TaskStep, vars, database, supplier, tasks, Validate, PauseProduct,
       OrderRejected, OrderAmbiguous, OrderAnswered, StartReconcile,
       LookupAnswered, LookupInconclusive, RecordMatching, FetchCode,
       CodeUnavailable, DeliverConflict, RefundRepeated, RefundConflict,
       RefundDuplicate, Abort, SetPurchasable, SupplierProgress

\* Nothing but a late divergence reopens a refunded order.
LEMMA RefundStays ==
    ASSUME IInv, RefundIsFinal, [Next]_vars, \A t \in Task : ~LateDivergence(t)
    PROVE  RefundIsFinal'
<1>1. ASSUME NEW t \in Task, RecordDivergent(t)
      PROVE  RefundIsFinal'
    BY <1>1 DEF LateDivergence, RecordDivergent, RefundIsFinal, IInv, TypeOK, TasksInv
<1>2. ASSUME NEW t \in Task, Deliver(t)
      PROVE  RefundIsFinal'
    BY <1>2 DEF Deliver, RefundIsFinal, IInv, TypeOK, TasksInv
<1>3. ASSUME NEW t \in Task, Refund(t)
      PROVE  RefundIsFinal'
    BY <1>3 DEF Refund, CreditBack, RefundIsFinal, IInv, TypeOK, TasksInv
<1>4. ASSUME NEW t \in Task, MarkReview(t)
      PROVE  RefundIsFinal'
    BY <1>4 DEF MarkReview, RefundIsFinal, IInv, TypeOK, TasksInv
<1>5. ASSUME NEW t \in Task, NEW o \in Order, Reserve(t, o)
      PROVE  RefundIsFinal'
    BY <1>5 DEF Reserve, RefundIsFinal, IInv, TypeOK
<1>6. ASSUME NEW o \in Order, AdminRefund(o)
      PROVE  RefundIsFinal'
    BY <1>6 DEF AdminRefund, CreditBack, RefundIsFinal, IInv, TypeOK
<1>7. CASE UNCHANGED <<order, refunds>>
    BY <1>7 DEF RefundIsFinal
<1> QED
    BY <1>1, <1>2, <1>3, <1>4, <1>5, <1>6, <1>7, WhoChangesOrders

\* A refund is final: an order is refunded exactly when it was credited back,
\* whatever the supplier answers, as long as no divergent answer is recorded for
\* an order that was refunded in the meantime.
THEOREM RefundFinal == Spec /\ NoLateDivergence => []RefundIsFinal
<1>1. Init => RefundIsFinal
    BY DEF Init, RefundIsFinal
<1>2. ASSUME IInv, RefundIsFinal, [Next]_vars, [\A t \in Task : ~LateDivergence(t)]_vars
      PROVE  RefundIsFinal'
  <2>1. CASE \A t \in Task : ~LateDivergence(t)
      BY <1>2, <2>1, RefundStays
  <2>2. CASE UNCHANGED vars
      BY <1>2, <2>2 DEF vars, database, RefundIsFinal
  <2> QED
      BY <1>2, <2>1, <2>2
<1> QED
    BY <1>1, <1>2, Invariance, PTL DEF Spec, NoLateDivergence

\* A supplier that answers about what it was asked never causes a late divergence.
THEOREM MatchingIsNeverLate ==
    ASSUME ~MayDiverge
    PROVE  Spec => NoLateDivergence
<1>1. ASSUME IInv
      PROVE  \A t \in Task : ~LateDivergence(t)
    BY <1>1 DEF IInv, TasksInv, LateDivergence, RecordDivergent
<1>2. IInv => [\A t \in Task : ~LateDivergence(t)]_vars
    BY <1>1
<1> QED
    BY <1>2, Invariance, PTL DEF NoLateDivergence

\* A step that stores a code is a delivery.
LEMMA OnlyDeliverStoresCode ==
    ASSUME TypeOK, [Next]_vars, code' # code
    PROVE  \E t \in Task : Deliver(t)
BY DEF Next, TaskStep, vars, database, supplier, tasks, Reserve, Validate,
       PauseProduct, OrderRejected, OrderAmbiguous, OrderAnswered,
       StartReconcile, LookupAnswered, LookupInconclusive, RecordDivergent,
       RecordMatching, FetchCode, CodeUnavailable, DeliverConflict, Refund,
       RefundRepeated, RefundConflict, RefundDuplicate, MarkReview, Abort,
       AdminRefund, SetPurchasable, SupplierProgress

\* A code that arrives after the refund is not given out.
THEOREM CodeAfterRefundIsKept == Spec /\ NoLateDivergence => NoCodeAfterRefund
<1>1. ASSUME IInv, RefundIsFinal, [Next]_vars
      PROVE  [\A o \in refunds : code'[o] = code[o]]_vars
  <2>1. CASE code' = code
      BY <2>1
  <2>2. CASE code' # code
    <3>1. PICK t \in Task : Deliver(t)
        BY <1>1, <2>2, OnlyDeliverStoresCode DEF IInv
    <3>2. on[t] \in Order /\ on[t] \notin refunds
        BY <1>1, <3>1 DEF IInv, TypeOK, TasksInv, RefundIsFinal, Deliver
    <3> QED
        BY <1>1, <3>1, <3>2 DEF Deliver, IInv, TypeOK
  <2> QED
      BY <2>1, <2>2
<1> QED
    BY Invariance, RefundFinal, <1>1, PTL DEF Spec, NoCodeAfterRefund

-----------------------------------------------------------------------------
(* What manual review may hide.                                            *)

\* A step keeps what is known of delivered orders under review.
LEMMA ReviewStep ==
    ASSUME ~MayDiverge, IInv, RefundIsFinal, ReviewOfDeliveredIsReturn, [Next]_vars
    PROVE  ReviewOfDeliveredIsReturn'
<1> USE DEF ReviewOfDeliveredIsReturn, database, supplier, IInv, TypeOK, TasksInv
<1>1. ASSUME NEW t \in Task, TaskStep(t)
      PROVE  ReviewOfDeliveredIsReturn'
  <2>1. CASE OrderRejected(t) \/ OrderAmbiguous(t) \/ OrderAnswered(t)
      BY <2>1 DEF OrderRejected, OrderAmbiguous, OrderAnswered, BuyersInv, Buying,
           DeliveredIsBought, OrdersInv
  <2>2. CASE RecordDivergent(t)
      BY <2>2 DEF RecordDivergent
  <2>3. CASE RecordMatching(t)
      BY <2>3 DEF RecordMatching, Recorded
  <2>4. CASE CodeUnavailable(t) \/ Deliver(t) \/ DeliverConflict(t)
      BY <2>4 DEF CodeUnavailable, Deliver, DeliverConflict
  <2>5. CASE Refund(t) \/ RefundRepeated(t)
      BY <2>5 DEF Refund, RefundRepeated
  <2>6. CASE RefundConflict(t)
      BY <2>6 DEF RefundConflict, DeliveredIsBought
  <2>7. CASE MarkReview(t)
      BY <2>7 DEF MarkReview
  <2>8. CASE UNCHANGED <<so, order, ext>>
      BY <2>8
  <2> QED
      BY <1>1, <2>1, <2>2, <2>3, <2>4, <2>5, <2>6, <2>7, <2>8
         DEF TaskStep, Validate, PauseProduct, LookupAnswered, LookupInconclusive,
             FetchCode, RefundDuplicate, Abort
<1>2. ASSUME NEW t \in Task, NEW o \in Order, Reserve(t, o)
      PROVE  ReviewOfDeliveredIsReturn'
    BY <1>2 DEF Reserve
<1>3. ASSUME NEW o \in Order, AdminRefund(o) \/ SupplierProgress(o)
      PROVE  ReviewOfDeliveredIsReturn'
    BY <1>3 DEF AdminRefund, SupplierProgress
<1>4. CASE UNCHANGED <<so, order, ext>>
    BY <1>4
<1> QED
    BY <1>1, <1>2, <1>3, <1>4 DEF Next, StartReconcile, SetPurchasable, vars

\* The delivered orders that the review list leaves out (finding 2) are
\* returns: the supplier gave the money back after the customer got the code.
THEOREM HiddenReviewsAreReturns ==
    ASSUME ~MayDiverge
    PROVE  Spec => []ReviewOfDeliveredIsReturn
<1>1. Init => ReviewOfDeliveredIsReturn
    BY DEF Init, ReviewOfDeliveredIsReturn
<1>2. ASSUME IInv, RefundIsFinal, ReviewOfDeliveredIsReturn, [Next]_vars
      PROVE  ReviewOfDeliveredIsReturn'
    BY <1>2, ReviewStep
<1> QED
    BY <1>1, <1>2, Invariance, MatchingIsNeverLate, RefundFinal, PTL DEF Spec

-----------------------------------------------------------------------------
(* SupplierPurchase implements OrderLifecycle.                             *)

\* A step the customer does not see: processing and review may alternate.
LEMMA Unseen ==
    ASSUME TypeOK, TypeOK', balance' = balance, calls' = calls,
           \A o \in Order : order'[o] = order[o] \/ {order[o], order'[o]} \subseteq Open
    PROVE  UNCHANGED Lifecycle!vars
<1>1. \A o \in Order : Seen(o)' = Seen(o)
    BY DEF TypeOK, Seen
<1>2. [o \in Order |-> Seen(o)]' = [o \in Order |-> Seen(o)]
    BY <1>1
<1> QED
    BY <1>2 DEF Lifecycle!vars

\* Reserving is paying.
LEMMA ReserveIsPay ==
    ASSUME IInv, NEW t \in Task, NEW o \in Order, Reserve(t, o)
    PROVE  Lifecycle!Pay(o)
BY DEF IInv, TypeOK, Reserve, Affords, supplier, Seen, Lifecycle!Pay

\* Calling the supplier, whatever comes back, is buying, and it is the first time.
LEMMA CallIsBuy ==
    ASSUME IInv, NEW t \in Task,
           OrderRejected(t) \/ OrderAmbiguous(t) \/ OrderAnswered(t)
    PROVE  Lifecycle!Buy(on[t])
<1>1. /\ on[t] \in Order /\ order[on[t]] # "none" /\ calls[on[t]] = 0
      /\ UNCHANGED <<order, balance>>
      /\ calls' = [calls EXCEPT ![on[t]] = @ + 1]
    BY DEF IInv, TasksInv, BuyersInv, Buying, OrderRejected, OrderAmbiguous,
           OrderAnswered, Called, database
<1> QED
    BY <1>1 DEF IInv, TypeOK, Seen, Lifecycle!Buy

\* A delivery delivers a paid and bought order, or repeats a delivery.
LEMMA DeliverIsDeliver ==
    ASSUME IInv, IInv', NEW t \in Task, Deliver(t)
    PROVE  Lifecycle!Deliver(on[t]) \/ UNCHANGED Lifecycle!vars
<1>1. /\ on[t] \in Order /\ order[on[t]] \notin {"none", "refunded"}
      /\ calls[on[t]] = 1
      /\ UNCHANGED <<balance, calls>>
      /\ order' = [order EXCEPT ![on[t]] = "delivered"]
    BY DEF IInv, TypeOK, TasksInv, OrdersInv, Deliver, supplier
<1>2. CASE order[on[t]] = "delivered"
    BY <1>1, <1>2, Unseen DEF IInv, TypeOK
<1>3. CASE order[on[t]] \in Open
  <2>1. Seen(on[t]) = "open"
      BY <1>1, <1>3 DEF Seen
  <2>2. \A o \in Order : Seen(o)' = IF o = on[t] THEN "delivered" ELSE Seen(o)
      BY <1>1 DEF IInv, TypeOK, Seen
  <2>3. Lifecycle!Deliver(on[t])
      BY <1>1, <2>1, <2>2 DEF Lifecycle!Deliver
  <2> QED
      BY <2>3
<1> QED
    BY <1>1, <1>2, <1>3 DEF IInv, TypeOK

\* Crediting an order back, by the system or the administrator, is giving back.
LEMMA CreditIsGiveBack ==
    ASSUME IInv, NEW o \in Order, order[o] \notin {"none", "refunded"},
           CreditBack(o), order' = [order EXCEPT ![o] = "refunded"], calls' = calls
    PROVE  Lifecycle!GiveBack(o)
BY DEF IInv, TypeOK, CreditBack, Seen, Lifecycle!GiveBack

\* Every step of a task is a step of OrderLifecycle, or is not seen.
LEMMA TaskStepRefines ==
    ASSUME IInv, IInv', NEW t \in Task, TaskStep(t), ~LateDivergence(t)
    PROVE  [Lifecycle!Next]_(Lifecycle!vars)
<1> USE DEF Lifecycle!Next, database, supplier
<1>1. CASE OrderRejected(t) \/ OrderAmbiguous(t) \/ OrderAnswered(t)
  <2>1. on[t] \in Order
      BY <1>1 DEF IInv, TasksInv, OrderRejected, OrderAmbiguous, OrderAnswered
  <2>2. Lifecycle!Buy(on[t])
      BY <1>1, CallIsBuy
  <2> QED
      BY <2>1, <2>2
<1>2. CASE Deliver(t)
  <2>1. on[t] \in Order
      BY <1>2 DEF IInv, TasksInv, Deliver
  <2>2. Lifecycle!Deliver(on[t]) \/ UNCHANGED Lifecycle!vars
      BY <1>2, DeliverIsDeliver
  <2> QED
      BY <2>1, <2>2
<1>3. CASE Refund(t)
  <2>1. on[t] \in Order /\ order[on[t]] # "none"
      BY <1>3 DEF IInv, TasksInv, Refund
  <2>2. Lifecycle!GiveBack(on[t])
      BY <1>3, <2>1, CreditIsGiveBack DEF Refund
  <2> QED
      BY <2>1, <2>2
<1>4. CASE MarkReview(t)
    BY <1>4, Unseen DEF IInv, TypeOK, TasksInv, MarkReview
<1>5. CASE RecordDivergent(t)
  <2>1. \A o \in Order : order'[o] = order[o] \/ {order[o], order'[o]} \subseteq Open
      BY <1>5 DEF IInv, TypeOK, TasksInv, RecordDivergent, LateDivergence
  <2> QED
      BY <1>5, <2>1, Unseen DEF IInv, RecordDivergent
<1>6. CASE \/ Validate(t) \/ PauseProduct(t)
           \/ LookupAnswered(t) \/ LookupInconclusive(t)
           \/ RecordMatching(t) \/ FetchCode(t) \/ CodeUnavailable(t)
           \/ DeliverConflict(t) \/ RefundRepeated(t) \/ RefundConflict(t)
           \/ RefundDuplicate(t) \/ Abort(t)
  <2>1. UNCHANGED <<order, balance, calls>>
      BY <1>6 DEF Validate, PauseProduct, LookupAnswered, LookupInconclusive,
           RecordMatching, FetchCode, CodeUnavailable, DeliverConflict,
           RefundRepeated, RefundConflict, RefundDuplicate, Abort
  <2> QED
      BY <2>1, Unseen DEF IInv
<1> QED
    BY <1>1, <1>2, <1>3, <1>4, <1>5, <1>6 DEF TaskStep

\* As long as no divergent answer is recorded after a refund, everything the shop
\* does to an order is one of the steps OrderLifecycle promises the customer.
THEOREM ImplementsLifecycle == Spec /\ NoLateDivergence => LifecycleSpec
<1>1. Init => Lifecycle!Init
    BY DEF Init, Seen, Lifecycle!Init
<1>2. ASSUME IInv, IInv', [Next]_vars, [\A t \in Task : ~LateDivergence(t)]_vars
      PROVE  [Lifecycle!Next]_(Lifecycle!vars)
  <2>1. ASSUME NEW t \in Task, TaskStep(t), ~LateDivergence(t)
        PROVE  [Lifecycle!Next]_(Lifecycle!vars)
      BY <1>2, <2>1, TaskStepRefines
  <2>2. ASSUME NEW t \in Task, NEW o \in Order, Reserve(t, o)
        PROVE  [Lifecycle!Next]_(Lifecycle!vars)
      BY <1>2, <2>2, ReserveIsPay DEF Lifecycle!Next
  <2>3. ASSUME NEW o \in Order, AdminRefund(o)
        PROVE  [Lifecycle!Next]_(Lifecycle!vars)
      BY <1>2, <2>3, CreditIsGiveBack DEF AdminRefund, supplier, Lifecycle!Next
  <2>4. ASSUME UNCHANGED <<order, balance, calls>>
        PROVE  [Lifecycle!Next]_(Lifecycle!vars)
      BY <1>2, <2>4, Unseen DEF IInv
  <2> QED
      BY <1>2, <2>1, <2>2, <2>3, <2>4 DEF Next, vars, database, supplier, tasks,
         StartReconcile, SetPurchasable, SupplierProgress
<1>3. IInv /\ [Next]_vars => IInv'
    BY NextInv
<1> QED
    BY <1>1, <1>2, <1>3, Invariance, PTL
       DEF Spec, LifecycleSpec, Lifecycle!Spec, NoLateDivergence

\* What OrderLifecycle does to a status is a step of OrderFate, or none.
LEMMA LifecycleStepsAreFate ==
    ASSUME [Lifecycle!Next]_(Lifecycle!vars)
    PROVE  [Fate!Next]_([o \in Order |-> Seen(o)])
<1> USE DEF Fate!Next
<1>1. ASSUME NEW o \in Order, Lifecycle!Pay(o)
      PROVE  Fate!Sell(o)
    BY <1>1 DEF Lifecycle!Pay, Fate!Sell
<1>2. ASSUME NEW o \in Order, Lifecycle!Deliver(o)
      PROVE  Fate!Settle(o)
    BY <1>2 DEF Lifecycle!Deliver, Fate!Settle, Fate!Final
<1>3. ASSUME NEW o \in Order, Lifecycle!GiveBack(o)
      PROVE  Fate!Settle(o) \/ Fate!TakeBack(o)
    BY <1>3 DEF Lifecycle!GiveBack, Fate!Settle, Fate!TakeBack, Fate!Final
<1>4. ASSUME NEW o \in Order, Lifecycle!Buy(o)
      PROVE  UNCHANGED [x \in Order |-> Seen(x)]
    BY <1>4 DEF Lifecycle!Buy
<1>5. CASE UNCHANGED Lifecycle!vars
    BY <1>5 DEF Lifecycle!vars
<1> QED
    BY <1>1, <1>2, <1>3, <1>4, <1>5 DEF Lifecycle!Next

\* Orders take the steps of OrderFate: what Notices assumes of them, and what its
\* theorems say of messages, holds for the orders of SupplierPurchase.
THEOREM ImplementsFate == Spec /\ NoLateDivergence => FateSpec
<1>1. Lifecycle!Init => Fate!Init
    BY DEF Lifecycle!Init, Fate!Init
<1> QED
    BY <1>1, LifecycleStepsAreFate, ImplementsLifecycle, PTL
       DEF LifecycleSpec, Lifecycle!Spec, FateSpec, Fate!Spec

=============================================================================
