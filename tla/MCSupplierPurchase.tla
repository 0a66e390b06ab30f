-------------------------- MODULE MCSupplierPurchase --------------------------
(* Small instances of SupplierPurchase for TLC.                            *)
EXTENDS SupplierPurchase, TLC

CONSTANTS o1, o2, t1, t2, t3

OneOrder  == {o1}
TwoOrders == {o1, o2}
TwoTasks   == {t1, t2}
ThreeTasks == {t1, t2, t3}

\* Orders and tasks are interchangeable in every action and property.
Interchangeable == Permutations(TwoOrders) \cup Permutations(TwoTasks)
=============================================================================
