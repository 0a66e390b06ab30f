--------------------------- MODULE MCManualPurchase ---------------------------
(* A small instance of ManualPurchase for TLC.                             *)
EXTENDS ManualPurchase

CONSTANTS c1, c2, k1, k2, i1, i2, t1, t2

TwoCustomers == {c1, c2}
TwoClicks    == {k1, k2}
TwoItems     == {i1, i2}
TwoTasks     == {t1, t2}

\* Each customer has one button to click, as often as he likes.
EachOwner == [k \in TwoClicks |-> IF k = k1 THEN c1 ELSE c2]

\* Every reversal and every negative adjustment takes the price of one purchase.
MinusPrice == {-2}
=============================================================================
