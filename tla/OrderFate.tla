------------------------------- MODULE OrderFate -------------------------------
(***************************************************************************)
(* The statuses a supplier-fulfilled order goes through, and no more: what *)
(* Notices assumes of the orders it tells customers about, and what        *)
(* SupplierPurchase does with them.  "open" stands for processing and      *)
(* review.                                                                 *)
(***************************************************************************)
CONSTANT Order

VARIABLE status \* "none", "open", "delivered" or "refunded", per order

Final == {"delivered", "refunded"}

Init == status = [o \in Order |-> "none"]

Sell(o) ==
    /\ status[o] = "none"
    /\ status' = [status EXCEPT ![o] = "open"]

\* By the purchase itself, by a reconciliation or by the administrator.
Settle(o) ==
    /\ status[o] = "open"
    /\ \E s \in Final : status' = [status EXCEPT ![o] = s]

\* refund-order of a delivered order.
TakeBack(o) ==
    /\ status[o] = "delivered"
    /\ status' = [status EXCEPT ![o] = "refunded"]

Next == \E o \in Order : Sell(o) \/ Settle(o) \/ TakeBack(o)

Spec == Init /\ [][Next]_status
=============================================================================
