----------------------------- MODULE OrderRequest -----------------------------
(***************************************************************************)
(* What _fulfill_supplier_purchase (app/services/catalog.py) needs of      *)
(* supplier.order: an order reported as answered was taken, one reported   *)
(* as refused was not and never will be (it is refunded), and of any other *)
(* nothing is known.  The supplier takes an order once at most.            *)
(***************************************************************************)
EXTENDS Naturals

CONSTANT Order

VARIABLES
    taken, \* how often the supplier took each order
    told   \* "open", "answered", "refused" or "unclear", per order

vars == <<taken, told>>

Init ==
    /\ taken = [o \in Order |-> 0]
    /\ told = [o \in Order |-> "open"]

\* A request whose answer got lost may be taken long after.
Take(o) ==
    /\ taken[o] = 0
    /\ told[o] \in {"open", "unclear"}
    /\ taken' = [taken EXCEPT ![o] = 1]
    /\ UNCHANGED told

Answer(o) ==
    /\ taken[o] = 0 /\ told[o] = "open"
    /\ taken' = [taken EXCEPT ![o] = 1]
    /\ told' = [told EXCEPT ![o] = "answered"]

Refuse(o) ==
    /\ taken[o] = 0 /\ told[o] = "open"
    /\ told' = [told EXCEPT ![o] = "refused"]
    /\ UNCHANGED taken

\* A restart leaves any number of orders unclear, some of them taken.
GiveUp ==
    \E lost \in (SUBSET Order) \ {{}}, late \in SUBSET Order :
        /\ late \subseteq lost
        /\ \A o \in lost : told[o] = "open"
        /\ \A o \in late : taken[o] = 0
        /\ told' = [o \in Order |-> IF o \in lost THEN "unclear" ELSE told[o]]
        /\ taken' = [o \in Order |-> IF o \in late THEN 1 ELSE taken[o]]

Next ==
    \/ \E o \in Order : Take(o) \/ Answer(o) \/ Refuse(o)
    \/ GiveUp

Spec == Init /\ [][Next]_vars
=============================================================================
