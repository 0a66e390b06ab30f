---------------------------- MODULE OrderLifecycle ----------------------------
(***************************************************************************)
(* What the shop promises a customer about supplier-fulfilled orders: each *)
(* is paid once, bought from the supplier at most once, delivered only     *)
(* when it was bought, and given back at most once, for good.  Statuses    *)
(* stand for what the customer sees; how the shop finds out is left out.   *)
(***************************************************************************)
EXTENDS Integers

CONSTANTS Order, Price, InitialBalance

VARIABLES
    status,  \* "none", "open" (paid), "delivered" or "refunded", per order
    bought,  \* how often the shop asked the supplier for a code, per order
    balance  \* what the customer can spend

vars == <<status, bought, balance>>

Init ==
    /\ status = [o \in Order |-> "none"]
    /\ bought = [o \in Order |-> 0]
    /\ balance = InitialBalance

Pay(o) ==
    /\ status[o] = "none"
    /\ balance >= Price
    /\ status' = [status EXCEPT ![o] = "open"]
    /\ balance' = balance - Price
    /\ UNCHANGED bought

\* The supplier may be asked even for an order an administrator has returned
\* in the meantime: the shop carries that cost, the customer does not notice.
Buy(o) ==
    /\ status[o] # "none"
    /\ bought[o] = 0
    /\ bought' = [bought EXCEPT ![o] = 1]
    /\ UNCHANGED <<status, balance>>

Deliver(o) ==
    /\ status[o] = "open"
    /\ bought[o] = 1
    /\ status' = [status EXCEPT ![o] = "delivered"]
    /\ UNCHANGED <<bought, balance>>

GiveBack(o) ==
    /\ status[o] \in {"open", "delivered"}
    /\ status' = [status EXCEPT ![o] = "refunded"]
    /\ balance' = balance + Price
    /\ UNCHANGED bought

Next == \E o \in Order : Pay(o) \/ Buy(o) \/ Deliver(o) \/ GiveBack(o)

Spec == Init /\ [][Next]_vars
=============================================================================
