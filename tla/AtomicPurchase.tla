---------------------------- MODULE AtomicPurchase ----------------------------
(***************************************************************************)
(* The shop as its customers may think of it: a purchase happens at one    *)
(* instant, to a customer who is not blocked at that instant and can pay   *)
(* from what he has then, of an item nobody else has, for a button that    *)
(* bought nothing yet; and every other entry of a wallet adds to what the  *)
(* wallet holds when it is booked.  Transactions, locks and what was read  *)
(* earlier are left out.  So is whether the product is still offered: its  *)
(* row is not locked, and it may be withdrawn while a purchase is running. *)
(***************************************************************************)
EXTENDS Integers

CONSTANTS Customer, Click, Owner, Item, Price, InitialBalance, Amounts

VARIABLES
    stock,    \* "none", "available" or "sold", per item
    orders,   \* pairs of a click and the item it bought
    refunded, \* the orders paid back
    balance,  \* what each customer can spend
    blocked   \* who may not buy

vars == <<stock, orders, refunded, balance, blocked>>

Init ==
    /\ stock = [i \in Item |-> "none"]
    /\ orders = {} /\ refunded = {}
    /\ balance = [c \in Customer |-> InitialBalance]
    /\ blocked = {}

Buy(k, i) ==
    /\ stock[i] = "available"
    /\ \A p \in orders : p[1] # k
    /\ Owner[k] \notin blocked
    /\ balance[Owner[k]] >= Price
    /\ orders' = orders \cup {<<k, i>>}
    /\ stock' = [stock EXCEPT ![i] = "sold"]
    /\ balance' = [balance EXCEPT ![Owner[k]] = @ - Price]
    /\ UNCHANGED <<refunded, blocked>>

Refund(p) ==
    /\ p \notin refunded
    /\ refunded' = refunded \cup {p}
    /\ balance' = [balance EXCEPT ![Owner[p[1]]] = @ + Price]
    /\ UNCHANGED <<stock, orders, blocked>>

\* A deposit, its reversal, or an adjustment.
Move(c, a) ==
    /\ balance' = [balance EXCEPT ![c] = @ + a]
    /\ UNCHANGED <<stock, orders, refunded, blocked>>

Stock(file) ==
    /\ \A i \in file : stock[i] = "none"
    /\ stock' = [i \in Item |-> IF i \in file THEN "available" ELSE stock[i]]
    /\ UNCHANGED <<orders, refunded, balance, blocked>>

Block(c) ==
    /\ blocked' \in {blocked \cup {c}, blocked \ {c}}
    /\ UNCHANGED <<stock, orders, refunded, balance>>

Next ==
    \/ \E k \in Click, i \in Item : Buy(k, i)
    \/ \E p \in orders : Refund(p)
    \/ \E c \in Customer, a \in Amounts : Move(c, a)
    \/ \E file \in SUBSET Item : Stock(file)
    \/ \E c \in Customer : Block(c)

Spec == Init /\ [][Next]_vars
=============================================================================
