---------------------------- MODULE DepositLifecycle ----------------------------
(***************************************************************************)
(* What the shop promises a depositor: money that reached the provider is  *)
(* credited to the wallet at most once, nothing else is, and a credit is   *)
(* taken back at most once, after the money was returned.  How the shop    *)
(* learns of a payment, and in which order, is left out.                   *)
(***************************************************************************)
EXTENDS Integers

CONSTANTS Deposit, Amount, InitialBalance

VARIABLES
    money,   \* "none", "received" or "returned" by the provider, per deposit
    credit,  \* "none", "given" or "withdrawn", per deposit
    balance  \* what the customer can spend

vars == <<money, credit, balance>>

Init ==
    /\ money = [d \in Deposit |-> "none"]
    /\ credit = [d \in Deposit |-> "none"]
    /\ balance = InitialBalance

Receive(d) ==
    /\ money[d] = "none"
    /\ money' = [money EXCEPT ![d] = "received"]
    /\ UNCHANGED <<credit, balance>>

SendBack(d) ==
    /\ money[d] = "received"
    /\ money' = [money EXCEPT ![d] = "returned"]
    /\ UNCHANGED <<credit, balance>>

\* The shop may learn of a payment after it was returned, and not know that yet.
Give(d) ==
    /\ money[d] # "none" /\ credit[d] = "none"
    /\ credit' = [credit EXCEPT ![d] = "given"]
    /\ balance' = balance + Amount
    /\ UNCHANGED money

Withdraw(d) ==
    /\ money[d] = "returned" /\ credit[d] = "given"
    /\ credit' = [credit EXCEPT ![d] = "withdrawn"]
    /\ balance' = balance - Amount
    /\ UNCHANGED money

Next == \E d \in Deposit : Receive(d) \/ SendBack(d) \/ Give(d) \/ Withdraw(d)

Spec == Init /\ [][Next]_vars
=============================================================================
