------------------------------- MODULE MCSupport -------------------------------
(* Small instances of Support for TLC.                                     *)
EXTENDS Support, TLC

CONSTANTS c1, h1, h2, k1, k2, t1, t2

OneCustomer  == {c1}
TwoChats     == {h1, h2}
TwoTickets   == {k1, k2}
TwoTasks     == {t1, t2}

\* One customer in two chats.
OneOwner  == [h \in TwoChats |-> c1]

\* Tickets and handlers are interchangeable in every action and property.
Interchangeable ==
    Permutations(TwoTickets) \cup Permutations(TwoTasks)
=============================================================================
