------------------------------- MODULE MCOffers -------------------------------
(* A cent has two units of cost: at a margin of 5% a card that costs 19 may be  *)
(* sold for 10 cents, one that costs 20 for 11; without a margin, both for 10.  *)
EXTENDS Offers, TLC

CONSTANTS s1, m1

MockCosts  == [c \in {m1} |-> 19]
SeedCards  == [s \in {s1} |-> m1]
SeedPrices == [s \in {s1} |-> 11]
Symmetry   == Permutations(Task)
=============================================================================
