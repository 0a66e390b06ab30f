--------------------------- MODULE MCReloadlyClient ---------------------------
(* A small instance of ReloadlyClient for TLC.                             *)
EXTENDS ReloadlyClient

CONSTANTS r1, r2

\* An order and a query: to the token, an order is like a query.
TwoRequests == {r1, r2}
OneOrder    == {r1}
=============================================================================
