------------------------------ MODULE MCWebhooks ------------------------------
(* A deposit that is paid and refunded, and the event of an unknown order,    *)
(* which for ever takes one of the two places of the loop's list.             *)
EXTENDS Webhooks

CONSTANTS o1, u1

PaidAndRefunded == {<<o1, Accredited>>, <<o1, Refunded>>}
OneUnknown      == <<<<u1, Accredited>>>>
=============================================================================
