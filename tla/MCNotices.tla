------------------------------- MODULE MCNotices -------------------------------
(* Small instances of Notices for TLC.                                     *)
EXTENDS Notices

CONSTANTS o1, o2

FirstOne  == {o1}
TwoOrders == {o1, o2}
=============================================================================
