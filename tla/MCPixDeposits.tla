---------------------------- MODULE MCPixDeposits ----------------------------
(* Small instances of PixDeposits for TLC.                                 *)
EXTENDS PixDeposits, TLC

CONSTANTS d1, t1, t2

OneDeposit == {d1}
TwoTasks   == {t1, t2}

\* The bound on events: those that move money, or those and two that do not.
MoneyEvents == {"accredited", "refunded"}
ManyEvents  == {"accredited", "partial", "refunded", "charged_back"}

\* Tasks are interchangeable in every action and safety property.
Interchangeable == Permutations(TwoTasks)
=============================================================================
