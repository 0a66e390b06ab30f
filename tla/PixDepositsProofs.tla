--------------------------- MODULE PixDepositsProofs ---------------------------
(***************************************************************************)
(* Proofs about PixDeposits, for every finite set of deposits, every set   *)
(* of tasks, every amount, and providers that diverge or do not.           *)
(***************************************************************************)
EXTENDS PixDeposits, FiniteSetTheorems, TLAPS

USE DepositAssumption, AmountAssumption, StatusAssumption
USE DEF DepositStatus, PixStatus, Reversal, Final, Paid, Step, EventState

\* A credit under a new key adds one entry.
LEMMA CreditCounts ==
    ASSUME NEW S \in SUBSET Deposit, NEW d \in Deposit \ S
    PROVE  Cardinality(S \cup {d}) = Cardinality(S) + 1
BY FS_Subset, FS_AddElement

\* There are finitely many possible reversals.
LEMMA ReversalsAreFinite ==
    ASSUME NEW S \in SUBSET (Deposit \X Reversal)
    PROVE  IsFiniteSet(S)
<1>1. IsFiniteSet({}) /\ IsFiniteSet({} \cup {"refunded"})
    BY FS_EmptySet, FS_AddElement
<1>2. IsFiniteSet(({} \cup {"refunded"}) \cup {"charged_back"})
    BY <1>1, FS_AddElement
<1>3. Reversal = ({} \cup {"refunded"}) \cup {"charged_back"}
    OBVIOUS
<1>4. IsFiniteSet(Deposit \X Reversal)
    BY <1>2, <1>3, FS_Product
<1> QED
    BY <1>4, FS_Subset

\* A reversal under a new key adds one entry.
LEMMA ReversalCounts ==
    ASSUME NEW S \in SUBSET (Deposit \X Reversal),
           NEW r \in (Deposit \X Reversal) \ S
    PROVE  Cardinality(S \cup {r}) = Cardinality(S) + 1
BY ReversalsAreFinite, FS_AddElement

\* The ledger's entries can be counted.
LEMMA EntriesAreCounted ==
    ASSUME TypeOK
    PROVE  Cardinality(credits) \in Nat /\ Cardinality(reversals) \in Nat
<1>1. IsFiniteSet(credits) /\ IsFiniteSet(reversals)
    BY ReversalsAreFinite, FS_Subset DEF TypeOK
<1> QED
    BY <1>1, FS_CardinalityType

\* One more credit moves both sides of the ledger's equation alike.
LEMMA CreditAdds ==
    ASSUME NEW b \in Int, NEW r \in Nat, NEW c \in Nat,
           b + Amount * r = InitialBalance + Amount * c
    PROVE  (b + Amount) + Amount * r = InitialBalance + Amount * (c + 1)
<1>1. Amount * (c + 1) = Amount * c + Amount
    OBVIOUS
<1>2. Amount * r \in Int /\ Amount * c \in Int
    OBVIOUS
<1> QED
    BY <1>1, <1>2

\* So does one more reversal.
LEMMA ReversalAdds ==
    ASSUME NEW b \in Int, NEW r \in Nat, NEW c \in Nat,
           b + Amount * r = InitialBalance + Amount * c
    PROVE  (b - Amount) + Amount * (r + 1) = InitialBalance + Amount * c
<1>1. Amount * (r + 1) = Amount * r + Amount
    OBVIOUS
<1>2. Amount * r \in Int /\ Amount * c \in Int
    OBVIOUS
<1> QED
    BY <1>1, <1>2

-----------------------------------------------------------------------------
(* What the moves of a task do, and what is kept when little changes.      *)

TaskTypes ==
    /\ pc \in [Task -> Step]
    /\ on \in [Task -> Deposit \cup {None}]
    /\ snap \in [Task -> PixStatus \cup {None, "DIVERGENT"}]
    /\ note \in [Task -> Notified \cup {None}]

OthersStay(t) ==
    \A u \in Task \ {t} :
        pc'[u] = pc[u] /\ on'[u] = on[u] /\ snap'[u] = snap[u] /\ note'[u] = note[u]

\* Deposits and the provider's orders only move on, and only the task that
\* creates an order makes it exist.
MoveOn(t) ==
    \A d \in Deposit :
        /\ status[d] # "none" => status'[d] # "none"
        /\ pix[d] \in Paid => pix'[d] \in Paid
        /\ pix[d] \in Reversal => pix'[d] \in Reversal
        /\ pix[d] # "none" => pix'[d] # "none"
        /\ pix[d] = "none" /\ pix'[d] # "none" => pc[t] = "create" /\ on[t] = d

\* A task that begins a step works on its deposit.
LEMMA BeginMoves ==
    ASSUME TypeOK, NEW t \in Task, NEW d \in Deposit, NEW step \in Step,
           NEW e \in Notified \cup {None}, Begin(t, d, step, e)
    PROVE  /\ TaskTypes' /\ OthersStay(t) /\ pc[t] = "idle"
           /\ pc'[t] = step /\ on'[t] = d /\ snap'[t] = snap[t] /\ note'[t] = e
BY DEF TypeOK, TaskTypes, OthersStay, Begin

\* A task that goes on keeps its deposit.
LEMMA GotoMoves ==
    ASSUME TypeOK, NEW t \in Task, NEW step \in Step,
           NEW s \in PixStatus \cup {None, "DIVERGENT"}, Goto(t, step, s)
    PROVE  /\ TaskTypes' /\ OthersStay(t)
           /\ pc'[t] = step /\ on'[t] = on[t] /\ snap'[t] = s /\ note'[t] = note[t]
BY DEF TypeOK, TaskTypes, OthersStay, Goto

\* A task that returns keeps nothing.
LEMMA ReturnMoves ==
    ASSUME TypeOK, NEW t \in Task, Return(t)
    PROVE  /\ TaskTypes' /\ OthersStay(t)
           /\ pc'[t] = "idle" /\ snap'[t] = None /\ note'[t] = None
BY DEF TypeOK, TaskTypes, OthersStay, Return

\* A task that applied its snapshot gives it up, and returns or marks its event.
LEMMA AppliesMoves ==
    ASSUME TypeOK, NEW t \in Task, Applies(t)
    PROVE  /\ TaskTypes' /\ OthersStay(t)
           /\ pc'[t] \in {"idle", "mark"} /\ snap'[t] = None
           /\ pc'[t] = "mark" => on'[t] = on[t] /\ note'[t] = note[t]
           /\ pc'[t] = "idle" => note'[t] = None
<1>1. CASE note[t] = None
    BY <1>1, ReturnMoves DEF Applies, AfterReconcile
<1>2. CASE note[t] # None
    BY <1>2, GotoMoves DEF Applies, AfterReconcile
<1> QED
    BY <1>1, <1>2

\* The other tasks keep their part of the invariant while things move on: a
\* task about to create an order is alone in that.
LEMMA OthersKept ==
    ASSUME \A u \in Task : TaskInv(u), OneCreator,
           NEW t \in Task, OthersStay(t), MoveOn(t)
    PROVE  \A u \in Task \ {t} : TaskInv(u)'
<1> SUFFICES ASSUME NEW u \in Task \ {t} PROVE TaskInv(u)'
    OBVIOUS
<1>1. /\ TaskInv(u)
      /\ pc'[u] = pc[u] /\ on'[u] = on[u] /\ snap'[u] = snap[u] /\ note'[u] = note[u]
    BY DEF OthersStay
<1>2. CASE pc[u] = "idle"
    BY <1>1, <1>2 DEF TaskInv
<1>3. CASE pc[u] # "idle"
    BY <1>1, <1>3 DEF TaskInv, OneCreator, MoveOn
<1> QED
    BY <1>2, <1>3

\* No second creator appears unless a task starts to create.
LEMMA CreatorKept ==
    ASSUME OneCreator, NEW t \in Task, OthersStay(t), pc'[t] # "create"
    PROVE  OneCreator'
BY DEF OneCreator, OthersStay

\* Without a new entry, a deposit is reversed as it was.
LEMMA ReversedKept ==
    ASSUME reversals' = reversals
    PROVE  \A d \in Deposit : Reversed(d)' <=> Reversed(d)
BY DEF Reversed

\* Without a new entry, statuses tell the ledger unless one becomes final.
LEMMA StatusKept ==
    ASSUME StatusTellsLedger, credits' = credits, reversals' = reversals,
           \A d \in Deposit : status'[d] = status[d] \/ status'[d] \notin Final
    PROVE  StatusTellsLedger'
BY ReversedKept DEF StatusTellsLedger

\* Without a new entry, credits and reversals rest on what the provider reached.
LEMMA PixKept ==
    ASSUME TypeOK, CreditedWasPaid, ReversedOnce, NEW t, MoveOn(t),
           credits' = credits, reversals' = reversals
    PROVE  CreditedWasPaid' /\ ReversedOnce'
<1>1. CreditedWasPaid'
    BY DEF TypeOK, CreditedWasPaid, MoveOn
<1>2. ASSUME NEW d \in Deposit
      PROVE  /\ Reversed(d)' => d \in credits' /\ pix'[d] \in Reversal
             /\ ~(<<d, "refunded">> \in reversals' /\ <<d, "charged_back">> \in reversals')
    BY ReversedKept DEF ReversedOnce, MoveOn
<1> QED
    BY <1>1, <1>2 DEF ReversedOnce

-----------------------------------------------------------------------------
(* The invariant holds initially and every action keeps it.                *)

\* Before the first deposit nothing is credited and nobody works.
LEMMA InitInv == Init => IInv
<1> SUFFICES ASSUME Init PROVE IInv
    OBVIOUS
<1>1. /\ TypeOK /\ \A t \in Task : TaskInv(t)
      /\ OneCreator /\ DepositInv /\ EventInv
    BY DEF Init, TypeOK, TaskInv, OneCreator, DepositInv, EventInv
<1>2. LedgerMatchesWallet
    BY FS_EmptySet DEF Init, LedgerMatchesWallet
<1>3. CreditedWasPaid /\ ReversedOnce /\ StatusTellsLedger
    BY DEF Init, CreditedWasPaid, ReversedOnce, StatusTellsLedger, Reversed
<1> QED
    BY <1>1, <1>2, <1>3 DEF IInv

\* Creating a deposit keeps the invariant: no task can be creating it yet.
LEMMA CreateDepositInv ==
    ASSUME IInv, NEW t \in Task, NEW d \in Deposit, CreateDeposit(t, d)
    PROVE  IInv'
<1> USE DEF CreateDeposit, ledger, database
<1>1. TaskInv(t)
    BY DEF IInv
<1>2. Begin(t, d, "create", None) /\ None \in Notified \cup {None}
    OBVIOUS
<1>3. /\ TaskTypes' /\ OthersStay(t) /\ pc[t] = "idle"
      /\ pc'[t] = "create" /\ on'[t] = d /\ snap'[t] = snap[t] /\ note'[t] = None
  <2> HIDE DEF CreateDeposit, ledger, database
  <2> QED
      BY <1>2, BeginMoves DEF IInv
<1>4. /\ TaskTypes' /\ OthersStay(t)
      /\ pc'[t] = "create" /\ on'[t] = d
      /\ snap'[t] = None /\ note'[t] = None
    BY <1>1, <1>3 DEF TaskInv
<1>5. TypeOK'
    BY <1>1, <1>4 DEF IInv, TypeOK, TaskTypes
<1>6. MoveOn(t)
    BY <1>1 DEF IInv, TypeOK, MoveOn, DepositInv, TaskInv
<1>7. \A u \in Task : TaskInv(u)'
  <2>1. TaskInv(t)'
      BY <1>1, <1>4, <1>6 DEF IInv, TypeOK, TaskInv, MoveOn, DepositInv, EventInv
  <2> QED
      BY <1>4, <1>6, <2>1, OthersKept DEF IInv
<1>8. OneCreator'
    BY <1>4 DEF IInv, OneCreator, OthersStay, TaskInv
<1>9. DepositInv' /\ EventInv'
    BY <1>1 DEF IInv, TypeOK, TaskInv, DepositInv, EventInv
<1>10. credits' = credits /\ reversals' = reversals /\ balance' = balance
    OBVIOUS
<1>11. LedgerMatchesWallet'
    BY <1>10 DEF IInv, LedgerMatchesWallet
<1>12. CreditedWasPaid' /\ ReversedOnce'
    BY <1>6, <1>10, PixKept DEF IInv
<1>13. StatusTellsLedger'
    BY <1>1, <1>10, StatusKept DEF IInv, TypeOK
<1> QED
    BY <1>5, <1>7, <1>8, <1>9, <1>11, <1>12, <1>13 DEF IInv

\* A creation that raises keeps the invariant, order or not.
LEMMA CreateRaisesInv ==
    ASSUME IInv, NEW t \in Task, CreateRaises(t)
    PROVE  IInv'
<1> USE DEF CreateRaises, ledger, database, Reach
<1>1. TaskInv(t) /\ pc[t] # "idle" /\ on[t] \in Deposit /\ status[on[t]] # "none"
    BY DEF IInv, TaskInv
<1>2. /\ TaskTypes' /\ OthersStay(t)
      /\ pc'[t] \in {"reject", "fail"} /\ on'[t] = on[t] /\ snap'[t] = None
      /\ note'[t] = note[t]
    BY GotoMoves DEF IInv
<1>3. TypeOK'
    BY <1>1, <1>2 DEF IInv, TypeOK, TaskTypes
<1>4. MoveOn(t)
    BY <1>1 DEF IInv, TypeOK, MoveOn, DepositInv, TaskInv
<1>5. \A u \in Task : TaskInv(u)'
  <2>1. TaskInv(t)'
      BY <1>1, <1>2, <1>4 DEF IInv, TypeOK, TaskInv, MoveOn
  <2> QED
      BY <1>2, <1>4, <2>1, OthersKept DEF IInv
<1>6. OneCreator'
    BY <1>2, CreatorKept DEF IInv
<1>7. DepositInv' /\ EventInv'
    BY <1>1 DEF IInv, TypeOK, TaskInv, DepositInv, EventInv
<1>8. credits' = credits /\ reversals' = reversals /\ balance' = balance
    OBVIOUS
<1>9. LedgerMatchesWallet'
    BY <1>8 DEF IInv, LedgerMatchesWallet
<1>10. CreditedWasPaid' /\ ReversedOnce'
    BY <1>4, <1>8, PixKept DEF IInv
<1>11. StatusTellsLedger'
    BY <1>1, <1>8, StatusKept DEF IInv, TypeOK
<1> QED
    BY <1>3, <1>5, <1>6, <1>7, <1>9, <1>10, <1>11 DEF IInv

\* An answered creation keeps the invariant.
LEMMA CreateAnsweredInv ==
    ASSUME IInv, NEW t \in Task, CreateAnswered(t)
    PROVE  IInv'
<1> USE DEF CreateAnswered, ledger, database, Reach, Report
<1>1. TaskInv(t) /\ pc[t] # "idle" /\ on[t] \in Deposit /\ status[on[t]] # "none"
    BY DEF IInv, TaskInv
<1>2. PICK s \in {"created", "accredited"} :
            /\ Reach(on[t], s)
            /\ \E a \in Report(s) :
                  Goto(t, IF a = "DIVERGENT" THEN "fail" ELSE "save", a)
    OBVIOUS
<1>3. pix'[on[t]] = s
    BY <1>2, <1>1 DEF IInv, TypeOK
<1>4. PICK a \in {s, "DIVERGENT"} :
            Goto(t, IF a = "DIVERGENT" THEN "fail" ELSE "save", a)
    BY <1>2
<1>5. /\ TaskTypes' /\ OthersStay(t)
      /\ pc'[t] \in {"fail", "save"} /\ on'[t] = on[t]
      /\ snap'[t] \in {pix'[on[t]], "DIVERGENT"}
      /\ pix'[on[t]] \in {"created", "accredited"} /\ note'[t] = note[t]
    BY <1>3, <1>4, GotoMoves DEF IInv
<1>6. TypeOK'
    BY <1>1, <1>5 DEF IInv, TypeOK, TaskTypes
<1>7. MoveOn(t)
    BY <1>1 DEF IInv, TypeOK, MoveOn, DepositInv, TaskInv
<1>8. \A u \in Task : TaskInv(u)'
  <2>1. TaskInv(t)'
      BY <1>1, <1>5, <1>7 DEF IInv, TypeOK, TaskInv, MoveOn
  <2> QED
      BY <1>5, <1>7, <2>1, OthersKept DEF IInv
<1>9. OneCreator'
    BY <1>5, CreatorKept DEF IInv
<1>10. DepositInv' /\ EventInv'
    BY <1>1 DEF IInv, TypeOK, TaskInv, DepositInv, EventInv
<1>11. credits' = credits /\ reversals' = reversals /\ balance' = balance
    OBVIOUS
<1>12. LedgerMatchesWallet'
    BY <1>11 DEF IInv, LedgerMatchesWallet
<1>13. CreditedWasPaid' /\ ReversedOnce'
    BY <1>7, <1>11, PixKept DEF IInv
<1>14. StatusTellsLedger'
    BY <1>1, <1>11, StatusKept DEF IInv, TypeOK
<1> QED
    BY <1>6, <1>8, <1>9, <1>10, <1>12, <1>13, <1>14 DEF IInv

\* A failed creation keeps the invariant, even over a credit.
LEMMA FailDepositInv ==
    ASSUME IInv, NEW t \in Task, FailDeposit(t)
    PROVE  IInv'
<1> USE DEF FailDeposit, ledger, database
<1>1. TaskInv(t) /\ pc[t] # "idle" /\ on[t] \in Deposit /\ status[on[t]] # "none"
    BY DEF IInv, TaskInv
<1>2. TaskTypes' /\ OthersStay(t) /\ pc'[t] = "idle" /\ snap'[t] = None /\ note'[t] = None
    BY ReturnMoves DEF IInv
<1>3. TypeOK'
    BY <1>1, <1>2 DEF IInv, TypeOK, TaskTypes
<1>4. MoveOn(t)
    BY <1>1 DEF IInv, TypeOK, MoveOn, DepositInv, TaskInv
<1>5. \A u \in Task : TaskInv(u)'
  <2>1. TaskInv(t)'
      BY <1>1, <1>2, <1>4 DEF IInv, TypeOK, TaskInv, MoveOn
  <2> QED
      BY <1>2, <1>4, <2>1, OthersKept DEF IInv
<1>6. OneCreator'
    BY <1>2, CreatorKept DEF IInv
<1>7. DepositInv' /\ EventInv'
    BY <1>1 DEF IInv, TypeOK, TaskInv, DepositInv, EventInv
<1>8. credits' = credits /\ reversals' = reversals /\ balance' = balance
    OBVIOUS
<1>9. LedgerMatchesWallet'
    BY <1>8 DEF IInv, LedgerMatchesWallet
<1>10. CreditedWasPaid' /\ ReversedOnce'
    BY <1>4, <1>8, PixKept DEF IInv
<1>11. StatusTellsLedger'
    BY <1>1, <1>8, StatusKept DEF IInv, TypeOK
<1> QED
    BY <1>3, <1>5, <1>6, <1>7, <1>9, <1>10, <1>11 DEF IInv

\* Saving the provider's order keeps the invariant, even over a late status.
LEMMA SaveDepositInv ==
    ASSUME IInv, NEW t \in Task, SaveDeposit(t)
    PROVE  IInv'
<1> USE DEF SaveDeposit, ledger, database
<1>1. TaskInv(t) /\ pc[t] # "idle" /\ on[t] \in Deposit /\ status[on[t]] # "none"
    BY DEF IInv, TaskInv
<1>2. /\ TaskTypes' /\ OthersStay(t)
      /\ \/ pc'[t] = "idle" /\ snap'[t] = None /\ note'[t] = None
         \/ pc'[t] = "reconcile" /\ on'[t] = on[t] /\ snap'[t] = snap[t]
            /\ note'[t] = note[t]
  <2>1. CASE snap[t] = "accredited"
      BY <2>1, GotoMoves DEF IInv
  <2>2. CASE snap[t] # "accredited"
      BY <2>2, ReturnMoves DEF IInv
  <2> QED
      BY <2>1, <2>2
<1>3. TypeOK'
    BY <1>1, <1>2 DEF IInv, TypeOK, TaskTypes
<1>4. MoveOn(t)
    BY <1>1 DEF IInv, TypeOK, MoveOn, DepositInv, TaskInv
<1>5. \A u \in Task : TaskInv(u)'
  <2>1. TaskInv(t)'
      BY <1>1, <1>2, <1>4 DEF IInv, TypeOK, TaskInv, MoveOn
  <2> QED
      BY <1>2, <1>4, <2>1, OthersKept DEF IInv
<1>6. OneCreator'
    BY <1>2, CreatorKept DEF IInv
<1>7. DepositInv' /\ EventInv'
    BY <1>1 DEF IInv, TypeOK, TaskInv, DepositInv, EventInv
<1>8. credits' = credits /\ reversals' = reversals /\ balance' = balance
    OBVIOUS
<1>9. LedgerMatchesWallet'
    BY <1>8 DEF IInv, LedgerMatchesWallet
<1>10. CreditedWasPaid' /\ ReversedOnce'
    BY <1>4, <1>8, PixKept DEF IInv
<1>11. StatusTellsLedger'
    BY <1>1, <1>8, StatusKept DEF IInv, TypeOK
<1> QED
    BY <1>3, <1>5, <1>6, <1>7, <1>9, <1>10, <1>11 DEF IInv

\* Recording an event keeps the invariant.
LEMMA RecordEventInv ==
    ASSUME IInv, NEW d \in Deposit, NEW s \in Notified, RecordEvent(d, s)
    PROVE  IInv'
<1> USE DEF RecordEvent, ledger, database, tasks
<1>1. TypeOK'
    BY DEF IInv, TypeOK, TaskTypes
<1>2. \A t : MoveOn(t)
    BY DEF MoveOn
<1>3. \A t \in Task : TaskInv(t)'
    BY DEF IInv, TaskInv
<1>4. OneCreator'
    BY DEF IInv, OneCreator
<1>5. DepositInv' /\ EventInv'
    BY DEF IInv, TypeOK, TaskInv, DepositInv, EventInv
<1>6. credits' = credits /\ reversals' = reversals /\ balance' = balance
    OBVIOUS
<1>7. LedgerMatchesWallet'
    BY <1>6 DEF IInv, LedgerMatchesWallet
<1>8. CreditedWasPaid' /\ ReversedOnce'
    BY <1>2, <1>6, PixKept DEF IInv
<1>9. StatusTellsLedger'
    BY <1>6, StatusKept DEF IInv, TypeOK
<1> QED
    BY <1>1, <1>3, <1>4, <1>5, <1>7, <1>8, <1>9 DEF IInv

\* Taking up an event keeps the invariant.
LEMMA ProcessEventInv ==
    ASSUME IInv, NEW t \in Task, NEW d \in Deposit, NEW s \in Notified, ProcessEvent(t, d, s)
    PROVE  IInv'
<1> USE DEF ProcessEvent, ledger, database
<1>1. TaskInv(t)
    BY DEF IInv
<1>2. Begin(t, d, "fetch", s) /\ s \in Notified \cup {None}
    OBVIOUS
<1>3. /\ TaskTypes' /\ OthersStay(t) /\ pc[t] = "idle"
      /\ pc'[t] = "fetch" /\ on'[t] = d /\ snap'[t] = snap[t] /\ note'[t] = s
  <2> HIDE DEF ProcessEvent, ledger, database
  <2> QED
      BY <1>2, BeginMoves DEF IInv
<1>4. /\ TaskTypes' /\ OthersStay(t)
      /\ pc'[t] = "fetch" /\ on'[t] = d
      /\ snap'[t] = None /\ note'[t] = s
    BY <1>1, <1>3 DEF TaskInv
<1>5. TypeOK'
    BY <1>1, <1>4 DEF IInv, TypeOK, TaskTypes
<1>6. MoveOn(t)
    BY <1>1 DEF IInv, TypeOK, MoveOn, DepositInv, TaskInv
<1>7. \A u \in Task : TaskInv(u)'
  <2>1. TaskInv(t)'
      BY <1>1, <1>4, <1>6 DEF IInv, TypeOK, TaskInv, MoveOn, DepositInv, EventInv
  <2> QED
      BY <1>4, <1>6, <2>1, OthersKept DEF IInv
<1>8. OneCreator'
    BY <1>4, CreatorKept DEF IInv
<1>9. DepositInv' /\ EventInv'
    BY <1>1 DEF IInv, TypeOK, TaskInv, DepositInv, EventInv
<1>10. credits' = credits /\ reversals' = reversals /\ balance' = balance
    OBVIOUS
<1>11. LedgerMatchesWallet'
    BY <1>10 DEF IInv, LedgerMatchesWallet
<1>12. CreditedWasPaid' /\ ReversedOnce'
    BY <1>6, <1>10, PixKept DEF IInv
<1>13. StatusTellsLedger'
    BY <1>1, <1>10, StatusKept DEF IInv, TypeOK
<1> QED
    BY <1>5, <1>7, <1>8, <1>9, <1>11, <1>12, <1>13 DEF IInv

\* A manual check keeps the invariant.
LEMMA CheckInv ==
    ASSUME IInv, NEW t \in Task, NEW d \in Deposit, Check(t, d)
    PROVE  IInv'
<1> USE DEF Check, ledger, database
<1>1. TaskInv(t)
    BY DEF IInv
<1>2. Begin(t, d, "fetch", None) /\ None \in Notified \cup {None}
    OBVIOUS
<1>3. /\ TaskTypes' /\ OthersStay(t) /\ pc[t] = "idle"
      /\ pc'[t] = "fetch" /\ on'[t] = d /\ snap'[t] = snap[t] /\ note'[t] = None
  <2> HIDE DEF Check, ledger, database
  <2> QED
      BY <1>2, BeginMoves DEF IInv
<1>4. /\ TaskTypes' /\ OthersStay(t)
      /\ pc'[t] = "fetch" /\ on'[t] = d
      /\ snap'[t] = None /\ note'[t] = None
    BY <1>1, <1>3 DEF TaskInv
<1>5. TypeOK'
    BY <1>1, <1>4 DEF IInv, TypeOK, TaskTypes
<1>6. MoveOn(t)
    BY <1>1 DEF IInv, TypeOK, MoveOn, DepositInv, TaskInv
<1>7. \A u \in Task : TaskInv(u)'
  <2>1. TaskInv(t)'
      BY <1>1, <1>4, <1>6 DEF IInv, TypeOK, TaskInv, MoveOn, DepositInv, EventInv
  <2> QED
      BY <1>4, <1>6, <2>1, OthersKept DEF IInv
<1>8. OneCreator'
    BY <1>4, CreatorKept DEF IInv
<1>9. DepositInv' /\ EventInv'
    BY <1>1 DEF IInv, TypeOK, TaskInv, DepositInv, EventInv
<1>10. credits' = credits /\ reversals' = reversals /\ balance' = balance
    OBVIOUS
<1>11. LedgerMatchesWallet'
    BY <1>10 DEF IInv, LedgerMatchesWallet
<1>12. CreditedWasPaid' /\ ReversedOnce'
    BY <1>6, <1>10, PixKept DEF IInv
<1>13. StatusTellsLedger'
    BY <1>1, <1>10, StatusKept DEF IInv, TypeOK
<1> QED
    BY <1>5, <1>7, <1>8, <1>9, <1>11, <1>12, <1>13 DEF IInv

\* A snapshot keeps the invariant: it is what the provider has reached.
LEMMA FetchInv ==
    ASSUME IInv, NEW t \in Task, Fetch(t)
    PROVE  IInv'
<1> USE DEF Fetch, ledger, database, Report
<1>1. TaskInv(t) /\ pc[t] # "idle" /\ on[t] \in Deposit /\ status[on[t]] # "none"
    BY DEF IInv, TaskInv
<1>2. pix[on[t]] \in PixStatus
    BY <1>1 DEF IInv, TypeOK
<1>3. PICK s \in Report(pix[on[t]]) : Goto(t, "reconcile", s)
    OBVIOUS
<1>4. s \in {pix[on[t]], "DIVERGENT"}
    BY <1>3
<1>5. /\ TaskTypes' /\ OthersStay(t)
      /\ pc'[t] = "reconcile" /\ on'[t] = on[t]
      /\ snap'[t] \in {pix[on[t]], "DIVERGENT"} /\ note'[t] = note[t]
    BY <1>2, <1>3, <1>4, GotoMoves DEF IInv
<1>6. TypeOK'
    BY <1>1, <1>5 DEF IInv, TypeOK, TaskTypes
<1>7. MoveOn(t)
    BY <1>1 DEF IInv, TypeOK, MoveOn, DepositInv, TaskInv
<1>8. \A u \in Task : TaskInv(u)'
  <2>1. TaskInv(t)'
      BY <1>1, <1>5, <1>7 DEF IInv, TypeOK, TaskInv, MoveOn
  <2> QED
      BY <1>5, <1>7, <2>1, OthersKept DEF IInv
<1>9. OneCreator'
    BY <1>5, CreatorKept DEF IInv
<1>10. DepositInv' /\ EventInv'
    BY <1>1 DEF IInv, TypeOK, TaskInv, DepositInv, EventInv
<1>11. credits' = credits /\ reversals' = reversals /\ balance' = balance
    OBVIOUS
<1>12. LedgerMatchesWallet'
    BY <1>11 DEF IInv, LedgerMatchesWallet
<1>13. CreditedWasPaid' /\ ReversedOnce'
    BY <1>7, <1>11, PixKept DEF IInv
<1>14. StatusTellsLedger'
    BY <1>1, <1>11, StatusKept DEF IInv, TypeOK
<1> QED
    BY <1>6, <1>8, <1>9, <1>10, <1>12, <1>13, <1>14 DEF IInv

\* Marking an event processed keeps the invariant.
LEMMA MarkProcessedInv ==
    ASSUME IInv, NEW t \in Task, MarkProcessed(t)
    PROVE  IInv'
<1> USE DEF MarkProcessed, ledger, database
<1>1. TaskInv(t) /\ pc[t] # "idle" /\ on[t] \in Deposit /\ status[on[t]] # "none"
    BY DEF IInv, TaskInv
<1>2. TaskTypes' /\ OthersStay(t) /\ pc'[t] = "idle" /\ snap'[t] = None /\ note'[t] = None
    BY ReturnMoves DEF IInv
<1>3. TypeOK'
    BY <1>1, <1>2 DEF IInv, TypeOK, TaskTypes
<1>4. MoveOn(t)
    BY <1>1 DEF IInv, TypeOK, MoveOn, DepositInv, TaskInv
<1>5. \A u \in Task : TaskInv(u)'
  <2>1. TaskInv(t)'
      BY <1>1, <1>2, <1>4 DEF IInv, TypeOK, TaskInv, MoveOn
  <2> QED
      BY <1>2, <1>4, <2>1, OthersKept DEF IInv
<1>6. OneCreator'
    BY <1>2, CreatorKept DEF IInv
<1>7. DepositInv' /\ EventInv'
    BY <1>1 DEF IInv, TypeOK, TaskInv, DepositInv, EventInv
<1>8. credits' = credits /\ reversals' = reversals /\ balance' = balance
    OBVIOUS
<1>9. LedgerMatchesWallet'
    BY <1>8 DEF IInv, LedgerMatchesWallet
<1>10. CreditedWasPaid' /\ ReversedOnce'
    BY <1>4, <1>8, PixKept DEF IInv
<1>11. StatusTellsLedger'
    BY <1>1, <1>8, StatusKept DEF IInv, TypeOK
<1> QED
    BY <1>3, <1>5, <1>6, <1>7, <1>9, <1>10, <1>11 DEF IInv

\* A divergent snapshot keeps the invariant.
LEMMA DivergentInv ==
    ASSUME IInv, NEW t \in Task, Divergent(t)
    PROVE  IInv'
<1> USE DEF Divergent, ledger, database
<1>1. TaskInv(t) /\ pc[t] # "idle" /\ on[t] \in Deposit /\ status[on[t]] # "none"
    BY DEF IInv, TaskInv
<1>2. TaskTypes' /\ OthersStay(t) /\ pc'[t] = "idle" /\ snap'[t] = None /\ note'[t] = None
    BY ReturnMoves DEF IInv
<1>3. TypeOK'
    BY <1>1, <1>2 DEF IInv, TypeOK, TaskTypes
<1>4. MoveOn(t)
    BY <1>1 DEF IInv, TypeOK, MoveOn, DepositInv, TaskInv
<1>5. \A u \in Task : TaskInv(u)'
  <2>1. TaskInv(t)'
      BY <1>1, <1>2, <1>4 DEF IInv, TypeOK, TaskInv, MoveOn
  <2> QED
      BY <1>2, <1>4, <2>1, OthersKept DEF IInv
<1>6. OneCreator'
    BY <1>2, CreatorKept DEF IInv
<1>7. DepositInv' /\ EventInv'
    BY <1>1 DEF IInv, TypeOK, TaskInv, DepositInv, EventInv
<1>8. credits' = credits /\ reversals' = reversals /\ balance' = balance
    OBVIOUS
<1>9. LedgerMatchesWallet'
    BY <1>8 DEF IInv, LedgerMatchesWallet
<1>10. CreditedWasPaid' /\ ReversedOnce'
    BY <1>4, <1>8, PixKept DEF IInv
<1>11. StatusTellsLedger'
    BY <1>1, <1>8, StatusKept DEF IInv, TypeOK
<1> QED
    BY <1>3, <1>5, <1>6, <1>7, <1>9, <1>10, <1>11 DEF IInv

\* A credit keeps the invariant: its key is new and the payment was made.
LEMMA CreditInv ==
    ASSUME IInv, NEW t \in Task, Credit(t)
    PROVE  IInv'
<1> USE DEF Credit, Creditable, ledger, database, Applies
<1>1. TaskInv(t) /\ pc[t] # "idle" /\ on[t] \in Deposit /\ status[on[t]] # "none"
    BY DEF IInv, TaskInv
<1>2. /\ TaskTypes' /\ OthersStay(t)
      /\ pc'[t] \in {"idle", "mark"} /\ snap'[t] = None
      /\ pc'[t] = "mark" => on'[t] = on[t] /\ note'[t] = note[t]
      /\ pc'[t] = "idle" => note'[t] = None
    BY AppliesMoves DEF IInv
<1>3. TypeOK'
    BY <1>1, <1>2 DEF IInv, TypeOK, TaskTypes
<1>4. MoveOn(t)
    BY <1>1 DEF IInv, TypeOK, MoveOn, DepositInv, TaskInv
<1>5. \A u \in Task : TaskInv(u)'
  <2>1. TaskInv(t)'
      BY <1>1, <1>2, <1>4 DEF IInv, TypeOK, TaskInv, MoveOn
  <2> QED
      BY <1>2, <1>4, <2>1, OthersKept DEF IInv
<1>6. OneCreator'
    BY <1>2, CreatorKept DEF IInv
<1>7. DepositInv' /\ EventInv'
    BY <1>1 DEF IInv, TypeOK, TaskInv, DepositInv, EventInv
<1>8. /\ credits' = credits \cup {on[t]} /\ reversals' = reversals
      /\ balance' = balance + Amount /\ pix' = pix
    OBVIOUS
<1>9. LedgerMatchesWallet'
  <2>1. on[t] \in Deposit \ credits /\ credits \in SUBSET Deposit
      BY <1>1 DEF IInv, TypeOK
  <2>2. Cardinality(credits') = Cardinality(credits) + 1
      BY <1>8, <2>1, CreditCounts
  <2>3. Cardinality(credits) \in Nat /\ Cardinality(reversals) \in Nat
      BY EntriesAreCounted DEF IInv
  <2>4. Cardinality(reversals') = Cardinality(reversals)
      BY <1>8
  <2>5. balance \in Int
      BY DEF IInv, TypeOK
  <2>6. balance + Amount * Cardinality(reversals)
            = InitialBalance + Amount * Cardinality(credits)
      BY DEF IInv, LedgerMatchesWallet
  <2> HIDE DEF Credit, ledger, database
  <2> SUFFICES balance' + Amount * Cardinality(reversals')
                  = InitialBalance + Amount * Cardinality(credits')
      BY DEF LedgerMatchesWallet
  <2>7. (balance + Amount) + Amount * Cardinality(reversals)
            = InitialBalance + Amount * (Cardinality(credits) + 1)
      BY <2>3, <2>5, <2>6, CreditAdds
  <2> QED
      BY <1>8, <2>2, <2>4, <2>7
<1>10. ~Reversed(on[t])
    BY <1>1 DEF IInv, ReversedOnce
<1>11. pix[on[t]] \in Paid
    BY <1>1 DEF TaskInv
<1>12. CreditedWasPaid' /\ ReversedOnce'
  <2>1. CreditedWasPaid'
      BY <1>8, <1>11 DEF IInv, CreditedWasPaid
  <2>2. ReversedOnce'
      BY <1>8, ReversedKept DEF IInv, ReversedOnce
  <2> QED
      BY <2>1, <2>2
<1>13. StatusTellsLedger'
    BY <1>1, <1>8, <1>10, ReversedKept DEF IInv, TypeOK, StatusTellsLedger
<1> QED
    BY <1>3, <1>5, <1>6, <1>7, <1>9, <1>12, <1>13 DEF IInv

\* A credit its unique key rolls back keeps the invariant.
LEMMA CreditDuplicateInv ==
    ASSUME IInv, NEW t \in Task, CreditDuplicate(t)
    PROVE  IInv'
<1> USE DEF CreditDuplicate, Creditable, ledger, database
<1>1. TaskInv(t) /\ pc[t] # "idle" /\ on[t] \in Deposit /\ status[on[t]] # "none"
    BY DEF IInv, TaskInv
<1>2. TaskTypes' /\ OthersStay(t) /\ pc'[t] = "idle" /\ snap'[t] = None /\ note'[t] = None
    BY ReturnMoves DEF IInv
<1>3. TypeOK'
    BY <1>1, <1>2 DEF IInv, TypeOK, TaskTypes
<1>4. MoveOn(t)
    BY <1>1 DEF IInv, TypeOK, MoveOn, DepositInv, TaskInv
<1>5. \A u \in Task : TaskInv(u)'
  <2>1. TaskInv(t)'
      BY <1>1, <1>2, <1>4 DEF IInv, TypeOK, TaskInv, MoveOn
  <2> QED
      BY <1>2, <1>4, <2>1, OthersKept DEF IInv
<1>6. OneCreator'
    BY <1>2, CreatorKept DEF IInv
<1>7. DepositInv' /\ EventInv'
    BY <1>1 DEF IInv, TypeOK, TaskInv, DepositInv, EventInv
<1>8. credits' = credits /\ reversals' = reversals /\ balance' = balance
    OBVIOUS
<1>9. LedgerMatchesWallet'
    BY <1>8 DEF IInv, LedgerMatchesWallet
<1>10. CreditedWasPaid' /\ ReversedOnce'
    BY <1>4, <1>8, PixKept DEF IInv
<1>11. StatusTellsLedger'
    BY <1>1, <1>8, StatusKept DEF IInv, TypeOK
<1> QED
    BY <1>3, <1>5, <1>6, <1>7, <1>9, <1>10, <1>11 DEF IInv

\* A reversal keeps the invariant: a credited deposit was not reversed before.
LEMMA ReverseInv ==
    ASSUME IInv, NEW t \in Task, Reverse(t)
    PROVE  IInv'
<1> USE DEF Reverse, Reversible, ledger, database, Applies
<1>1. TaskInv(t) /\ pc[t] # "idle" /\ on[t] \in Deposit /\ status[on[t]] # "none"
    BY DEF IInv, TaskInv
<1>2. /\ TaskTypes' /\ OthersStay(t)
      /\ pc'[t] \in {"idle", "mark"} /\ snap'[t] = None
      /\ pc'[t] = "mark" => on'[t] = on[t] /\ note'[t] = note[t]
      /\ pc'[t] = "idle" => note'[t] = None
    BY AppliesMoves DEF IInv
<1>3. TypeOK'
    BY <1>1, <1>2 DEF IInv, TypeOK, TaskTypes
<1>4. MoveOn(t)
    BY <1>1 DEF IInv, TypeOK, MoveOn, DepositInv, TaskInv
<1>5. \A u \in Task : TaskInv(u)'
  <2>1. TaskInv(t)'
      BY <1>1, <1>2, <1>4 DEF IInv, TypeOK, TaskInv, MoveOn
  <2> QED
      BY <1>2, <1>4, <2>1, OthersKept DEF IInv
<1>6. OneCreator'
    BY <1>2, CreatorKept DEF IInv
<1>7. DepositInv' /\ EventInv'
    BY <1>1 DEF IInv, TypeOK, TaskInv, DepositInv, EventInv
<1>8. /\ reversals' = reversals \cup {<<on[t], snap[t]>>} /\ credits' = credits
      /\ balance' = balance - Amount /\ pix' = pix
    OBVIOUS
<1>9. LedgerMatchesWallet'
  <2>1. <<on[t], snap[t]>> \in (Deposit \X Reversal) \ reversals /\ reversals \in SUBSET (Deposit \X Reversal)
      BY <1>1 DEF IInv, TypeOK
  <2>2. Cardinality(reversals') = Cardinality(reversals) + 1
      BY <1>8, <2>1, ReversalCounts
  <2>3. Cardinality(credits) \in Nat /\ Cardinality(reversals) \in Nat
      BY EntriesAreCounted DEF IInv
  <2>4. Cardinality(credits') = Cardinality(credits)
      BY <1>8
  <2>5. balance \in Int
      BY DEF IInv, TypeOK
  <2>6. balance + Amount * Cardinality(reversals)
            = InitialBalance + Amount * Cardinality(credits)
      BY DEF IInv, LedgerMatchesWallet
  <2> HIDE DEF Reverse, ledger, database
  <2> SUFFICES balance' + Amount * Cardinality(reversals')
                  = InitialBalance + Amount * Cardinality(credits')
      BY DEF LedgerMatchesWallet
  <2>7. (balance - Amount) + Amount * (Cardinality(reversals) + 1)
            = InitialBalance + Amount * Cardinality(credits)
      BY <2>3, <2>5, <2>6, ReversalAdds
  <2> QED
      BY <1>8, <2>2, <2>4, <2>7
<1>10. on[t] \in credits /\ ~Reversed(on[t]) /\ pix[on[t]] \in Reversal
    BY <1>1 DEF IInv, StatusTellsLedger, TaskInv
<1>11. \A d \in Deposit \ {on[t]} : Reversed(d)' <=> Reversed(d)
    BY <1>8 DEF Reversed
<1>12. /\ snap[t] \in Reversal /\ <<on[t], snap[t]>> \in reversals'
      /\ status' = [status EXCEPT ![on[t]] = snap[t]]
    BY <1>8
<1>13. \A d \in Deposit : d = on[t] => Reversed(d)'
    BY <1>12 DEF Reversed
<1>14. ~(<<on[t], "refunded">> \in reversals' /\ <<on[t], "charged_back">> \in reversals')
    BY <1>8, <1>10 DEF Reversed
<1>15. CreditedWasPaid' /\ ReversedOnce'
  <2>1. CreditedWasPaid'
      BY <1>8 DEF IInv, CreditedWasPaid
  <2>2. ASSUME NEW d \in Deposit \ {on[t]}
        PROVE  /\ Reversed(d)' => d \in credits' /\ pix'[d] \in Reversal
               /\ ~(<<d, "refunded">> \in reversals' /\ <<d, "charged_back">> \in reversals')
      BY <1>8, <1>11 DEF IInv, ReversedOnce
  <2>3. ReversedOnce'
      BY <1>8, <1>10, <1>14, <2>2 DEF ReversedOnce
  <2> QED
      BY <2>1, <2>3
<1>16. StatusTellsLedger'
  <2> SUFFICES ASSUME NEW d \in Deposit
               PROVE  /\ status'[d] = "credited" => d \in credits' /\ ~Reversed(d)'
                      /\ status'[d] \in Reversal => Reversed(d)'
      BY DEF StatusTellsLedger
  <2>1. CASE d = on[t]
      BY <1>13, <1>12, <2>1 DEF IInv, TypeOK
  <2>2. CASE d # on[t]
      BY <1>8, <1>11, <1>12, <2>2 DEF IInv, TypeOK, StatusTellsLedger
  <2> QED
      BY <2>1, <2>2
<1> QED
    BY <1>3, <1>5, <1>6, <1>7, <1>9, <1>15, <1>16 DEF IInv

\* Closing a deposit keeps the invariant.
LEMMA CloseInv ==
    ASSUME IInv, NEW t \in Task, Close(t)
    PROVE  IInv'
<1> USE DEF Close, ledger, database, Applies
<1>1. TaskInv(t) /\ pc[t] # "idle" /\ on[t] \in Deposit /\ status[on[t]] # "none"
    BY DEF IInv, TaskInv
<1>2. /\ TaskTypes' /\ OthersStay(t)
      /\ pc'[t] \in {"idle", "mark"} /\ snap'[t] = None
      /\ pc'[t] = "mark" => on'[t] = on[t] /\ note'[t] = note[t]
      /\ pc'[t] = "idle" => note'[t] = None
    BY AppliesMoves DEF IInv
<1>3. TypeOK'
    BY <1>1, <1>2 DEF IInv, TypeOK, TaskTypes
<1>4. MoveOn(t)
    BY <1>1 DEF IInv, TypeOK, MoveOn, DepositInv, TaskInv
<1>5. \A u \in Task : TaskInv(u)'
  <2>1. TaskInv(t)'
      BY <1>1, <1>2, <1>4 DEF IInv, TypeOK, TaskInv, MoveOn
  <2> QED
      BY <1>2, <1>4, <2>1, OthersKept DEF IInv
<1>6. OneCreator'
    BY <1>2, CreatorKept DEF IInv
<1>7. DepositInv' /\ EventInv'
    BY <1>1 DEF IInv, TypeOK, TaskInv, DepositInv, EventInv
<1>8. credits' = credits /\ reversals' = reversals /\ balance' = balance
    OBVIOUS
<1>9. LedgerMatchesWallet'
    BY <1>8 DEF IInv, LedgerMatchesWallet
<1>10. CreditedWasPaid' /\ ReversedOnce'
    BY <1>4, <1>8, PixKept DEF IInv
<1>11. StatusTellsLedger'
    BY <1>1, <1>8, StatusKept DEF IInv, TypeOK
<1> QED
    BY <1>3, <1>5, <1>6, <1>7, <1>9, <1>10, <1>11 DEF IInv

\* A partial refund keeps the invariant.
LEMMA PartialInv ==
    ASSUME IInv, NEW t \in Task, Partial(t)
    PROVE  IInv'
<1> USE DEF Partial, ledger, database, Applies
<1>1. TaskInv(t) /\ pc[t] # "idle" /\ on[t] \in Deposit /\ status[on[t]] # "none"
    BY DEF IInv, TaskInv
<1>2. /\ TaskTypes' /\ OthersStay(t)
      /\ pc'[t] \in {"idle", "mark"} /\ snap'[t] = None
      /\ pc'[t] = "mark" => on'[t] = on[t] /\ note'[t] = note[t]
      /\ pc'[t] = "idle" => note'[t] = None
    BY AppliesMoves DEF IInv
<1>3. TypeOK'
    BY <1>1, <1>2 DEF IInv, TypeOK, TaskTypes
<1>4. MoveOn(t)
    BY <1>1 DEF IInv, TypeOK, MoveOn, DepositInv, TaskInv
<1>5. \A u \in Task : TaskInv(u)'
  <2>1. TaskInv(t)'
      BY <1>1, <1>2, <1>4 DEF IInv, TypeOK, TaskInv, MoveOn
  <2> QED
      BY <1>2, <1>4, <2>1, OthersKept DEF IInv
<1>6. OneCreator'
    BY <1>2, CreatorKept DEF IInv
<1>7. DepositInv' /\ EventInv'
    BY <1>1 DEF IInv, TypeOK, TaskInv, DepositInv, EventInv
<1>8. credits' = credits /\ reversals' = reversals /\ balance' = balance
    OBVIOUS
<1>9. LedgerMatchesWallet'
    BY <1>8 DEF IInv, LedgerMatchesWallet
<1>10. CreditedWasPaid' /\ ReversedOnce'
    BY <1>4, <1>8, PixKept DEF IInv
<1>11. StatusTellsLedger'
    BY <1>1, <1>8, StatusKept DEF IInv, TypeOK
<1> QED
    BY <1>3, <1>5, <1>6, <1>7, <1>9, <1>10, <1>11 DEF IInv

\* A snapshot that changes nothing keeps the invariant.
LEMMA IgnoreInv ==
    ASSUME IInv, NEW t \in Task, Ignore(t)
    PROVE  IInv'
<1> USE DEF Ignore, ledger, database, Applies
<1>1. TaskInv(t) /\ pc[t] # "idle" /\ on[t] \in Deposit /\ status[on[t]] # "none"
    BY DEF IInv, TaskInv
<1>2. /\ TaskTypes' /\ OthersStay(t)
      /\ pc'[t] \in {"idle", "mark"} /\ snap'[t] = None
      /\ pc'[t] = "mark" => on'[t] = on[t] /\ note'[t] = note[t]
      /\ pc'[t] = "idle" => note'[t] = None
    BY AppliesMoves DEF IInv
<1>3. TypeOK'
    BY <1>1, <1>2 DEF IInv, TypeOK, TaskTypes
<1>4. MoveOn(t)
    BY <1>1 DEF IInv, TypeOK, MoveOn, DepositInv, TaskInv
<1>5. \A u \in Task : TaskInv(u)'
  <2>1. TaskInv(t)'
      BY <1>1, <1>2, <1>4 DEF IInv, TypeOK, TaskInv, MoveOn
  <2> QED
      BY <1>2, <1>4, <2>1, OthersKept DEF IInv
<1>6. OneCreator'
    BY <1>2, CreatorKept DEF IInv
<1>7. DepositInv' /\ EventInv'
    BY <1>1 DEF IInv, TypeOK, TaskInv, DepositInv, EventInv
<1>8. credits' = credits /\ reversals' = reversals /\ balance' = balance
    OBVIOUS
<1>9. LedgerMatchesWallet'
    BY <1>8 DEF IInv, LedgerMatchesWallet
<1>10. CreditedWasPaid' /\ ReversedOnce'
    BY <1>4, <1>8, PixKept DEF IInv
<1>11. StatusTellsLedger'
    BY <1>1, <1>8, StatusKept DEF IInv, TypeOK
<1> QED
    BY <1>3, <1>5, <1>6, <1>7, <1>9, <1>10, <1>11 DEF IInv

\* A task that dies keeps the invariant, at whatever step it dies.
LEMMA AbortInv ==
    ASSUME IInv, NEW t \in Task, Abort(t)
    PROVE  IInv'
<1> USE DEF Abort, ledger, database
<1>1. TaskInv(t) /\ pc[t] # "idle" /\ on[t] \in Deposit /\ status[on[t]] # "none"
    BY DEF IInv, TaskInv
<1>2. TaskTypes' /\ OthersStay(t) /\ pc'[t] = "idle" /\ snap'[t] = None /\ note'[t] = None
    BY ReturnMoves DEF IInv
<1>3. TypeOK'
    BY <1>1, <1>2 DEF IInv, TypeOK, TaskTypes
<1>4. MoveOn(t)
    BY <1>1 DEF IInv, TypeOK, MoveOn, DepositInv, TaskInv
<1>5. \A u \in Task : TaskInv(u)'
  <2>1. TaskInv(t)'
      BY <1>1, <1>2, <1>4 DEF IInv, TypeOK, TaskInv, MoveOn
  <2> QED
      BY <1>2, <1>4, <2>1, OthersKept DEF IInv
<1>6. OneCreator'
    BY <1>2, CreatorKept DEF IInv
<1>7. DepositInv' /\ EventInv'
    BY <1>1 DEF IInv, TypeOK, TaskInv, DepositInv, EventInv
<1>8. credits' = credits /\ reversals' = reversals /\ balance' = balance
    OBVIOUS
<1>9. LedgerMatchesWallet'
    BY <1>8 DEF IInv, LedgerMatchesWallet
<1>10. CreditedWasPaid' /\ ReversedOnce'
    BY <1>4, <1>8, PixKept DEF IInv
<1>11. StatusTellsLedger'
    BY <1>1, <1>8, StatusKept DEF IInv, TypeOK
<1> QED
    BY <1>3, <1>5, <1>6, <1>7, <1>9, <1>10, <1>11 DEF IInv

\* Progress at the provider keeps the invariant: what was paid stays paid.
LEMMA ProgressInv ==
    ASSUME IInv, NEW d \in Deposit, Progress(d)
    PROVE  IInv'
<1> USE DEF Progress, ledger, database, Reach, tasks
<1>1. TypeOK'
    BY DEF IInv, TypeOK, TaskTypes
<1>2. \A t : MoveOn(t)
    BY DEF IInv, TypeOK, MoveOn
<1>3. \A t \in Task : TaskInv(t)'
    BY <1>2 DEF IInv, TypeOK, TaskInv, MoveOn
<1>4. OneCreator'
    BY DEF IInv, OneCreator
<1>5. DepositInv' /\ EventInv'
    BY DEF IInv, TypeOK, TaskInv, DepositInv, EventInv
<1>6. credits' = credits /\ reversals' = reversals /\ balance' = balance
    OBVIOUS
<1>7. LedgerMatchesWallet'
    BY <1>6 DEF IInv, LedgerMatchesWallet
<1>8. CreditedWasPaid' /\ ReversedOnce'
    BY <1>2, <1>6, PixKept DEF IInv
<1>9. StatusTellsLedger'
    BY <1>6, StatusKept DEF IInv, TypeOK
<1> QED
    BY <1>1, <1>3, <1>4, <1>5, <1>7, <1>8, <1>9 DEF IInv

\* Every step keeps the invariant.
LEMMA NextInv == IInv /\ [Next]_vars => IInv'
<1> SUFFICES ASSUME IInv, [Next]_vars PROVE IInv'
    OBVIOUS
<1>1. ASSUME NEW t \in Task, TaskStep(t) PROVE IInv'
    BY <1>1,
       CreateRaisesInv, CreateAnsweredInv, FailDepositInv, SaveDepositInv,
       FetchInv, MarkProcessedInv, DivergentInv, CreditInv,
       CreditDuplicateInv, ReverseInv, CloseInv, PartialInv, IgnoreInv,
       AbortInv
    DEF TaskStep
<1>2. ASSUME NEW t \in Task, NEW d \in Deposit, CreateDeposit(t, d) \/ Check(t, d)
      PROVE  IInv'
    BY <1>2, CreateDepositInv, CheckInv
<1>3. ASSUME NEW t \in Task, NEW d \in Deposit, NEW s \in Notified,
             ProcessEvent(t, d, s)
      PROVE  IInv'
    BY <1>3, ProcessEventInv
<1>4. ASSUME NEW d \in Deposit, NEW s \in Notified, RecordEvent(d, s)
      PROVE  IInv'
    BY <1>4, RecordEventInv
<1>5. ASSUME NEW d \in Deposit, Progress(d)
      PROVE  IInv'
    BY <1>5, ProgressInv
<1>6. CASE UNCHANGED vars
    BY <1>6 DEF vars, database, ledger, tasks, IInv, TypeOK, TaskInv, OneCreator,
                DepositInv, EventInv,
                LedgerMatchesWallet, CreditedWasPaid, ReversedOnce,
                StatusTellsLedger, Reversed
<1> QED
    BY <1>1, <1>2, <1>3, <1>4, <1>5, <1>6 DEF Next

\* The invariant holds in every reachable state.
THEOREM Invariance == Spec => []IInv
BY InitInv, NextInv, PTL DEF Spec

-----------------------------------------------------------------------------
(* The safety properties, for every instance.                              *)

\* Every variable keeps its type.
THEOREM TypeCorrect == Spec => []TypeOK
<1>1. IInv => TypeOK
    BY DEF IInv
<1> QED
    BY Invariance, <1>1, PTL

\* The wallet's cached balance and the ledger never drift apart, in whatever
\* order snapshots, retries, creations and crashes interleave.
THEOREM LedgerAgreement == Spec => []LedgerMatchesWallet
<1>1. IInv => LedgerMatchesWallet
    BY DEF IInv
<1> QED
    BY Invariance, <1>1, PTL

\* No deposit is credited that was not paid to the provider.
THEOREM OnlyPaidIsCredited == Spec => []CreditedWasPaid
<1>1. IInv => CreditedWasPaid
    BY DEF IInv
<1> QED
    BY Invariance, <1>1, PTL

\* No credit is reversed twice, as a refund and again as a chargeback, or
\* without having been given.
THEOREM OneReversal == Spec => []ReversedOnce
<1>1. IInv => ReversedOnce
    BY DEF IInv
<1> QED
    BY Invariance, <1>1, PTL

\* What a deposit shows of its credit is in the ledger.
THEOREM StatusIsTrue == Spec => []StatusTellsLedger
<1>1. IInv => StatusTellsLedger
    BY DEF IInv
<1> QED
    BY Invariance, <1>1, PTL

-----------------------------------------------------------------------------
(* The code implements DepositLifecycle.                                   *)

\* A step that adds no entry and moves no money is not seen.
LEMMA Unseen ==
    ASSUME TypeOK, UNCHANGED ledger, \A d \in Deposit : MoneyOf(pix'[d]) = MoneyOf(pix[d])
    PROVE  UNCHANGED Lifecycle!vars
<1>1. \A d \in Deposit : CreditOf(d)' = CreditOf(d)
    BY DEF ledger, CreditOf, Reversed
<1> QED
    BY <1>1 DEF ledger, Lifecycle!vars

\* When the provider's order of one deposit moves on, its money is received or
\* sent back, or nothing is seen.
LEMMA ReachRefines ==
    ASSUME TypeOK, UNCHANGED ledger,
           NEW d \in Deposit, NEW s \in PixStatus, Reach(d, s),
           \/ pix[d] \in {"none", "created"} /\ s \in {"created", "accredited", "closed"}
           \/ pix[d] \in {"accredited", "partial"} /\ s \in {"partial"} \cup Reversal
           \/ pix[d] \in Reversal /\ s \in Reversal
    PROVE  [Lifecycle!Next]_(Lifecycle!vars)
<1> DEFINE M == [x \in Deposit |-> MoneyOf(pix[x])]
<1>1. pix' = [pix EXCEPT ![d] = s]
    BY DEF Reach
<1>2. [x \in Deposit |-> MoneyOf(pix'[x])] = [M EXCEPT ![d] = MoneyOf(s)]
    BY <1>1 DEF TypeOK
<1>3. [x \in Deposit |-> CreditOf(x)]' = [x \in Deposit |-> CreditOf(x)]
    BY DEF ledger, CreditOf, Reversed
<1>4. CASE MoneyOf(s) = MoneyOf(pix[d])
  <2>1. \A x \in Deposit : MoneyOf(pix'[x]) = MoneyOf(pix[x])
      BY <1>1, <1>4 DEF TypeOK
  <2> QED
      BY <2>1, Unseen
<1>5. CASE MoneyOf(pix[d]) = "none" /\ MoneyOf(s) = "received"
  <2>1. Lifecycle!Receive(d)
      BY <1>2, <1>3, <1>5 DEF Lifecycle!Receive, ledger
  <2> QED
      BY <2>1 DEF Lifecycle!Next
<1>6. CASE MoneyOf(pix[d]) = "received" /\ MoneyOf(s) = "returned"
  <2>1. Lifecycle!SendBack(d)
      BY <1>2, <1>3, <1>6 DEF Lifecycle!SendBack, ledger
  <2> QED
      BY <2>1 DEF Lifecycle!Next
<1> QED
    BY <1>4, <1>5, <1>6 DEF MoneyOf

\* A credit is given for money that the provider received, and only once.
LEMMA CreditIsGive ==
    ASSUME IInv, NEW t \in Task, Credit(t)
    PROVE  Lifecycle!Give(on[t])
<1>1. /\ on[t] \in Deposit /\ pix[on[t]] \in Paid /\ on[t] \notin credits
      /\ ~Reversed(on[t])
      /\ pix' = pix /\ reversals' = reversals /\ balance' = balance + Amount
      /\ credits' = credits \cup {on[t]}
    BY DEF IInv, TypeOK, TaskInv, ReversedOnce, Credit, Creditable, Applies
<1>2. MoneyOf(pix[on[t]]) # "none" /\ CreditOf(on[t]) = "none"
    BY <1>1 DEF MoneyOf, CreditOf
<1>3. \A d \in Deposit : CreditOf(d)' = IF d = on[t] THEN "given" ELSE CreditOf(d)
    BY <1>1 DEF CreditOf, Reversed
<1>4. [d \in Deposit |-> CreditOf(d)]' = [[d \in Deposit |-> CreditOf(d)] EXCEPT ![on[t]] = "given"]
    BY <1>3
<1> QED
    BY <1>1, <1>2, <1>4 DEF Lifecycle!Give

\* A credit is withdrawn after the provider returned the money, and only once.
LEMMA ReverseIsWithdraw ==
    ASSUME IInv, NEW t \in Task, Reverse(t)
    PROVE  Lifecycle!Withdraw(on[t])
<1>1. /\ on[t] \in Deposit /\ snap[t] \in Reversal /\ pix[on[t]] \in Reversal
      /\ on[t] \in credits /\ ~Reversed(on[t])
      /\ pix' = pix /\ credits' = credits /\ balance' = balance - Amount
      /\ reversals' = reversals \cup {<<on[t], snap[t]>>}
    BY DEF IInv, TypeOK, TaskInv, StatusTellsLedger, Reverse, Reversible, Applies
<1>2. MoneyOf(pix[on[t]]) = "returned" /\ CreditOf(on[t]) = "given"
    BY <1>1 DEF MoneyOf, CreditOf
<1>3. \A d \in Deposit : Reversed(d)' <=> Reversed(d) \/ d = on[t]
    BY <1>1 DEF Reversed
<1>4. \A d \in Deposit : CreditOf(d)' = IF d = on[t] THEN "withdrawn" ELSE CreditOf(d)
    BY <1>1, <1>3 DEF CreditOf
<1>5. [d \in Deposit |-> CreditOf(d)]'
         = [[d \in Deposit |-> CreditOf(d)] EXCEPT ![on[t]] = "withdrawn"]
    BY <1>4
<1> QED
    BY <1>1, <1>2, <1>5 DEF Lifecycle!Withdraw

\* Every step of a task is a step of DepositLifecycle, or is not seen.
LEMMA TaskStepRefines ==
    ASSUME IInv, NEW t \in Task, TaskStep(t)
    PROVE  [Lifecycle!Next]_(Lifecycle!vars)
<1> USE DEF database
<1>1. CASE CreateRaises(t) \/ CreateAnswered(t)
  <2>1. /\ on[t] \in Deposit /\ pix[on[t]] = "none"
        /\ UNCHANGED ledger
      BY <1>1 DEF IInv, TypeOK, TaskInv, CreateRaises, CreateAnswered
  <2>2. UNCHANGED pix \/ \E s \in {"created", "accredited"} : Reach(on[t], s)
      BY <1>1 DEF CreateRaises, CreateAnswered
  <2>3. CASE UNCHANGED pix
      BY <2>1, <2>3, Unseen DEF IInv
  <2>4. ASSUME NEW s \in {"created", "accredited"}, Reach(on[t], s)
        PROVE  [Lifecycle!Next]_(Lifecycle!vars)
      BY <2>1, <2>4, ReachRefines DEF IInv
  <2> QED
      BY <2>2, <2>3, <2>4
<1>2. CASE Credit(t)
  <2>1. on[t] \in Deposit /\ Lifecycle!Give(on[t])
      BY <1>2, CreditIsGive DEF IInv, TaskInv, Credit, Applies
  <2> QED
      BY <2>1 DEF Lifecycle!Next
<1>3. CASE Reverse(t)
  <2>1. on[t] \in Deposit /\ Lifecycle!Withdraw(on[t])
      BY <1>3, ReverseIsWithdraw DEF IInv, TaskInv, Reverse, Applies
  <2> QED
      BY <2>1 DEF Lifecycle!Next
<1>4. CASE \/ FailDeposit(t) \/ SaveDeposit(t) \/ Fetch(t) \/ MarkProcessed(t)
           \/ Divergent(t) \/ CreditDuplicate(t) \/ Close(t) \/ Partial(t)
           \/ Ignore(t) \/ Abort(t)
  <2>1. UNCHANGED <<ledger, pix>>
      BY <1>4 DEF FailDeposit, SaveDeposit, Fetch, MarkProcessed, Divergent,
           CreditDuplicate, Close, Partial, Ignore, Abort, Applies, ledger
  <2> QED
      BY <2>1, Unseen DEF IInv
<1> QED
    BY <1>1, <1>2, <1>3, <1>4 DEF TaskStep

\* Every step of the system is a step of DepositLifecycle, or is not seen.
LEMMA NextRefines ==
    ASSUME IInv, [Next]_vars
    PROVE  [Lifecycle!Next]_(Lifecycle!vars)
<1> USE DEF database
<1>1. ASSUME NEW t \in Task, TaskStep(t) PROVE [Lifecycle!Next]_(Lifecycle!vars)
    BY <1>1, TaskStepRefines
<1>2. ASSUME NEW d \in Deposit, Progress(d) PROVE [Lifecycle!Next]_(Lifecycle!vars)
  <2>1. PICK s \in PixStatus :
              /\ \/ pix[d] = "created" /\ s \in {"accredited", "closed"}
                 \/ pix[d] = "accredited" /\ s \in {"partial"} \cup Reversal
                 \/ pix[d] = "partial" /\ s \in Reversal
                 \/ pix[d] = "refunded" /\ s = "charged_back"
              /\ Reach(d, s)
      BY <1>2 DEF Progress
  <2>2. UNCHANGED ledger
      BY <1>2 DEF Progress
  <2> QED
      BY <2>1, <2>2, ReachRefines DEF IInv
<1>3. CASE \/ \E t \in Task, d \in Deposit : CreateDeposit(t, d) \/ Check(t, d)
           \/ \E t \in Task, d \in Deposit, s \in Notified : ProcessEvent(t, d, s)
           \/ \E d \in Deposit, s \in Notified : RecordEvent(d, s)
           \/ UNCHANGED vars
  <2>1. UNCHANGED <<ledger, pix>>
      BY <1>3 DEF CreateDeposit, Check, ProcessEvent, RecordEvent, vars
  <2> QED
      BY <2>1, Unseen DEF IInv
<1> QED
    BY <1>1, <1>2, <1>3 DEF Next

\* Everything the shop and the provider do to a deposit is one of the steps
\* DepositLifecycle promises the customer, in whatever order snapshots are
\* taken and applied, and whether or not they diverge.
THEOREM ImplementsLifecycle == Spec => LifecycleSpec
<1>1. Init => Lifecycle!Init
    BY DEF Init, Lifecycle!Init, MoneyOf, CreditOf, Reversed
<1>2. IInv /\ [Next]_vars => [Lifecycle!Next]_(Lifecycle!vars)
    BY NextRefines
<1> QED
    BY Invariance, <1>1, <1>2, PTL DEF Spec, LifecycleSpec, Lifecycle!Spec

-----------------------------------------------------------------------------
(* Why a returned payment may leave its credit (the third finding), and that *)
(* nothing else is the reason: a credit applied after the provider returned  *)
(* the payment, and a credited deposit put under review.                     *)

\* A step of neither kind.
Orderly == (\A t \in Task : ~LateCredit(t)) /\ (\A d \in Deposit : ~LosesCredit(d))

USE DEF ledger, database, tasks

\* What the provider returned stays returned.
LEMMA ReturnedStays ==
    ASSUME IInv, [Next]_vars, NEW d \in Deposit, pix[d] \in Reversal
    PROVE  pix'[d] \in Reversal
<1>1. ASSUME NEW t \in Task, CreateRaises(t) \/ CreateAnswered(t)
      PROVE  pix'[d] \in Reversal
  <2>1. on[t] # d
      BY <1>1 DEF IInv, TaskInv, CreateRaises, CreateAnswered
  <2> QED
      BY <1>1, <2>1 DEF IInv, TypeOK, CreateRaises, CreateAnswered, Reach
<1>2. ASSUME NEW x \in Deposit, Progress(x)
      PROVE  pix'[d] \in Reversal
    BY <1>2 DEF IInv, TypeOK, Progress, Reach
<1>3. CASE pix' = pix
    BY <1>3
<1> QED
    BY <1>1, <1>2, <1>3
       DEF Next, TaskStep, vars, FailDeposit, SaveDeposit, Fetch, MarkProcessed, Divergent,
           Credit, CreditDuplicate, Reverse, Close, Partial, Ignore, Abort, Applies,
           CreateDeposit, Check, ProcessEvent, RecordEvent

\* Entries are only added: a credit by Credit, a reversal by Reverse.
LEMMA EntriesGrow ==
    ASSUME [Next]_vars
    PROVE  /\ \A d \in Deposit : Reversed(d) => Reversed(d)'
           /\ \/ credits' = credits
              \/ \E t \in Task : Credit(t) /\ credits' = credits \cup {on[t]}
<1>1. ASSUME NEW t \in Task, Credit(t)
      PROVE  credits' = credits \cup {on[t]} /\ reversals' = reversals
    BY <1>1 DEF Credit
<1>2. ASSUME NEW t \in Task, Reverse(t)
      PROVE  credits' = credits /\ reversals \subseteq reversals'
    BY <1>2 DEF Reverse
<1>3. \/ credits' = credits /\ reversals' = reversals
      \/ \E t \in Task : Credit(t) \/ Reverse(t)
    BY DEF Next, TaskStep, vars, CreateRaises, CreateAnswered, FailDeposit, SaveDeposit,
           Fetch, MarkProcessed, Divergent, CreditDuplicate, Close, Partial, Ignore, Abort,
           CreateDeposit, Check, ProcessEvent, RecordEvent, Progress
<1> QED
    BY <1>1, <1>2, <1>3 DEF Reversed

\* A returned payment that left no credit never leaves one.
LEMMA NoCreditStays ==
    ASSUME [Next]_vars, Orderly, NEW d \in Deposit, pix[d] \in Reversal, NoCreditLeft(d)
    PROVE  NoCreditLeft(d)'
BY EntriesGrow DEF NoCreditLeft, Orderly, LateCredit

\* A credit that is not taken back keeps showing in the status.
LEMMA CreditShows ==
    ASSUME IInv, IInv', [Next]_vars, Orderly, NEW d \in Deposit,
           NoCreditLeft(d) \/ status[d] = "credited"
    PROVE  (NoCreditLeft(d) \/ status[d] = "credited")'
<1>1. CASE d \in credits' /\ d \notin credits
  <2>1. PICK t \in Task : Credit(t) /\ on[t] = d
      BY <1>1, EntriesGrow
  <2> QED
      BY <2>1 DEF Credit, IInv, TypeOK
<1>2. CASE status[d] = "credited"
  <2>1. status'[d] \in Final
      BY <1>2 DEF Orderly, LosesCredit
  <2>2. status'[d] \in Reversal => Reversed(d)'
      BY DEF IInv, StatusTellsLedger
  <2> QED
      BY <2>1, <2>2 DEF NoCreditLeft
<1>3. CASE NoCreditLeft(d) /\ (d \in credits' => d \in credits)
    BY <1>3, EntriesGrow DEF NoCreditLeft
<1> QED
    BY <1>1, <1>2, <1>3

\* A task that stands still keeps what it knows of a reversal.
LEMMA ReversalTaskStays ==
    ASSUME IInv, [Next]_vars, Orderly, NEW t \in Task, ReversalTask(t),
           pc'[t] = pc[t], on'[t] = on[t], snap'[t] = snap[t], note'[t] = note[t]
    PROVE  ReversalTask(t)'
<1>1. note[t] \in Reversal => on[t] \in Deposit /\ pix[on[t]] \in Reversal
    BY DEF IInv, TaskInv, ReversalTask
<1>2. note[t] \in Reversal => pix'[on[t]] \in Reversal
    BY <1>1, ReturnedStays
<1>3. note[t] \in Reversal /\ pc[t] = "mark" => NoCreditLeft(on[t])'
    BY <1>1, NoCreditStays DEF ReversalTask
<1> QED
    BY <1>2, <1>3 DEF ReversalTask, NoCreditLeft, Reversed

\* A task that applies a reversal, or has nothing to apply it to, leaves no credit.
LEMMA AppliedReversal ==
    ASSUME IInv, ReversalInv, NEW t \in Task, note[t] \in Reversal,
           Credit(t) \/ Reverse(t) \/ Close(t) \/ Partial(t) \/ Ignore(t)
    PROVE  pix' = pix /\ \E d \in Deposit : d = on[t] /\ NoCreditLeft(d)'
<1>1. /\ pc[t] = "reconcile" /\ snap[t] # "DIVERGENT" /\ pix' = pix
      /\ \E d \in Deposit : d = on[t]
    BY DEF Credit, Reverse, Close, Partial, Ignore, Applies, IInv, TaskInv
<1>0. PICK d \in Deposit : d = on[t]
    BY <1>1
<1>2. snap[t] \in Reversal
    BY <1>1 DEF ReversalInv, ReversalTask
<1>3. CASE Reverse(t)
  <2>1. reversals' = reversals \cup {<<d, snap[t]>>}
      BY <1>0, <1>3 DEF Reverse
  <2> QED
      BY <1>0, <1>1, <1>2, <2>1 DEF NoCreditLeft, Reversed
<1>4. CASE Ignore(t)
  <2>1. NoCreditLeft(d)
      BY <1>0, <1>1, <1>2, <1>4 DEF Ignore, ReversalInv
  <2> QED
      BY <1>0, <1>1, <2>1, <1>4 DEF Ignore, NoCreditLeft, Reversed
<1>5. ~Credit(t) /\ ~Close(t) /\ ~Partial(t)
    BY <1>2 DEF Credit, Creditable, Close, Partial
<1> QED
    BY <1>0, <1>1, <1>3, <1>4, <1>5

\* A task that moves knows of a reversal what it must.
LEMMA ReversalTaskMoves ==
    ASSUME IInv, ReversalInv, NEW t \in Task,
           \/ TaskStep(t)
           \/ \E d \in Deposit : CreateDeposit(t, d) \/ Check(t, d)
           \/ \E d \in Deposit, s \in Notified : ProcessEvent(t, d, s)
    PROVE  OthersStay(t) /\ ReversalTask(t)'
<1> USE DEF IInv
<1>1. ReversalTask(t) /\ TaskInv(t) /\ None \notin Reversal
    BY DEF ReversalInv
<1>2. CASE FailDeposit(t) \/ MarkProcessed(t) \/ Divergent(t) \/ CreditDuplicate(t) \/ Abort(t)
    BY <1>1, <1>2, ReturnMoves
       DEF ReversalTask, FailDeposit, MarkProcessed, Divergent, CreditDuplicate, Abort
<1>3. CASE CreateRaises(t) \/ CreateAnswered(t)
  <2>1. PICK step \in {"reject", "fail", "save"}, s \in PixStatus \cup {None, "DIVERGENT"} :
            Goto(t, step, s)
      BY <1>3 DEF CreateRaises, CreateAnswered, Report
  <2>2. pc[t] = "create"
      BY <1>3 DEF CreateRaises, CreateAnswered
  <2> QED
      BY <1>1, <2>1, <2>2, GotoMoves DEF ReversalTask
<1>4. CASE SaveDeposit(t)
  <2>1. note[t] = None
      BY <1>1, <1>4 DEF ReversalTask, SaveDeposit
  <2>2. OthersStay(t) /\ note'[t] = None
      BY <1>4, <2>1, GotoMoves, ReturnMoves DEF SaveDeposit
  <2> QED
      BY <1>1, <2>2 DEF ReversalTask
<1>5. CASE Fetch(t)
  <2>1. on[t] \in Deposit /\ pix[on[t]] \in PixStatus /\ pix' = pix
      BY <1>1, <1>5 DEF Fetch, TaskInv, TypeOK
  <2>2. PICK s \in {pix[on[t]], "DIVERGENT"} : Goto(t, "reconcile", s)
      BY <1>5 DEF Fetch, Report
  <2>3. /\ OthersStay(t) /\ pc'[t] = "reconcile" /\ on'[t] = on[t]
        /\ snap'[t] = s /\ note'[t] = note[t]
      BY <2>1, <2>2, GotoMoves
  <2> QED
      BY <1>1, <2>1, <2>3 DEF ReversalTask
<1>6. CASE Credit(t) \/ Reverse(t) \/ Close(t) \/ Partial(t) \/ Ignore(t)
  <2>1. /\ OthersStay(t) /\ pc'[t] \in {"idle", "mark"}
        /\ pc'[t] = "mark" => on'[t] = on[t] /\ note'[t] = note[t]
        /\ pc'[t] = "idle" => note'[t] = None
      BY <1>6, AppliesMoves DEF Credit, Reverse, Close, Partial, Ignore
  <2>2. CASE note[t] \in Reversal
    <3>1. pix' = pix /\ \E d \in Deposit : d = on[t] /\ NoCreditLeft(d)'
        BY <1>6, <2>2, AppliedReversal
    <3>2. PICK d \in Deposit : d = on[t] /\ NoCreditLeft(d)'
        BY <3>1
    <3> QED
        BY <1>1, <2>1, <3>1, <3>2 DEF ReversalTask, NoCreditLeft, Reversed
  <2>3. CASE note[t] \notin Reversal
      BY <1>1, <2>1, <2>3 DEF ReversalTask
  <2> QED
      BY <2>2, <2>3
<1>7. CASE \E d \in Deposit : CreateDeposit(t, d) \/ Check(t, d)
  <2>1. PICK d \in Deposit : CreateDeposit(t, d) \/ Check(t, d)
      BY <1>7
  <2>2. OthersStay(t) /\ pc'[t] \in {"create", "fetch"} /\ note'[t] = None
      BY <2>1, BeginMoves DEF CreateDeposit, Check
  <2> QED
      BY <1>1, <2>2 DEF ReversalTask
<1>8. CASE \E d \in Deposit, s \in Notified : ProcessEvent(t, d, s)
  <2>1. PICK d \in Deposit, s \in Notified : ProcessEvent(t, d, s)
      BY <1>8
  <2>2. /\ OthersStay(t) /\ pc'[t] = "fetch" /\ on'[t] = d /\ note'[t] = s /\ pix' = pix
      BY <2>1, BeginMoves DEF ProcessEvent
  <2>3. s \in Reversal => pix[d] \in Reversal
      BY <2>1 DEF ProcessEvent, ReversalInv, ReversalEvents
  <2> QED
      BY <2>2, <2>3 DEF ReversalTask
<1> QED
    BY <1>2, <1>3, <1>4, <1>5, <1>6, <1>7, <1>8 DEF TaskStep

\* Who writes an event: the provider's new status, the webhook, or the mark.
LEMMA EventWriters ==
    ASSUME IInv, [Next]_vars
    PROVE  \/ UNCHANGED <<event, pix>>
           \/ \E d \in Deposit, s \in PixStatus : Reach(d, s)
           \/ pix' = pix /\ \E d \in Deposit, s \in Notified : RecordEvent(d, s)
           \/ pix' = pix /\ \E t \in Task : MarkProcessed(t)
<1>1. ASSUME NEW t \in Task, CreateRaises(t) \/ CreateAnswered(t)
      PROVE  UNCHANGED <<event, pix>> \/ \E d \in Deposit, s \in PixStatus : Reach(d, s)
  <2>1. on[t] \in Deposit
      BY <1>1 DEF CreateRaises, CreateAnswered, IInv, TaskInv
  <2>2. UNCHANGED <<event, pix>> \/ \E s \in PixStatus : Reach(on[t], s)
      BY <1>1 DEF CreateRaises, CreateAnswered
  <2> QED
      BY <2>1, <2>2
<1>2. ASSUME NEW d \in Deposit, Progress(d)
      PROVE  \E s \in PixStatus : Reach(d, s)
    BY <1>2 DEF Progress
<1> QED
    BY <1>1, <1>2
       DEF Next, TaskStep, vars, FailDeposit, SaveDeposit, Fetch, MarkProcessed, Divergent,
           Credit, CreditDuplicate, Reverse, Close, Partial, Ignore, Abort, Applies,
           CreateDeposit, Check, ProcessEvent, RecordEvent

\* Events of reversals keep telling what was applied.
LEMMA ReversalEventsStep ==
    ASSUME IInv, ReversalInv, [Next]_vars, Orderly, NEW d \in Deposit
    PROVE  ReversalEvents(d)'
<1>1. /\ ReversalEvents(d)
      /\ event \in [Deposit \X Notified -> EventState]
      /\ pix \in [Deposit -> PixStatus \cup {"none"}]
    BY DEF ReversalInv, IInv, TypeOK
<1>2. pix[d] \in Reversal => pix'[d] \in Reversal
    BY ReturnedStays
<1>3. ASSUME NEW s \in Notified \cap Reversal, event[<<d, s>>] = "processed"
      PROVE  NoCreditLeft(d)'
  <2>1. NoCreditLeft(d) /\ pix[d] \in Reversal
      BY <1>1, <1>3 DEF ReversalEvents
  <2> QED
      BY <2>1, NoCreditStays
<1>4. ASSUME NEW s \in Notified \cap Reversal, event[<<d, s>>] # "none"
      PROVE  pix'[d] \in Reversal
    BY <1>1, <1>2, <1>4 DEF ReversalEvents
<1>5. CASE UNCHANGED <<event, pix>>
  <2>1. \A s \in Notified \cap Reversal :
            event'[<<d, s>>] = "processed" => NoCreditLeft(d)'
      BY <1>3, <1>5
  <2>2. pix'[d] \in Notified => event'[<<d, pix'[d]>>] # "none"
      BY <1>1, <1>5 DEF ReversalEvents
  <2> QED
      BY <1>4, <1>5, <2>1, <2>2 DEF ReversalEvents, NoCreditLeft, Reversed
<1>6. ASSUME NEW x \in Deposit, NEW r \in PixStatus, Reach(x, r)
      PROVE  ReversalEvents(d)'
  <2>1. /\ pix'[d] = IF x = d THEN r ELSE pix[d]
        /\ \A s \in Notified :
              event'[<<d, s>>] = IF x = d /\ s = r THEN "sent" ELSE event[<<d, s>>]
      BY <1>1, <1>6 DEF Reach
  <2>2. pix'[d] \in Notified => event'[<<d, pix'[d]>>] # "none"
      BY <1>1, <2>1 DEF ReversalEvents
  <2>3. \A s \in Notified \cap Reversal : event'[<<d, s>>] # "none" => pix'[d] \in Reversal
      BY <1>4, <2>1
  <2>4. \A s \in Notified \cap Reversal :
            event'[<<d, s>>] = "processed" => NoCreditLeft(d)'
      BY <1>3, <2>1
  <2> QED
      BY <2>2, <2>3, <2>4 DEF ReversalEvents, NoCreditLeft, Reversed
<1>7. ASSUME NEW x \in Deposit, NEW r \in Notified, RecordEvent(x, r), pix' = pix
      PROVE  ReversalEvents(d)'
  <2>1. \A s \in Notified :
            event'[<<d, s>>] = IF x = d /\ s = r THEN "pending" ELSE event[<<d, s>>]
      BY <1>1, <1>7 DEF RecordEvent
  <2>2. event[<<x, r>>] = "sent"
      BY <1>7 DEF RecordEvent
  <2>3. pix'[d] \in Notified => event'[<<d, pix'[d]>>] # "none"
      BY <1>1, <1>7, <2>1 DEF ReversalEvents
  <2>4. \A s \in Notified \cap Reversal : event'[<<d, s>>] # "none" => pix'[d] \in Reversal
      BY <1>4, <2>1, <2>2
  <2>5. \A s \in Notified \cap Reversal :
            event'[<<d, s>>] = "processed" => NoCreditLeft(d)'
      BY <1>3, <2>1
  <2> QED
      BY <2>3, <2>4, <2>5 DEF ReversalEvents, NoCreditLeft, Reversed
<1>8. ASSUME NEW t \in Task, MarkProcessed(t), pix' = pix
      PROVE  ReversalEvents(d)'
  <2>1. \A s \in Notified :
            event'[<<d, s>>] = IF on[t] = d /\ note[t] = s THEN "processed" ELSE event[<<d, s>>]
      BY <1>1, <1>8 DEF MarkProcessed
  <2>2. on[t] = d /\ note[t] \in Reversal => pix[d] \in Reversal /\ NoCreditLeft(d)
      BY <1>8 DEF MarkProcessed, ReversalInv, ReversalTask
  <2>3. on[t] = d /\ note[t] \in Reversal => NoCreditLeft(d)'
      BY <2>2, NoCreditStays
  <2>4. pix'[d] \in Notified => event'[<<d, pix'[d]>>] # "none"
      BY <1>1, <1>8, <2>1 DEF ReversalEvents
  <2>5. \A s \in Notified \cap Reversal : event'[<<d, s>>] # "none" => pix'[d] \in Reversal
      BY <1>2, <1>4, <2>1, <2>2
  <2>6. \A s \in Notified \cap Reversal :
            event'[<<d, s>>] = "processed" => NoCreditLeft(d)'
      BY <1>3, <2>1, <2>3
  <2> QED
      BY <2>4, <2>5, <2>6 DEF ReversalEvents, NoCreditLeft, Reversed
<1> QED
    BY <1>5, <1>6, <1>7, <1>8, EventWriters

\* Every orderly step keeps what is known of reversals.
LEMMA ReversalStep ==
    ASSUME IInv, IInv', ReversalInv, [Next]_vars, Orderly
    PROVE  ReversalInv'
<1>1. \A d \in Deposit : (NoCreditLeft(d) \/ status[d] = "credited")'
    BY CreditShows DEF ReversalInv
<1>2. \A d \in Deposit : ReversalEvents(d)'
    BY ReversalEventsStep
<1>3. ASSUME NEW t \in Task,
             \/ TaskStep(t)
             \/ \E d \in Deposit : CreateDeposit(t, d) \/ Check(t, d)
             \/ \E d \in Deposit, s \in Notified : ProcessEvent(t, d, s)
      PROVE  \A u \in Task : ReversalTask(u)'
  <2>1. OthersStay(t) /\ ReversalTask(t)'
      BY <1>3, ReversalTaskMoves
  <2>2. \A u \in Task \ {t} : ReversalTask(u)'
      BY <2>1, ReversalTaskStays DEF OthersStay, ReversalInv
  <2> QED
      BY <2>1, <2>2
<1>4. ASSUME UNCHANGED tasks
      PROVE  \A u \in Task : ReversalTask(u)'
    BY <1>4, ReversalTaskStays DEF ReversalInv
<1>5. \A u \in Task : ReversalTask(u)'
    BY <1>3, <1>4 DEF Next, vars, RecordEvent, Progress
<1> QED
    BY <1>1, <1>2, <1>5 DEF ReversalInv

\* Once everything is processed, a payment the provider returned has left no
\* credit, if reversals are notified, no credit comes after the return of its
\* payment, and no credited deposit goes to review: these two are all that can go
\* wrong, for any deposits, tasks and providers.
THEOREM OnlyDisorderLeavesCredit ==
    ASSUME Reversal \subseteq Notified
    PROVE  Spec /\ NoDisorder => []ReturnedLeavesNoCredit
<1>1. Init => ReversalInv
    BY DEF Init, ReversalInv, NoCreditLeft, ReversalTask, ReversalEvents
<1>2. ASSUME IInv, IInv', ReversalInv, [Next]_vars, [Orderly]_vars
      PROVE  ReversalInv'
  <2>1. CASE Orderly
      BY <1>2, <2>1, ReversalStep
  <2>2. CASE UNCHANGED vars
      BY <1>2, <2>2 DEF vars, ReversalInv, NoCreditLeft, Reversed, ReversalTask, ReversalEvents
  <2> QED
      BY <1>2, <2>1, <2>2
<1>3. ReversalInv => ReturnedLeavesNoCredit
    BY DEF ReversalInv, ReversalEvents, NoCreditLeft, ReturnedLeavesNoCredit, Settled
<1>4. NoDisorder => [][Orderly]_vars
    BY DEF NoDisorder, Orderly
<1>5. IInv /\ [Next]_vars => IInv'
    BY NextInv
<1> QED
    BY <1>1, <1>2, <1>3, <1>4, <1>5, Invariance, PTL DEF Spec

=============================================================================
