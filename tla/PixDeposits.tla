------------------------------ MODULE PixDeposits ------------------------------
(***************************************************************************)
(* Pix deposits of one customer: create_deposit, the webhook and its retry *)
(* loop, and reconcile_snapshot (app/services/payments.py, app/main.py).   *)
(*                                                                         *)
(* A task is one coroutine or CLI process.  It asks the provider for a     *)
(* snapshot of an order, holds it while other tasks run, and applies it in *)
(* one transaction that locks the deposit.  Snapshots may therefore be     *)
(* applied late, twice and out of order.                                   *)
(***************************************************************************)
EXTENDS Integers, FiniteSets

CONSTANTS
    Deposit,        \* deposits the customer may create
    Task,           \* coroutines and CLI processes
    None,           \* no deposit, no snapshot, no event
    Amount,         \* deposit.amount_cents
    InitialBalance, \* the wallet before the first deposit
    MaxOpen,        \* settings.max_open_deposits_per_user
    Notified,       \* the statuses of which the provider sends an event
    MayDiverge      \* a snapshot may name another reference, order or amount

ASSUME DepositAssumption == IsFiniteSet(Deposit) /\ None \notin Deposit
ASSUME AmountAssumption  == Amount \in Nat \ {0} /\ InitialBalance \in Int
ASSUME MaxOpenAssumption == MaxOpen \in Nat \ {0}
ASSUME DivergeAssumption == MayDiverge \in BOOLEAN

\* "closed" stands for expired, canceled and failed, which the code treats alike.
DepositStatus == {"creating", "pending", "credited", "closed", "refunded",
                  "charged_back", "review"}
PixStatus == {"created", "accredited", "partial", "refunded", "charged_back", "closed"}
Reversal  == {"refunded", "charged_back"}
Final     == {"credited"} \cup Reversal
Paid      == {"accredited", "partial"} \cup Reversal
Step == {"idle", "create", "reject", "fail", "save", "fetch", "reconcile", "mark"}

ASSUME StatusAssumption == Notified \subseteq PixStatus /\ None \notin PixStatus

VARIABLES
    status,    \* deposits.status
    linked,    \* deposits whose provider_order_id is set
    balance,   \* wallets.balance_cents
    credits,   \* wallet_entries with key deposit:<deposit>
    reversals, \* wallet_entries with key deposit-reversal:<deposit>:<status>
    event,     \* webhook_events: per deposit and status the provider reached
    pix,       \* the provider's order
    pc,        \* the next await or transaction of each task
    on,        \* the deposit each task works on
    snap,      \* the snapshot each task holds
    note       \* the event each task processes

ledger   == <<balance, credits, reversals>>
database == <<status, linked, ledger>>
tasks    == <<pc, on, snap, note>>
vars     == <<database, event, pix, tasks>>

\* An event is not yet delivered, recorded and unprocessed, or processed.
EventState == {"none", "sent", "pending", "processed"}

TypeOK ==
    /\ status \in [Deposit -> DepositStatus \cup {"none"}]
    /\ linked \in SUBSET Deposit
    /\ balance \in Int
    /\ credits \in SUBSET Deposit
    /\ reversals \in SUBSET (Deposit \X Reversal)
    /\ event \in [Deposit \X Notified -> EventState]
    /\ pix \in [Deposit -> PixStatus \cup {"none"}]
    /\ pc \in [Task -> Step]
    /\ on \in [Task -> Deposit \cup {None}]
    /\ snap \in [Task -> PixStatus \cup {None, "DIVERGENT"}]
    /\ note \in [Task -> Notified \cup {None}]

Init ==
    /\ status = [d \in Deposit |-> "none"]
    /\ linked = {}
    /\ balance = InitialBalance
    /\ credits = {}
    /\ reversals = {}
    /\ event = [e \in Deposit \X Notified |-> "none"]
    /\ pix = [d \in Deposit |-> "none"]
    /\ pc = [t \in Task |-> "idle"]
    /\ on = [t \in Task |-> None]
    /\ snap = [t \in Task |-> None]
    /\ note = [t \in Task |-> None]

-----------------------------------------------------------------------------
(* Moves of a task, and of the provider.                                   *)

Begin(t, d, step, e) ==
    /\ pc[t] = "idle"
    /\ pc' = [pc EXCEPT ![t] = step]
    /\ on' = [on EXCEPT ![t] = d]
    /\ note' = [note EXCEPT ![t] = e]
    /\ UNCHANGED snap

Goto(t, step, s) ==
    /\ pc' = [pc EXCEPT ![t] = step]
    /\ snap' = [snap EXCEPT ![t] = s]
    /\ UNCHANGED <<on, note>>

Return(t) ==
    /\ pc' = [pc EXCEPT ![t] = "idle"]
    /\ on' = [on EXCEPT ![t] = None]
    /\ snap' = [snap EXCEPT ![t] = None]
    /\ note' = [note EXCEPT ![t] = None]

\* The provider's order reaches status s, and the provider notifies the shop.
Reach(d, s) ==
    /\ pix' = [pix EXCEPT ![d] = s]
    /\ event' = [e \in Deposit \X Notified |->
                    IF e = <<d, s>> THEN "sent" ELSE event[e]]

\* What a query for deposit d may return when its order is in status s.
Report(s) == {s} \cup IF MayDiverge THEN {"DIVERGENT"} ELSE {}

-----------------------------------------------------------------------------
(* create_deposit.                                                         *)

\* A deposit under review counts as open; an unpaid one counts until it
\* lapses, and time may have lapsed any of them.
CreateDeposit(t, d) ==
    /\ Begin(t, d, "create", None)
    /\ status[d] = "none"
    /\ Cardinality({x \in Deposit : status[x] = "review"}) < MaxOpen
    /\ status' = [status EXCEPT ![d] = "creating"]
    /\ UNCHANGED <<linked, ledger, event, pix>>

\* create_pix raises; its order may exist all the same, behind a lost answer.
CreateRaises(t) ==
    /\ pc[t] = "create"
    /\ \E step \in {"reject", "fail"} : Goto(t, step, None)
    /\ \/ UNCHANGED <<pix, event>>
       \/ Reach(on[t], "created")
    /\ UNCHANGED database

CreateAnswered(t) ==
    /\ pc[t] = "create"
    /\ \E s \in {"created", "accredited"} :
          /\ Reach(on[t], s)
          /\ \E a \in Report(s) :
                Goto(t, IF a = "DIVERGENT" THEN "fail" ELSE "save", a)
    /\ UNCHANGED database

\* After an exception or a divergent answer, the status is overwritten as is.
FailDeposit(t) ==
    /\ pc[t] \in {"reject", "fail"}
    /\ status' = [status EXCEPT ![on[t]] =
                     IF pc[t] = "reject" THEN "closed" ELSE "review"]
    /\ Return(t)
    /\ UNCHANGED <<linked, ledger, event, pix>>

\* An order already accredited goes on to reconcile_snapshot with the answer.
SaveDeposit(t) ==
    /\ pc[t] = "save"
    /\ linked' = linked \cup {on[t]}
    /\ status' = [status EXCEPT ![on[t]] = IF @ \in Final THEN @ ELSE "pending"]
    /\ IF snap[t] = "accredited" THEN Goto(t, "reconcile", snap[t]) ELSE Return(t)
    /\ UNCHANGED <<ledger, event, pix>>

-----------------------------------------------------------------------------
(* Webhook, retry loop and manual checks.                                  *)

\* The event is durable before the webhook is answered.
RecordEvent(d, s) ==
    /\ event[<<d, s>>] = "sent"
    /\ event' = [event EXCEPT ![<<d, s>>] = "pending"]
    /\ UNCHANGED <<database, pix, tasks>>

\* A bug the checks must catch: an event is marked before it is applied.
ProcessEventEagerly(t, d, s) ==
    /\ event[<<d, s>>] = "pending"
    /\ Begin(t, d, "fetch", s)
    /\ event' = [event EXCEPT ![<<d, s>>] = "processed"]
    /\ UNCHANGED <<database, pix>>

\* From the webhook's background task, a repeated webhook or the retry loop.
ProcessEvent(t, d, s) ==
    /\ event[<<d, s>>] = "pending"
    /\ Begin(t, d, "fetch", s)
    /\ UNCHANGED <<database, event, pix>>

\* The customer's "already paid" button or the CLI's reconcile-pix.
Check(t, d) ==
    /\ d \in linked
    /\ Begin(t, d, "fetch", None)
    /\ UNCHANGED <<database, event, pix>>

Fetch(t) ==
    /\ pc[t] = "fetch"
    /\ pix[on[t]] # "none"
    /\ \E s \in Report(pix[on[t]]) : Goto(t, "reconcile", s)
    /\ UNCHANGED <<database, event, pix>>

MarkProcessed(t) ==
    /\ pc[t] = "mark"
    /\ event' = [event EXCEPT ![<<on[t], note[t]>>] = "processed"]
    /\ Return(t)
    /\ UNCHANGED <<database, pix>>

-----------------------------------------------------------------------------
(* reconcile_snapshot: one transaction on the locked deposit.              *)

\* A task that processes an event marks it next; any other returns.
AfterReconcile(t) ==
    IF note[t] = None THEN Return(t) ELSE Goto(t, "mark", None)

Applies(t) ==
    /\ pc[t] = "reconcile"
    /\ snap[t] # "DIVERGENT"
    /\ linked' = linked \cup {on[t]}
    /\ AfterReconcile(t)
    /\ UNCHANGED <<event, pix>>

\* Reference, amount or order identifier differ: review, and an exception.
Divergent(t) ==
    /\ pc[t] = "reconcile"
    /\ snap[t] = "DIVERGENT"
    /\ status' = [status EXCEPT ![on[t]] = "review"]
    /\ Return(t)
    /\ UNCHANGED <<linked, ledger, event, pix>>

Creditable(t) == snap[t] = "accredited" /\ status[on[t]] # "credited"

\* A bug the checks must catch: a credit needs no new entry.
CreditUnkeyed(t) ==
    LET d == on[t] IN
    /\ Applies(t)
    /\ Creditable(t)
    /\ balance' = balance + Amount
    /\ credits' = credits \cup {d}
    /\ status' = [status EXCEPT ![d] = "credited"]
    /\ UNCHANGED reversals

Credit(t) ==
    LET d == on[t] IN
    /\ Applies(t)
    /\ Creditable(t)
    /\ d \notin credits
    /\ balance' = balance + Amount
    /\ credits' = credits \cup {d}
    /\ status' = [status EXCEPT ![d] = "credited"]
    /\ UNCHANGED reversals

\* A bug the checks must catch: an existing entry is taken for this credit's.
CreditDuplicateKept(t) ==
    /\ Applies(t)
    /\ Creditable(t)
    /\ on[t] \in credits
    /\ status' = [status EXCEPT ![on[t]] = "credited"]
    /\ UNCHANGED ledger

\* The entry's key exists: IntegrityError, everything rolls back.
CreditDuplicate(t) ==
    /\ pc[t] = "reconcile"
    /\ Creditable(t)
    /\ on[t] \in credits
    /\ Return(t)
    /\ UNCHANGED <<database, event, pix>>

\* A bug the checks must catch: a reversal of what is not credited (any more).
ReversibleAny(t) == snap[t] \in Reversal

Reversible(t) == snap[t] \in Reversal /\ status[on[t]] = "credited"

Reverse(t) ==
    LET d == on[t] IN
    /\ Applies(t)
    /\ Reversible(t)
    /\ <<d, snap[t]>> \notin reversals
    /\ balance' = balance - Amount
    /\ reversals' = reversals \cup {<<d, snap[t]>>}
    /\ status' = [status EXCEPT ![d] = snap[t]]
    /\ UNCHANGED credits

Close(t) ==
    /\ Applies(t)
    /\ snap[t] = "closed" /\ status[on[t]] \notin Final
    /\ status' = [status EXCEPT ![on[t]] = "closed"]
    /\ UNCHANGED ledger

\* A partial refund needs a person, even after the credit.
Partial(t) ==
    /\ Applies(t)
    /\ snap[t] = "partial"
    /\ status' = [status EXCEPT ![on[t]] = "review"]
    /\ UNCHANGED ledger

\* Nothing to do: already credited, nothing to reverse, final, or not yet paid.
Ignore(t) ==
    LET d == on[t] IN
    /\ Applies(t)
    /\ \/ snap[t] = "created"
       \/ snap[t] = "accredited" /\ status[d] = "credited"
       \/ snap[t] \in Reversal /\ status[d] # "credited"
       \/ snap[t] = "closed" /\ status[d] \in Final
    /\ UNCHANGED <<status, ledger>>

-----------------------------------------------------------------------------
(* Failures and the provider.                                              *)

\* A restart, a failed query, or a transaction the database aborts.
Abort(t) ==
    /\ pc[t] # "idle"
    /\ Return(t)
    /\ UNCHANGED <<database, event, pix>>

Progress(d) ==
    /\ \E s \in PixStatus :
          /\ \/ pix[d] = "created" /\ s \in {"accredited", "closed"}
             \/ pix[d] = "accredited" /\ s \in {"partial"} \cup Reversal
             \/ pix[d] = "partial" /\ s \in Reversal
             \/ pix[d] = "refunded" /\ s = "charged_back"
          /\ Reach(d, s)
    /\ UNCHANGED <<database, tasks>>

TaskStep(t) ==
    \/ CreateRaises(t) \/ CreateAnswered(t) \/ FailDeposit(t) \/ SaveDeposit(t)
    \/ Fetch(t) \/ MarkProcessed(t)
    \/ Divergent(t) \/ Credit(t) \/ CreditDuplicate(t) \/ Reverse(t)
    \/ Close(t) \/ Partial(t) \/ Ignore(t)
    \/ Abort(t)

Next ==
    \/ \E t \in Task : TaskStep(t)
    \/ \E t \in Task, d \in Deposit : CreateDeposit(t, d) \/ Check(t, d)
    \/ \E t \in Task, d \in Deposit, s \in Notified : ProcessEvent(t, d, s)
    \/ \E d \in Deposit, s \in Notified : RecordEvent(d, s)
    \/ \E d \in Deposit : Progress(d)

Spec == Init /\ [][Next]_vars

FetchMatching(t) == Fetch(t) /\ snap'[t] # "DIVERGENT"

\* The provider repeats a webhook until it is answered; the retry loop survives
\* every exception and takes up each pending event again; a started coroutine
\* runs until it returns or dies; the provider answers now and then, and not each
\* time with another order than the one it was asked for.
Fairness ==
    /\ \A t \in Task : WF_vars(TaskStep(t))
    /\ \A d \in Deposit, s \in Notified :
          /\ WF_vars(RecordEvent(d, s))
          /\ SF_vars(\E t \in Task : ProcessEvent(t, d, s))
          /\ SF_vars(\E t \in Task : on[t] = d /\ note[t] = s /\ FetchMatching(t))
    /\ \A d \in Deposit : SF_vars(\E t \in Task : on[t] = d /\ Credit(t))

FairSpec == Spec /\ Fairness

-----------------------------------------------------------------------------
(* Properties.                                                             *)

Reversed(d) == \E r \in Reversal : <<d, r>> \in reversals

\* wallets.balance_cents is what the deposit and reversal entries add up to
\* (docs/DEPLOYMENT.md:28).
LedgerMatchesWallet ==
    balance + Amount * Cardinality(reversals)
        = InitialBalance + Amount * Cardinality(credits)

\* Only money the provider received is credited, in whatever order webhooks,
\* checks, retries and the creation itself apply their snapshots.
CreditedWasPaid == \A d \in credits : pix[d] \in Paid

\* A credit is taken back at most once, whether refunded, charged back or both,
\* and only if it was given and the provider returned the money.
ReversedOnce ==
    \A d \in Deposit :
        /\ Reversed(d) => d \in credits /\ pix[d] \in Reversal
        /\ ~(<<d, "refunded">> \in reversals /\ <<d, "charged_back">> \in reversals)

\* A deposit shown as credited has its credit and no reversal; one shown as
\* refunded or charged back has had its credit reversed.
StatusTellsLedger ==
    \A d \in Deposit :
        /\ status[d] = "credited" => d \in credits /\ ~Reversed(d)
        /\ status[d] \in Reversal => Reversed(d)

\* The promise to the depositor, seen in the entries of the ledger.
MoneyOf(s)  == IF s \in Reversal THEN "returned" ELSE IF s \in Paid THEN "received" ELSE "none"
CreditOf(d) == IF Reversed(d) THEN "withdrawn" ELSE IF d \in credits THEN "given" ELSE "none"

Lifecycle == INSTANCE DepositLifecycle WITH
    money  <- [d \in Deposit |-> MoneyOf(pix[d])],
    credit <- [d \in Deposit |-> CreditOf(d)]

\* Tasks, snapshots, statuses and events forgotten, every step is one of
\* DepositLifecycle or none: no interleaving credits or withdraws anything else
\* (docs/DEPLOYMENT.md:28).
LifecycleSpec == Lifecycle!Spec

\* Nothing about deposit d is left to do.
Settled(d) ==
    /\ \A t \in Task : on[t] # d
    /\ \A s \in Notified : event[<<d, s>>] \in {"none", "processed"}

\* Once every notification is processed, a payment the provider returned has
\* left no credit (tests/test_transactions.py:125-139 asserts a balance of 0).
ReturnedLeavesNoCredit ==
    \A d \in Deposit :
        Settled(d) /\ pix[d] \in Reversal => (d \in credits => Reversed(d))

\* What the code does not exclude: a snapshot of the payment is applied after
\* the provider returned it, or a credited deposit is put under review.
LateCredit(t)  == Credit(t) /\ pix[on[t]] \in Reversal
LosesCredit(d) == status[d] = "credited" /\ status'[d] \notin Final

NoDisorder ==
    [][(\A t \in Task : ~LateCredit(t)) /\ (\A d \in Deposit : ~LosesCredit(d))]_vars

\* A payment the provider holds is eventually credited, through lost answers,
\* crashes and restarts at every step (unless the provider moves on from it).
PaidIsCredited ==
    \A d \in Deposit :
        pix[d] = "accredited" ~> (d \in credits \/ pix[d] # "accredited")

-----------------------------------------------------------------------------
(* The inductive invariant behind the safety properties.                   *)

\* A deposit is created before the provider holds its order; the snapshot in a
\* task's hands is no more than the provider has gone through.
TaskInv(t) ==
    /\ pc[t] # "idle" => on[t] \in Deposit /\ status[on[t]] # "none"
    /\ pc[t] = "create" => pix[on[t]] = "none"
    /\ snap[t] = "accredited" => pix[on[t]] \in Paid
    /\ snap[t] \in Reversal => pix[on[t]] \in Reversal
    /\ pc[t] = "idle" => snap[t] = None /\ note[t] = None
    /\ note[t] # None => pix[on[t]] # "none"

\* No two tasks create the same deposit.
OneCreator ==
    \A t, u \in Task :
        pc[t] = "create" /\ pc[u] = "create" /\ on[t] = on[u] => t = u

DepositInv ==
    \A d \in Deposit : status[d] = "none" => pix[d] = "none" /\ d \notin linked

EventInv ==
    \A d \in Deposit, s \in Notified : event[<<d, s>>] # "none" => pix[d] # "none"

IInv ==
    /\ TypeOK
    /\ \A t \in Task : TaskInv(t)
    /\ OneCreator
    /\ DepositInv
    /\ EventInv
    /\ LedgerMatchesWallet
    /\ CreditedWasPaid
    /\ ReversedOnce
    /\ StatusTellsLedger

-----------------------------------------------------------------------------
(* What is true besides as long as there is NoDisorder.                    *)

\* Deposit d has no credit that is not taken back.
NoCreditLeft(d) == d \in credits => Reversed(d)

\* A task that processes the event of a reversal sees the reversal, and has it
\* applied when it comes to mark the event.
ReversalTask(t) ==
    /\ pc[t] \in {"create", "reject", "fail", "save"} => note[t] = None
    /\ note[t] \in Reversal =>
          /\ pix[on[t]] \in Reversal
          /\ pc[t] = "reconcile" => snap[t] \in Reversal \cup {"DIVERGENT"}
          /\ pc[t] = "mark" => NoCreditLeft(on[t])

\* The provider sends an event of what it has reached, and an event of a reversal
\* is not processed before the reversal is applied.
ReversalEvents(d) ==
    /\ pix[d] \in Notified => event[<<d, pix[d]>>] # "none"
    /\ \A s \in Notified \cap Reversal :
          /\ event[<<d, s>>] # "none" => pix[d] \in Reversal
          /\ event[<<d, s>>] = "processed" => NoCreditLeft(d)

\* A credit that was not taken back shows in the status.
ReversalInv ==
    /\ \A d \in Deposit : NoCreditLeft(d) \/ status[d] = "credited"
    /\ \A t \in Task : ReversalTask(t)
    /\ \A d \in Deposit : ReversalEvents(d)
=============================================================================
