------------------------------- MODULE Webhooks -------------------------------
(***************************************************************************)
(* Mercado Pago notifications: mercado_pago_webhook, its background task   *)
(* and _payment_retry_loop (app/main.py), with the events they record, list*)
(* and process (app/services/payments.py).                                 *)
(*                                                                         *)
(* PixDeposits says what a snapshot does to a deposit.  This module keeps  *)
(* credit and reversal of that, and says which snapshots are taken: what   *)
(* becomes of each notification, and what the customer is told.            *)
(***************************************************************************)
EXTENDS Integers, FiniteSets, Sequences, Functions

CONSTANTS
    Order,        \* the provider's orders
    Notification, \* the changes each order may undergo, each notified
    Task,         \* requests the shop serves at once, with their background tasks
    Loop,         \* the retry loop
    None,         \* no notification, no news
    Unknown,      \* orders no deposit belongs to: processing raises each time
    Backlog,      \* events of such orders, recorded before
    Limit,        \* events the loop lists at once
    MaxFaults     \* bound on restarts and failures

\* What the provider does with an order, in turn.
Created    == 0
Accredited == 1
Refunded   == 2

ASSUME OrderAssumption ==
    /\ Unknown \subseteq Order
    /\ Notification \subseteq Order \X {Accredited, Refunded}
    /\ Backlog \in Seq(Unknown \X {Accredited})
    /\ \A i, j \in DOMAIN Backlog : Backlog[i] = Backlog[j] => i = j
ASSUME TaskAssumption   == Loop \notin Task
ASSUME BoundsAssumption == Limit \in Nat \ {0} /\ MaxFaults \in Nat

Event     == Notification \cup Range(Backlog)
Coroutine == Task \cup {Loop}
Step == {"idle", "look", "insert", "answer", "dismiss", "process", "fetch",
         "reconcile", "mark", "tell"}
News == {"credited", "reversed"}

ASSUME NoneAssumption == None \notin Event /\ None \notin News

VARIABLES
    rows,      \* webhook_events.payload, in the order of created_at
    processed, \* event_id of the rows marked processed
    deposit,   \* the deposit of each order, as far as its ledger tells
    co,        \* each coroutine: its next step and what it holds
    batch,     \* the rows the loop has still to take, by their places
    pix,       \* the provider's orders
    sameBody,  \* orders whose notifications have no id and equal bodies
    answered,  \* notifications the shop answered with HTTP 200
    told,      \* what the customers were told
    seen,      \* the latest snapshot reconciled, for the properties
    faults

database == <<rows, processed, deposit>>
outside  == <<pix, sameBody, answered, told>>
vars     == <<database, outside, co, batch, seen, faults>>

\* payload.id, or else a digest of the body.
EventId(n) == IF n[1] \in sameBody THEN <<n[1]>> ELSE n

TypeOK ==
    /\ rows \in Seq(Event)
    /\ processed \subseteq {EventId(n) : n \in Event}
    /\ deposit \in [Order -> {"open"} \cup News]
    /\ co \in [Coroutine -> [at : Step, on : Event \cup {None},
                             snap : Created..Refunded, news : News \cup {None}]]
    /\ batch \subseteq DOMAIN rows
    /\ pix \in [Order -> Created..Refunded]
    /\ sameBody \subseteq Order
    /\ answered \subseteq Notification
    /\ told \subseteq Order \X News
    /\ seen \in [Order -> Created..Refunded]
    /\ faults \in 0..MaxFaults

Idle == [at |-> "idle", on |-> None, snap |-> Created, news |-> None]

Init ==
    /\ rows = Backlog /\ processed = {} /\ batch = {}
    /\ deposit = [o \in Order |-> "open"]
    /\ co = [c \in Coroutine |-> Idle]
    /\ pix = [o \in Order |-> Created]
    /\ sameBody \in SUBSET (Order \ Unknown)
    /\ answered = {} /\ told = {}
    /\ seen = [o \in Order |-> Created]
    /\ faults = 0

Goto(c, step) == co' = [co EXCEPT ![c].at = step]
Return(c)     == co' = [co EXCEPT ![c] = Idle]

-----------------------------------------------------------------------------
(* The webhook, up to its answer.                                          *)

\* The provider delivers a notification again, also before the answer to the last
\* delivery is due, until it has an answer.
Deliver(t, n) ==
    /\ co[t].at = "idle"
    /\ pix[n[1]] >= n[2] /\ n \notin answered
    /\ co' = [co EXCEPT ![t].at = "look", ![t].on = n]
    /\ UNCHANGED <<database, outside, batch, seen, faults>>

Recorded(n) == \E i \in DOMAIN rows : EventId(rows[i]) = EventId(n)

LookUp(t) ==
    /\ co[t].at = "look"
    /\ Goto(t, IF ~Recorded(co[t].on) THEN "insert"
               ELSE IF EventId(co[t].on) \in processed THEN "dismiss" ELSE "answer")
    /\ UNCHANGED <<database, outside, batch, seen, faults>>

\* A bug the checks must catch: the answer does not wait for the commit.
InsertUncommitted(t) ==
    /\ co[t].at = "insert"
    /\ Goto(t, "answer")
    /\ UNCHANGED <<database, outside, batch, seen, faults>>

\* Another delivery may have committed the event since: IntegrityError.
Insert(t) ==
    /\ co[t].at = "insert"
    /\ rows' = IF Recorded(co[t].on) THEN rows ELSE Append(rows, co[t].on)
    /\ Goto(t, "answer")
    /\ UNCHANGED <<processed, deposit, outside, batch, seen, faults>>

\* The background task follows, unless the event was already processed.
Answer(t) ==
    /\ co[t].at \in {"answer", "dismiss"}
    /\ answered' = answered \cup {co[t].on}
    /\ IF co[t].at = "answer" THEN Goto(t, "process") ELSE Return(t)
    /\ UNCHANGED <<database, pix, sameBody, told, batch, seen, faults>>

-----------------------------------------------------------------------------
(* process_mercado_pago_event, in a background task or in the loop.        *)

\* A bug the checks must catch: the event is marked before it is reconciled.
ProcessMarking(c) ==
    /\ co[c].at = "process"
    /\ IF EventId(co[c].on) \in processed THEN Return(c) ELSE Goto(c, "fetch")
    /\ processed' = processed \cup {EventId(co[c].on)}
    /\ UNCHANGED <<rows, deposit, outside, batch, seen, faults>>

Process(c) ==
    /\ co[c].at = "process"
    /\ IF EventId(co[c].on) \in processed THEN Return(c) ELSE Goto(c, "fetch")
    /\ UNCHANGED <<database, outside, batch, seen, faults>>

Fetch(c) ==
    /\ co[c].at = "fetch"
    /\ co' = [co EXCEPT ![c].at = "reconcile", ![c].snap = pix[co[c].on[1]]]
    /\ UNCHANGED <<database, outside, batch, seen, faults>>

\* No deposit, or a credit whose key exists.
Raises(c) ==
    \/ co[c].on[1] \in Unknown
    \/ co[c].snap = Accredited /\ deposit[co[c].on[1]] = "reversed"

\* A bug the checks must catch: an exception ends the cycle of the loop.
RaiseUncaught(c) ==
    /\ co[c].at = "reconcile" /\ Raises(c)
    /\ Return(c)
    /\ batch' = IF c = Loop THEN {} ELSE batch
    /\ UNCHANGED <<database, outside, seen, faults>>

\* The event keeps its place, and the loop goes on.
Raise(c) ==
    /\ co[c].at = "reconcile" /\ Raises(c)
    /\ Return(c)
    /\ UNCHANGED <<database, outside, batch, seen, faults>>

\* A bug the checks must catch: news of a credit made before.
OutcomeRepeated(s, d) ==
    IF s = Accredited THEN "credited"
    ELSE IF s = Refunded /\ d = "credited" THEN "reversed" ELSE None

\* What snapshot s changes in a deposit found in state d.
Outcome(s, d) ==
    IF s = Accredited /\ d = "open" THEN "credited"
    ELSE IF s = Refunded /\ d = "credited" THEN "reversed" ELSE None

Reconcile(c) ==
    LET o == co[c].on[1]
        s == co[c].snap
        r == Outcome(s, deposit[o]) IN
    /\ co[c].at = "reconcile" /\ ~Raises(c)
    /\ deposit' = [deposit EXCEPT ![o] = IF r = None THEN @ ELSE r]
    /\ co' = [co EXCEPT ![c].at = "mark", ![c].snap = Created, ![c].news = r]
    /\ seen' = [seen EXCEPT ![o] = IF s > @ THEN s ELSE @]
    /\ UNCHANGED <<rows, processed, outside, batch, faults>>

\* A bug the checks must catch: the row is looked up by something else than the
\* identifier it was recorded with.
MarkPayload(c) ==
    /\ co[c].at = "mark"
    /\ processed' = processed \cup {co[c].on}
    /\ IF co[c].news = None THEN Return(c) ELSE Goto(c, "tell")
    /\ UNCHANGED <<rows, deposit, outside, batch, seen, faults>>

\* The event is marked in a transaction of its own.
Mark(c) ==
    /\ co[c].at = "mark"
    /\ processed' = processed \cup {EventId(co[c].on)}
    /\ IF co[c].news = None THEN Return(c) ELSE Goto(c, "tell")
    /\ UNCHANGED <<rows, deposit, outside, batch, seen, faults>>

\* After the mark: a message lost here is not sent again.
Tell(c) ==
    /\ co[c].at = "tell"
    /\ told' = told \cup {<<co[c].on[1], co[c].news>>}
    /\ Return(c)
    /\ UNCHANGED <<database, pix, sameBody, answered, batch, seen, faults>>

-----------------------------------------------------------------------------
(* The loop, the provider and failures.                                    *)

Pending == {i \in DOMAIN rows : EventId(rows[i]) \notin processed}

\* The oldest Limit of them.
List ==
    /\ co[Loop].at = "idle" /\ batch = {}
    /\ batch' = {i \in Pending : Cardinality({j \in Pending : j < i}) < Limit}
    /\ UNCHANGED <<database, outside, co, seen, faults>>

Take ==
    /\ co[Loop].at = "idle"
    /\ \E i \in batch :
          /\ \A j \in batch : i <= j
          /\ co' = [co EXCEPT ![Loop].at = "process", ![Loop].on = rows[i]]
          /\ batch' = batch \ {i}
    /\ UNCHANGED <<database, outside, seen, faults>>

Progress(o) ==
    /\ <<o, pix[o] + 1>> \in Notification
    /\ pix' = [pix EXCEPT ![o] = @ + 1]
    /\ UNCHANGED <<database, sameBody, answered, told, co, batch, seen, faults>>

\* The database, the provider or Telegram fails: the webhook answers 503, the
\* event stays as it is, or the message is lost.
Fail(c) ==
    /\ co[c].at # "idle" /\ faults < MaxFaults
    /\ faults' = faults + 1
    /\ Return(c)
    /\ UNCHANGED <<database, outside, batch, seen>>

\* The process stops, and starts again.
Restart ==
    /\ faults < MaxFaults
    /\ faults' = faults + 1
    /\ co' = [c \in Coroutine |-> Idle] /\ batch' = {}
    /\ UNCHANGED <<database, outside, seen>>

Run(c) ==
    \/ LookUp(c) \/ Insert(c) \/ Answer(c) \/ Process(c) \/ Fetch(c) \/ Raise(c)
    \/ Reconcile(c) \/ Mark(c) \/ Tell(c)

Next ==
    \/ \E t \in Task, n \in Notification : Deliver(t, n)
    \/ \E c \in Coroutine : Run(c) \/ Fail(c)
    \/ List \/ Take \/ Restart
    \/ \E o \in Order : Progress(o)

Spec == Init /\ [][Next]_vars

\* The loop lists, takes and processes for ever; nothing else needs to happen.
Fairness == WF_vars(List) /\ WF_vars(Take) /\ WF_vars(Run(Loop))

FairSpec == Spec /\ Fairness

-----------------------------------------------------------------------------
(* Properties.                                                             *)

\* The event is durable before the HTTP 200, whichever of two concurrent
\* deliveries inserts it (app/services/payments.py:374,401).
AnsweredIsRecorded == \A n \in answered : Recorded(n)

\* A row marked processed was reconciled with a snapshot no older than the
\* notification that made it: a crash or an error between the reconciliation and
\* the mark repeats the work and never loses it.
ProcessedWasReconciled ==
    \A i \in DOMAIN rows :
        EventId(rows[i]) \in processed => seen[rows[i][1]] >= rows[i][2]

\* The customer is told of a credit and of its reversal at most once each, though
\* background tasks and the loop may process the same event at the same time.
TellsOnce ==
    [][\A c \in Coroutine : Tell(c) => <<co[c].on[1], co[c].news>> \notin told]_vars

\* Every recorded notification of a deposit is reconciled in the end by the loop,
\* whatever its background task did, through failures, restarts and events that
\* can never be processed, as long as these leave a place in the list.
RecordedIsReconciled ==
    \A n \in Notification :
        n[1] \notin Unknown => (n \in Range(rows) ~> seen[n[1]] >= n[2])

-----------------------------------------------------------------------------
(* The inductive invariant behind the safety properties.                   *)

RowsAreDistinct ==
    \A i, j \in DOMAIN rows : EventId(rows[i]) = EventId(rows[j]) => i = j

\* Notifications are recorded after the fact, and only rows are marked.
RowsInv ==
    /\ RowsAreDistinct
    /\ \A i \in DOMAIN rows :
          rows[i][1] \in Unknown \/ pix[rows[i][1]] >= rows[i][2]
    /\ processed \subseteq {EventId(rows[i]) : i \in DOMAIN rows}

\* The snapshot, once fetched, is no older than the notification of the row.
CoInv(c) ==
    LET n == co[c].on
        at == co[c].at IN
    /\ at # "idle" => n \in Event
    /\ at \in {"look", "insert"} => n \in Notification /\ pix[n[1]] >= n[2]
    /\ at \notin {"idle", "look", "insert"} => Recorded(n)
    /\ at \in {"answer", "dismiss"} => n \in Notification
    /\ at = "reconcile" =>
          \/ n[1] \in Unknown
          \/ \A i \in DOMAIN rows : EventId(rows[i]) = EventId(n) => co[c].snap >= rows[i][2]
    /\ at = "mark" =>
          \A i \in DOMAIN rows : EventId(rows[i]) = EventId(n) => seen[n[1]] >= rows[i][2]
    /\ at \notin {"mark", "tell"} => co[c].news = None
    /\ at = "tell" => co[c].news # None

\* Each piece of news is brought by the one coroutine that changed the deposit, and
\* stays true.
IsNews(o, r) == deposit[o] = r \/ (r = "credited" /\ deposit[o] = "reversed")

NewsInv ==
    /\ \A c \in Coroutine : co[c].news # None =>
          /\ IsNews(co[c].on[1], co[c].news)
          /\ <<co[c].on[1], co[c].news>> \notin told
    /\ \A c, d \in Coroutine :
          co[c].news # None /\ co[c].news = co[d].news /\ co[c].on[1] = co[d].on[1] => c = d
    /\ \A x \in told : IsNews(x[1], x[2])

IInv ==
    /\ TypeOK
    /\ RowsInv
    /\ \A c \in Coroutine : CoInv(c)
    /\ NewsInv
    /\ AnsweredIsRecorded
    /\ ProcessedWasReconciled
=============================================================================
