-------------------------------- MODULE Notices --------------------------------
(***************************************************************************)
(* How a customer learns what became of a supplier-fulfilled order: from   *)
(* the handler of his click (app/bot/handlers/catalog.py), or from the     *)
(* reconciler's loop (app/services/supplier_jobs.py), which takes up to    *)
(* Limit finished orders nobody was told of, oldest update first.  Both    *)
(* send several messages and then set customer_notified_at.                *)
(*                                                                         *)
(* What happens to an order meanwhile is SupplierPurchase's business: here *)
(* it takes the steps of OrderFate, which SupplierPurchase implements.     *)
(***************************************************************************)
EXTENDS Naturals, Sequences, FiniteSets

CONSTANTS
    Order,       \* supplier-fulfilled orders, each of its own customer
    Click,       \* clicks of the button an order is bought with
    Unreachable, \* orders whose customer has blocked the bot for good
    Limit,       \* list_supplier_notifications(limit)
    MayFail      \* messages get lost or fail, and the process restarts

ASSUME OrderAssumption == IsFiniteSet(Order) /\ Unreachable \subseteq Order
ASSUME LimitAssumption == Limit \in Nat \ {0}
ASSUME FailAssumption  == MayFail \in BOOLEAN

VARIABLES
    status,   \* orders.status; "open" stands for processing and review
    notified, \* orders whose customer_notified_at is set
    updated,  \* the supplier orders by updated_at, oldest first
    handler,  \* the next step of the handler of each click, per order
    held,     \* the status that purchase_product returned to it
    at,       \* the next step of the loop
    batch,    \* the notifications the loop still has to send
    told      \* the messages that have reached each order's customer

database == <<status, notified, updated>>
clicks   == <<handler, held>>
loop     == <<at, batch>>
vars     == <<database, clicks, loop, told>>

Fate == INSTANCE OrderFate

Final   == Fate!Final
Message == {"processing", "ready", "code", "returned"}
Notice  == [order : Order, status : Final]
Status  == {"none", "open"} \cup Final
HandlerStep == {"none", "buying", "first", "code", "mark", "done"}

TypeOK ==
    /\ status \in [Order -> Status]
    /\ notified \subseteq Order
    /\ updated \in Seq(Order)
    /\ handler \in [Order -> [Click -> HandlerStep]]
    /\ held \in [Order -> [Click -> Status]]
    /\ at \in {"list", "first", "code", "mark"}
    /\ batch \in Seq(Notice)
    /\ told \in [Order -> SUBSET Message]

Init ==
    /\ status = [o \in Order |-> "none"]
    /\ notified = {}
    /\ updated = <<>>
    /\ handler = [o \in Order |-> [c \in Click |-> "none"]]
    /\ held = [o \in Order |-> [c \in Click |-> "none"]]
    /\ at = "list"
    /\ batch = <<>>
    /\ told = [o \in Order |-> {}]

-----------------------------------------------------------------------------
(* Messages and rows.                                                      *)

\* A bug the checks must catch: whatever is not delivered counts as refunded.
FirstUnfinished(s) == IF s = "delivered" THEN "ready" ELSE "returned"

\* The message that opens the news of a status, the code comes after it.
First(s) ==
    IF s = "delivered" THEN "ready"
    ELSE IF s = "refunded" THEN "returned" ELSE "processing"

Tell(o, m) == told' = [told EXCEPT ![o] = @ \cup {m}]

Sent(o, m) == o \notin Unreachable /\ Tell(o, m)

\* send_message raises; the message may have arrived all the same.
Failed(o, m) ==
    \/ o \in Unreachable /\ UNCHANGED told
    \/ MayFail /\ o \notin Unreachable /\ (UNCHANGED told \/ Tell(o, m))

\* A write to the supplier order makes it the latest one: it moves to the end.
Touch(o) ==
    \E i \in DOMAIN updated :
        /\ updated[i] = o
        /\ updated' = [j \in DOMAIN updated |->
                         IF j < i THEN updated[j]
                         ELSE IF j = Len(updated) THEN o ELSE updated[j + 1]]

\* mark_supplier_customer_notified
MarkNotified(o) ==
    IF o \in notified THEN UNCHANGED <<notified, updated>>
    ELSE notified' = notified \cup {o} /\ Touch(o)

-----------------------------------------------------------------------------
(* Orders, as far as their notices are concerned.                          *)

Buy(o, c) ==
    /\ Fate!Sell(o)
    /\ updated' = Append(updated, o)
    /\ handler' = [handler EXCEPT ![o][c] = "buying"]
    /\ UNCHANGED <<notified, held, loop, told>>

Finish(o) ==
    /\ Fate!Settle(o)
    /\ Touch(o)
    /\ UNCHANGED <<notified, clicks, loop, told>>

RefundDelivered(o) ==
    /\ Fate!TakeBack(o)
    /\ Touch(o)
    /\ UNCHANGED <<notified, clicks, loop, told>>

-----------------------------------------------------------------------------
(* The handlers of the clicks.                                             *)

\* The button is clicked once more, be its first handler at work or done.
ClickAgain(o, c) ==
    /\ status[o] # "none"
    /\ handler[o][c] \in {"none", "done"}
    /\ handler' = [handler EXCEPT ![o][c] = "buying"]
    /\ UNCHANGED <<database, held, loop, told>>

PurchaseReturns(o, c) ==
    /\ handler[o][c] = "buying"
    /\ handler' = [handler EXCEPT ![o][c] = "first"]
    /\ held' = [held EXCEPT ![o][c] = status[o]]
    /\ UNCHANGED <<database, loop, told>>

\* A bug the checks must catch: the handler does not return after an order
\* that is still in process.
AfterMessageMarks(m) == IF m = "ready" THEN "code" ELSE "mark"

AfterMessage(m) ==
    IF m = "ready" THEN "code"
    ELSE IF m = "processing" THEN "done" ELSE "mark"

\* The handler goes on; when it is done it forgets what it held.
Proceed(o, c, step) ==
    /\ handler' = [handler EXCEPT ![o][c] = step]
    /\ held' = [held EXCEPT ![o][c] = IF step = "done" THEN "none" ELSE @]

Answer(o, c) ==
    LET m == IF handler[o][c] = "first" THEN First(held[o][c]) ELSE "code" IN
    /\ handler[o][c] \in {"first", "code"}
    /\ \/ Sent(o, m) /\ Proceed(o, c, AfterMessage(m))
       \/ Failed(o, m) /\ Proceed(o, c, "done")
    /\ UNCHANGED <<database, loop>>

HandlerMarks(o, c) ==
    /\ handler[o][c] = "mark"
    /\ MarkNotified(o)
    /\ Proceed(o, c, "done")
    /\ UNCHANGED <<status, loop, told>>

-----------------------------------------------------------------------------
(* The reconciler's loop.                                                  *)

\* The places in updated of the finished orders nobody was told of.
Pending ==
    {i \in DOMAIN updated : status[updated[i]] \in Final /\ updated[i] \notin notified}

\* p lists the first n of these places, Limit of them or all there are.
Oldest(n, p) ==
    /\ \A i, j \in 1..n : i < j => p[i] < p[j]
    /\ \A k \in Pending : (\E i \in 1..n : p[i] = k) \/ (n = Limit /\ p[n] < k)

\* The statuses and codes of the batch are read here and sent later.
ListNotifications ==
    /\ at = "list"
    /\ \E n \in 1..Limit : \E p \in [1..n -> Pending] :
          /\ Oldest(n, p)
          /\ batch' = [i \in 1..n |->
                          [order |-> updated[p[i]], status |-> status[updated[p[i]]]]]
    /\ at' = "first"
    /\ UNCHANGED <<database, clicks, told>>

NextNotice ==
    /\ batch' = Tail(batch)
    /\ at' = IF Len(batch) = 1 THEN "list" ELSE "first"

LoopMessage == IF at = "first" THEN First(Head(batch).status) ELSE "code"

Notify(o) ==
    /\ at \in {"first", "code"}
    /\ Head(batch).order = o
    /\ Sent(o, LoopMessage)
    /\ at' = AfterMessage(LoopMessage)
    /\ UNCHANGED <<database, clicks, batch>>

\* Bugs the checks must catch: a failure ends the cycle, or goes unnoticed.
NotifyFailsCycle(o) ==
    /\ at \in {"first", "code"}
    /\ Head(batch).order = o
    /\ Failed(o, LoopMessage)
    /\ batch' = <<>> /\ at' = "list"
    /\ UNCHANGED <<database, clicks>>

NotifyFailsUnnoticed(o) ==
    /\ at \in {"first", "code"}
    /\ Head(batch).order = o
    /\ Failed(o, LoopMessage)
    /\ at' = "mark"
    /\ UNCHANGED <<database, clicks, batch>>

\* This notification is given up until the next cycle, the others are not.
NotifyFails(o) ==
    /\ at \in {"first", "code"}
    /\ Head(batch).order = o
    /\ Failed(o, LoopMessage)
    /\ NextNotice
    /\ UNCHANGED <<database, clicks>>

LoopMarks(o) ==
    /\ at = "mark"
    /\ Head(batch).order = o
    /\ MarkNotified(o)
    /\ NextNotice
    /\ UNCHANGED <<status, clicks, told>>

\* A restart ends every handler and the loop's cycle.
Restart ==
    /\ MayFail
    /\ handler' = [o \in Order |->
                      [c \in Click |-> IF handler[o][c] = "none" THEN "none" ELSE "done"]]
    /\ held' = [o \in Order |-> [c \in Click |-> "none"]]
    /\ batch' = <<>>
    /\ at' = "list"
    /\ UNCHANGED <<database, told>>

Next ==
    \/ \E o \in Order :
          \/ \E c \in Click :
                \/ Buy(o, c) \/ ClickAgain(o, c)
                \/ PurchaseReturns(o, c) \/ Answer(o, c) \/ HandlerMarks(o, c)
          \/ Finish(o) \/ RefundDelivered(o)
          \/ Notify(o) \/ NotifyFails(o) \/ LoopMarks(o)
    \/ ListNotifications
    \/ Restart

Spec == Init /\ [][Next]_vars

\* The loop survives every exception and starts a cycle after each interval;
\* restarts and failures do not strike every time.
Fairness ==
    /\ WF_vars(ListNotifications)
    /\ \A o \in Order :
          /\ SF_vars(Notify(o) /\ at = "first")
          /\ SF_vars(Notify(o) /\ at = "code")
          /\ SF_vars(NotifyFails(o) /\ o \in Unreachable)
          /\ SF_vars(LoopMarks(o))

FairSpec == Spec /\ Fairness

-----------------------------------------------------------------------------
(* Properties.                                                             *)

\* The customer knows how the order ended.
Knows(o) == "code" \in told[o] \/ "returned" \in told[o]

\* An order counts as notified only when its customer has received the code or
\* the notice of a refund, whatever failed or crashed between the messages.
NotifiedKnows == \A o \in Order : o \in notified => Knows(o)

\* No customer is told of an order what is not true of it and stays true,
\* though news are read long before they are sent: that it was refunded, or that
\* it was delivered (it may have been refunded since).  No code comes unannounced.
NewsIsTrue ==
    \A o \in Order :
        /\ "returned" \in told[o] => status[o] = "refunded"
        /\ "ready" \in told[o] => status[o] \in Final
        /\ "code" \in told[o] => "ready" \in told[o]

\* A customer who can be reached is told of a finished order in the end, though
\* other customers, fewer than Limit, never can be.
FinishedIsTold ==
    \A o \in Order \ Unreachable : status[o] \in Final ~> Knows(o)

-----------------------------------------------------------------------------
(* The inductive invariant behind the safety properties.                   *)

\* What a status that was read says of the order is true, and stays true.
StillTrue(o, s) ==
    /\ s = "refunded" => status[o] = "refunded"
    /\ s = "delivered" => status[o] \in Final

\* Each row stands in updated, once.
RowsInv ==
    /\ \A o \in Order : status[o] # "none" => \E i \in DOMAIN updated : updated[i] = o
    /\ \A i, j \in DOMAIN updated : updated[i] = updated[j] => i = j
    /\ \A i \in DOMAIN updated : status[updated[i]] # "none"

\* A handler brings true news, and marks the order after the last of them.
HandlerInv(o, c) ==
    /\ handler[o][c] # "none" => status[o] # "none"
    /\ handler[o][c] \in {"first", "code", "mark"} => StillTrue(o, held[o][c])
    /\ handler[o][c] = "code" => held[o][c] = "delivered" /\ "ready" \in told[o]
    /\ handler[o][c] = "mark" => Knows(o)

\* So does the loop.
LoopInv ==
    /\ at # "list" => batch # <<>>
    /\ \A i \in DOMAIN batch : StillTrue(batch[i].order, batch[i].status)
    /\ at = "code" => Head(batch).status = "delivered" /\ "ready" \in told[Head(batch).order]
    /\ at = "mark" => Knows(Head(batch).order)

IInv ==
    /\ TypeOK
    /\ RowsInv
    /\ \A o \in Order, c \in Click : HandlerInv(o, c)
    /\ LoopInv
    /\ notified \subseteq {o \in Order : status[o] \in Final}
    /\ NotifiedKnows
    /\ NewsIsTrue
=============================================================================
