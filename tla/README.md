# architect-store, specified in TLA+

`architect-store` is a Telegram shop for gift cards. Customers pay by Pix into
a wallet and spend it on products that are delivered from the shop's own stock
or bought, at that moment, from a supplier (Reloadly). The money and the goods
move between three parties that do not share a transaction: the shop's
PostgreSQL database, Mercado Pago, and the supplier. What must never happen —
a code paid twice, a refund next to a delivery, a credit for nothing — depends
on how requests, retries, loops, crashes and administrators interleave. These
modules say what the code does there, TLC checks it on small instances and
TLAPS proves the safety of every module for every instance.

All paths below are relative to `src/`. A *task* is a coroutine of the bot, of
the web application or of one of its loops, or a process of the CLI.

## 1. The system

| component | state it keeps | operations | talks to |
|---|---|---|---|
| supplier purchases (`app/services/catalog.py`) | `orders`, `supplier_orders`, the code, `wallets`, `wallet_entries` | `purchase_product`, `_fulfill_supplier_purchase`, `reconcile_supplier_order`, `_record_transaction`, `_deliver_supplier_code`, `_refund_supplier_order`, `_mark_supplier_review` | Reloadly, the database |
| reconciler (`app/services/supplier_jobs.py`) | none of its own | `run_supplier_reconciler`: reconcile what is open, notify what is finished, sleep | catalog, Telegram |
| purchases from stock (`app/services/catalog.py`) | `stock_items`, `orders`, `wallets`, `wallet_entries` | `purchase_product` in one transaction | the database |
| Pix deposits (`app/services/payments.py`) | `deposits`, `webhook_events`, `wallets`, `wallet_entries` | `create_deposit`, `record_mercado_pago_event`, `process_mercado_pago_event`, `reconcile_snapshot`, `get_user_deposit` | Mercado Pago, the database |
| web application (`app/main.py`) | two background loops | webhook (record, then process), payment retry loop, reconciler loop, health | everything above |
| CLI (`app/cli.py`) | none of its own | `refund-order`, `adjust-balance`, `import-stock`, `set-product-active`, `set-user-blocked`, offers, listings | the database, Reloadly |
| support (`app/services/support.py`, `app/bot/handlers/support.py`, `admin.py`) | `support_tickets`, `support_messages`, the chat's conversation state | open, answer, reply, close | Telegram, the database |
| products and offers (`app/cli.py`) | `products`, `supplier_offers` | `add-reloadly-product`, `seed-mock-products`, `set-product-active`; purchases read and pause them | Reloadly, the database |
| Reloadly client (`app/suppliers/reloadly.py`) | an access token | `order`, `get_transaction`, `find_transaction`, `get_redeem_code` | HTTP |
| Mercado Pago client (`app/payments/mercado_pago.py`) | none | `create_pix`, `get_order` | HTTP |
| users, wallets (`app/services/users.py`, `wallets.py`) | `users`, `wallets` | `get_or_create_user`, `accept_terms`, listings | the database |
| money and margins (`app/money.py`, `app/suppliers/base.py`) | none | parsing and formatting of amounts, the minimum sale price | – |
| bot presentation, security, settings, schema, mocks | none that matters here | texts, encryption, configuration, migrations | – |

What makes it hard:

* **A purchase is not one transaction.** It reserves (commit), validates the
  price with the supplier, orders, records, fetches the code and delivers, with
  an `await` without any lock between each two. The reconciler, a second CLI
  process and the administrator's refund run in all of these gaps, and the
  process may die in each.
* **Answers get lost.** An order whose answer is lost may or may not exist.
* **Snapshots of a payment arrive late, twice and out of order**, from the
  webhook, its retry loop, the "check" button and the creation itself.
* **A notification is answered before it is processed**, may be delivered again
  meanwhile, and is processed by a background task and by the retry loop at once.
* **Requests share one access token**, which any of them may replace or clear
  while the others wait.
* **Products are read, checked and bought in separate steps**, while costs and
  commands change what was read, and each process has settings of its own.
* **Balances are read and written back as absolute values**; only row locks
  keep two writers apart, and two of the lock orders conflict.
* **Messages and the flags that say they were sent are not atomic.**
* **Handlers of one customer in several chats run concurrently.**

What each component must keep, in the words of the properties: the wallet is
the sum of its entries (`LedgerMatchesWallet`, in three modules); the supplier
is asked once (`AtMostOneCall`); a refund is safe (`RejectedHoldsNothing`) and
final (`RefundIsFinal`, `NoCodeAfterRefund`); what is delivered was bought
(`DeliveredIsBought`); nothing paid is forgotten (`OpenOrderIsReconcilable`,
`BoughtIsResolved`, `PaidIsCredited`, `FinishedIsTold`); every transaction ends
(`TransactionsEnd`);
only paid money is credited and taken back once (`CreditedWasPaid`,
`ReversedOnce`, `StatusTellsLedger`); an item and a click are sold once
(`SoldOnce`, `OneOrderPerClick`); nobody overdraws or buys while blocked
(`NoOverdraft`, `BlockedBuysNothing`); transactions do not overlap in effect
(`AtomicSpec`); a notified customer knows, and no news is or becomes untrue
(`NotifiedKnows`, `NewsIsTrue`); tickets keep their cap, their turn and their end; what the
client reports of an order is true (`PurchaseSpec`), and no request fails for a
stale token (`UnauthorizedWasFresh`); a notification is neither lost nor told
twice (`AnsweredIsRecorded`, `ProcessedWasReconciled`, `RecordedIsReconciled`,
`TellsOnce`); cards are ordered of their own supplier, at the margin
(`OrderedAtMargin`), and products leave the shop for a cause (`PauseHasCause`).

`PROJECT.json` lists the hazards behind these properties at the lines where
they bite, and those no property covers yet.

## 2. The modules

    OrderLifecycle,
    OrderFate         <==  SupplierPurchase  <--  SupplierPurchaseProofs
    OrderRequest      <==  ReloadlyClient    <--  ReloadlyClientProofs
    DepositLifecycle  <==  PixDeposits       <--  PixDepositsProofs
    AtomicPurchase    <==  ManualPurchase    <--  ManualPurchaseProofs
                           Webhooks          <--  WebhooksProofs
                           Offers            <--  OffersProofs
    OrderFate         <--  Notices           <--  NoticesProofs
                           Support           <--  SupportProofs

`<==` is implementation (`INSTANCE ... WITH`), `<--` is EXTENDS. Each module
has an `MC` module that gives its sets small values. The operators named
`...Unlocked`, `...Anyway`, `...Unrecorded` and the like, each under a comment
"A bug the checks must catch", are used by nothing: each stands for one
mistake in the definition below it, and the property named in
`PROJECT.json` fails when it takes that definition's place.

### SupplierPurchase

One customer, one product, one wallet. `order`, `so`, `txId`, `code` are the
columns of `orders` and `supplier_orders`; `balance`, `debits`, `refunds` the
wallet and its entries, each entry named by the order in its unique key;
`purchasable` is everything about product, offer and customer that may forbid
a reservation; `ext` is the transaction the supplier holds, `calls` counts
`supplier.order`; `pc`, `on`, `answer` are a task's next step, its order and
the answer it holds across an `await`.

Every database transaction is one action, because each locks what it writes
before it reads it. `_record_transaction` alone reads the order under the lock of
its supplier order only; every other transaction that writes that order writes
the supplier order too, so it waits, or one of the two is aborted as a
deadlock. The actions are `Reserve`
(`purchase_product`), `PauseProduct`, `RecordDivergent` / `RecordMatching`,
`CodeUnavailable`, `Deliver` / `DeliverConflict`, `Refund` / `RefundRepeated` /
`RefundConflict` / `RefundDuplicate`, `MarkReview`, `AdminRefund`. So is every
request: `Validate`, `OrderRejected` / `OrderAmbiguous` / `OrderAnswered`,
`LookupAnswered` / `LookupInconclusive`, `FetchCode`. `Abort` ends a task at any
step: a restart, a cancellation, or a transaction the database aborts.
`SupplierProgress` lets the supplier finish, fail or return a transaction.
`MayDiverge` lets it answer with a transaction that is not the one asked for;
the code treats the case (`_transaction_matches`) and the properties differ.

An answer that is late is not lost: a request whose answer arrives after its
caller gave up is one that arrived and left `OrderAmbiguous` or
`LookupInconclusive` behind, and whatever it changed at the supplier is in `ext`.

An order is named by its idempotency key, so a repeated click is a click whose
order exists: it changes nothing (`_find_repeated`). "PROCESSING" of the
supplier is handled like "PENDING" and stands under its name.

`OrderLifecycle` is what the customer is promised: `none`, `paid`,
`delivered`, `returned`, one purchase at the supplier, one balance. The mapping
joins `processing` and `review`, which are one to him, and forgets tasks,
answers and identifiers. `OrderFate` is less still, the status alone: an open
order is delivered or refunded, a delivered one may be refunded by the
administrator, a refunded one stays so. `Notices` is built on it.

`LateDivergence(t)` is a step that records a divergent answer for an order
already refunded, and `NoLateDivergence` says no step is one.

### PixDeposits

Deposits of one customer. `status`, `linked` are columns of `deposits`;
`balance`, `credits`, `reversals` the wallet and the entries by their unique
keys; `event` the rows of `webhook_events`, one per deposit and status
reported; `pix` the provider's order; `pc`, `on`, `snap`, `note` a task's step,
deposit, snapshot and event. `reconcile_snapshot` is one transaction under the
deposit's lock, in the order of its branches: `Divergent`, `Credit`,
`CreditDuplicate` (the entry's key exists), `Reverse`, `Close`, `Partial`,
`Ignore`. `RecordEvent`, `ProcessEvent`, `Fetch`, `MarkProcessed` are the webhook
and the retry loop, `Check` the customer's button, `CreateDeposit` to
`SaveDeposit` the creation. "closed" stands for expired, canceled and failed.
The provider may skip statuses and may diverge.

`DepositLifecycle` is what the depositor is promised: money the provider
`received` or `returned`, a credit `given` and `withdrawn`, once each, and the
balance that follows. The mapping reads the credit from the entries of the
ledger, not from `deposits.status`, and the money from the provider.

`LateCredit` is a credit after the provider returned the payment, `LosesCredit` a
credited deposit that loses its status to a review; `NoDisorder` says no step is
one of the two.

### Webhooks

What happens to each notification before and after `reconcile_snapshot`. `rows`
is `webhook_events` in the order of insertion, which is that of `created_at`;
`processed` their marks; `co` what each coroutine does next and holds: the
requests with their background tasks, and the retry loop. `Deliver`, `LookUp`,
`Insert` and `Answer` are the webhook up to its HTTP 200, `Process`, `Fetch`,
`Reconcile` or `Raise`, `Mark` and `Tell` what follows, in a background task or
in the loop, which first lists (`List`, the oldest `Limit` events) and takes
(`Take`) its events. The deposit is reduced to what its ledger tells: open,
credited, reversed. `answered` remembers what got its 200, `seen` the latest
snapshot reconciled; nothing reads them but the properties.

`EventId` is `payload.id` or, without one, a digest of the body. `sameBody` holds
the orders whose notifications then look alike: a later one is taken for a
redelivery of the first, and dropped if that one was processed. Nothing but
another notification or the customer's button would bring that snapshot;
`RecordedIsReconciled` speaks of the notifications that have a row.

### ReloadlyClient

The requests of one process and the token they share. `cached` is the token,
`lapsed` whether its expiry has passed by the shop's clock; `began`, `token` and
`attempt` belong to a request, which asks for a token (`TakeCached`,
`Authenticate`, `StoreToken`, `NoToken`), sends, and takes what comes back as
`Answered`, `Garbled`, `Refused`, `Unclear`, `Unauthorized` (the token is cleared
and the request sent once more) or `UnauthorizedAgain`. The provider issues
tokens, forgets them (`Expire`), and takes an order with or without the answer
arriving, now or later (`Uncertain`, `Arrive`). `OrderRequest` is the order as a
purchase sees it: taken at most once, and reported as refused only when it was not
and never will be. That is what `SupplierPurchase` assumes of `OrderRejected`.

### Offers

Products fulfilled by a supplier. A product and its offer are written in one
transaction and are one record: card, price, estimated cost, active. `AddProduct`
asks Reloadly and checks the margin, `SaveProduct` is the transaction, in which
the unique keys decide; `Seed` is `seed-mock-products`, all its products or none.
A purchase reads the product (`ReadProduct`), finds the offer of the supplier
that is configured (`Reserve`), asks for the cost (`Validate`) and pauses the
product when the card is gone or too dear (`Pause`). Meanwhile costs change, and a
`Restart` may switch the supplier and the minimum margin. A process reads its
settings once: the shop when it starts (`config`), each command of the CLI on its
own, so `AddProduct` takes any margin of `Margins` and a command survives a restart
of the shop. Prices are cents; a cost has `Scale` units per cent, so both roundings
are exact: `MinimumCents` of the CLI and `MarginKept` of the purchase. A product's
`margin` is the one it was added under; it is in no table and only properties
read it. `PauseHasCause` names all the causes of a pause: the card was withdrawn,
it became dearer, or the shop was started with a higher margin than the
product's. The code does not check the margin of seeds, so the property is about
Reloadly's products.

### ManualPurchase

One product of constant price, sold from stock to several customers. Here the
transaction itself is split, at every lock it may wait for: `LockUser` (with
the second look for a repeated click), `LockWallet`, `PickStock`
(`SKIP LOCKED`), `Commit`. Which locks a task holds follows from its `pc`. Next to
it run `AdjustBalance`, which locks the user too and then waits for the wallet
(`AdjustWallet`), and `PixPayment` and `RefundOrder`, which lock the wallet first
and then insert an entry that needs a share lock of the user's row. A purchase or
an adjustment that holds the user and waits for the wallet then deadlocks with a
payment or a refund, and `DeadlockAbort` is the database breaking it.
`ImportStock`, `SetBlocked`, `SetActive` are the CLI's, one step each. Balances are written as
absolute values from what was read (`seen`). The unique keys of the tables are
left out on purpose: the locks alone must do.

`AtomicPurchase` is the shop without transactions: each purchase, refund, payment
and adjustment happens at one instant, of what is true then. The mapping is the
identity; what tasks hold is forgotten. Whether the product is still offered is
not part of it, since no lock covers that. `WaitsFor` is the waiting of these
transactions for rows of `users` and `wallets`; other rows (an order, a deposit)
are locked before them and by one task at a time.

### Notices

A supplier-fulfilled order as far as its customer hears of it. The handlers of
his clicks, several at once for an order that exists (`ClickAgain`), read the
order, send what they read and mark it (`Proceed`, `Answer`, `HandlerMarks`); the
loop does so with a batch of its list (`ListNotifications`, `Notify`,
`NotifyFails`, `LoopMarks`). Each holds what it read (`held`, the batch's notices)
while the order goes on. `updated` is the order of `updated_at` by which the loop
takes its first `Limit` orders; a mark that changes nothing does not touch it.
`told` is the set of news that reached the customer, true or not by then. What
becomes of the order itself is `OrderFate`, which `SupplierPurchase` implements.

### Support

Tickets, and the handlers that work on them. Handlers of one chat take turns
(the event isolation of `app/bot/setup.py`), those of a customer's other
chats do not wait. `CountTickets` and `InsertTicket` are one transaction, split
because it holds the user's row in between. `AddUserReply`, `ReplyTicket`,
`CloseTicket` lock ticket and user in one query. `SendReply` comes after the
commit and may fail; `ConfirmReply` is the "Resposta enviada." the
administrator reads. `Abort` may forget the conversation states, which live in
memory without Redis.

### What the models share

Services are specified under every interleaving of their callers: neither
the bot's per-chat event isolation nor the fact that one loop runs per process
is used, except in `Support`, where the conversation state needs the former.
Several replicas and any number of CLI processes are therefore included.
Money is a natural number of one price or one amount; texts, identifiers,
currencies and encryption are left out.

## 3. The runs

| run | instance | shows |
|---|---|---|
| `supplier_purchase` | 2 orders, 2 tasks, price 2, balance 3, diverging answers; 300,914 states | ledger, single call, safe rejection, real delivery, reconcilable orders, and the inductive invariant |
| `supplier_live` | 1 order, 3 tasks, matching answers, `FairSpec`; 21,696 states | no code after a refund, the code implements `OrderLifecycle`, what was bought is resolved |
| `pix_deposits` | 1 deposit, 2 tasks, events of payment and refund, diverging snapshots, `FairSpec`; 52,660 states | true statuses, the code implements `DepositLifecycle`, what is paid is credited, and the inductive invariant |
| `webhooks` | 2 orders, one of them unknown, 2 requests and the loop, a list of 2, 1 failure, `FairSpec`; 289,352 states | no answered notification is lost or marked too early, the customer is told once, what is recorded is reconciled, and the inductive invariant |
| `manual_purchase` | 2 customers with a button each, 2 items, 2 tasks, `FairSpec`; 107,688 states | items and clicks sold once, ledger, blocking, the code implements `AtomicPurchase`, every transaction ends in spite of deadlocks, and the inductive invariant |
| `offers` | 2 slugs, a Reloadly card and one of the mock supplier, margins of 0 and 5%, 2 tasks; 188,892 states | orders at the margin and of the right supplier, pauses with a cause, and the inductive invariant |
| `reloadly_client` | an order and another request; 82,441 states | no failure for a stale token, the client implements `OrderRequest`, and the inductive invariant |
| `notices` | 2 orders with a button each, clicked again and again, 1 customer nobody can reach, a list of 2, `FairSpec`; 33,485 states | a notified customer knows, news is true and stays so, who can be reached is told, and the inductive invariant |
| `support` | 1 customer, 2 chats, 2 tickets, 2 handlers, cap 1, 3 messages; 32,717 states | cap, turn, finality, truthful confirmation, and the inductive invariant |
| `refund_reopened` | as `supplier_live`, diverging answers | expected violation, finding 1 |
| `review_list` | 1 order | expected violation, finding 2 |
| `pix_late_credit` | 1 deposit | expected violation, finding 3 |

An inductive invariant (`IInv`) has the type invariant of its module and, in
most, further safety properties among its conjuncts; a run that checks it does
not name those again unless a mistake of their own is to be shown.

**Bounds.** Every race in this code is between two actors about one row, or
between two rows of one wallet. Two tasks give each pair of steps in each
order, three let a third run between them. With balance 3 and price 2 the
second order is affordable only after a refund of the first, so the wallet
couples them. One deposit with two tasks meets every pair of snapshots; that
several deposits stay apart is proved (`LedgerAgreement`). Two items and two
customers with a button each give the contest for an item, the repeated click
(both tasks take the same button) and the unrelated customer. Payments and
adjustments take one price away (a reversal, a negative adjustment), so a
customer overdraws or becomes poor while he buys; none begins that would leave
`MoveBound`, and two under way may pass it. With both signs the safety
properties and `DeadlocksAreSeen` hold in 900,048 states (balance 0), and with
one customer and three tasks `IInv`, `DeadlocksAreSeen` and `TransactionsEnd`
in 60,128. In `notices` a repeated click reads the order anew after its handler
is done, so one handler an order already meets the loop in every order; with
two at a time the invariants hold in 2,018,063 states. `MaxMessages = 3` allows
a question, a reply and an answer. `calls` needs no bound, it is proved to stay
at 1. In `webhooks` three events compete for two places of the list, one of
them for ever, and the one failure or restart strikes at any step. In `offers`
a card costs 19 or 20 units, two to a cent, at a margin of 5%: the minimum
prices are 10 cents exactly and 10.53, so the prices 10 and 11 lie on either
side of the rounding; without a margin both may be sold for 10 cents, so a
product of 20 units added then is paused at unchanged cost by a shop started at
5%. One Reloadly card is enough for two commands to sell it under two slugs. In
`reloadly_client` two requests suffice for one to clear or replace the token of
the other; each repeats once, which bounds the tokens issued.

**Symmetry** is used only in runs without liveness, for sets whose members no
action, property or constant tells apart (orders, tickets, tasks; not buttons,
which have owners, nor chats).

**Deadlock** is checked except for `PixDeposits`, which comes to rest when
every deposit the bound allows is settled and every event processed, `Notices`,
which comes to rest when everybody is told, and `ReloadlyClient`, when every
request has its outcome. In the other modules a
state where no step is possible would be a defect.

**Fairness**, only where a property needs it:

* `SupplierPurchase`: a running coroutine goes on or dies (WF of its steps);
  `run_supplier_reconciler` catches every exception, of an order and of a
  cycle, and starts again (`supplier_jobs.py:56-69`), so each listed order is
  taken up again and again; and if it is, the supplier's answer, the recording,
  the code, the delivery and the refund do not fail every time (SF). The
  purchase itself has no fairness beyond WF: it may die each time.
* `PixDeposits`: Mercado Pago repeats a webhook until it is answered, the retry
  loop (`main.py:70-83`) takes up each pending event again, requests and the
  crediting transaction do not fail every time, and the provider does not answer
  about something else every time. The list is shorter than its limit of 100.
* `Webhooks`: the loop of `main.py:70-83` lists, takes and processes for ever (WF
  of `List`, `Take` and its own steps). Requests, background tasks and the
  provider's deliveries have no fairness: a task may stop at any step and the
  loop does its work. `RecordedIsReconciled` needs fewer unknown events than
  `Limit`: as many of them hold every place and it fails (TLC, `Limit = 1`), which
  the hazards list.
* `ManualPurchase`: PostgreSQL grants row locks in the order of waiting and
  aborts one transaction of a deadlock, so a task whose step is possible again
  and again takes one (SF).
* `Notices`: the loop runs on; restarts and failing sends do not strike every
  time. Fewer customers than `Limit` are out of reach: with as many, the head
  of the list never moves and `FinishedIsTold` fails (TLC, `Limit = 1`), which the
  hazards list.

## 4. The proofs

Each `...Proofs` module proves, for any sets of orders, deposits, customers,
tasks and so on, any prices and any bounds, that its module's inductive
invariant holds (`Invariance`: `Spec => []IInv`), one lemma per action, one step
per conjunct it can disturb, and from it:

* `SupplierPurchaseProofs`: `TypeCorrect`, `LedgerAgreement`, `BoughtOnce`,
  `RejectedIsSafe`, `DeliveredWasBought`, `OpenIsReconcilable`. For behaviours
  with `NoLateDivergence`: `RefundFinal`, `CodeAfterRefundIsKept`,
  `ImplementsLifecycle` and `ImplementsFate`. They are false without it (finding
  1), and so the proofs show that finding 1 has no second cause: a supplier may
  diverge before a refund, and races may be lost in any way.
  `MatchingIsNeverLate`: with `~MayDiverge` the hypothesis always holds.
  `HiddenReviewsAreReturns`, with `~MayDiverge`: the orders finding 2 hides are
  those the supplier returned after the delivery.
* `PixDepositsProofs`: `TypeCorrect`, `LedgerAgreement`, `OnlyPaidIsCredited`,
  `OneReversal`, `StatusIsTrue`, and `ImplementsLifecycle`, diverging or not.
  `OnlyDisorderLeavesCredit`: when reversals are notified, every behaviour with
  `NoDisorder` keeps `ReturnedLeavesNoCredit`, so the two steps it forbids are all
  the causes of finding 3.
* `WebhooksProofs`: `TypeCorrect`, `AnswersAreDurable`, `MarkedWasReconciled`,
  `CustomersAreToldOnce`.
* `ManualPurchaseProofs`: `TypeCorrect`, `ItemsAreSoldOnce`, `ClicksBuyOnce`,
  `LedgerAgreement`, `BuyersStaySolvent`, `BlockedIsBlocked`, `ImplementsAtomic`
  (`Spec => AtomicSpec`), and `EveryDeadlockIsSeen`: tasks that all wait for one
  another, in a circle of any length, have among them a purchase or an adjustment
  and a payment or a refund that wait for each other. Purchases and adjustments
  alone never deadlock, nor payments and refunds alone, and `DeadlockAbort`, which is
  about such pairs, covers every deadlock of these transactions on the rows of
  users and wallets.
* `OffersProofs`: `TypeCorrect`, `OneName`, `PricesKeepMargin`,
  `OrdersKeepMargin`, `PausesHaveCause`, `ProductsStay`, and `RoundingsAgree`:
  for every price, cost and margin, a command and a purchase that have read the
  same margin accept the same.
* `ReloadlyClientProofs`: `TypeCorrect`, `StaleTokensAreReplaced`,
  `ImplementsOrderRequest`.
* `SupportProofs`: `TypeCorrect`, `CapIsKept`, `TurnIsTold`,
  `ConfirmedReplies`, `ResolvedStays`.
* `NoticesProofs`: `TypeCorrect`, `MarkedIsTold`, `NewsStaysTrue`. They hold of
  orders that go as `OrderFate` says; a late divergence (finding 1) leaves it.

The only assumptions are those the modules state of their constants: sets are
finite where they are counted, prices are naturals, `None` is nothing else.

**Why the properties need strengthening.** `RejectedHoldsNothing` needs to know
that no task can still buy: that only the task that reserved an order ever
calls the supplier for it, that it has not called yet while it is `Buying`, and
that no task refunds an order next to it (`BuyersInv`). `DeliveredIsBought`
needs what a task holds in its hands to be still true of the supplier
(`TasksInv`): `SUCCESSFUL` may have become `REFUNDED`, nothing else. `OrdersInv`
ties debits, refunds, calls and statuses of an order together. For deposits,
`TaskInv` says a snapshot in a task's hands is no more than the provider has
gone through, `OneCreator` that no two tasks create the same deposit, and the
rest that nothing exists of a deposit before it is created. For sales from
stock, `LockInv` derives from the steps that no two tasks hold the same row, and
`TaskInv` that what a task read under its locks is still so when it writes. For
webhooks, `CoInv` says a snapshot is fetched after its row was inserted, so it is
no older, also when the row is another notification's of equal body; `NewsInv`
that each change of a deposit has one bearer. For offers, `TaskInv` says that what
commands checked and purchases read stays true, since price and card of a
product never change. For the client, `RequestInv` relates the age of each token to
the requests that hold it, `OrderInv` an order's copies at the provider to what
was reported of it. For tickets, `OneInserter` is what the lock of the user's row
gives, and `RepliesInv` counts the replies still under way. For notices, `IInv`
says that who is about to mark has sent the last message, and that what waits to
be sent was read of the order and is still true of it: an open order's news says
nothing of the end, and a delivery stays one though it is refunded later.

`OnlyDisorderLeavesCredit` needs an invariant of its own, `ReversalInv`: under
`NoDisorder` a credit that was not taken back shows in the status, a task that
holds the event of a reversal fetches a snapshot that is a reversal or diverges,
and no such event is processed before the credit is gone. TLC agrees on a deposit,
two tasks and every event (1,508,133 states of the steps without disorder). It
agrees as well on `RefundIsFinal` for a diverging supplier without late divergence
(an order, three tasks, 31,112 states), on `ReviewOfDeliveredIsReturn` (21,696) and
on `DeadlocksAreSeen` (900,048 and 60,128, as said of the bounds).

Wallet sums rest on lemmas about cardinalities (`EntryCounts`, `CreditCounts`,
`ReversalCounts`) and one about each sign of arithmetic; `RoundingsAgree` on
`Ceiling`, the only use of division. The implementations follow because each action
either leaves what the client or customer sees unchanged or is one step of the
abstract module.

Model-checked only: every liveness property (`BoughtIsResolved`,
`PaidIsCredited`, `RecordedIsReconciled`, `TransactionsEnd`, `FinishedIsTold`),
since TLAPS does not reach liveness under fairness. Every safety and action
property a passing run checks is proved. Proved and checked by no run of its own are
`NoOverdraft`, which `AtomicSpec` implies, `SeedingKeepsProducts`, and the theorems
above that no property of a run states.

## 5. Findings

1. **A divergent answer reopens a refund** (`catalog.py:376-377`).
   `_record_transaction` puts every order but a delivered one under review, a
   refunded one included. In the trace of `refund_reopened` the purchase has its
   matching answer and the code, but has not stored it; a reconciliation holds a
   divergent answer; `refund-order` refunds; the reconciliation records its answer,
   which opens the order again; and the purchase delivers to a customer who has his
   money back. Without that purchase the next reconciliation could.
2. **The list for manual review leaves out orders under manual review**
   (`cli.py:695`). When the supplier returns a purchase after the delivery,
   the supplier order goes to `review` and the order stays `delivered`;
   `list-review-supplier-orders` shows only open orders (`review_list`).
3. **A refund seen before its payment leaves the credit**
   (`payments.py:264`). A `refunded` snapshot is applied only to a credited
   deposit; one applied earlier changes nothing, its event is processed, and
   an older `accredited` snapshot then credits for good (`pix_late_credit`).

## 6. Not modelled, and why

* Parsing, formatting, encryption, keyboards, settings, migrations: no state.
* Health checks, process start, Telegram's webhook: input and output only.
* Mock providers: refused in production. The mock supplier's products and seeds
  are in `Offers`; its orders are those of any supplier.
* `reloadly-sync`: it fills a cache that the operator browses; nothing is bought
  by it. Categories and stock items of products are outside `Offers`.
* The first messages of one person (`app/services/users.py:15`): the unique key
  picks one insert, the other handler fails; nothing outlives it.
* The expiry clock of deposits: a creation is enabled whenever the code may
  enable it, so the cap on open deposits is not stated.
* `approve_mock_deposit`: development only.
* Notices to staff: they change no state and swallow their failures.

## 7. Plan

Done, most important first: `SupplierPurchase` with `OrderLifecycle`,
`PixDeposits` with `DepositLifecycle`, `ManualPurchase`, `ReloadlyClient` with
`OrderRequest`, `Webhooks`, `Offers`, `Notices`, `Support`, and the proofs of all
eight.

Left:

1. `RowLocks`: the rows each transaction of the system locks, in its order;
   which of them can wait for each other (`catalog.py:359-379` against
   `413-432`, `299-342`), and that nothing but those deadlocks.
2. The cap on open deposits, which needs the clock (`payments.py:83`).
3. The identity of events across orders of equal bodies, and the retry loop with a
   full list.
