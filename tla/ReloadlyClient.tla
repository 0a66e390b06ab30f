---------------------------- MODULE ReloadlyClient ----------------------------
(***************************************************************************)
(* The requests of a ReloadlyClient (app/suppliers/reloadly.py) and the    *)
(* access token they share.                                                *)
(*                                                                         *)
(* All coroutines of a process use one client.  A request takes the cached *)
(* token or asks for a new one, awaits its answer, and is repeated once,   *)
(* with a new token, after a 401.  Other requests run at every await and   *)
(* replace or clear the cached token.  Tokens are numbered as the provider *)
(* issues them, and it may cease to honour any of them at any time.        *)
(***************************************************************************)
EXTENDS Integers, FiniteSets

CONSTANTS
    Request,  \* calls of _request
    Order     \* those with order_request=True, each with its own identifier

ASSUME RequestAssumption == IsFiniteSet(Request) /\ Order \subseteq Request

VARIABLES
    cached,   \* _access_token, 0 for None
    lapsed,   \* _token_valid_until has passed
    issued,   \* tokens the provider has issued
    dead,     \* tokens it does not honour any more
    taken,    \* how often it took each order
    transit,  \* orders that may still reach it, though nobody waits for them
    pc,       \* the next step of each request
    attempt,  \* the index of its attempt
    token,    \* the token it uses
    began,    \* how many tokens had been issued when it began
    outcome   \* how it ended

client   == <<cached, lapsed>>
provider == <<issued, dead, taken, transit>>
calls    == <<pc, attempt, token, began, outcome>>
vars     == <<client, provider, calls>>

\* "unauthorized" is a second 401, "refused" any other status that tells that
\* the order was not taken, "noToken" a failure to authenticate.
Refusal == {"refused", "unauthorized", "noToken"}
Outcome == {"answered", "ambiguous", "unavailable", "aborted"} \cup Refusal

TypeOK ==
    /\ cached \in Nat
    /\ lapsed \in BOOLEAN
    /\ issued \in Nat
    /\ dead \subseteq 1..issued
    /\ taken \in [Order -> Nat]
    /\ transit \subseteq Order
    /\ pc \in [Request -> {"idle", "token", "auth", "issued", "send", "done"}]
    /\ attempt \in [Request -> {0, 1}]
    /\ token \in [Request -> Nat]
    /\ began \in [Request -> Nat]
    /\ outcome \in [Request -> Outcome \cup {"none"}]

Init ==
    /\ cached = 0
    /\ lapsed = TRUE
    /\ issued = 0
    /\ dead = {}
    /\ taken = [r \in Order |-> 0]
    /\ transit = {}
    /\ pc = [r \in Request |-> "idle"]
    /\ attempt = [r \in Request |-> 0]
    /\ token = [r \in Request |-> 0]
    /\ began = [r \in Request |-> 0]
    /\ outcome = [r \in Request |-> "none"]

-----------------------------------------------------------------------------
(* _token.                                                                 *)

Begin(r) ==
    /\ pc[r] = "idle"
    /\ pc' = [pc EXCEPT ![r] = "token"]
    /\ began' = [began EXCEPT ![r] = issued]
    /\ UNCHANGED <<client, provider, attempt, token, outcome>>

\* A bug the checks must catch: the repetition is content with a cached token.
UsesCacheUnforced(r) == cached # 0 /\ ~lapsed

UsesCache(r) == attempt[r] = 0 /\ cached # 0 /\ ~lapsed

TakeCached(r) ==
    /\ pc[r] = "token"
    /\ UsesCache(r)
    /\ token' = [token EXCEPT ![r] = cached]
    /\ pc' = [pc EXCEPT ![r] = "send"]
    /\ UNCHANGED <<client, provider, attempt, began, outcome>>

Authenticate(r) ==
    /\ pc[r] = "token"
    /\ ~UsesCache(r)
    /\ pc' = [pc EXCEPT ![r] = "auth"]
    /\ UNCHANGED <<client, provider, attempt, token, began, outcome>>

IssueToken(r) ==
    /\ pc[r] = "auth"
    /\ issued' = issued + 1
    /\ token' = [token EXCEPT ![r] = issued + 1]
    /\ pc' = [pc EXCEPT ![r] = "issued"]
    /\ UNCHANGED <<client, dead, taken, transit, attempt, began, outcome>>

\* Its life counts from before the await, and may be over.  Answers may arrive
\* in another order than the tokens were issued in: the last one is cached.
StoreToken(r) ==
    /\ pc[r] = "issued"
    /\ cached' = token[r]
    /\ lapsed' \in BOOLEAN
    /\ pc' = [pc EXCEPT ![r] = "send"]
    /\ UNCHANGED <<provider, attempt, token, began, outcome>>

-----------------------------------------------------------------------------
(* _request, and order.                                                    *)

Finish(r, o) ==
    /\ pc' = [pc EXCEPT ![r] = "done"]
    /\ outcome' = [outcome EXCEPT ![r] = o]
    /\ UNCHANGED <<attempt, token, began>>

\* No answer, an unusable one, or no token: SupplierUnavailableError to a query.
Fails(r, o) == Finish(r, IF r \in Order THEN o ELSE "unavailable")

\* Unreachable, refused or unreadable: nothing has been sent yet.
NoToken(r) ==
    /\ pc[r] \in {"auth", "issued"}
    /\ Fails(r, "noToken")
    /\ UNCHANGED <<client, provider>>

\* A query changes nothing at the provider.
Take(r) == taken' = IF r \in Order THEN [taken EXCEPT ![r] = @ + 1] ELSE taken

Honoured(r) == token[r] \notin dead

Answered(r) ==
    /\ pc[r] = "send" /\ Honoured(r)
    /\ Take(r)
    /\ Finish(r, "answered")
    /\ UNCHANGED <<client, issued, dead, transit>>

\* Taken, but the body is no JSON or lacks what identifies the transaction.
Garbled(r) ==
    /\ pc[r] = "send" /\ Honoured(r)
    /\ Take(r)
    /\ Fails(r, "ambiguous")
    /\ UNCHANGED <<client, issued, dead, transit>>

\* A status that is neither 401 nor one of those an order may be behind.
Refused(r) ==
    /\ pc[r] = "send"
    /\ Fails(r, "refused")
    /\ UNCHANGED <<client, provider>>

\* Whether the order has been taken, is on its way or is lost.
Uncertain(r) ==
    \/ Honoured(r) /\ Take(r) /\ UNCHANGED transit
    \/ transit' = transit \cup ({r} \cap Order) /\ UNCHANGED taken
    \/ UNCHANGED <<taken, transit>>

\* A bug the checks must catch: an unclear status counts as a rejection.
UnclearRejected(r) ==
    /\ pc[r] = "send"
    /\ Uncertain(r)
    /\ Fails(r, "refused")
    /\ UNCHANGED <<client, issued, dead>>

\* A RequestError, or one of 408, 409, 425, 429, 5xx and "already used".
Unclear(r) ==
    /\ pc[r] = "send"
    /\ Uncertain(r)
    /\ Fails(r, "ambiguous")
    /\ UNCHANGED <<client, issued, dead>>

\* A 401, with a token that is dead or for a reason of the account's.  The token
\* cleared may be a newer one that another request has stored.
Unauthorized(r) ==
    /\ pc[r] = "send"
    /\ attempt[r] = 0
    /\ cached' = 0
    /\ attempt' = [attempt EXCEPT ![r] = 1]
    /\ pc' = [pc EXCEPT ![r] = "token"]
    /\ UNCHANGED <<lapsed, provider, token, began, outcome>>

UnauthorizedAgain(r) ==
    /\ pc[r] = "send"
    /\ attempt[r] = 1
    /\ Fails(r, "unauthorized")
    /\ UNCHANGED <<client, provider>>

-----------------------------------------------------------------------------
(* Time, the provider, and restarts.                                       *)

Lapse ==
    /\ ~lapsed
    /\ lapsed' = TRUE
    /\ UNCHANGED <<cached, provider, calls>>

Expire(n) ==
    /\ dead' = dead \cup {n}
    /\ UNCHANGED <<client, issued, taken, transit, calls>>

Arrive(r) ==
    /\ r \in transit /\ Honoured(r)
    /\ Take(r)
    /\ transit' = transit \ {r}
    /\ UNCHANGED <<client, issued, dead, calls>>

Running == {r \in Request : pc[r] \notin {"idle", "done"}}

\* The process ends, and with it the client; orders sent may arrive.
Restart ==
    /\ Running # {}
    /\ cached' = 0
    /\ pc' = [r \in Request |-> IF r \in Running THEN "done" ELSE pc[r]]
    /\ outcome' = [r \in Request |-> IF r \in Running THEN "aborted" ELSE outcome[r]]
    /\ \E sent \in SUBSET {r \in Running \cap Order : pc[r] = "send"} :
          transit' = transit \cup sent
    /\ UNCHANGED <<lapsed, issued, dead, taken, attempt, token, began>>

RequestStep(r) ==
    \/ Begin(r) \/ TakeCached(r) \/ Authenticate(r) \/ IssueToken(r) \/ StoreToken(r)
    \/ NoToken(r) \/ Answered(r) \/ Garbled(r) \/ Refused(r) \/ Unclear(r)
    \/ Unauthorized(r) \/ UnauthorizedAgain(r)
    \/ Arrive(r)

Next ==
    \/ \E r \in Request : RequestStep(r)
    \/ Lapse
    \/ \E n \in 1..issued : Expire(n)
    \/ Restart

Spec == Init /\ [][Next]_vars

-----------------------------------------------------------------------------
(* Properties.                                                             *)

\* What catalog.py:519-529 makes of how an order ended.
Told(r) ==
    IF outcome[r] = "none" THEN "open"
    ELSE IF outcome[r] = "answered" THEN "answered"
    ELSE IF outcome[r] \in Refusal THEN "refused" ELSE "unclear"

Purchase == INSTANCE OrderRequest WITH told <- [r \in Order |-> Told(r)]

\* Whatever the other requests do to the token, an order is taken once at most,
\* repetition included, and the errors that let the purchase be refunded mean
\* that it was not taken (catalog.py:528-529).
PurchaseSpec == Purchase!Spec

\* A request fails for a stale token never, only for one that was refused though
\* issued after the request had begun: the cache costs no customer his order.
UnauthorizedWasFresh ==
    \A r \in Request : outcome[r] = "unauthorized" => token[r] > began[r]

-----------------------------------------------------------------------------
(* The inductive invariant behind these properties.                        *)

RequestInv(r) ==
    /\ outcome[r] = "none" <=> pc[r] # "done"
    /\ began[r] <= issued
    /\ attempt[r] = 1 /\ pc[r] \in {"issued", "send"} => token[r] > began[r]
    /\ outcome[r] = "unauthorized" => token[r] > began[r]

\* An order that nobody took, or that somebody may still, has not been refused.
OrderInv(r) ==
    /\ Told(r) \in {"open", "refused"} => taken[r] = 0 /\ r \notin transit
    /\ Told(r) = "answered" => r \notin transit
    /\ r \in transit => taken[r] = 0

IInv ==
    /\ TypeOK
    /\ \A r \in Request : RequestInv(r)
    /\ \A r \in Order : OrderInv(r)
=============================================================================
