------------------------- MODULE ReloadlyClientProofs -------------------------
(***************************************************************************)
(* Proofs about ReloadlyClient, for every finite set of requests: the      *)
(* inductive invariant, that an unauthorised request was not a stale       *)
(* token's fault, and that orders keep the promise of OrderRequest.        *)
(***************************************************************************)
EXTENDS ReloadlyClient, TLAPS

USE RequestAssumption
USE DEF Outcome, Refusal

\* Before the first request nothing was issued, sent or taken.
LEMMA InitInv == Init => IInv
<1> SUFFICES ASSUME Init PROVE IInv
    OBVIOUS
<1>1. TypeOK
    BY DEF Init, TypeOK
<1>2. \A r \in Request : RequestInv(r)
    BY DEF Init, RequestInv
<1>3. \A r \in Order : OrderInv(r)
    BY DEF Init, OrderInv, Told
<1> QED
    BY <1>1, <1>2, <1>3 DEF IInv

-----------------------------------------------------------------------------
(* Every step of a request keeps the invariant.                            *)

\* A request begins with the tokens issued so far.
LEMMA BeginInv ==
    ASSUME IInv, NEW r \in Request, Begin(r)
    PROVE  IInv'
<1> USE DEF Begin, client, provider, calls
<1>1. TypeOK'
    BY DEF IInv, TypeOK
<1>2. \A q \in Request : RequestInv(q)'
    BY DEF IInv, TypeOK, RequestInv
<1>3. \A q \in Order : OrderInv(q)'
    BY DEF IInv, TypeOK, RequestInv, OrderInv, Told
<1> QED
    BY <1>1, <1>2, <1>3 DEF IInv

\* Only a first attempt takes the cached token.
LEMMA TakeCachedInv ==
    ASSUME IInv, NEW r \in Request, TakeCached(r)
    PROVE  IInv'
<1> USE DEF TakeCached, UsesCache, client, provider, calls
<1>1. TypeOK'
    BY DEF IInv, TypeOK
<1>2. \A q \in Request : RequestInv(q)'
    BY DEF IInv, TypeOK, RequestInv
<1>3. \A q \in Order : OrderInv(q)'
    BY DEF IInv, TypeOK, RequestInv, OrderInv, Told
<1> QED
    BY <1>1, <1>2, <1>3 DEF IInv

\* Asking for a token changes nothing else.
LEMMA AuthenticateInv ==
    ASSUME IInv, NEW r \in Request, Authenticate(r)
    PROVE  IInv'
<1> USE DEF Authenticate, UsesCache, client, provider, calls
<1>1. TypeOK'
    BY DEF IInv, TypeOK
<1>2. \A q \in Request : RequestInv(q)'
    BY DEF IInv, TypeOK, RequestInv
<1>3. \A q \in Order : OrderInv(q)'
    BY DEF IInv, TypeOK, RequestInv, OrderInv, Told
<1> QED
    BY <1>1, <1>2, <1>3 DEF IInv

\* A new token is newer than every request that is running.
LEMMA IssueTokenInv ==
    ASSUME IInv, NEW r \in Request, IssueToken(r)
    PROVE  IInv'
<1> USE DEF IssueToken, client, provider, calls
<1>1. TypeOK'
    BY DEF IInv, TypeOK
<1>2. \A q \in Request : RequestInv(q)'
    BY DEF IInv, TypeOK, RequestInv
<1>3. \A q \in Order : OrderInv(q)'
    BY DEF IInv, TypeOK, RequestInv, OrderInv, Told
<1> QED
    BY <1>1, <1>2, <1>3 DEF IInv

\* Storing a token, in whatever order, keeps the one the request holds.
LEMMA StoreTokenInv ==
    ASSUME IInv, NEW r \in Request, StoreToken(r)
    PROVE  IInv'
<1> USE DEF StoreToken, client, provider, calls
<1>1. TypeOK'
    BY DEF IInv, TypeOK
<1>2. \A q \in Request : RequestInv(q)'
    BY DEF IInv, TypeOK, RequestInv
<1>3. \A q \in Order : OrderInv(q)'
    BY DEF IInv, TypeOK, RequestInv, OrderInv, Told
<1> QED
    BY <1>1, <1>2, <1>3 DEF IInv

\* Without a token nothing was sent.
LEMMA NoTokenInv ==
    ASSUME IInv, NEW r \in Request, NoToken(r)
    PROVE  IInv'
<1> USE DEF NoToken, Fails, Finish, client, provider, calls
<1>1. TypeOK'
    BY DEF IInv, TypeOK
<1>2. \A q \in Request : RequestInv(q)'
    BY DEF IInv, TypeOK, RequestInv
<1>3. \A q \in Order : OrderInv(q)'
    BY DEF IInv, TypeOK, RequestInv, OrderInv, Told
<1> QED
    BY <1>1, <1>2, <1>3 DEF IInv

\* An answered order was taken, now and for the first time.
LEMMA AnsweredInv ==
    ASSUME IInv, NEW r \in Request, Answered(r)
    PROVE  IInv'
<1> USE DEF Answered, Take, Finish, client, provider, calls
<1>1. TypeOK'
    BY DEF IInv, TypeOK
<1>2. \A q \in Request : RequestInv(q)'
    BY DEF IInv, TypeOK, RequestInv
<1>3. \A q \in Order : OrderInv(q)'
    BY DEF IInv, TypeOK, RequestInv, OrderInv, Told
<1> QED
    BY <1>1, <1>2, <1>3 DEF IInv

\* Behind an unusable answer the order was taken for the first time.
LEMMA GarbledInv ==
    ASSUME IInv, NEW r \in Request, Garbled(r)
    PROVE  IInv'
<1> USE DEF Garbled, Take, Fails, Finish, client, provider, calls
<1>1. TypeOK'
    BY DEF IInv, TypeOK
<1>2. \A q \in Request : RequestInv(q)'
    BY DEF IInv, TypeOK, RequestInv
<1>3. \A q \in Order : OrderInv(q)'
    BY DEF IInv, TypeOK, RequestInv, OrderInv, Told
<1> QED
    BY <1>1, <1>2, <1>3 DEF IInv

\* A refused order was not taken and is not on its way.
LEMMA RefusedInv ==
    ASSUME IInv, NEW r \in Request, Refused(r)
    PROVE  IInv'
<1> USE DEF Refused, Fails, Finish, client, provider, calls
<1>1. TypeOK'
    BY DEF IInv, TypeOK
<1>2. \A q \in Request : RequestInv(q)'
    BY DEF IInv, TypeOK, RequestInv
<1>3. \A q \in Order : OrderInv(q)'
    BY DEF IInv, TypeOK, RequestInv, OrderInv, Told
<1> QED
    BY <1>1, <1>2, <1>3 DEF IInv

\* An unclear order was taken, is on its way, or neither.
LEMMA UnclearInv ==
    ASSUME IInv, NEW r \in Request, Unclear(r)
    PROVE  IInv'
<1> USE DEF Unclear, Uncertain, Take, Fails, Finish, client, provider, calls
<1>1. TypeOK'
    BY DEF IInv, TypeOK
<1>2. \A q \in Request : RequestInv(q)'
    BY DEF IInv, TypeOK, RequestInv
<1>3. \A q \in Order : OrderInv(q)'
    BY DEF IInv, TypeOK, RequestInv, OrderInv, Told
<1> QED
    BY <1>1, <1>2, <1>3 DEF IInv

\* A first 401 leaves nothing behind but a cleared cache.
LEMMA UnauthorizedInv ==
    ASSUME IInv, NEW r \in Request, Unauthorized(r)
    PROVE  IInv'
<1> USE DEF Unauthorized, client, provider, calls
<1>1. TypeOK'
    BY DEF IInv, TypeOK
<1>2. \A q \in Request : RequestInv(q)'
    BY DEF IInv, TypeOK, RequestInv
<1>3. \A q \in Order : OrderInv(q)'
    BY DEF IInv, TypeOK, RequestInv, OrderInv, Told
<1> QED
    BY <1>1, <1>2, <1>3 DEF IInv

\* A second 401 was a new token's.
LEMMA UnauthorizedAgainInv ==
    ASSUME IInv, NEW r \in Request, UnauthorizedAgain(r)
    PROVE  IInv'
<1> USE DEF UnauthorizedAgain, Fails, Finish, client, provider, calls
<1>1. TypeOK'
    BY DEF IInv, TypeOK
<1>2. \A q \in Request : RequestInv(q)'
    BY DEF IInv, TypeOK, RequestInv
<1>3. \A q \in Order : OrderInv(q)'
    BY DEF IInv, TypeOK, RequestInv, OrderInv, Told
<1> QED
    BY <1>1, <1>2, <1>3 DEF IInv

\* What arrives late was not taken before.
LEMMA ArriveInv ==
    ASSUME IInv, NEW r \in Request, Arrive(r)
    PROVE  IInv'
<1> USE DEF Arrive, Take, client, provider, calls
<1>1. TypeOK'
    BY DEF IInv, TypeOK
<1>2. \A q \in Request : RequestInv(q)'
    BY DEF IInv, TypeOK, RequestInv
<1>3. \A q \in Order : OrderInv(q)'
    BY DEF IInv, TypeOK, RequestInv, OrderInv, Told
<1> QED
    BY <1>1, <1>2, <1>3 DEF IInv

-----------------------------------------------------------------------------
(* So does everything else.                                                *)

\* Time passes for the client and for the provider.
LEMMA TimeInv ==
    ASSUME IInv, Lapse \/ \E n \in 1..issued : Expire(n)
    PROVE  IInv'
<1> USE DEF Lapse, Expire, client, provider, calls
<1>1. TypeOK'
    BY DEF IInv, TypeOK
<1>2. /\ \A q \in Request : RequestInv(q)'
      /\ \A q \in Order : OrderInv(q)'
    BY DEF IInv, RequestInv, OrderInv, Told
<1> QED
    BY <1>1, <1>2 DEF IInv

\* Orders the process was sending when it ended are unclear.
LEMMA RestartInv ==
    ASSUME IInv, Restart
    PROVE  IInv'
<1> USE DEF Restart, Running
<1>1. TypeOK'
    BY DEF IInv, TypeOK
<1>2. \A q \in Request : RequestInv(q)'
    BY DEF IInv, TypeOK, RequestInv
<1>3. \A q \in Order : OrderInv(q)'
    BY DEF IInv, TypeOK, RequestInv, OrderInv, Told
<1> QED
    BY <1>1, <1>2, <1>3 DEF IInv

\* Every step keeps the invariant.
LEMMA NextInv == IInv /\ [Next]_vars => IInv'
<1> SUFFICES ASSUME IInv, [Next]_vars PROVE IInv'
    OBVIOUS
<1>1. ASSUME NEW r \in Request, RequestStep(r) PROVE IInv'
    BY <1>1, BeginInv, TakeCachedInv, AuthenticateInv, IssueTokenInv, StoreTokenInv,
       NoTokenInv, AnsweredInv, GarbledInv, RefusedInv, UnclearInv, UnauthorizedInv,
       UnauthorizedAgainInv, ArriveInv
    DEF RequestStep
<1>2. CASE Lapse \/ \E n \in 1..issued : Expire(n)
    BY <1>2, TimeInv
<1>3. CASE Restart
    BY <1>3, RestartInv
<1>4. CASE UNCHANGED vars
    BY <1>4 DEF vars, client, provider, calls, IInv, TypeOK, RequestInv, OrderInv, Told
<1> QED
    BY <1>1, <1>2, <1>3, <1>4 DEF Next

\* The invariant holds in every reachable state.
THEOREM Invariance == Spec => []IInv
<1>1. QED
    BY InitInv, NextInv, PTL DEF Spec

\* Every variable keeps its type: a request is repeated once at most.
THEOREM TypeCorrect == Spec => []TypeOK
<1>1. IInv => TypeOK
    BY DEF IInv
<1> QED
    BY Invariance, <1>1, PTL

\* No request fails for a token older than itself, however many share the cache.
THEOREM StaleTokensAreReplaced == Spec => []UnauthorizedWasFresh
<1>1. IInv => UnauthorizedWasFresh
    BY DEF IInv, RequestInv, UnauthorizedWasFresh
<1> QED
    BY Invariance, <1>1, PTL

-----------------------------------------------------------------------------
(* ReloadlyClient implements OrderRequest.                                 *)

\* A step that neither takes nor ends an order is not seen.
LEMMA Unseen ==
    ASSUME taken' = taken, \A q \in Order : Told(q)' = Told(q)
    PROVE  UNCHANGED Purchase!vars
BY DEF Purchase!vars

\* What happens to the only order a step ends or takes.
LEMMA OneOrderChanges ==
    ASSUME IInv, NEW r \in Request, RequestStep(r)
    PROVE  \A q \in Order \ {r} : Told(q)' = Told(q) /\ taken'[q] = taken[q]
<1> USE DEF IInv, TypeOK, Told, client, provider, calls
<1>1. CASE Begin(r) \/ TakeCached(r) \/ Authenticate(r) \/ IssueToken(r) \/ StoreToken(r)
    BY <1>1 DEF Begin, TakeCached, Authenticate, IssueToken, StoreToken
<1>2. CASE NoToken(r) \/ Refused(r) \/ Unauthorized(r) \/ UnauthorizedAgain(r)
    BY <1>2 DEF NoToken, Refused, Unauthorized, UnauthorizedAgain, Fails, Finish
<1>3. CASE Answered(r) \/ Garbled(r)
    BY <1>3 DEF Answered, Garbled, Take, Fails, Finish
<1>4. CASE Unclear(r)
    BY <1>4 DEF Unclear, Uncertain, Take, Fails, Finish
<1>5. CASE Arrive(r)
    BY <1>5 DEF Arrive, Take
<1> QED
    BY <1>1, <1>2, <1>3, <1>4, <1>5 DEF RequestStep

\* When one order's end becomes known, the others' ends stay as they are.
LEMMA OneToldChanges ==
    ASSUME NEW r \in Order, NEW s, Told(r)' = s,
           \A q \in Order \ {r} : Told(q)' = Told(q)
    PROVE  [q \in Order |-> Told(q)'] = [[q \in Order |-> Told(q)] EXCEPT ![r] = s]
<1> DEFINE now == [q \in Order |-> Told(q)]
<1>1. \A q \in Order : Told(q)' = [now EXCEPT ![r] = s][q]
    OBVIOUS
<1> HIDE DEF now
<1>2. [q \in Order |-> Told(q)'] = [q \in Order |-> [now EXCEPT ![r] = s][q]]
    BY <1>1
<1>3. [now EXCEPT ![r] = s] = [q \in Order |-> [now EXCEPT ![r] = s][q]]
    BY DEF now
<1> QED
    BY <1>2, <1>3 DEF now

\* Open orders that become unclear together, some of them taken, are given up.
LEMMA GivenUp ==
    ASSUME NEW lost \in SUBSET Order, NEW late \in SUBSET lost, lost # {},
           \A q \in lost : Told(q) = "open",
           \A q \in late : taken[q] = 0,
           \A q \in Order : Told(q)' = IF q \in lost THEN "unclear" ELSE Told(q),
           taken' = [q \in Order |-> IF q \in late THEN 1 ELSE taken[q]]
    PROVE  Purchase!GiveUp
<1> DEFINE now == [q \in Order |-> Told(q)]
<1>1. [q \in Order |-> Told(q)'] =
         [q \in Order |-> IF q \in lost THEN "unclear" ELSE now[q]]
    OBVIOUS
<1>2. \A q \in lost : now[q] = "open"
    OBVIOUS
<1>3. lost \in (SUBSET Order) \ {{}} /\ late \in SUBSET Order
    OBVIOUS
<1> HIDE DEF now
<1> QED
    BY <1>1, <1>2, <1>3 DEF now, Purchase!GiveUp

\* So is a single one.
LEMMA OneGivenUp ==
    ASSUME NEW r \in Order, Told(r) = "open", taken[r] = 0, Told(r)' = "unclear",
           \A q \in Order \ {r} : Told(q)' = Told(q),
           taken \in [Order -> Nat],
           NEW late \in {{}, {r}},
           taken' = [q \in Order |-> IF q \in late THEN 1 ELSE taken[q]]
    PROVE  Purchase!GiveUp
<1> DEFINE lost == {r}
<1>1. lost \in SUBSET Order /\ late \in SUBSET lost /\ lost # {}
    OBVIOUS
<1>2. /\ \A q \in lost : Told(q) = "open"
      /\ \A q \in late : taken[q] = 0
      /\ \A q \in Order : Told(q)' = IF q \in lost THEN "unclear" ELSE Told(q)
    OBVIOUS
<1> HIDE DEF lost
<1> QED
    BY <1>1, <1>2, GivenUp

\* A step of a request is one step of the purchase it is an order of, or none.
LEMMA RequestStepRefines ==
    ASSUME IInv, IInv', NEW r \in Request, RequestStep(r)
    PROVE  [Purchase!Next]_(Purchase!vars)
<1> USE DEF IInv, TypeOK, client, provider, calls
<1>1. \A q \in Order \ {r} : Told(q)' = Told(q) /\ taken'[q] = taken[q]
    BY OneOrderChanges
<1>2. CASE r \notin Order
  <2>1. taken' = taken
      BY <1>1, <1>2 DEF RequestStep, Begin, TakeCached, Authenticate, IssueToken,
         StoreToken, NoToken, Answered, Garbled, Refused, Unclear, Uncertain,
         Unauthorized, UnauthorizedAgain, Arrive, Take
  <2> QED
      BY <1>1, <1>2, <2>1, Unseen
<1>3. CASE r \in Order /\ (\/ Begin(r) \/ TakeCached(r) \/ Authenticate(r)
                          \/ IssueToken(r) \/ StoreToken(r) \/ Unauthorized(r))
  <2>1. taken' = taken /\ Told(r)' = Told(r)
      BY <1>3 DEF Begin, TakeCached, Authenticate, IssueToken, StoreToken,
         Unauthorized, Told
  <2> QED
      BY <1>1, <2>1, Unseen
<1>4. CASE r \in Order /\ (NoToken(r) \/ Refused(r) \/ UnauthorizedAgain(r))
  <2>1. taken' = taken /\ Told(r) = "open" /\ Told(r)' = "refused" /\ taken[r] = 0
      BY <1>4 DEF NoToken, Refused, UnauthorizedAgain, Fails, Finish, Told,
         RequestInv, OrderInv
  <2>2. Purchase!Refuse(r)
      BY <1>1, <1>4, <2>1, OneToldChanges DEF Purchase!Refuse
  <2> QED
      BY <1>4, <2>2 DEF Purchase!Next
<1>5. CASE r \in Order /\ Answered(r)
  <2>1. Told(r) = "open" /\ Told(r)' = "answered" /\ taken[r] = 0
      BY <1>5 DEF Answered, Finish, Told, RequestInv, OrderInv
  <2> taken' = [taken EXCEPT ![r] = 1]
      BY <1>5, <2>1 DEF Answered, Take
  <2>2. Purchase!Answer(r)
      BY <1>1, <1>5, <2>1, OneToldChanges DEF Purchase!Answer
  <2> QED
      BY <1>5, <2>2 DEF Purchase!Next
<1>6. CASE r \in Order /\ (Garbled(r) \/ Unclear(r))
  <2>1. /\ taken' = taken \/ taken' = [taken EXCEPT ![r] = 1]
        /\ taken[r] = 0
        /\ Told(r) = "open" /\ Told(r)' = "unclear"
      BY <1>6 DEF Garbled, Unclear, Uncertain, Take, Fails, Finish, Told,
         RequestInv, OrderInv
  <2>2. CASE taken' = taken
    <3> DEFINE late == {}
    <3>1. taken' = [q \in Order |-> IF q \in late THEN 1 ELSE taken[q]]
        BY <2>2
    <3>2. late \in {{}, {r}}
        OBVIOUS
    <3> HIDE DEF late
    <3>3. Purchase!GiveUp
        BY <1>1, <1>6, <2>1, <3>1, <3>2, OneGivenUp
    <3> QED
        BY <3>3 DEF Purchase!Next
  <2>3. CASE taken' = [taken EXCEPT ![r] = 1]
    <3> DEFINE late == {r}
    <3>1. taken' = [q \in Order |-> IF q \in late THEN 1 ELSE taken[q]]
        BY <2>3
    <3>2. late \in {{}, {r}}
        OBVIOUS
    <3> HIDE DEF late
    <3>3. Purchase!GiveUp
        BY <1>1, <1>6, <2>1, <3>1, <3>2, OneGivenUp
    <3> QED
        BY <3>3 DEF Purchase!Next
  <2> QED
      BY <2>1, <2>2, <2>3
<1>7. CASE r \in Order /\ Arrive(r)
  <2>1. Told(r) = "unclear" /\ Told(r)' = Told(r) /\ taken[r] = 0
      BY <1>7 DEF Arrive, Told, RequestInv, OrderInv
  <2> taken' = [taken EXCEPT ![r] = 1]
      BY <1>7, <2>1 DEF Arrive, Take
  <2>2. Purchase!Take(r)
      BY <1>1, <1>7, <2>1 DEF Purchase!Take
  <2> QED
      BY <1>7, <2>2 DEF Purchase!Next
<1> QED
    BY <1>2, <1>3, <1>4, <1>5, <1>6, <1>7 DEF RequestStep

\* A restart gives up the orders that are running.
LEMMA RestartRefines ==
    ASSUME IInv, Restart
    PROVE  [Purchase!Next]_(Purchase!vars)
<1> DEFINE lost == Running \cap Order
<1> USE DEF IInv, TypeOK
<1>1. taken' = taken
    BY DEF Restart
<1>2. \A q \in Order : Told(q)' = IF q \in lost THEN "unclear" ELSE Told(q)
    BY DEF Restart, Running, Told
<1>3. CASE lost = {}
    BY <1>1, <1>2, <1>3, Unseen
<1>4. CASE lost # {}
  <2>1. \A q \in lost : Told(q) = "open"
      BY DEF Running, Told, RequestInv
  <2> DEFINE late == {}
  <2>2. /\ taken' = [q \in Order |-> IF q \in late THEN 1 ELSE taken[q]]
        /\ \A q \in late : taken[q] = 0
      BY <1>1
  <2>3. lost \in SUBSET Order /\ late \in SUBSET lost
      OBVIOUS
  <2> HIDE DEF lost, late
  <2>4. Purchase!GiveUp
      BY <1>2, <1>4, <2>1, <2>2, <2>3, GivenUp
  <2> QED
      BY <2>4 DEF Purchase!Next
<1> QED
    BY <1>3, <1>4

\* Every behaviour of the client, whatever its requests do to each other's token,
\* keeps what a purchase is promised: taken once at most, refunded only if never.
THEOREM ImplementsOrderRequest == Spec => PurchaseSpec
<1>1. Init => Purchase!Init
    BY DEF Init, Told, Purchase!Init
<1>2. ASSUME IInv, IInv', [Next]_vars
      PROVE  [Purchase!Next]_(Purchase!vars)
  <2>1. ASSUME NEW r \in Request, RequestStep(r)
        PROVE  [Purchase!Next]_(Purchase!vars)
      BY <1>2, <2>1, RequestStepRefines
  <2>2. CASE Restart
      BY <1>2, <2>2, RestartRefines
  <2>3. CASE UNCHANGED <<taken, outcome>>
      BY <2>3, Unseen DEF Told
  <2> QED
      BY <1>2, <2>1, <2>2, <2>3 DEF Next, vars, Lapse, Expire, client, provider, calls
<1> QED
    BY <1>1, <1>2, NextInv, Invariance, PTL DEF Spec, PurchaseSpec, Purchase!Spec
=============================================================================
